--------------------------- MODULE BundlesProofs ---------------------------
(***************************************************************************)
(* Proofs about Bundles, for any packages, roles, entitlements, people and *)
(* number of requests under way: the type invariant, and that nothing of   *)
(* high risk is given without a workflow; with one handler at a time, for  *)
(* any number of edits and faults (MCBundles!PacedSpec), that an           *)
(* entitlement has one role and that packages keep items and their rows.   *)
(*                                                                         *)
(* The check is made once, before the first of a batch's assignments; the  *)
(* bundle and its terms may be edited before the last.  The batch carries  *)
(* the items and the terms that were checked (Cleared), never the bundle's *)
(* present ones.                                                           *)
(***************************************************************************)
EXTENDS MCBundles, FiniteSetTheorems, TLAPS

\* What is left of a batch was checked on the terms it is given on.
Cleared(todo, asks) == \A x \in todo : x[1] \in HighRisk => asks = "workflow"

\* What request o has been told and has read.
Sound(o, n) ==
    /\ o.kind \in {"idle", "save", "remove", "delete", "give"}
    /\ o.kind = "save" => o.bundle \in Roles /\ o.row \in Bundle
    /\ o.kind \in {"remove", "delete"} => o.bundle \in Bundles
    /\ o.kind = "give" => /\ o.bundle \in Bundles /\ o.todo \subseteq Items \X Users /\ Cleared(o.todo, o.asks)
                          /\ o.unlinked \in 0..n

RoutingInv ==
    /\ bundle \in [Bundles -> Bundle \cup {Absent}] /\ rows \in Seq(Row)
    /\ DOMAIN op = Admins /\ \A q \in Admins : Sound(op[q], Len(rows))
    /\ HighRiskRouted

LEMMA InvImpliesType == RoutingInv => TypeOK
BY DEF RoutingInv, TypeOK, Sound

\* A step in which request q, if any, becomes o.
LEMMA Moves ==
    ASSUME RoutingInv, bundle' \in [Bundles -> Bundle \cup {Absent}], rows' \in Seq(Row),
           Len(rows) <= Len(rows'), HighRiskRouted',
           NEW q \in Admins, NEW o, Sound(o, Len(rows')), op' = op \/ op' = [op EXCEPT ![q] = o]
    PROVE  RoutingInv'
<1>1. DOMAIN op' = Admins
    BY DEF RoutingInv
<1>2. ASSUME NEW w \in Admins PROVE Sound(op'[w], Len(rows'))
    <2>1. Sound(op[w], Len(rows)) /\ Len(rows) \in Nat /\ Len(rows') \in Nat
        BY DEF RoutingInv
    <2>2. Sound(op[w], Len(rows'))
        BY <2>1 DEF Sound
    <2>3. op'[w] = o \/ op'[w] = op[w]
        BY DEF RoutingInv
    <2>. QED
        BY <2>2, <2>3
<1>. QED
    BY <1>1, <1>2 DEF RoutingInv

LEMMA IdleSound == \A n : Sound(Idle, n)
BY DEF Idle, Sound

\* A step that leaves the rows alone.
LEMMA RowsStay ==
    ASSUME RoutingInv, bundle' \in [Bundles -> Bundle \cup {Absent}], rows' = rows,
           NEW q \in Admins, NEW o, Sound(o, Len(rows)), op' = op \/ op' = [op EXCEPT ![q] = o]
    PROVE  RoutingInv'
<1>1. rows' \in Seq(Row) /\ Len(rows) <= Len(rows') /\ HighRiskRouted' /\ Sound(o, Len(rows'))
    BY DEF RoutingInv, HighRiskRouted
<1>. QED
    BY <1>1, Moves

-----------------------------------------------------------------------------
\* A bundle whose items, owners and revision are replaced is a bundle.
LEMMA Replaced ==
    ASSUME NEW b \in Bundle, NEW items \in SUBSET Items, NEW owners \in SUBSET Users
    PROVE  [b EXCEPT !.items = items, !.owners = owners, !.rev = @ + 1] \in Bundle
<1>1. b.rev + 1 \in Nat
    BY DEF Bundle
<1>. QED
    BY <1>1 DEF Bundle

\* Every catalogue request keeps the shape of its bundle.
LEMMA CatalogueTyped ==
    ASSUME RoutingInv, CreatePackage \/ UpdatePackage \/ SetPackageEligibility
    PROVE  bundle' \in [Bundles -> Bundle \cup {Absent}]
<1>. DEFINE T == Bundle \cup {Absent}
<1>0. bundle \in [Bundles -> T] /\ Packages \subseteq Bundles
    BY DEF RoutingInv, Bundles
<1>1. CASE CreatePackage
    <2>1. PICK p \in Packages, items \in ItemLists, owners \in SUBSET Users, eligible \in SUBSET Users, asks \in Terms :
            bundle' = [bundle EXCEPT ![p] = [status |-> "ACTIVE", items |-> items, owners |-> owners, rev |-> 0,
                                             eligible |-> eligible, asks |-> asks]]
        BY <1>1 DEF CreatePackage
    <2>2. [status |-> "ACTIVE", items |-> items, owners |-> owners, rev |-> 0, eligible |-> eligible, asks |-> asks] \in Bundle
        BY BundlesAssumption DEF Bundle, Status, ItemLists
    <2>. QED
        BY <1>0, <2>1, <2>2
<1>2. CASE UpdatePackage
    <2>1. PICK p \in Packages, items \in ItemLists, owners \in SUBSET Users :
            /\ Exists(p)
            /\ bundle' = [bundle EXCEPT ![p].items = items, ![p].owners = owners, ![p].rev = @ + 1]
        BY <1>2 DEF UpdatePackage
    <2>2. bundle[p] \in Bundle
        BY <1>0, <2>1 DEF Exists
    <2>3. [bundle[p] EXCEPT !.items = items, !.owners = owners, !.rev = @ + 1] \in Bundle
        BY <2>2, Replaced DEF ItemLists
    <2>. QED
        BY <1>0, <2>1, <2>2, <2>3
<1>3. CASE SetPackageEligibility
    <2>1. PICK p \in Packages, eligible \in SUBSET Users, asks \in Terms :
            Exists(p) /\ bundle' = [bundle EXCEPT ![p].eligible = eligible, ![p].asks = asks]
        BY <1>3 DEF SetPackageEligibility
    <2>2. bundle[p] \in Bundle
        BY <1>0, <2>1 DEF Exists
    <2>3. [bundle[p] EXCEPT !.eligible = eligible, !.asks = asks] \in Bundle
        BY <2>2, BundlesAssumption DEF Bundle
    <2>. QED
        BY <1>0, <2>1, <2>3
<1>. QED
    BY <1>1, <1>2, <1>3

LEMMA RoleAsked ==
    ASSUME RoutingInv, NEW q \in Admins, CreateBusinessRole(q) \/ UpdateBusinessRole(q)
    PROVE  RoutingInv'
<1>1. CASE CreateBusinessRole(q)
    <2>1. PICK r \in Roles, items \in SUBSET Items, owners \in SUBSET Users :
            op' = [op EXCEPT ![q] = Saving(r, [status |-> "DRAFT", items |-> items, owners |-> owners, rev |-> 0,
                                               eligible |-> {}, asks |-> "nobody"], TRUE)]
        BY <1>1 DEF CreateBusinessRole, Begin
    <2>. DEFINE row == [status |-> "DRAFT", items |-> items, owners |-> owners, rev |-> 0, eligible |-> {}, asks |-> "nobody"]
    <2>2. row \in Bundle
        BY DEF Bundle, Status
    <2>3. Sound(Saving(r, row, TRUE), Len(rows))
        BY <2>2 DEF Sound, Saving
    <2>. QED
        BY <1>1, <2>1, <2>3, RowsStay DEF CreateBusinessRole, RoutingInv
<1>2. CASE UpdateBusinessRole(q)
    <2>1. PICK r \in Roles, s \in Status, items \in SUBSET Items, owners \in SUBSET Users :
            /\ Exists(r)
            /\ op' = [op EXCEPT ![q] = Saving(r, [bundle[r] EXCEPT !.status = s, !.items = items, !.owners = owners,
                                                                  !.rev = @ + 1], FALSE)]
        BY <1>2 DEF UpdateBusinessRole, Begin
    <2>. DEFINE row == [bundle[r] EXCEPT !.status = s, !.items = items, !.owners = owners, !.rev = @ + 1]
    <2>2. row \in Bundle
        <3>1. bundle[r] \in Bundle
            BY <2>1 DEF RoutingInv, Exists, Bundles
        <3>. QED
            BY <3>1, Replaced DEF Bundle
    <2>. HIDE DEF row
    <2>3. Sound(Saving(r, row, FALSE), Len(rows))
        BY <2>2 DEF Sound, Saving
    <2>. QED
        BY <1>2, <2>1, <2>3, RowsStay DEF UpdateBusinessRole, RoutingInv, row
<1>. QED
    BY <1>1, <1>2

LEMMA ItemAsked == ASSUME RoutingInv, NEW q \in Admins, OwnerRemoveItem(q) PROVE RoutingInv'
<1>1. PICK b \in Bundles, i \in Items :
        op' = [op EXCEPT ![q] = [kind |-> "remove", bundle |-> b, item |-> i, rev |-> bundle[b].rev]]
    BY DEF OwnerRemoveItem, Begin
<1>2. Sound([kind |-> "remove", bundle |-> b, item |-> i, rev |-> bundle[b].rev], Len(rows))
    BY DEF Sound
<1>. QED
    BY <1>1, <1>2, RowsStay DEF OwnerRemoveItem, RoutingInv

LEMMA DeleteAsked == ASSUME RoutingInv, NEW q \in Admins, DeleteBundle(q) PROVE RoutingInv'
<1>1. PICK b \in Bundles :
        /\ Exists(b)
        /\ \/ bundle' = [bundle EXCEPT ![b].status = "ARCHIVED"] /\ op' = op
           \/ bundle' = bundle /\ op' = [op EXCEPT ![q] = [kind |-> "delete", bundle |-> b]]
    BY DEF DeleteBundle, Begin
<1>2. bundle[b] \in Bundle
    BY <1>1 DEF RoutingInv, Exists
<1>3. [bundle[b] EXCEPT !.status = "ARCHIVED"] \in Bundle
    BY <1>2 DEF Bundle, Status
<1>4. bundle' \in [Bundles -> Bundle \cup {Absent}]
    BY <1>1, <1>3 DEF RoutingInv
<1>5. Sound([kind |-> "delete", bundle |-> b], Len(rows))
    BY DEF Sound
<1>. QED
    BY <1>1, <1>4, <1>5, RowsStay DEF DeleteBundle

\* The one check of a batch clears all of it.
LEMMA GivingSound ==
    ASSUME NEW b \in Bundles, bundle[b] \in Bundle, NEW members \in SUBSET Users, NEW asks,
           AllRouted(bundle[b].items, asks = "workflow"), Len(rows) \in Nat
    PROVE  Sound(Giving(b, members, asks), Len(rows))
<1>1. bundle[b].items \subseteq Items
    BY DEF Bundle
<1>2. bundle[b].items \X members \subseteq Items \X Users
    BY <1>1
<1>3. Cleared(bundle[b].items \X members, asks)
    BY DEF Cleared, AllRouted
<1>. QED
    BY <1>2, <1>3 DEF Sound, Giving

\* A bundle in use is there.
LEMMA InUse == ASSUME RoutingInv, NEW b \in Bundles, bundle[b].status = "ACTIVE" PROVE bundle[b] \in Bundle
BY DEF RoutingInv, Absent

LEMMA AssignKeeps == ASSUME RoutingInv, NEW q \in Admins, Assign(q) PROVE RoutingInv'
<1>1. PICK b \in Bundles, members \in (SUBSET Users) \ {{}}, asks \in Terms :
        /\ bundle[b].status = "ACTIVE" /\ AllRouted(bundle[b].items, asks = "workflow")
        /\ op' = [op EXCEPT ![q] = Giving(b, members, asks)]
    BY DEF Assign, Begin
<1>2. Sound(Giving(b, members, asks), Len(rows))
    BY <1>1, InUse, GivingSound DEF RoutingInv
<1>. QED
    BY <1>1, <1>2, RowsStay DEF Assign, RoutingInv

LEMMA RequestKeeps == ASSUME RoutingInv, NEW q \in Admins, RequestPackage(q) PROVE RoutingInv'
<1>1. PICK p \in Packages, u \in Users :
        /\ bundle[p].status = "ACTIVE" /\ AllRouted(bundle[p].items, bundle[p].asks = "workflow")
        /\ op' = [op EXCEPT ![q] = Giving(p, {u}, bundle[p].asks)]
    BY DEF RequestPackage, Begin
<1>2. bundle[p] \in Bundle /\ p \in Bundles /\ {u} \in SUBSET Users
    BY <1>1, InUse DEF Bundles
<1>3. Sound(Giving(p, {u}, bundle[p].asks), Len(rows))
    BY <1>1, <1>2, GivingSound DEF RoutingInv
<1>. QED
    BY <1>1, <1>3, RowsStay DEF RequestPackage, RoutingInv

-----------------------------------------------------------------------------
LEMMA SaveKeeps == ASSUME RoutingInv, NEW q \in Admins, SaveRole(q) PROVE RoutingInv'
<1>1. op[q].bundle \in Bundles /\ op[q].row \in Bundle
    BY DEF SaveRole, RoutingInv, Sound, Bundles
<1>2. bundle' = bundle \/ bundle' = [bundle EXCEPT ![op[q].bundle] = op[q].row]
    BY DEF SaveRole
<1>3. bundle' \in [Bundles -> Bundle \cup {Absent}]
    BY <1>1, <1>2 DEF RoutingInv
<1>. QED
    BY <1>3, IdleSound, RowsStay DEF SaveRole, Ends

LEMMA RemoveKeeps == ASSUME RoutingInv, NEW q \in Admins, RemoveItem(q) PROVE RoutingInv'
<1>. DEFINE b == op[q].bundle
            less == [bundle[b] EXCEPT !.items = @ \ {op[q].item}]
<1>1. b \in Bundles
    BY DEF RemoveItem, RoutingInv, Sound
<1>2. bundle' = bundle \/ (Exists(b) /\ bundle' = [bundle EXCEPT ![b] = less])
    <2>1. CASE Exists(b) /\ bundle[b].rev = op[q].rev
        <3>1. bundle' = [bundle EXCEPT ![b].items = @ \ {op[q].item}]
            BY <2>1 DEF RemoveItem
        <3>. QED
            BY <2>1, <3>1
    <2>2. CASE ~(Exists(b) /\ bundle[b].rev = op[q].rev)
        BY <2>2 DEF RemoveItem
    <2>. QED
        BY <2>1, <2>2
<1>3. Exists(b) => less \in Bundle
    BY <1>1 DEF Exists, RoutingInv, Bundle
<1>. HIDE DEF less
<1>4. bundle' \in [Bundles -> Bundle \cup {Absent}]
    BY <1>1, <1>2, <1>3 DEF RoutingInv
<1>. QED
    BY <1>4, IdleSound, RowsStay DEF RemoveItem, Ends

LEMMA DropKeeps == ASSUME RoutingInv, NEW q \in Admins, DropBundle(q) PROVE RoutingInv'
<1>1. bundle' \in [Bundles -> Bundle \cup {Absent}]
    BY DEF DropBundle, RoutingInv
<1>. QED
    BY <1>1, IdleSound, RowsStay DEF DropBundle, Ends

\* One assignment of a batch: it is given on the terms the batch was cleared for.
LEMMA GiveKeeps == ASSUME RoutingInv, NEW q \in Admins, GiveItem(q) PROVE RoutingInv'
<1>. DEFINE o == op[q]
<1>1. /\ o.kind = "give" /\ o.bundle \in Bundles /\ o.todo \subseteq Items \X Users /\ Cleared(o.todo, o.asks)
      /\ o.unlinked \in 0..Len(rows) /\ o.unlinked = 0
    BY DEF GiveItem, RoutingInv, Sound
<1>2. rows \in Seq(Row) /\ Len(rows) \in Nat /\ bundle' = bundle
    BY DEF RoutingInv, GiveItem
<1>3. PICK x \in o.todo, ok \in BOOLEAN :
        \/ op' = [op EXCEPT ![q].todo = @ \ {x}] /\ rows' = rows
        \/ op' = [op EXCEPT ![q] = Idle] /\ rows' = rows
        \/ /\ rows' = Append(rows, [bundle |-> o.bundle, item |-> x[1], user |-> x[2], routed |-> o.asks = "workflow",
                                     linked |-> o.bundle \in Roles,
                                     status |-> IF o.asks = "nobody" THEN "ELIGIBLE" ELSE "PENDING_APPROVAL"])
           /\ op' = [op EXCEPT ![q].todo = @ \ {x}, ![q].unlinked = IF o.bundle \in Packages THEN Len(rows') ELSE 0]
    BY DEF GiveItem, Ends
<1>4. o.todo \ {x} \subseteq Items \X Users /\ Cleared(o.todo \ {x}, o.asks)
    BY <1>1 DEF Cleared
<1>5. CASE op' = [op EXCEPT ![q].todo = @ \ {x}] /\ rows' = rows
    <2>. DEFINE rest == [o EXCEPT !.todo = @ \ {x}]
    <2>1. Sound(rest, Len(rows))
        BY <1>1, <1>4 DEF Sound
    <2>2. op' = [op EXCEPT ![q] = rest]
        BY <1>5
    <2>. QED
        BY <1>2, <1>5, <2>1, <2>2, RowsStay DEF RoutingInv
<1>6. CASE op' = [op EXCEPT ![q] = Idle] /\ rows' = rows
    BY <1>2, <1>6, IdleSound, RowsStay DEF RoutingInv
<1>7. CASE /\ rows' = Append(rows, [bundle |-> o.bundle, item |-> x[1], user |-> x[2], routed |-> o.asks = "workflow",
                                     linked |-> o.bundle \in Roles,
                                     status |-> IF o.asks = "nobody" THEN "ELIGIBLE" ELSE "PENDING_APPROVAL"])
           /\ op' = [op EXCEPT ![q].todo = @ \ {x}, ![q].unlinked = IF o.bundle \in Packages THEN Len(rows') ELSE 0]
    <2>. DEFINE row == [bundle |-> o.bundle, item |-> x[1], user |-> x[2], routed |-> o.asks = "workflow",
                        linked |-> o.bundle \in Roles,
                        status |-> IF o.asks = "nobody" THEN "ELIGIBLE" ELSE "PENDING_APPROVAL"]
                rest == [o EXCEPT !.todo = @ \ {x}, !.unlinked = IF o.bundle \in Packages THEN Len(rows') ELSE 0]
    <2>1. row \in Row /\ row.item = x[1] /\ row.routed = (o.asks = "workflow")
        BY <1>1 DEF Row
    <2>2. x[1] \in HighRisk => o.asks = "workflow"
        BY <1>1 DEF Cleared
    <2>. HIDE DEF row
    <2>3. rows' = Append(rows, row)
        BY <1>7 DEF row
    <2>4. rows' \in Seq(Row) /\ Len(rows') = Len(rows) + 1
        BY <1>2, <2>1, <2>3
    <2>5. HighRiskRouted'
        <3>1. ASSUME NEW r \in DOMAIN rows' PROVE rows'[r] = row \/ (r \in DOMAIN rows /\ rows'[r] = rows[r])
            BY <1>2, <2>3
        <3>. QED
            BY <2>1, <2>2, <3>1 DEF RoutingInv, HighRiskRouted
    <2>6. Sound(rest, Len(rows'))
        BY <1>1, <1>2, <1>4, <2>4 DEF Sound
    <2>7. op' = [op EXCEPT ![q] = rest]
        BY <1>7
    <2>8. bundle' \in [Bundles -> Bundle \cup {Absent}] /\ Len(rows) <= Len(rows')
        BY <1>2, <2>4 DEF RoutingInv
    <2>. HIDE DEF rest
    <2>. QED
        BY <2>4, <2>5, <2>6, <2>7, <2>8, Moves
<1>. QED
    BY <1>3, <1>5, <1>6, <1>7

LEMMA LinkKeeps == ASSUME RoutingInv, NEW q \in Admins, LinkItem(q) PROVE RoutingInv'
<1>. DEFINE o == op[q]
            n == o.unlinked
<1>1. /\ o.kind = "give" /\ o.bundle \in Bundles /\ o.todo \subseteq Items \X Users /\ Cleared(o.todo, o.asks)
      /\ n \in 0..Len(rows) /\ n # 0
    BY DEF LinkItem, RoutingInv, Sound
<1>2. rows \in Seq(Row) /\ Len(rows) \in Nat /\ bundle' = bundle
    BY DEF RoutingInv, LinkItem
<1>3. CASE rows' = rows /\ op' = [op EXCEPT ![q] = Idle]
    BY <1>2, <1>3, IdleSound, RowsStay DEF RoutingInv
<1>4. CASE rows' = [rows EXCEPT ![n].linked = TRUE] /\ op' = [op EXCEPT ![q].unlinked = 0]
    <2>. DEFINE rest == [o EXCEPT !.unlinked = 0]
                row  == [rows[n] EXCEPT !.linked = TRUE]
    <2>1. n \in DOMAIN rows /\ rows[n] \in Row
        BY <1>1, <1>2
    <2>2. row \in Row /\ row.item = rows[n].item /\ row.routed = rows[n].routed
        BY <2>1 DEF Row
    <2>3. rows' = [rows EXCEPT ![n] = row]
        BY <1>4
    <2>. HIDE DEF row, n
    <2>4. rows' \in Seq(Row) /\ Len(rows') = Len(rows) /\ DOMAIN rows' = DOMAIN rows
        BY <1>2, <2>1, <2>2, <2>3
    <2>5. HighRiskRouted'
        BY <1>2, <2>1, <2>2, <2>3, <2>4 DEF RoutingInv, HighRiskRouted
    <2>6. Sound(rest, Len(rows')) /\ op' = [op EXCEPT ![q] = rest]
        BY <1>1, <1>2, <1>4, <2>4 DEF Sound
    <2>. HIDE DEF rest
    <2>. QED
        BY <1>2, <2>4, <2>5, <2>6, Moves DEF RoutingInv
<1>. QED
    BY <1>3, <1>4 DEF LinkItem, Ends

LEMMA AdvanceRowKeeps == ASSUME RoutingInv, AdvanceRow PROVE RoutingInv'
<1>1. PICK r \in DOMAIN rows, s \in {"ELIGIBLE", "ACTIVE", "SCHEDULED", "FINAL"} : rows' = [rows EXCEPT ![r].status = s]
    BY DEF AdvanceRow
<1>. DEFINE row == [rows[r] EXCEPT !.status = s]
<1>2. rows \in Seq(Row) /\ rows[r] \in Row /\ Len(rows) \in Nat
    BY DEF RoutingInv
<1>3. row \in Row /\ row.item = rows[r].item /\ row.routed = rows[r].routed
    BY <1>2 DEF Row
<1>4. rows' = [rows EXCEPT ![r] = row]
    BY <1>1
<1>. HIDE DEF row
<1>5. rows' \in Seq(Row) /\ Len(rows') = Len(rows) /\ DOMAIN rows' = DOMAIN rows
    BY <1>2, <1>3, <1>4
<1>6. HighRiskRouted'
    BY <1>2, <1>3, <1>4, <1>5 DEF RoutingInv, HighRiskRouted
<1>7. bundle' = bundle /\ op' = op
    BY DEF AdvanceRow
<1>. QED
    BY <1>5, <1>6, <1>7 DEF RoutingInv

LEMMA InitSound == Init => RoutingInv
BY IdleSound DEF Init, RoutingInv, HighRiskRouted

LEMMA NextKeeps == ASSUME RoutingInv, [Next]_vars PROVE RoutingInv'
<1>1. CASE CreatePackage \/ UpdatePackage \/ SetPackageEligibility
    <2>1. rows' = rows /\ op' = op
        BY <1>1 DEF CreatePackage, UpdatePackage, SetPackageEligibility
    <2>. QED
        BY <1>1, <2>1, CatalogueTyped DEF RoutingInv, HighRiskRouted
<1>2. ASSUME NEW q \in Admins, CreateBusinessRole(q) \/ UpdateBusinessRole(q) \/ OwnerRemoveItem(q) \/ DeleteBundle(q)
                                \/ Assign(q) \/ RequestPackage(q)
      PROVE  RoutingInv'
    BY <1>2, RoleAsked, ItemAsked, DeleteAsked, AssignKeeps, RequestKeeps
<1>3. ASSUME NEW q \in Admins, Continue(q) PROVE RoutingInv'
    <2>1. CASE GivenAll(q)
        BY <2>1, IdleSound, RowsStay DEF GivenAll, Ends, RoutingInv
    <2>. QED
        BY <1>3, <2>1, SaveKeeps, RemoveKeeps, DropKeeps, GiveKeeps, LinkKeeps DEF Continue
<1>4. CASE Crash
    BY <1>4, IdleSound DEF Crash, RoutingInv, HighRiskRouted
<1>5. CASE UNCHANGED vars
    BY <1>5 DEF vars, RoutingInv, HighRiskRouted
<1>. QED
    BY <1>1, <1>2, <1>3, <1>4, <1>5, AdvanceRowKeeps DEF Next

-----------------------------------------------------------------------------
\* What is left of every batch was cleared on the terms it is given on, however its bundle is
\* edited meanwhile (packages.py, business_roles.py: require_workflow_for_high_risk_items).
THEOREM Inductive == Spec => []RoutingInv
<1>1. RoutingInv /\ [Next]_vars => RoutingInv'
    BY NextKeeps
<1>. QED
    BY InitSound, <1>1, PTL DEF Spec

\* The rows keep the shape the code gives them.
THEOREM TypeCorrect == Spec => []TypeOK
BY Inductive, InvImpliesType, PTL

\* An entitlement of high risk is never given from a package or a role without a workflow,
\* whatever the number of bundles, batches, edits and crashes.
THEOREM RoutedAlways == Spec => []HighRiskRouted
<1>1. RoutingInv => HighRiskRouted
    BY DEF RoutingInv
<1>. QED
    BY Inductive, <1>1, PTL
-----------------------------------------------------------------------------
\* One handler at a time (MCBundles!Alone).

\* At most one role has an entitlement.
Unique(i) == \A r, s \in Roles :
    Exists(r) /\ Exists(s) /\ i \in bundle[r].items /\ i \in bundle[s].items => r = s

\* What the handler has looked up is still so.
Current(o) ==
    /\ o.kind = "save" => \A i \in o.row.items : ~MappedElsewhere(i, o.bundle)
    /\ o.kind = "remove" => Exists(o.bundle) /\ \E j \in bundle[o.bundle].items : j # o.item
    /\ o.kind = "give" => Exists(o.bundle)

\* A row of a package that is not linked to it is about to be.
Accounted == \A r \in DOMAIN rows : rows[r].bundle \in Packages =>
    /\ Exists(rows[r].bundle)
    /\ rows[r].linked \/ \E q \in Admins : op[q].kind = "give" /\ op[q].unlinked = r

OthersIdle(q) == \A w \in Admins \ {q} : op[w] = Idle

AloneInv ==
    /\ faults \in [Faults -> Nat]
    /\ \A i \in OfApps : Unique(i)
    /\ Alone => /\ \A q \in Busy : OthersIdle(q)
                /\ \A q \in Admins : Current(op[q])
                /\ \A i \in Items : Unique(i)
                /\ PackagesHaveItems
                /\ faults["crash"] = 0 => Accounted

LEMMA UniqueIsOne == ASSUME NEW S, \A i \in S : Unique(i) PROVE OneRole(S)
<1> SUFFICES ASSUME NEW i \in S PROVE Cardinality({r \in Roles : Exists(r) /\ i \in bundle[r].items}) <= 1
    BY DEF OneRole
<1>. DEFINE H == {r \in Roles : Exists(r) /\ i \in bundle[r].items}
<1>1. CASE H = {}
    BY <1>1, FS_EmptySet
<1>2. ASSUME NEW r \in H PROVE Cardinality(H) <= 1
    <2>1. \A s \in H : s = r
        BY <1>2 DEF Unique
    <2>2. H = {r}
        BY <1>2, <2>1
    <2>3. Cardinality({r}) = 1
        BY FS_Singleton
    <2>. QED
        BY <2>2, <2>3
<1>. QED
    BY <1>1, <1>2

\* Roles lose entitlements, or go.
RolesShrink == \A r \in Roles : Exists(r)' => Exists(r) /\ bundle'[r].items \subseteq bundle[r].items

LEMMA UniqueKept == ASSUME RolesShrink, NEW i, Unique(i) PROVE Unique(i)'
BY DEF RolesShrink, Unique

LEMMA IdleCurrent == Current(Idle)
BY DEF Current, Idle

\* A step of handler q, which goes on as o.
LEMMA AloneMoves ==
    ASSUME RoutingInv, AloneInv, NEW q \in Admins, NEW o, op' = [op EXCEPT ![q] = o], width' = width,
           faults' \in [Faults -> Nat], \A i \in OfApps : Unique(i)',
           Alone => /\ OthersIdle(q) /\ Current(o)' /\ \A i \in Items : Unique(i)'
                    /\ PackagesHaveItems' /\ (faults'["crash"] = 0 => Accounted')
    PROVE  AloneInv'
<1>1. ASSUME Alone
      PROVE  (\A w \in Busy : OthersIdle(w))' /\ (\A w \in Admins : Current(op[w]))'
    <2>1. \A w \in Admins : op'[w] = IF w = q THEN o ELSE Idle
        BY <1>1 DEF OthersIdle, RoutingInv
    <2>2. (\A w \in Busy : OthersIdle(w))'
        BY <2>1 DEF Busy, OthersIdle
    <2>3. ASSUME NEW w \in Admins PROVE Current(op[w])'
        <3>1. CASE w = q
            BY <1>1, <2>1, <3>1 DEF Current
        <3>2. CASE w # q
            BY <2>1, <3>2 DEF Current, Idle
        <3>. QED
            BY <3>1, <3>2
    <2>. QED
        BY <2>2, <2>3
<1>2. Alone' = Alone
    BY DEF Alone
<1>. QED
    BY <1>1, <1>2 DEF AloneInv

\* One handler at a time starts when there is none.
NoneBusy == Busy = {}

LEMMA AllIdle == ASSUME NoneBusy PROVE \A w \in Admins : op[w] = Idle
BY DEF NoneBusy, Busy

LEMMA AloneStarts ==
    ASSUME RoutingInv, AloneInv, NEW q \in Admins, NEW o, op' = [op EXCEPT ![q] = o],
           UNCHANGED <<bundle, rows, faults, width>>, Alone => NoneBusy /\ Current(o)
    PROVE  AloneInv'
<1>1. \A i \in OfApps : Unique(i)'
    BY DEF AloneInv, Unique, Exists
<1>2. ASSUME Alone
      PROVE  /\ OthersIdle(q) /\ Current(o)' /\ \A i \in Items : Unique(i)'
             /\ PackagesHaveItems' /\ (faults'["crash"] = 0 => Accounted')
    <2>1. OthersIdle(q)
        BY <1>2, AllIdle DEF OthersIdle
    <2>2. Current(o)'
        BY <1>2 DEF Current, Exists, MappedElsewhere
    <2>3. (\A i \in Items : Unique(i)') /\ PackagesHaveItems'
        BY <1>2 DEF AloneInv, Unique, Exists, PackagesHaveItems
    <2>4. ASSUME faults'["crash"] = 0 PROVE Accounted'
        <3>1. Accounted
            BY <1>2, <2>4 DEF AloneInv
        <3>2. \A w \in Admins : op[w].kind = "idle"
            BY <1>2, AllIdle DEF Idle
        <3>. QED
            BY <3>1, <3>2 DEF Accounted, Exists
    <2>. QED
        BY <2>1, <2>2, <2>3, <2>4
<1>. QED
    BY <1>1, <1>2, AloneMoves DEF AloneInv

\* A handler ends and the catalogue keeps what it promises; rows stay.
LEMMA AloneEnds ==
    ASSUME RoutingInv, AloneInv, NEW q \in Admins, op[q] # Idle, op[q].kind = "give" => op[q].unlinked = 0,
           op' = [op EXCEPT ![q] = Idle], UNCHANGED <<rows, faults, width>>,
           \A i \in OfApps : Unique(i)',
           Alone => \A i \in Items : Unique(i)',
           Alone => PackagesHaveItems',
           Alone => (Accounted => \A r \in DOMAIN rows : rows[r].bundle \in Packages => Exists(rows[r].bundle)')
    PROVE  AloneInv'
<1>1. ASSUME Alone
      PROVE  OthersIdle(q) /\ Current(Idle)' /\ (faults'["crash"] = 0 => Accounted')
    <2>1. OthersIdle(q)
        BY <1>1 DEF AloneInv, Busy
    <2>2. Current(Idle)'
        BY DEF Current, Idle
    <2>3. ASSUME faults'["crash"] = 0 PROVE Accounted'
        <3>1. Accounted
            BY <1>1, <2>3 DEF AloneInv
        <3>2. \A r \in DOMAIN rows : rows[r].bundle \in Packages => Exists(rows[r].bundle)'
            BY <1>1, <3>1
        <3>3. \A w \in Admins : op[w].kind = "give" => op[w].unlinked = 0
            BY <2>1 DEF OthersIdle, Idle
        <3>4. \A r \in DOMAIN rows : r # 0
            BY DEF RoutingInv
        <3>5. \A r \in DOMAIN rows : rows[r].bundle \in Packages => rows[r].linked
            BY <3>1, <3>3, <3>4 DEF Accounted
        <3>. QED
            BY <3>2, <3>5 DEF Accounted, Exists
    <2>. QED
        BY <2>1, <2>2, <2>3
<1>2. faults' \in [Faults -> Nat] /\ width' = width
    BY DEF AloneInv
<1>. QED
    BY <1>1, <1>2, AloneMoves
-----------------------------------------------------------------------------
\* The catalogue: a package is made or edited while no handler runs.
LEMMA CatalogueAlone ==
    ASSUME RoutingInv, AloneInv, CreatePackage \/ UpdatePackage \/ SetPackageEligibility,
           Alone => NoneBusy, width' = width
    PROVE  AloneInv'
<1>1. bundle \in [Bundles -> Bundle \cup {Absent}] /\ Packages \subseteq Bundles /\ Packages \cap Roles = {}
    BY BundlesAssumption DEF RoutingInv, Bundles
<1>2. PICK p \in Packages : \E v :
        /\ bundle' = [bundle EXCEPT ![p] = v] /\ v # Absent
        /\ v.items # {} \/ (Exists(p) /\ v.items = bundle[p].items)
    <2>1. CASE CreatePackage
        <3>1. PICK p \in Packages, items \in ItemLists, owners \in SUBSET Users, eligible \in SUBSET Users, asks \in Terms :
                bundle' = [bundle EXCEPT ![p] = [status |-> "ACTIVE", items |-> items, owners |-> owners, rev |-> 0,
                                                 eligible |-> eligible, asks |-> asks]]
            BY <2>1 DEF CreatePackage
        <3>2. PICK v : v = [status |-> "ACTIVE", items |-> items, owners |-> owners, rev |-> 0,
                            eligible |-> eligible, asks |-> asks]
            OBVIOUS
        <3>3. v.items # {} /\ v.status # "ABSENT"
            BY <3>2 DEF ItemLists
        <3>4. v # Absent /\ bundle' = [bundle EXCEPT ![p] = v]
            BY <3>1, <3>2, <3>3 DEF Absent
        <3>. QED
            BY <3>3, <3>4
    <2>2. CASE UpdatePackage
        <3>1. PICK p \in Packages, items \in ItemLists, owners \in SUBSET Users :
                /\ Exists(p)
                /\ bundle' = [bundle EXCEPT ![p].items = items, ![p].owners = owners, ![p].rev = @ + 1]
            BY <2>2 DEF UpdatePackage
        <3>2. PICK v : v = [bundle[p] EXCEPT !.items = items, !.owners = owners, !.rev = @ + 1]
            OBVIOUS
        <3>3. bundle[p] \in Bundle
            BY <1>1, <3>1 DEF Exists
        <3>4. v.items = items /\ v.status = bundle[p].status /\ bundle[p].status # "ABSENT"
            BY <3>2, <3>3 DEF Bundle, Status
        <3>5. v # Absent /\ v.items # {}
            BY <3>4 DEF Absent, ItemLists
        <3>6. bundle' = [bundle EXCEPT ![p] = v]
            BY <3>1, <3>2
        <3>. QED
            BY <3>5, <3>6
    <2>3. CASE SetPackageEligibility
        <3>1. PICK p \in Packages, eligible \in SUBSET Users, asks \in Terms :
                Exists(p) /\ bundle' = [bundle EXCEPT ![p].eligible = eligible, ![p].asks = asks]
            BY <2>3 DEF SetPackageEligibility
        <3>2. PICK v : v = [bundle[p] EXCEPT !.eligible = eligible, !.asks = asks]
            OBVIOUS
        <3>3. bundle[p] \in Bundle
            BY <1>1, <3>1 DEF Exists
        <3>4. v.items = bundle[p].items /\ v.status = bundle[p].status /\ bundle[p].status # "ABSENT"
            BY <3>2, <3>3 DEF Bundle, Status
        <3>5. v # Absent
            BY <3>4 DEF Absent
        <3>6. bundle' = [bundle EXCEPT ![p] = v]
            BY <3>1, <3>2
        <3>. QED
            BY <3>1, <3>4, <3>5, <3>6
    <2>. QED
        BY <2>1, <2>2, <2>3
<1>3. PICK v : /\ bundle' = [bundle EXCEPT ![p] = v] /\ v # Absent
               /\ v.items # {} \/ (Exists(p) /\ v.items = bundle[p].items)
    BY <1>2
<1>4. rows' = rows /\ op' = op /\ faults' = faults
    BY DEF CreatePackage, UpdatePackage, SetPackageEligibility
<1>5. RolesShrink
    BY <1>1, <1>3 DEF RolesShrink, Exists
<1>6. \A b \in Bundles : Exists(b) => Exists(b)'
    BY <1>1, <1>3 DEF Exists
<1>7. \A i \in OfApps : Unique(i)'
    BY <1>5, UniqueKept DEF AloneInv
<1>8. ASSUME Alone
      PROVE  /\ (\A q \in Busy : OthersIdle(q))' /\ (\A q \in Admins : Current(op[q]))'
             /\ \A i \in Items : Unique(i)'
             /\ PackagesHaveItems' /\ (faults'["crash"] = 0 => Accounted')
    <2>1. \A w \in Admins : op[w] = Idle
        BY <1>8, AllIdle
    <2>2. (\A q \in Busy : OthersIdle(q))'
        BY <1>4, <2>1 DEF Busy, OthersIdle
    <2>3. (\A q \in Admins : Current(op[q]))'
        BY <1>4, <2>1 DEF Current, Idle
    <2>4. \A i \in Items : Unique(i)'
        BY <1>5, <1>8, UniqueKept DEF AloneInv
    <2>5. PackagesHaveItems'
        <3>1. PackagesHaveItems
            BY <1>8 DEF AloneInv
        <3>. QED
            BY <1>1, <1>3, <3>1 DEF PackagesHaveItems, Exists
    <2>6. ASSUME faults'["crash"] = 0 PROVE Accounted'
        <3>1. Accounted
            BY <1>4, <1>8, <2>6 DEF AloneInv
        <3>2. \A w \in Admins : op[w].kind = "idle"
            BY <2>1 DEF Idle
        <3>3. \A r \in DOMAIN rows : rows[r].bundle \in Packages => rows[r].linked /\ Exists(rows[r].bundle)
            BY <3>1, <3>2 DEF Accounted
        <3>4. \A r \in DOMAIN rows : rows[r].bundle \in Packages => Exists(rows[r].bundle)'
            BY <1>1, <1>4, <1>6, <3>3
        <3>. QED
            BY <1>4, <3>3, <3>4 DEF Accounted, Exists
    <2>. QED
        BY <2>2, <2>3, <2>4, <2>5, <2>6
<1>9. Alone' = Alone /\ faults' \in [Faults -> Nat]
    BY <1>4 DEF Alone, AloneInv
<1>. QED
    BY <1>7, <1>8, <1>9 DEF AloneInv

\* Requests that look something up.
LEMMA RoleAloneAsked ==
    ASSUME RoutingInv, AloneInv, NEW q \in Admins, CreateBusinessRole(q) \/ UpdateBusinessRole(q),
           Alone => NoneBusy, width' = width
    PROVE  AloneInv'
<1>1. UNCHANGED <<bundle, rows, faults, width>>
    BY DEF CreateBusinessRole, UpdateBusinessRole
<1>2. CASE CreateBusinessRole(q)
    <2>1. PICK r \in Roles, items \in SUBSET Items, owners \in SUBSET Users :
            /\ \A i \in items : ~MappedElsewhere(i, r)
            /\ op' = [op EXCEPT ![q] = Saving(r, [status |-> "DRAFT", items |-> items, owners |-> owners, rev |-> 0,
                                               eligible |-> {}, asks |-> "nobody"], TRUE)]
        BY <1>2 DEF CreateBusinessRole, Begin
    <2>2. PICK o : o = Saving(r, [status |-> "DRAFT", items |-> items, owners |-> owners, rev |-> 0,
                                               eligible |-> {}, asks |-> "nobody"], TRUE)
        OBVIOUS
    <2>3. Current(o)
        BY <2>1, <2>2 DEF Current, Saving
    <2>4. op' = [op EXCEPT ![q] = o]
        BY <2>1, <2>2
    <2>. QED
        BY <1>1, <2>3, <2>4, AloneStarts
<1>3. CASE UpdateBusinessRole(q)
    <2>1. PICK r \in Roles, s \in Status, items \in SUBSET Items, owners \in SUBSET Users :
            /\ Exists(r)
            /\ items = bundle[r].items \/ \A i \in items : ~MappedElsewhere(i, r)
            /\ op' = [op EXCEPT ![q] = Saving(r, [bundle[r] EXCEPT !.status = s, !.items = items, !.owners = owners,
                                                                  !.rev = @ + 1], FALSE)]
        BY <1>3 DEF UpdateBusinessRole, Begin
    <2>2. PICK row : row = [bundle[r] EXCEPT !.status = s, !.items = items, !.owners = owners, !.rev = @ + 1]
        OBVIOUS
    <2>3. PICK o : o = Saving(r, row, FALSE)
        OBVIOUS
    <2>4. op' = [op EXCEPT ![q] = o]
        BY <2>1, <2>2, <2>3
    <2>5. row.items = items
        BY <2>1, <2>2 DEF RoutingInv, Exists, Bundle, Bundles
    <2>6. Alone => \A i \in items : ~MappedElsewhere(i, r)
        BY <2>1 DEF AloneInv, Unique, MappedElsewhere
    <2>7. Alone => Current(o)
        BY <2>3, <2>5, <2>6 DEF Current, Saving
    <2>. QED
        BY <1>1, <2>4, <2>7, AloneStarts
<1>. QED
    BY <1>2, <1>3

LEMMA ItemAloneAsked ==
    ASSUME RoutingInv, AloneInv, NEW q \in Admins, OwnerRemoveItem(q), Alone => NoneBusy, width' = width
    PROVE  AloneInv'
<1>1. PICK b \in Bundles, i \in Items :
        /\ Exists(b) /\ NotTheLast(b, i)
        /\ op' = [op EXCEPT ![q] = [kind |-> "remove", bundle |-> b, item |-> i, rev |-> bundle[b].rev]]
    BY DEF OwnerRemoveItem, Begin
<1>2. \E j \in bundle[b].items : j # i
    <2>1. SUFFICES ASSUME bundle[b].items = {i} PROVE FALSE
        BY <1>1 DEF NotTheLast
    <2>2. Cardinality({i}) = 1
        BY FS_Singleton
    <2>. QED
        BY <1>1, <2>1, <2>2 DEF NotTheLast
<1>3. PICK o : o = [kind |-> "remove", bundle |-> b, item |-> i, rev |-> bundle[b].rev]
    OBVIOUS
<1>4. Current(o)
    BY <1>1, <1>2, <1>3 DEF Current
<1>5. op' = [op EXCEPT ![q] = o]
    BY <1>1, <1>3
<1>. QED
    BY <1>4, <1>5, AloneStarts DEF OwnerRemoveItem

\* A bundle that was assigned is archived at once.
LEMMA DeleteAloneAsked ==
    ASSUME RoutingInv, AloneInv, NEW q \in Admins, DeleteBundle(q), Alone => NoneBusy, width' = width
    PROVE  AloneInv'
<1>1. PICK b \in Bundles :
        /\ Exists(b)
        /\ \/ bundle' = [bundle EXCEPT ![b].status = "ARCHIVED"] /\ op' = op
           \/ bundle' = bundle /\ op' = [op EXCEPT ![q] = [kind |-> "delete", bundle |-> b]]
    BY DEF DeleteBundle, Begin
<1>2. rows' = rows /\ faults' = faults
    BY DEF DeleteBundle
<1>3. CASE bundle' = bundle /\ op' = [op EXCEPT ![q] = [kind |-> "delete", bundle |-> b]]
    <2>1. PICK o : o = [kind |-> "delete", bundle |-> b]
        OBVIOUS
    <2>2. Current(o) /\ op' = [op EXCEPT ![q] = o]
        BY <1>3, <2>1 DEF Current
    <2>. QED
        BY <1>2, <1>3, <2>2, AloneStarts
<1>4. CASE bundle' = [bundle EXCEPT ![b].status = "ARCHIVED"] /\ op' = op
    <2>1. bundle \in [Bundles -> Bundle \cup {Absent}] /\ Roles \subseteq Bundles /\ Packages \subseteq Bundles
        BY DEF RoutingInv, Bundles
    <2>2. bundle[b] \in Bundle
        BY <1>1, <2>1 DEF Exists
    <2>3. PICK v : v = [bundle[b] EXCEPT !.status = "ARCHIVED"]
        OBVIOUS
    <2>4. v.items = bundle[b].items /\ v # Absent
        BY <2>2, <2>3 DEF Bundle, Absent
    <2>5. bundle' = [bundle EXCEPT ![b] = v]
        BY <1>4, <2>3
    <2>6. \A c \in Bundles : /\ Exists(c)' = Exists(c)
                             /\ Exists(c) => bundle'[c].items = bundle[c].items
        BY <1>1, <2>1, <2>4, <2>5 DEF Exists
    <2>7. RolesShrink
        BY <2>1, <2>6 DEF RolesShrink
    <2>8. ASSUME Alone
          PROVE  /\ (\A w \in Busy : OthersIdle(w))' /\ (\A w \in Admins : Current(op[w]))'
                 /\ PackagesHaveItems' /\ (faults'["crash"] = 0 => Accounted')
        <3>1. \A w \in Admins : op[w] = Idle
            BY <2>8, AllIdle
        <3>2. (\A w \in Busy : OthersIdle(w))' /\ (\A w \in Admins : Current(op[w]))'
            BY <1>4, <3>1 DEF Busy, OthersIdle, Current, Idle
        <3>3. PackagesHaveItems'
            BY <2>1, <2>6, <2>8 DEF AloneInv, PackagesHaveItems
        <3>4. ASSUME Accounted PROVE Accounted'
            BY <1>2, <1>4, <2>1, <2>6, <3>4 DEF Accounted, Exists
        <3>. QED
            BY <1>2, <2>8, <3>2, <3>3, <3>4 DEF AloneInv
    <2>9. (\A i \in OfApps : Unique(i)') /\ (Alone => \A i \in Items : Unique(i)')
        BY <2>7, UniqueKept DEF AloneInv
    <2>10. Alone' = Alone /\ faults' \in [Faults -> Nat]
        BY <1>2 DEF Alone, AloneInv
    <2>. QED
        BY <2>8, <2>9, <2>10 DEF AloneInv
<1>. QED
    BY <1>1, <1>3, <1>4

LEMMA GivingAloneAsked ==
    ASSUME RoutingInv, AloneInv, NEW q \in Admins, Assign(q) \/ RequestPackage(q), Alone => NoneBusy, width' = width
    PROVE  AloneInv'
<1>1. UNCHANGED <<bundle, rows, faults, width>>
    BY DEF Assign, RequestPackage
<1>2. PICK b \in Bundles : bundle[b].status = "ACTIVE" /\ \E members, asks : op' = [op EXCEPT ![q] = Giving(b, members, asks)]
    <2>1. CASE Assign(q)
        BY <2>1 DEF Assign, Begin
    <2>2. CASE RequestPackage(q)
        <3>1. PICK p \in Packages, u \in Users : bundle[p].status = "ACTIVE" /\ op' = [op EXCEPT ![q] = Giving(p, {u}, bundle[p].asks)]
            BY <2>2 DEF RequestPackage, Begin
        <3>2. p \in Bundles
            BY DEF Bundles
        <3>. QED
            BY <3>1, <3>2
    <2>. QED
        BY <2>1, <2>2
<1>3. PICK members, asks : op' = [op EXCEPT ![q] = Giving(b, members, asks)]
    BY <1>2
<1>4. PICK o : o = Giving(b, members, asks)
    OBVIOUS
<1>5. Exists(b)
    BY <1>2 DEF Exists, Absent
<1>6. Current(o)
    BY <1>4, <1>5 DEF Current, Giving
<1>7. op' = [op EXCEPT ![q] = o]
    BY <1>3, <1>4
<1>. QED
    BY <1>1, <1>6, <1>7, AloneStarts

-----------------------------------------------------------------------------
\* Handlers that end with a change to the catalogue.
LEMMA SaveAlone == ASSUME RoutingInv, AloneInv, NEW q \in Admins, SaveRole(q), width' = width PROVE AloneInv'
<1>1. PICK h : h = op[q]
    OBVIOUS
<1>2. h.kind = "save" /\ h.bundle \in Roles /\ h.row \in Bundle
    BY <1>1 DEF SaveRole, RoutingInv, Sound
<1>3. \/ bundle' = bundle
      \/ /\ bundle' = [bundle EXCEPT ![h.bundle] = h.row]
         /\ \A i \in h.row.items \cap OfApps : ~MappedElsewhere(i, h.bundle)
    BY <1>1 DEF SaveRole
<1>4. bundle \in [Bundles -> Bundle \cup {Absent}] /\ Roles \subseteq Bundles /\ Packages \subseteq Bundles /\ Packages \cap Roles = {}
    BY BundlesAssumption DEF RoutingInv, Bundles
<1>5. ASSUME NEW i, Unique(i), i \in h.row.items => ~MappedElsewhere(i, h.bundle)
      PROVE  Unique(i)'
    <2>1. CASE bundle' = bundle
        BY <1>5, <2>1 DEF Unique, Exists
    <2>2. CASE bundle' = [bundle EXCEPT ![h.bundle] = h.row]
        <3>1. \A r \in Roles \ {h.bundle} : bundle'[r] = bundle[r]
            BY <1>4, <2>2
        <3>2. bundle'[h.bundle] = h.row
            BY <1>2, <1>4, <2>2
        <3>3. ASSUME NEW r \in Roles, NEW s \in Roles, Exists(r)', Exists(s)', i \in bundle'[r].items, i \in bundle'[s].items
              PROVE  r = s
            <4>1. CASE r = h.bundle \/ s = h.bundle
                BY <1>5, <3>1, <3>2, <3>3, <4>1 DEF MappedElsewhere, Exists
            <4>2. CASE r # h.bundle /\ s # h.bundle
                BY <1>5, <3>1, <3>3, <4>2 DEF Unique, Exists
            <4>. QED
                BY <4>1, <4>2
        <3>. QED
            BY <3>3 DEF Unique
    <2>. QED
        BY <1>3, <2>1, <2>2
<1>6. ASSUME NEW i \in OfApps PROVE Unique(i)'
    <2>1. Unique(i)
        BY DEF AloneInv
    <2>2. CASE bundle' = bundle
        BY <2>1, <2>2 DEF Unique, Exists
    <2>3. CASE \A j \in h.row.items \cap OfApps : ~MappedElsewhere(j, h.bundle)
        BY <1>5, <2>1, <2>3
    <2>. QED
        BY <1>3, <2>2, <2>3
<1>7. ASSUME Alone PROVE \A i \in Items : Unique(i)'
    <2>1. \A i \in h.row.items : ~MappedElsewhere(i, h.bundle)
        BY <1>1, <1>2, <1>7 DEF AloneInv, Current
    <2>2. \A i \in Items : Unique(i)
        BY <1>7 DEF AloneInv
    <2>. QED
        BY <1>5, <2>1, <2>2
<1>8. \A p \in Packages : bundle'[p] = bundle[p]
    BY <1>2, <1>3, <1>4
<1>9. Alone => PackagesHaveItems'
    BY <1>8 DEF AloneInv, PackagesHaveItems, Exists
<1>10. Accounted => \A r \in DOMAIN rows : rows[r].bundle \in Packages => Exists(rows[r].bundle)'
    <2>1. rows' = rows
        BY DEF SaveRole
    <2>. QED
        BY <1>8, <2>1 DEF Accounted, Exists
<1>11. op[q] # Idle /\ (op[q].kind = "give" => op[q].unlinked = 0) /\ op' = [op EXCEPT ![q] = Idle] /\ UNCHANGED <<rows, faults, width>>
    BY <1>1, <1>2 DEF SaveRole, Ends, Idle
<1>. QED
    BY <1>6, <1>7, <1>9, <1>10, <1>11, AloneEnds

LEMMA RemoveAlone == ASSUME RoutingInv, AloneInv, NEW q \in Admins, RemoveItem(q), width' = width PROVE AloneInv'
<1>1. PICK h : h = op[q]
    OBVIOUS
<1>2. h.kind = "remove" /\ h.bundle \in Bundles
    BY <1>1 DEF RemoveItem, RoutingInv, Sound
<1>3. bundle \in [Bundles -> Bundle \cup {Absent}] /\ Roles \subseteq Bundles /\ Packages \subseteq Bundles
    BY DEF RoutingInv, Bundles
<1>4. \/ bundle' = bundle
      \/ Exists(h.bundle) /\ \E v : /\ v.items = bundle[h.bundle].items \ {h.item} /\ v # Absent
                                    /\ bundle' = [bundle EXCEPT ![h.bundle] = v]
    <2>1. CASE Exists(h.bundle) /\ bundle[h.bundle].rev = h.rev
        <3>1. PICK v : v = [bundle[h.bundle] EXCEPT !.items = @ \ {h.item}]
            OBVIOUS
        <3>2. bundle[h.bundle] \in Bundle
            BY <1>2, <1>3, <2>1 DEF Exists
        <3>3. v.items = bundle[h.bundle].items \ {h.item} /\ v.status = bundle[h.bundle].status /\ v.status # "ABSENT"
            BY <3>1, <3>2 DEF Bundle, Status
        <3>4. bundle' = [bundle EXCEPT ![h.bundle].items = @ \ {h.item}]
            BY <1>1, <2>1 DEF RemoveItem
        <3>5. bundle' = [bundle EXCEPT ![h.bundle] = v]
            BY <3>1, <3>4
        <3>6. v # Absent
            BY <3>3 DEF Absent
        <3>. QED
            BY <2>1, <3>3, <3>5, <3>6
    <2>2. CASE ~(Exists(h.bundle) /\ bundle[h.bundle].rev = h.rev)
        BY <1>1, <2>2 DEF RemoveItem
    <2>. QED
        BY <2>1, <2>2
<1>5. \A b \in Bundles : /\ Exists(b)' = Exists(b)
                         /\ Exists(b) => bundle'[b].items = bundle[b].items
                                         \/ (b = h.bundle /\ bundle'[b].items = bundle[b].items \ {h.item})
    BY <1>2, <1>3, <1>4 DEF Exists
<1>6. RolesShrink
    BY <1>3, <1>5 DEF RolesShrink
<1>7. (\A i \in OfApps : Unique(i)') /\ (Alone => \A i \in Items : Unique(i)')
    BY <1>6, UniqueKept DEF AloneInv
<1>8. Alone => PackagesHaveItems'
    <2>1. SUFFICES ASSUME Alone, NEW p \in Packages, Exists(p)' PROVE bundle'[p].items # {}
        BY DEF PackagesHaveItems
    <2>2. bundle[p].items # {} /\ Exists(p)
        BY <1>3, <1>5, <2>1 DEF AloneInv, PackagesHaveItems
    <2>3. \E j \in bundle[h.bundle].items : j # h.item
        BY <1>1, <1>2, <2>1 DEF AloneInv, Current
    <2>. QED
        BY <1>3, <1>5, <2>2, <2>3
<1>9. rows' = rows /\ faults' = faults /\ op' = [op EXCEPT ![q] = Idle]
    BY DEF RemoveItem, Ends
<1>10. Accounted => \A r \in DOMAIN rows : rows[r].bundle \in Packages => Exists(rows[r].bundle)'
    BY <1>3, <1>5, <1>9 DEF Accounted, Exists
<1>11. op[q] # Idle /\ (op[q].kind = "give" => op[q].unlinked = 0)
    BY <1>1, <1>2 DEF Idle
<1>. QED
    BY <1>7, <1>8, <1>9, <1>10, <1>11, AloneEnds

\* A package is deleted when no row is linked to it, and then none is its own.
LEMMA DropAlone == ASSUME RoutingInv, AloneInv, NEW q \in Admins, DropBundle(q), width' = width PROVE AloneInv'
<1>1. PICK h : h = op[q]
    OBVIOUS
<1>2. h.kind = "delete" /\ h.bundle \in Bundles
    BY <1>1 DEF DropBundle, RoutingInv, Sound
<1>3. bundle \in [Bundles -> Bundle \cup {Absent}] /\ Roles \subseteq Bundles /\ Packages \subseteq Bundles
    BY DEF RoutingInv, Bundles
<1>4. bundle' = bundle \/ (~Referenced(h.bundle) /\ bundle' = [bundle EXCEPT ![h.bundle] = Absent])
    BY <1>1 DEF DropBundle
<1>5. \A b \in Bundles : /\ Exists(b)' => Exists(b) /\ bundle'[b] = bundle[b]
                         /\ ~Exists(b)' => ~Exists(b) \/ (b = h.bundle /\ ~Referenced(b))
    BY <1>2, <1>3, <1>4 DEF Exists
<1>6. RolesShrink
    BY <1>3, <1>5 DEF RolesShrink
<1>7. (\A i \in OfApps : Unique(i)') /\ (Alone => \A i \in Items : Unique(i)')
    BY <1>6, UniqueKept DEF AloneInv
<1>8. Alone => PackagesHaveItems'
    BY <1>3, <1>5 DEF AloneInv, PackagesHaveItems
<1>9. rows' = rows /\ faults' = faults /\ op' = [op EXCEPT ![q] = Idle]
    BY DEF DropBundle, Ends
<1>10. ASSUME Alone, Accounted, NEW r \in DOMAIN rows, rows[r].bundle \in Packages PROVE Exists(rows[r].bundle)'
    <2>1. Exists(rows[r].bundle)
        BY <1>10 DEF Accounted
    <2>2. OthersIdle(q)
        BY <1>1, <1>2, <1>10 DEF AloneInv, Busy, Idle
    <2>3. \A w \in Admins : op[w].kind # "give"
        BY <1>1, <1>2, <2>2 DEF OthersIdle, Idle
    <2>4. rows[r].linked
        BY <1>10, <2>3 DEF Accounted
    <2>5. rows[r].bundle = h.bundle => Referenced(h.bundle)
        BY <1>10, <2>4 DEF Referenced, RowsOf
    <2>6. PICK b : b = rows[r].bundle
        OBVIOUS
    <2>7. Exists(b)'
        BY <1>3, <1>5, <1>10, <2>1, <2>5, <2>6
    <2>. QED
        BY <1>9, <2>6, <2>7 DEF Exists
<1>11. op[q] # Idle /\ (op[q].kind = "give" => op[q].unlinked = 0)
    BY <1>1, <1>2 DEF Idle
<1>12. Alone => (Accounted => \A r \in DOMAIN rows : rows[r].bundle \in Packages => Exists(rows[r].bundle)')
    BY <1>10
<1>. QED
    BY <1>7, <1>8, <1>9, <1>11, <1>12, AloneEnds

-----------------------------------------------------------------------------
\* Steps that change rows leave the catalogue alone.
LEMMA CatalogueStays ==
    ASSUME RoutingInv, AloneInv, bundle' = bundle
    PROVE  /\ \A i \in OfApps : Unique(i)'
           /\ Alone => (\A i \in Items : Unique(i)')
           /\ Alone => PackagesHaveItems'
           /\ \A b : Exists(b)' = Exists(b)
BY DEF AloneInv, Unique, PackagesHaveItems, Exists

\* create_assignment for one item: its row is the handler's to link.
LEMMA GiveAlone == ASSUME RoutingInv, AloneInv, NEW q \in Admins, GiveItem(q), width' = width PROVE AloneInv'
<1>1. PICK h : h = op[q]
    OBVIOUS
<1>2. h.kind = "give" /\ h.bundle \in Bundles /\ h.unlinked = 0 /\ h # Idle
    BY <1>1 DEF GiveItem, RoutingInv, Sound, Idle
<1>3. bundle' = bundle /\ rows \in Seq(Row) /\ Len(rows) \in Nat
    BY DEF GiveItem, RoutingInv
<1>4. PICK x, o :
        /\ op' = [op EXCEPT ![q] = o]
        /\ \/ rows' = rows /\ Count("refused") /\ o.kind = "give" /\ o.bundle = h.bundle /\ o.unlinked = 0
           \/ rows' = rows /\ faults' = faults /\ o = Idle
           \/ /\ faults' = faults /\ o.kind = "give" /\ o.bundle = h.bundle
              /\ o.unlinked = IF h.bundle \in Packages THEN Len(rows') ELSE 0
              /\ rows' = Append(rows, [bundle |-> h.bundle, item |-> x[1], user |-> x[2], routed |-> h.asks = "workflow",
                                       linked |-> h.bundle \in Roles,
                                       status |-> IF h.asks = "nobody" THEN "ELIGIBLE" ELSE "PENDING_APPROVAL"])
    <2>1. PICK x \in h.todo, ok \in BOOLEAN :
            \/ Count("refused") /\ op' = [op EXCEPT ![q].todo = @ \ {x}] /\ rows' = rows
            \/ op' = [op EXCEPT ![q] = Idle] /\ rows' = rows /\ faults' = faults
            \/ /\ faults' = faults
               /\ rows' = Append(rows, [bundle |-> h.bundle, item |-> x[1], user |-> x[2], routed |-> h.asks = "workflow",
                                         linked |-> h.bundle \in Roles,
                                         status |-> IF h.asks = "nobody" THEN "ELIGIBLE" ELSE "PENDING_APPROVAL"])
               /\ op' = [op EXCEPT ![q].todo = @ \ {x}, ![q].unlinked = IF h.bundle \in Packages THEN Len(rows') ELSE 0]
        BY <1>1 DEF GiveItem, Ends
    <2>2. CASE Count("refused") /\ op' = [op EXCEPT ![q].todo = @ \ {x}] /\ rows' = rows
        <3>1. PICK o : o = [h EXCEPT !.todo = @ \ {x}]
            OBVIOUS
        <3>2. o.kind = h.kind /\ o.bundle = h.bundle /\ o.unlinked = h.unlinked
            BY <3>1
        <3>3. op' = [op EXCEPT ![q] = o]
            BY <1>1, <2>2, <3>1
        <3>. QED
            BY <1>2, <2>2, <3>2, <3>3
    <2>3. CASE op' = [op EXCEPT ![q] = Idle] /\ rows' = rows /\ faults' = faults
        BY <2>3
    <2>4. CASE /\ faults' = faults
               /\ rows' = Append(rows, [bundle |-> h.bundle, item |-> x[1], user |-> x[2], routed |-> h.asks = "workflow",
                                         linked |-> h.bundle \in Roles,
                                         status |-> IF h.asks = "nobody" THEN "ELIGIBLE" ELSE "PENDING_APPROVAL"])
               /\ op' = [op EXCEPT ![q].todo = @ \ {x}, ![q].unlinked = IF h.bundle \in Packages THEN Len(rows') ELSE 0]
        <3>0. PICK n : n = IF h.bundle \in Packages THEN Len(rows') ELSE 0
            OBVIOUS
        <3>1. PICK o : o = [h EXCEPT !.todo = @ \ {x}, !.unlinked = n]
            OBVIOUS
        <3>2. o.kind = h.kind /\ o.bundle = h.bundle
            BY <3>1
        <3>3. o.unlinked = n
            BY <1>1, <3>1 DEF RoutingInv, Sound
        <3>4. op' = [op EXCEPT ![q] = o]
            BY <1>1, <2>4, <3>0, <3>1
        <3>. QED
            BY <1>2, <2>4, <3>0, <3>2, <3>3, <3>4
    <2>. QED
        BY <2>1, <2>2, <2>3, <2>4
<1>5. faults' \in [Faults -> Nat] /\ faults'["crash"] = faults["crash"]
    BY <1>4 DEF AloneInv, Count, Faults
<1>6. ASSUME Alone PROVE OthersIdle(q) /\ Current(o)' /\ (faults'["crash"] = 0 => Accounted')
    <2>1. OthersIdle(q)
        BY <1>1, <1>2, <1>6 DEF AloneInv, Busy
    <2>2. Exists(h.bundle)
        BY <1>1, <1>2, <1>6 DEF AloneInv, Current
    <2>3. Current(o)'
        BY <1>2, <1>3, <1>4, <2>2 DEF Current, Idle, Exists
    <2>4. ASSUME faults'["crash"] = 0, NEW r \in DOMAIN rows, rows[r].bundle \in Packages
          PROVE  Exists(rows[r].bundle) /\ rows[r].linked
        <3>1. Accounted
            BY <1>5, <1>6, <2>4 DEF AloneInv
        <3>2. \A w \in Admins : op[w].kind = "give" => op[w].unlinked = 0
            BY <1>1, <1>2, <2>1 DEF OthersIdle, Idle
        <3>3. r # 0
            BY <1>3, <2>4
        <3>. QED
            BY <2>4, <3>1, <3>2, <3>3 DEF Accounted
    <2>5. ASSUME faults'["crash"] = 0, NEW r \in DOMAIN rows', rows'[r].bundle \in Packages
          PROVE  Exists(rows[r].bundle)' /\ (rows'[r].linked \/ \E w \in Admins : op'[w].kind = "give" /\ op'[w].unlinked = r)
        <3>1. CASE r \in DOMAIN rows /\ rows'[r] = rows[r]
            BY <1>3, <2>4, <2>5, <3>1 DEF Exists
        <3>2. CASE ~(r \in DOMAIN rows /\ rows'[r] = rows[r])
            <4>1. /\ o.kind = "give" /\ o.unlinked = (IF h.bundle \in Packages THEN Len(rows') ELSE 0)
                  /\ rows' = Append(rows, [bundle |-> h.bundle, item |-> x[1], user |-> x[2], routed |-> h.asks = "workflow",
                                           linked |-> h.bundle \in Roles,
                                           status |-> IF h.asks = "nobody" THEN "ELIGIBLE" ELSE "PENDING_APPROVAL"])
                BY <1>4, <2>5, <3>2
            <4>2. r = Len(rows) + 1 /\ Len(rows') = Len(rows) + 1 /\ rows'[r].bundle = h.bundle
                BY <1>3, <2>5, <3>2, <4>1
            <4>3. o.unlinked = r
                BY <2>5, <4>1, <4>2
            <4>4. op'[q] = o
                BY <1>4 DEF RoutingInv
            <4>. QED
                BY <1>3, <2>2, <4>1, <4>2, <4>3, <4>4 DEF Exists
        <3>. QED
            BY <3>1, <3>2
    <2>6. (faults'["crash"] = 0) => Accounted'
        BY <2>5 DEF Accounted
    <2>. QED
        BY <2>1, <2>3, <2>6
<1>. QED
    BY <1>3, <1>4, <1>5, <1>6, CatalogueStays, AloneMoves

LEMMA LinkAlone == ASSUME RoutingInv, AloneInv, NEW q \in Admins, LinkItem(q), width' = width PROVE AloneInv'
<1>1. PICK h : h = op[q]
    OBVIOUS
<1>2. h.kind = "give" /\ h.unlinked \in DOMAIN rows /\ h # Idle /\ h.unlinked # 0
    BY <1>1 DEF LinkItem, RoutingInv, Sound, Idle
<1>3. bundle' = bundle /\ faults' = faults /\ rows \in Seq(Row) /\ Len(rows) \in Nat
    BY DEF LinkItem, RoutingInv
<1>4. PICK o : /\ op' = [op EXCEPT ![q] = o]
               /\ \/ o.kind = "give" /\ o.bundle = h.bundle /\ Exists(h.bundle) /\ rows' = [rows EXCEPT ![h.unlinked].linked = TRUE]
                  \/ o = Idle /\ ~Exists(h.bundle)
    <2>1. CASE Exists(h.bundle)
        <3>1. PICK o : o = [h EXCEPT !.unlinked = 0]
            OBVIOUS
        <3>2. o.kind = h.kind /\ o.bundle = h.bundle
            BY <3>1
        <3>3. op' = [op EXCEPT ![q] = o] /\ rows' = [rows EXCEPT ![h.unlinked].linked = TRUE]
            BY <1>1, <2>1, <3>1 DEF LinkItem
        <3>. QED
            BY <1>2, <2>1, <3>2, <3>3
    <2>2. CASE ~Exists(h.bundle)
        BY <1>1, <2>2 DEF LinkItem, Ends
    <2>. QED
        BY <2>1, <2>2
<1>5. ASSUME Alone PROVE OthersIdle(q) /\ Current(o)' /\ (faults'["crash"] = 0 => Accounted')
    <2>1. OthersIdle(q)
        BY <1>1, <1>2, <1>5 DEF AloneInv, Busy
    <2>2. Exists(h.bundle)
        BY <1>1, <1>2, <1>5 DEF AloneInv, Current
    <2>3. o.kind = "give" /\ o.bundle = h.bundle /\ rows' = [rows EXCEPT ![h.unlinked].linked = TRUE]
        BY <1>4, <2>2
    <2>4. Current(o)'
        BY <1>3, <2>2, <2>3 DEF Current, Exists
    <2>5. ASSUME faults'["crash"] = 0 PROVE Accounted'
        <3>1. Accounted
            BY <1>3, <1>5, <2>5 DEF AloneInv
        <3>2. \A w \in Admins : op[w].kind = "give" => w = q
            BY <2>1 DEF OthersIdle, Idle
        <3>3. ASSUME NEW r \in DOMAIN rows, rows[r].bundle \in Packages
              PROVE  Exists(rows[r].bundle) /\ (rows[r].linked \/ r = h.unlinked)
            BY <1>1, <3>1, <3>2, <3>3 DEF Accounted
        <3>4. ASSUME NEW r \in DOMAIN rows' 
              PROVE  /\ r \in DOMAIN rows /\ rows'[r].bundle = rows[r].bundle
                     /\ rows'[r].linked = (rows[r].linked \/ r = h.unlinked)
            <4>1. r \in DOMAIN rows /\ rows[r] \in Row
                BY <1>3, <2>3
            <4>2. CASE r = h.unlinked
                BY <2>3, <4>1, <4>2 DEF Row
            <4>3. CASE r # h.unlinked
                BY <2>3, <4>1, <4>3 DEF Row
            <4>. QED
                BY <4>1, <4>2, <4>3
        <3>5. ASSUME NEW r \in DOMAIN rows', rows'[r].bundle \in Packages
              PROVE  Exists(rows[r].bundle)' /\ rows'[r].linked
            BY <1>3, <3>3, <3>4, <3>5 DEF Exists
        <3>. QED
            BY <3>5 DEF Accounted
    <2>. QED
        BY <2>1, <2>4, <2>5
<1>6. faults' \in [Faults -> Nat]
    BY <1>3 DEF AloneInv
<1>. QED
    BY <1>3, <1>4, <1>5, <1>6, CatalogueStays, AloneMoves

LEMMA GivenAllAlone == ASSUME RoutingInv, AloneInv, NEW q \in Admins, GivenAll(q), width' = width PROVE AloneInv'
<1>1. UNCHANGED <<bundle, rows, faults, width>> /\ op' = [op EXCEPT ![q] = Idle] /\ op[q].unlinked = 0 /\ op[q] # Idle
    BY DEF GivenAll, Ends, Idle
<1>2. Accounted => \A r \in DOMAIN rows : rows[r].bundle \in Packages => Exists(rows[r].bundle)'
    BY <1>1 DEF Accounted, Exists
<1>. QED
    BY <1>1, <1>2, CatalogueStays, AloneEnds

LEMMA AdvanceRowAlone == ASSUME RoutingInv, AloneInv, AdvanceRow, width' = width PROVE AloneInv'
<1>1. PICK n \in DOMAIN rows, s \in {"ELIGIBLE", "ACTIVE", "SCHEDULED", "FINAL"} : rows' = [rows EXCEPT ![n].status = s]
    BY DEF AdvanceRow
<1>2. UNCHANGED <<bundle, op, faults, width>>
    BY DEF AdvanceRow
<1>3. ASSUME NEW r \in DOMAIN rows'
      PROVE  r \in DOMAIN rows /\ rows'[r].bundle = rows[r].bundle /\ rows'[r].linked = rows[r].linked
    <2>1. r \in DOMAIN rows /\ rows[r] \in Row
        BY <1>1 DEF RoutingInv
    <2>. QED
        BY <1>1, <2>1 DEF Row
<1>4. Accounted => Accounted'
    BY <1>2, <1>3 DEF Accounted, Exists
<1>5. (\A q \in Busy : OthersIdle(q))' = (\A q \in Busy : OthersIdle(q))
    BY <1>2 DEF Busy, OthersIdle
<1>6. (\A q \in Admins : Current(op[q]))' = (\A q \in Admins : Current(op[q]))
    BY <1>2 DEF Current, Exists, MappedElsewhere
<1>. QED
    BY <1>2, <1>4, <1>5, <1>6, CatalogueStays DEF AloneInv, Alone

LEMMA CrashAlone == ASSUME RoutingInv, AloneInv, Crash, width' = width PROVE AloneInv'
<1>1. bundle' = bundle /\ rows' = rows /\ faults' \in [Faults -> Nat] /\ faults'["crash"] # 0
    BY DEF Crash, Count, AloneInv, Faults
<1>2. \A q \in Admins : op'[q] = Idle
    BY DEF Crash
<1>3. (\A q \in Busy : OthersIdle(q))' /\ (\A q \in Admins : Current(op[q]))'
    BY <1>2 DEF Busy, OthersIdle, Current, Idle
<1>. QED
    BY <1>1, <1>3, CatalogueStays DEF AloneInv, Alone

\* One handler at a time begins when none runs: to begin counts as an edit.
LEMMA Begins ==
    ASSUME PacedNext, edits \in Nat, edits' = edits + 1, Alone
    PROVE  NoneBusy
BY DEF PacedNext, Alone, NoneBusy

LEMMA PacedKeeps ==
    ASSUME RoutingInv, AloneInv, edits \in Nat, [PacedNext]_<<vars, width>>
    PROVE  RoutingInv' /\ AloneInv' /\ edits' \in Nat
<1>1. CASE UNCHANGED <<vars, width>>
    <2>1. UNCHANGED <<bundle, rows, op, edits, faults, width>>
        BY <1>1 DEF vars
    <2>2. (\A q \in Busy : OthersIdle(q))' = (\A q \in Busy : OthersIdle(q))
        BY <2>1 DEF Busy, OthersIdle
    <2>3. (\A q \in Admins : Current(op[q]))' = (\A q \in Admins : Current(op[q]))
        BY <2>1 DEF Current, Exists, MappedElsewhere
    <2>4. Accounted' = Accounted
        BY <2>1 DEF Accounted, Exists
    <2>5. AloneInv'
        BY <2>1, <2>2, <2>3, <2>4, CatalogueStays DEF AloneInv, Alone
    <2>. QED
        BY <1>1, <2>1, <2>5, NextKeeps DEF vars
<1>2. CASE PacedNext
    <2>1. Next /\ width' = width
        BY <1>2 DEF PacedNext
    <2>2. RoutingInv'
        BY <2>1, NextKeeps
    <2>3. CASE CreatePackage \/ UpdatePackage \/ SetPackageEligibility
        <3>1. edits' = edits + 1
            BY <2>3 DEF CreatePackage, UpdatePackage, SetPackageEligibility, Edited
        <3>2. AloneInv'
            BY <1>2, <2>1, <2>3, <3>1, Begins, CatalogueAlone
        <3>. QED
            BY <2>2, <3>1, <3>2
    <2>4. ASSUME NEW q \in Admins, CreateBusinessRole(q) \/ UpdateBusinessRole(q) \/ OwnerRemoveItem(q) \/ DeleteBundle(q)
                                    \/ Assign(q) \/ RequestPackage(q)
          PROVE  AloneInv' /\ edits' \in Nat
        <3>1. edits' = edits + 1
            BY <2>4 DEF CreateBusinessRole, UpdateBusinessRole, OwnerRemoveItem, DeleteBundle, Assign, RequestPackage, Edited
        <3>2. Alone => NoneBusy
            BY <1>2, <3>1, Begins
        <3>3. AloneInv'
            BY <2>1, <2>4, <3>2, RoleAloneAsked, ItemAloneAsked, DeleteAloneAsked, GivingAloneAsked
        <3>. QED
            BY <3>1, <3>3
    <2>5. ASSUME NEW q \in Admins, Continue(q) PROVE AloneInv' /\ edits' \in Nat
        <3>1. edits' = edits
            BY <2>5 DEF Continue, SaveRole, RemoveItem, DropBundle, GiveItem, LinkItem, GivenAll
        <3>2. AloneInv'
            BY <2>1, <2>5, SaveAlone, RemoveAlone, DropAlone, GiveAlone, LinkAlone, GivenAllAlone DEF Continue
        <3>. QED
            BY <3>1, <3>2
    <2>6. CASE AdvanceRow
        BY <2>1, <2>2, <2>6, AdvanceRowAlone DEF AdvanceRow
    <2>7. CASE Crash
        BY <2>1, <2>2, <2>7, CrashAlone DEF Crash
    <2>. QED
        BY <2>1, <2>2, <2>3, <2>4, <2>5, <2>6, <2>7 DEF Next
<1>. QED
    BY <1>1, <1>2

LEMMA WideBegins == WideInit => RoutingInv /\ AloneInv /\ edits \in Nat
<1>. SUFFICES ASSUME WideInit PROVE RoutingInv /\ AloneInv /\ edits \in Nat
    OBVIOUS
<1>1. Init
    BY DEF WideInit
<1>2. \A b : b \in Bundles => ~Exists(b)
    BY <1>1 DEF Init, Exists
<1>3. (\A i : Unique(i)) /\ PackagesHaveItems
    BY <1>2 DEF Unique, PackagesHaveItems, Bundles
<1>4. Accounted
    BY <1>1 DEF Init, Accounted
<1>5. (\A q \in Busy : OthersIdle(q)) /\ (\A q \in Admins : Current(op[q]))
    BY <1>1, IdleCurrent DEF Init, Busy
<1>6. faults \in [Faults -> Nat]
    BY <1>1 DEF Init
<1>. QED
    BY <1>1, <1>3, <1>4, <1>5, <1>6, InitSound DEF AloneInv, Init

\* With one handler at a time what a handler looked up is still so when it writes, and a
\* row without its link is one that the handler is about to link.
THEOREM AloneInductive == PacedSpec => [](RoutingInv /\ AloneInv)
<1>. DEFINE Inv == RoutingInv /\ AloneInv /\ edits \in Nat
<1>1. WideInit => Inv
    BY WideBegins
<1>2. Inv /\ [PacedNext]_<<vars, width>> => Inv'
    BY PacedKeeps
<1>. QED
    BY <1>1, <1>2, PTL DEF PacedSpec

\* An application role of a catalogue entitlement belongs to one business role, whatever is
\* saved at the same time; any entitlement does as long as requests come one at a time.
THEOREM OneRoleEach == PacedSpec => []MappedOnce
<1>1. AloneInv => MappedOnce
    BY UniqueIsOne DEF AloneInv, MappedOnce
<1>. QED
    BY AloneInductive, <1>1, PTL

\* With one request at a time and no crash a package keeps an item, and nobody holds anything
\* of a package that is no longer there.
THEOREM PackagesSound == PacedSpec => []AlonePackagesSound
<1>1. RoutingInv /\ AloneInv => AlonePackagesSound
    BY InvImpliesType DEF AloneInv, AlonePackagesSound, Accounted, NothingFromNowhere
<1>. QED
    BY AloneInductive, <1>1, PTL
=============================================================================
