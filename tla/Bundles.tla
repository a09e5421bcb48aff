------------------------------ MODULE Bundles ------------------------------
(***************************************************************************)
(* The catalogue of what is assigned together: access packages             *)
(* (services/packages.py) and business roles (services/business_roles.py), *)
(* from creation over edits by administrators and owners to the end, and   *)
(* the batches of assignments made from them.                              *)
(*                                                                         *)
(* A batch is one create_assignment per item and member, each with its own *)
(* commit; a package's row is linked to the package by a second commit.    *)
(* Names (unique by a constraint), descriptions and labels are left out.   *)
(***************************************************************************)
EXTENDS Naturals, FiniteSets, Sequences, SequencesExt

CONSTANTS
    Packages, Roles,
    Items,        \* entitlements
    HighRisk,     \* those the entitlement catalogue tags HIGH or CRITICAL
    OfApps,       \* application roles: the table's constraint holds for them (a NULL role never clashes)
    Users,
    Terms,        \* who approves: "nobody", "approver" or "workflow"
    Admins,       \* requests under way
    MaxRows, MaxEdits, MaxInFlight, \* bounds
    FaultLimit    \* FaultLimit[f]: bound on how often fault f happens

Bundles == Packages \cup Roles
Faults  == {"refused", "crash"}

ASSUME BundlesAssumption ==
    /\ Packages \cap Roles = {} /\ HighRisk \subseteq Items /\ OfApps \subseteq Items
    /\ Terms \subseteq {"nobody", "approver", "workflow"}
    /\ {MaxRows, MaxEdits, MaxInFlight} \subseteq Nat /\ FaultLimit \in [Faults -> Nat]

VARIABLES
    bundle, \* bundle[b]: the AccessPackage or BusinessRole with its items, owners and principals, or Absent
    rows,   \* the access_assignments rows made from a bundle
    op,     \* op[q]: the handler request q runs
    edits, faults

vars == <<bundle, rows, op, edits, faults>>

Status == {"DRAFT", "ACTIVE", "DISABLED", "ARCHIVED"}
\* rev: another set of item rows, even where they name the same entitlements.
Bundle == [status : Status, items : SUBSET Items, owners : SUBSET Users, rev : Nat,
           eligible : SUBSET Users, asks : {"nobody", "approver", "workflow"}]
Absent == [status |-> "ABSENT"]
Row    == [bundle : Bundles, item : Items, user : Users, routed : BOOLEAN, linked : BOOLEAN,
           status : {"PENDING_APPROVAL", "ELIGIBLE", "ACTIVE", "SCHEDULED", "FINAL"}]
Idle   == [kind |-> "idle"]

Init == /\ bundle = [b \in Bundles |-> Absent] /\ rows = <<>> /\ op = [q \in Admins |-> Idle]
        /\ edits = 0 /\ faults = [f \in Faults |-> 0]

Busy        == {q \in Admins : op[q] # Idle}
MayStart(q) == op[q] = Idle /\ Cardinality(Busy) < MaxInFlight
Edited      == edits < MaxEdits /\ edits' = edits + 1
Count(f)    == faults[f] < FaultLimit[f] /\ faults' = [faults EXCEPT ![f] = @ + 1]
Begin(q, o) == MayStart(q) /\ op' = [op EXCEPT ![q] = o]
Ends(q)     == op' = [op EXCEPT ![q] = Idle]
Exists(b)   == bundle[b] # Absent
RowsOf(b)   == {r \in DOMAIN rows : rows[r].bundle = b}

(***************************************************************************)
(* Packages.                                                               *)
(***************************************************************************)
\* PackageCreate, PackageUpdate: a list of items is never empty.
ItemLists == (SUBSET Items) \ {{}}

CreatePackage == \E p \in Packages, items \in ItemLists, owners \in SUBSET Users, eligible \in SUBSET Users,
                    asks \in Terms :
    /\ Edited /\ ~Exists(p)
    /\ bundle' = [bundle EXCEPT ![p] = [status |-> "ACTIVE", items |-> items, owners |-> owners, rev |-> 0,
                                        eligible |-> eligible, asks |-> asks]]
    /\ UNCHANGED <<rows, op, faults>>

\* Items and owners are replaced, whatever the status.
UpdatePackage == \E p \in Packages, items \in ItemLists, owners \in SUBSET Users :
    /\ Edited /\ Exists(p)
    /\ bundle' = [bundle EXCEPT ![p].items = items, ![p].owners = owners, ![p].rev = @ + 1]
    /\ UNCHANGED <<rows, op, faults>>

SetPackageEligibility == \E p \in Packages, eligible \in SUBSET Users, asks \in Terms :
    /\ Edited /\ Exists(p) /\ bundle' = [bundle EXCEPT ![p].eligible = eligible, ![p].asks = asks]
    /\ UNCHANGED <<rows, op, faults>>

(***************************************************************************)
(* Roles.  Whether another role has an entitlement is looked up first and  *)
(* written later.                                                          *)
(***************************************************************************)
\* Mutant: a role out of use does not count.
MappedInUse(i, b) == \E r \in Roles \ {b} : Exists(r) /\ bundle[r].status = "ACTIVE" /\ i \in bundle[r].items
MappedElsewhere(i, b) == \E r \in Roles \ {b} : Exists(r) /\ i \in bundle[r].items

Saving(r, row, new) == [kind |-> "save", bundle |-> r, row |-> row, new |-> new]

CreateBusinessRole(q) == \E r \in Roles, items \in SUBSET Items, owners \in SUBSET Users :
    /\ Edited /\ ~Exists(r) /\ \A i \in items : ~MappedElsewhere(i, r)
    /\ Begin(q, Saving(r, [status |-> "DRAFT", items |-> items, owners |-> owners, rev |-> 0, eligible |-> {}, asks |-> "nobody"], TRUE))
    /\ UNCHANGED <<bundle, rows, faults>>

MayBecome(was, to) == was = "ARCHIVED" => to = "ARCHIVED"

UpdateBusinessRole(q) == \E r \in Roles, s \in Status, items \in SUBSET Items, owners \in SUBSET Users :
    /\ Edited /\ Exists(r) /\ MayBecome(bundle[r].status, s)
    /\ items = bundle[r].items \/ \A i \in items : ~MappedElsewhere(i, r)
    /\ Begin(q, Saving(r, [bundle[r] EXCEPT !.status = s, !.items = items, !.owners = owners, !.rev = @ + 1], FALSE))
    /\ UNCHANGED <<bundle, rows, faults>>

\* The constraint of the table, or the role's deletion, may refuse the write.
SaveRole(q) ==
    /\ op[q].kind = "save"
    /\ LET o == op[q] IN
         bundle' = IF Exists(o.bundle) # o.new /\ \A i \in o.row.items \cap OfApps : ~MappedElsewhere(i, o.bundle)
                   THEN [bundle EXCEPT ![o.bundle] = o.row] ELSE bundle
    /\ Ends(q) /\ UNCHANGED <<rows, edits, faults>>

(***************************************************************************)
(* An owner removes one item of a package or a role; it must not be the    *)
(* last.                                                                   *)
(***************************************************************************)
\* Mutant: it may.
Removable(b, i) == i \in bundle[b].items
NotTheLast(b, i) == i \in bundle[b].items /\ Cardinality(bundle[b].items) > 1

OwnerRemoveItem(q) == \E b \in Bundles, i \in Items :
    /\ Edited /\ Exists(b) /\ bundle[b].owners # {} /\ NotTheLast(b, i)
    /\ Begin(q, [kind |-> "remove", bundle |-> b, item |-> i, rev |-> bundle[b].rev])
    /\ UNCHANGED <<bundle, rows, faults>>

\* The item row may have gone meanwhile; then nothing is deleted.
RemoveItem(q) ==
    /\ op[q].kind = "remove"
    /\ LET b == op[q].bundle IN
         bundle' = IF Exists(b) /\ bundle[b].rev = op[q].rev THEN [bundle EXCEPT ![b].items = @ \ {op[q].item}] ELSE bundle
    /\ Ends(q) /\ UNCHANGED <<rows, edits, faults>>

(***************************************************************************)
(* The end of a bundle: archived if it was assigned, deleted otherwise.    *)
(***************************************************************************)
\* _assigned_user_count: SCHEDULED rows and ended ones do not count.
HeldStatuses == {"ELIGIBLE", "PENDING_APPROVAL", "ACTIVE"}
HasHistory(b) == IF b \in Packages THEN \E r \in RowsOf(b) : rows[r].linked
                 ELSE \E r \in RowsOf(b) : rows[r].status \in HeldStatuses

DeleteBundle(q) == \E b \in Bundles :
    /\ Edited /\ Exists(b)
    /\ IF HasHistory(b) THEN MayStart(q) /\ bundle' = [bundle EXCEPT ![b].status = "ARCHIVED"] /\ UNCHANGED op
                        ELSE Begin(q, [kind |-> "delete", bundle |-> b]) /\ UNCHANGED bundle
    /\ UNCHANGED <<rows, faults>>

\* Rows of other tables that still refer to the bundle when it is deleted: items go with
\* it, a role's owners too, a package's owners and principals do not.
Referenced(b) == \/ b \in Roles /\ RowsOf(b) # {}
                 \/ b \in Packages /\ \/ \E r \in RowsOf(b) : rows[r].linked
                                      \/ bundle[b].owners # {} \/ bundle[b].eligible # {}

DropBundle(q) ==
    /\ op[q].kind = "delete"
    /\ LET b == op[q].bundle IN
         bundle' = IF Exists(b) /\ ~Referenced(b) THEN [bundle EXCEPT ![b] = Absent] ELSE bundle
    /\ Ends(q) /\ UNCHANGED <<rows, edits, faults>>

(***************************************************************************)
(* Assignment.                                                             *)
(***************************************************************************)
\* require_workflow_for_high_risk_items.
\* Mutant: of application roles only.
AppsRouted(items, routed) == routed \/ items \cap OfApps \cap HighRisk = {}
AllRouted(items, routed) == routed \/ items \cap HighRisk = {}

Giving(b, members, asks) == [kind |-> "give", bundle |-> b, todo |-> bundle[b].items \X members,
                             asks |-> asks, unlinked |-> 0]

\* assign_package and assign_business_role, to one person or the members of a group.
Assign(q) == \E b \in Bundles, members \in (SUBSET Users) \ {{}}, asks \in Terms :
    /\ Edited /\ bundle[b].status = "ACTIVE" /\ bundle[b].items # {} /\ AllRouted(bundle[b].items, asks = "workflow")
    /\ b \in Roles => Cardinality(members) = 1
    /\ Begin(q, Giving(b, members, asks)) /\ UNCHANGED <<bundle, rows, faults>>

\* request_package: whoever is eligible, for themselves, on the terms of the package.
RequestPackage(q) == \E p \in Packages, u \in Users :
    /\ Edited /\ bundle[p].status = "ACTIVE" /\ u \in bundle[p].eligible /\ bundle[p].items # {}
    /\ AllRouted(bundle[p].items, bundle[p].asks = "workflow")
    /\ Begin(q, Giving(p, {u}, bundle[p].asks)) /\ UNCHANGED <<bundle, rows, faults>>

\* create_assignment for one item of one member; the row of a role refers to it at once.
GiveItem(q) == op[q].kind = "give" /\ op[q].unlinked = 0 /\ \E x \in op[q].todo, ok \in BOOLEAN :
    /\ LET o == op[q] IN
       IF ~ok THEN /\ Count("refused") /\ op' = [op EXCEPT ![q].todo = @ \ {x}] /\ UNCHANGED rows
       ELSE IF o.bundle \in Roles /\ ~Exists(o.bundle) THEN Ends(q) /\ UNCHANGED <<rows, faults>>
       ELSE /\ Len(rows) < MaxRows /\ UNCHANGED faults
            /\ rows' = Append(rows, [bundle |-> o.bundle, item |-> x[1], user |-> x[2], routed |-> o.asks = "workflow",
                                     linked |-> o.bundle \in Roles,
                                     status |-> IF o.asks = "nobody" THEN "ELIGIBLE" ELSE "PENDING_APPROVAL"])
            /\ op' = [op EXCEPT ![q].todo = @ \ {x}, ![q].unlinked = IF o.bundle \in Packages THEN Len(rows') ELSE 0]
    /\ UNCHANGED <<bundle, edits>>

\* The link, unless the package has gone.
LinkItem(q) ==
    /\ op[q].kind = "give" /\ op[q].unlinked # 0
    /\ IF Exists(op[q].bundle) THEN /\ rows' = [rows EXCEPT ![op[q].unlinked].linked = TRUE]
                                    /\ op' = [op EXCEPT ![q].unlinked = 0]
                               ELSE Ends(q) /\ UNCHANGED rows
    /\ UNCHANGED <<bundle, edits, faults>>

GivenAll(q) == /\ op[q].kind = "give" /\ op[q].unlinked = 0 /\ op[q].todo = {}
               /\ Ends(q) /\ UNCHANGED <<bundle, rows, edits, faults>>

\* What becomes of a row (module Assignments): decided, activated, ended.
Steps == {<<"PENDING_APPROVAL", "ELIGIBLE">>, <<"PENDING_APPROVAL", "SCHEDULED">>, <<"SCHEDULED", "ACTIVE">>, <<"ELIGIBLE", "ACTIVE">>}
           \cup {<<s, "FINAL">> : s \in {"PENDING_APPROVAL", "ELIGIBLE", "ACTIVE", "SCHEDULED"}}

AdvanceRow == \E r \in DOMAIN rows, s \in {"ELIGIBLE", "ACTIVE", "SCHEDULED", "FINAL"} :
    /\ <<rows[r].status, s>> \in Steps /\ rows' = [rows EXCEPT ![r].status = s]
    /\ UNCHANGED <<bundle, op, edits, faults>>

Crash == Busy # {} /\ Count("crash") /\ op' = [q \in Admins |-> Idle] /\ UNCHANGED <<bundle, rows, edits>>

Continue(q) == SaveRole(q) \/ RemoveItem(q) \/ DropBundle(q) \/ GiveItem(q) \/ LinkItem(q) \/ GivenAll(q)

Next == \/ CreatePackage \/ UpdatePackage \/ SetPackageEligibility
        \/ \E q \in Admins : \/ CreateBusinessRole(q) \/ UpdateBusinessRole(q) \/ OwnerRemoveItem(q)
                             \/ DeleteBundle(q) \/ Assign(q) \/ RequestPackage(q) \/ Continue(q)
        \/ AdvanceRow \/ Crash

Spec == Init /\ [][Next]_vars

(***************************************************************************)
(* Properties.                                                             *)
(***************************************************************************)
\* Rows are of the shapes of models.py.
TypeOK ==
    /\ bundle \in [Bundles -> Bundle \cup {Absent}] /\ rows \in Seq(Row)
    /\ \A q \in Admins : op[q].kind \in {"idle", "save", "remove", "delete", "give"}

\* Whatever owners and administrators take out of it, a package has an item left.
PackagesHaveItems == \A p \in Packages : Exists(p) => bundle[p].items # {}

\* An entitlement belongs to one role, so that to hold the role always means the same.
OneRole(S) == \A i \in S : Cardinality({r \in Roles : Exists(r) /\ i \in bundle[r].items}) <= 1

\* However a bundle is assembled, edited and handed out, an entitlement of high risk is
\* never given from it without a workflow.
HighRiskRouted == \A r \in DOMAIN rows : rows[r].item \in HighRisk => rows[r].routed

\* Nobody holds anything of a package or role of S that is no longer there.
NothingFromNowhere(S) == \A r \in DOMAIN rows : rows[r].bundle \in S => Exists(rows[r].bundle)

=============================================================================
