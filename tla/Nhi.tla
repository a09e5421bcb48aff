-------------------------------- MODULE Nhi --------------------------------
(***************************************************************************)
(* Governance of non-human identities: their rows and the identities at    *)
(* the provider (services/nhi.py), who owns them, accepted risks, reviews  *)
(* of ownership (services/nhi_reviews.py) and notifications of risks       *)
(* (services/nhi_notifications.py).                                        *)
(*                                                                         *)
(* Handlers that take several commits or calls are taken apart:            *)
(*   enable    call the provider, save the status                          *)
(*   register  create at the provider, save row and owner                  *)
(*   sync      read the provider's list, save it; refresh saves one of it  *)
(*   decide    [remove the owner,] save, close the campaign, spawn, link   *)
(*   outcome   of a workflow: judge, save, spawn                           *)
(*   leave     one identity at a time: resolve its items, remove the owner *)
(*   look      scan the identities, then read and tell, type by type       *)
(***************************************************************************)
EXTENDS Naturals, FiniteSets, Sequences, SequencesExt

CONSTANTS
    Apps, People,
    Admins, Worker,
    Settings,                                    \* values of NhiNotificationSettings
    MaxCampaigns, MaxEdits, MaxInFlight,         \* bounds
    FaultLimit                                   \* FaultLimit[f]: bound on how often fault f happens

Procs  == Admins \cup {Worker}
Faults == {"lost", "crash"}
Risks  == {"NO_OWNER", "EXPIRING", "EXPIRED"}
Turn   == [NO_OWNER |-> 1, EXPIRING |-> 2, EXPIRED |-> 3]
Keys   == Risks \X Apps

VARIABLES
    there,      \* there[a]: the identity at the provider, or None
    row,        \* row[a]: its row in applications, or None
    owners,     \* application_owners: pairs of identity and person
    accepted,   \* pairs of risk and identity with an exception in force
    settings,   \* the risks told of
    notes,      \* notes[k]: unresolved notifications of risk and identity k
    campaigns,  \* nhi_review_campaigns with their items, in the order of creation
    op,         \* op[q]: the handler q runs
    edits, faults

identities == <<there, row>>
risks      == <<accepted, settings, notes>>
vars       == <<identities, owners, risks, campaigns, op, edits, faults>>

None == [status |-> "NONE"]
\* credential: "far" from its end, "soon" to end, or "ended".
Identity == [status : {"ACTIVE", "DISABLED"}, credential : {"far", "soon", "ended"}]
\* chosen: nhi_type_overridden.
Rows     == [status : {"ACTIVE", "DISABLED"}, credential : {"far", "soon", "ended"}, chosen : BOOLEAN]
Campaign == [routed : BOOLEAN, recurring : BOOLEAN, status : {"ACTIVE", "COMPLETED"}, parent : Nat,
             items : UNION {[S -> {"PENDING", "CONFIRMED", "OWNER_REMOVED", "OWNER_REMOVED_LEAVER"}] : S \in SUBSET (Apps \X People)}]
Idle     == [kind |-> "idle"]

Init == /\ there \in [Apps -> {None, [status |-> "ACTIVE", credential |-> "far"]}] /\ row = [a \in Apps |-> None]
        /\ owners = {} /\ accepted = {} /\ settings \in Settings /\ notes = [k \in Keys |-> 0] /\ campaigns = <<>>
        /\ op = [q \in Procs |-> Idle] /\ edits = 0 /\ faults = [f \in Faults |-> 0]

Busy        == {q \in Procs : op[q] # Idle}
MayStart(q) == op[q] = Idle /\ Cardinality(Busy) < MaxInFlight
Edited      == edits < MaxEdits /\ edits' = edits + 1
Count(f)    == faults[f] < FaultLimit[f] /\ faults' = [faults EXCEPT ![f] = @ + 1]
Start(q, o) == MayStart(q) /\ op' = [op EXCEPT ![q] = o]
Goes(q, o)  == op' = [op EXCEPT ![q] = o]
Ends(q)     == op' = [op EXCEPT ![q] = Idle]
Known       == {a \in Apps : row[a] # None}
Exist       == {a \in Apps : there[a] # None}

(***************************************************************************)
(* The identities.                                                         *)
(***************************************************************************)
\* The provider, by other hands: appears, is switched, gets a new credential.
ChangeThere == \E a \in Apps : \E s \in {"ACTIVE", "DISABLED"} :
    /\ Edited /\ there' = [there EXCEPT ![a] = [status |-> s, credential |-> "far"]] /\ there' # there
    /\ UNCHANGED <<row, owners, risks, campaigns, op, faults>>

Aged(i) == IF i = None THEN i ELSE [i EXCEPT !.credential = IF @ = "far" THEN "soon" ELSE "ended"]
TimePasses == \E a \in Apps : /\ Edited /\ there' = [there EXCEPT ![a] = Aged(@)] /\ row' = [row EXCEPT ![a] = Aged(@)]
                              /\ <<there, row>>' # <<there, row>> /\ UNCHANGED <<owners, risks, campaigns, op, faults>>

\* Mutant: only what is new is saved.
OnlyMissing(r, i) == IF r = None THEN [status |-> i.status, credential |-> i.credential, chosen |-> FALSE] ELSE r
\* A type chosen by hand is kept.
Upserted(r, i) == [status |-> i.status, credential |-> i.credential, chosen |-> r # None /\ r.chosen]

SyncRead == /\ Start(Worker, [kind |-> "sync", seen |-> there])
            /\ UNCHANGED <<identities, owners, risks, campaigns, edits, faults>>
SyncSave == /\ op[Worker].kind = "sync" /\ Ends(Worker)
            /\ LET seen == op[Worker].seen IN row' = [a \in Apps |-> IF seen[a] = None THEN row[a] ELSE Upserted(row[a], seen[a])]
            /\ UNCHANGED <<there, owners, risks, campaigns, edits, faults>>

RefreshRead(q) == \E a \in Known : /\ Edited /\ Start(q, [kind |-> "refresh", app |-> a, seen |-> there[a]])
                                   /\ UNCHANGED <<identities, owners, risks, campaigns, faults>>
RefreshSave(q) == /\ op[q].kind = "refresh" /\ Ends(q) /\ row' = [row EXCEPT ![op[q].app] = Upserted(@, op[q].seen)]
                  /\ UNCHANGED <<there, owners, risks, campaigns, edits, faults>>

SetNhiType == \E a \in Known : /\ Edited /\ ~row[a].chosen /\ row' = [row EXCEPT ![a].chosen = TRUE]
                               /\ UNCHANGED <<there, owners, risks, campaigns, op, faults>>

\* The answer of a call that worked may be lost: an error for the caller.
SetEnabled(q) == \E a \in Known, s \in {"ACTIVE", "DISABLED"} :
    /\ Edited /\ MayStart(q) /\ there' = [there EXCEPT ![a].status = s]
    /\ \/ Goes(q, [kind |-> "enable", app |-> a, status |-> s]) /\ UNCHANGED faults
       \/ Count("lost") /\ UNCHANGED op
    /\ UNCHANGED <<row, owners, risks, campaigns>>
SaveEnabled(q) == /\ op[q].kind = "enable" /\ Ends(q) /\ row' = [row EXCEPT ![op[q].app].status = op[q].status]
                  /\ UNCHANGED <<there, owners, risks, campaigns, edits, faults>>

\* A name already taken at the provider is a conflict.
Register(q) == \E a \in Apps \ Exist, u \in People :
    /\ Edited /\ MayStart(q) /\ there' = [there EXCEPT ![a] = [status |-> "ACTIVE", credential |-> "far"]]
    /\ \/ Goes(q, [kind |-> "register", app |-> a, owner |-> u]) /\ UNCHANGED faults
       \/ Count("lost") /\ UNCHANGED op
    /\ UNCHANGED <<row, owners, risks, campaigns>>
\* A sync may have made the row meanwhile: its key is unique and nothing is saved.
SaveRegistered(q) ==
    /\ op[q].kind = "register" /\ Ends(q)
    /\ LET a == op[q].app IN
       IF a \in Known THEN UNCHANGED <<row, owners>>
       ELSE /\ row' = [row EXCEPT ![a] = [status |-> "ACTIVE", credential |-> "far", chosen |-> TRUE]]
            /\ owners' = owners \cup {<<a, op[q].owner>>}
    /\ UNCHANGED <<there, risks, campaigns, edits, faults>>

(***************************************************************************)
(* Owners and accepted risks.                                              *)
(***************************************************************************)
AssignOwner == \E a \in Known, u \in People : /\ Edited /\ <<a, u>> \notin owners /\ owners' = owners \cup {<<a, u>>}
                                              /\ UNCHANGED <<identities, risks, campaigns, op, faults>>
RemoveOwner == \E o \in owners : /\ Edited /\ owners' = owners \ {o}
                                 /\ UNCHANGED <<identities, risks, campaigns, op, faults>>

AcceptRisk == \E k \in Keys : /\ Edited /\ k[2] \in Known /\ k \notin accepted /\ accepted' = accepted \cup {k}
                              /\ UNCHANGED <<identities, owners, settings, notes, campaigns, op, faults>>
\* Revoked, or run out.
AcceptanceEnds == \E k \in accepted : /\ Edited /\ accepted' = accepted \ {k}
                                      /\ UNCHANGED <<identities, owners, settings, notes, campaigns, op, faults>>
UpdateSettings == \E s \in Settings : /\ Edited /\ s # settings /\ settings' = s
                                      /\ UNCHANGED <<identities, owners, accepted, notes, campaigns, op, faults>>

OwnersOf(a) == {u \in People : <<a, u>> \in owners}
AtRisk(a) == {k \in Risks : CASE k = "NO_OWNER" -> OwnersOf(a) = {}
                              [] k = "EXPIRING" -> row[a].credential = "soon"
                              [] k = "EXPIRED"  -> row[a].credential = "ended"}
Flagged == {k \in Keys : k[2] \in Known /\ k[1] \in AtRisk(k[2]) /\ k \notin accepted}

(***************************************************************************)
(* Reviews of ownership.                                                   *)
(***************************************************************************)
Pending(c)  == {i \in DOMAIN campaigns[c].items : campaigns[c].items[i] = "PENDING"}
Snapshot(routed, recurring, parent) ==
    [routed |-> routed, recurring |-> recurring, status |-> "ACTIVE", parent |-> parent, items |-> [i \in owners |-> "PENDING"]]
\* The next campaign of one routed to a workflow fails: nobody is found who asked for it.
Recurs(c) == campaigns[c].recurring /\ ~campaigns[c].routed
Spawning(q) == op[q].kind \in {"decide", "remove", "count", "spawn"} /\ Recurs(op[q].campaign)
RoomForCampaign == Len(campaigns) + Cardinality({q \in Procs : Spawning(q)}) < MaxCampaigns
Decided(c, i, d) == [campaigns EXCEPT ![c].items[i] = d]

CreateCampaign == \E routed, recurring \in BOOLEAN :
    /\ Edited /\ RoomForCampaign /\ campaigns' = Append(campaigns, Snapshot(routed, recurring, 0))
    /\ UNCHANGED <<identities, owners, risks, op, faults>>

\* active: the campaign as the handler first read it.
Decide(q) == \E c \in DOMAIN campaigns : \E i \in Pending(c), d \in {"CONFIRMED", "OWNER_REMOVED"} :
    /\ ~campaigns[c].routed /\ (Recurs(c) => RoomForCampaign)
    /\ Start(q, [kind |-> IF d = "CONFIRMED" THEN "decide" ELSE "remove", campaign |-> c, item |-> i, verdict |-> d,
                 active |-> campaigns[c].status = "ACTIVE"])
    /\ UNCHANGED <<identities, owners, risks, campaigns, edits, faults>>

DecideRemove(q) == /\ op[q].kind = "remove" /\ owners' = owners \ {op[q].item} /\ Goes(q, [op[q] EXCEPT !.kind = "decide"])
                   /\ UNCHANGED <<identities, risks, campaigns, edits, faults>>
DecideSave(q) == /\ op[q].kind = "decide" /\ campaigns' = Decided(op[q].campaign, op[q].item, op[q].verdict)
                 /\ Goes(q, [op[q] EXCEPT !.kind = "count"])
                 /\ UNCHANGED <<identities, owners, risks, edits, faults>>

\* Mutant: a campaign is closed at its first decision.
AnyDecided(c, active) == active
AllDecided(c, active) == active /\ Pending(c) = {}
CloseIfDone(q) ==
    /\ op[q].kind = "count"
    /\ LET c == op[q].campaign IN
       IF AllDecided(c, op[q].active)
       THEN campaigns' = [campaigns EXCEPT ![c].status = "COMPLETED"] /\ Goes(q, [kind |-> "spawn", campaign |-> c])
       ELSE UNCHANGED campaigns /\ Ends(q)
    /\ UNCHANGED <<identities, owners, risks, edits, faults>>

Spawn(q) == /\ op[q].kind = "spawn"
            /\ IF Recurs(op[q].campaign)
               THEN /\ campaigns' = Append(campaigns, Snapshot(FALSE, TRUE, 0))
                    /\ Goes(q, [kind |-> "link", campaign |-> op[q].campaign, child |-> Len(campaigns) + 1])
               ELSE UNCHANGED campaigns /\ Ends(q)
            /\ UNCHANGED <<identities, owners, risks, edits, faults>>
Link(q) == /\ op[q].kind = "link" /\ campaigns' = [campaigns EXCEPT ![op[q].child].parent = op[q].campaign] /\ Ends(q)
           /\ UNCHANGED <<identities, owners, risks, edits, faults>>

\* The outcome of an item's workflow instance: approved and cancelled confirm, rejected
\* removes.  last: of the items saved by others none else is pending.
Judge(q) == \E c \in DOMAIN campaigns : \E i \in Pending(c), d \in {"CONFIRMED", "OWNER_REMOVED"} :
    /\ campaigns[c].routed /\ \A p \in Busy : ~(op[p].kind = "judge" /\ op[p].campaign = c /\ op[p].item = i)
    /\ Start(q, [kind |-> "judge", campaign |-> c, item |-> i, verdict |-> d,
                 active |-> campaigns[c].status = "ACTIVE", last |-> Pending(c) = {i}])
    /\ UNCHANGED <<identities, owners, risks, campaigns, edits, faults>>

\* Removing an owner saves the item too, before the count.
JudgeSave(q) ==
    /\ op[q].kind = "judge"
    /\ LET o == op[q]
           saved   == Decided(o.campaign, o.item, o.verdict)
           removes == o.verdict = "OWNER_REMOVED" /\ o.item \in owners
           closes  == ~removes /\ o.last /\ o.active
       IN
       /\ owners' = IF removes THEN owners \ {o.item} ELSE owners
       /\ campaigns' = IF closes THEN [saved EXCEPT ![o.campaign].status = "COMPLETED"] ELSE saved
       /\ CASE removes -> Goes(q, [o EXCEPT !.kind = "count"])
            [] closes  -> Goes(q, [kind |-> "spawn", campaign |-> o.campaign])
            [] OTHER   -> Ends(q)
    /\ UNCHANGED <<identities, risks, edits, faults>>

(***************************************************************************)
(* run_leaver drops the ownerships of a person.                            *)
(***************************************************************************)
Leave(q) == \E u \in People : LET todo == {a \in Apps : u \in OwnersOf(a)} IN
    /\ Edited /\ todo # {} /\ Start(q, [kind |-> "leave", who |-> u, at |-> <<>>, todo |-> todo])
    /\ UNCHANGED <<identities, owners, risks, campaigns, faults>>
\* Mutant: in no campaign at all.
NoneOf(i) == campaigns
Resolved(i) == [c \in DOMAIN campaigns |-> IF i \in Pending(c) THEN [campaigns[c] EXCEPT !.items[i] = "OWNER_REMOVED_LEAVER"] ELSE campaigns[c]]
ResolveItems(q) == /\ op[q].kind = "leave" /\ op[q].at = <<>>
                   /\ \E a \in op[q].todo : /\ campaigns' = Resolved(<<a, op[q].who>>)
                                            /\ Goes(q, [op[q] EXCEPT !.at = <<a>>])
                   /\ UNCHANGED <<identities, owners, risks, edits, faults>>
DropOwner(q) == /\ op[q].kind = "leave" /\ op[q].at # <<>>
                /\ LET a == op[q].at[1] rest == op[q].todo \ {a} IN
                   /\ owners' = owners \ {<<a, op[q].who>>}
                   /\ IF rest = {} THEN Ends(q) ELSE Goes(q, [op[q] EXCEPT !.at = <<>>, !.todo = rest])
                /\ UNCHANGED <<identities, risks, campaigns, edits, faults>>

(***************************************************************************)
(* Notifications: reconciled when somebody looks, type by type.            *)
(***************************************************************************)
OpenOf(r) == {k \in Keys : k[1] = r /\ notes[k] > 0}
\* Mutant: what has been resolved stays open.
OnlyNew(k, wanted, open) == IF k \in wanted \ open THEN notes[k] + 1 ELSE notes[k]
Updated(k, wanted, open) == IF k \in wanted \ open THEN notes[k] + 1 ELSE IF k \in open \ wanted THEN 0 ELSE notes[k]

\* topics: those still to come, the risks told of; they are taken in the order of Turn.
Topic(topics) == CHOOSE r \in topics : \A x \in topics : Turn[r] <= Turn[x]
LookAt(q) == /\ Edited /\ Start(q, [kind |-> "look", flagged |-> Flagged, topics |-> {r \in Risks : r \in settings}])
             /\ UNCHANGED <<identities, owners, risks, campaigns, faults>>
Read(q) == /\ op[q].kind = "look" /\ op[q].topics # {}
           /\ Goes(q, [kind |-> "tell", flagged |-> op[q].flagged, topics |-> op[q].topics, open |-> OpenOf(Topic(op[q].topics))])
           /\ UNCHANGED <<identities, owners, risks, campaigns, edits, faults>>
Tell(q) == /\ op[q].kind = "tell"
           /\ LET o == op[q] wanted == {k \in o.flagged : k[1] = Topic(o.topics)} IN
              /\ notes' = [k \in Keys |-> Updated(k, wanted, o.open)]
              /\ Goes(q, [kind |-> "look", flagged |-> o.flagged, topics |-> o.topics \ {Topic(o.topics)}])
           /\ UNCHANGED <<identities, owners, accepted, settings, campaigns, edits, faults>>
Told(q) == /\ op[q].kind = "look" /\ op[q].topics = {} /\ Ends(q)
           /\ UNCHANGED <<identities, owners, risks, campaigns, edits, faults>>

Crash == /\ Busy # {} /\ Count("crash") /\ op' = [q \in Procs |-> Idle]
         /\ UNCHANGED <<identities, owners, risks, campaigns, edits>>

Begin(q)    == \/ RefreshRead(q) \/ SetEnabled(q) \/ Register(q) \/ Decide(q) \/ Judge(q) \/ Leave(q) \/ LookAt(q)
Continue(q) == \/ RefreshSave(q) \/ SaveEnabled(q) \/ SaveRegistered(q)
               \/ DecideRemove(q) \/ DecideSave(q) \/ CloseIfDone(q) \/ Spawn(q) \/ Link(q) \/ JudgeSave(q)
               \/ ResolveItems(q) \/ DropOwner(q) \/ Read(q) \/ Tell(q) \/ Told(q)
Sync        == SyncRead \/ SyncSave

Next == \/ ChangeThere \/ TimePasses \/ SetNhiType \/ AssignOwner \/ RemoveOwner
        \/ AcceptRisk \/ AcceptanceEnds \/ UpdateSettings \/ CreateCampaign
        \/ \E q \in Admins : Begin(q) \/ Continue(q)
        \/ Sync \/ Crash

\* The worker syncs and every handler goes on; nothing else need happen.
Fairness == WF_vars(Sync) /\ \A q \in Admins : WF_vars(Continue(q))
Spec     == Init /\ [][Next]_vars
FairSpec == Spec /\ Fairness

(***************************************************************************)
(* Properties.                                                             *)
(***************************************************************************)
\* Identities, rows, campaigns and notifications are of the shapes of models.py, and what
\* they refer to is there.
TypeOK == /\ there \in [Apps -> Identity \cup {None}] /\ row \in [Apps -> Rows \cup {None}]
          /\ owners \subseteq Known \X People /\ notes \in [Keys -> Nat]
          /\ campaigns \in Seq(Campaign) /\ \A c \in DOMAIN campaigns : campaigns[c].parent \in 0..Len(campaigns)

\* A campaign of which every item has been decided is closed, unless a leaver's went last.
Closing(c) == \E q \in Procs : op[q].kind = "count" /\ op[q].campaign = c
CampaignsClose == \A c \in DOMAIN campaigns : LET items == campaigns[c].items IN
    /\ campaigns[c].status = "COMPLETED" => Pending(c) = {}
    /\ campaigns[c].status = "ACTIVE" /\ Pending(c) = {} /\ DOMAIN items # {} =>
         Closing(c) \/ \E i \in DOMAIN items : items[i] = "OWNER_REMOVED_LEAVER"

\* A closed recurring campaign decided by people has one successor.
Children(c) == {d \in DOMAIN campaigns : campaigns[d].parent = c}
OneSuccessor == \A c \in DOMAIN campaigns : Recurs(c) =>
    IF campaigns[c].status = "ACTIVE" THEN Children(c) = {}
    ELSE Cardinality(Children(c)) + Cardinality({q \in Procs : op[q].kind \in {"spawn", "link"} /\ op[q].campaign = c}) = 1

\* Nobody is asked to confirm an ownership that a leaver's process has taken away.
LeaverDrops(q) == op[q].kind = "leave" /\ op[q].at # <<>> /\ op'[q] # op[q] /\ owners' # owners
LeaverNotAsked == \A q \in Admins : LeaverDrops(q) => \A c \in DOMAIN campaigns : <<op[q].at[1], op[q].who>> \notin Pending(c)

\* Once somebody has looked, each risk told of has exactly one notification open.
Noted == \A q \in Admins : op[q].kind = "look" /\ op[q].topics = {} =>
    \A k \in Keys : k[1] \in settings => notes[k] = IF k \in Flagged THEN 1 ELSE 0

\* What handlers saved out of turn, or not at all, the sync puts right in the end.
Agrees(a)     == there[a] # None => row[a] # None /\ row[a].status = there[a].status /\ row[a].credential = there[a].credential
RowsCatchUp == <>[](\A a \in Apps : Agrees(a))
=============================================================================
