--------------------------- MODULE AccessReviews ---------------------------
(***************************************************************************)
(* Access-review campaigns (services/access_reviews.py) and the outcome of *)
(* workflow-routed items (services/workflows.py): a campaign snapshots the *)
(* live grants of its scope as items, reviewers or workflows decide them,  *)
(* a request or the 60 s worker closes what is left, and a recurring or    *)
(* scheduled campaign is followed by the next one.                         *)
(*                                                                         *)
(* A request or a poll of the worker is one session: it keeps the campaign *)
(* it read (`open', `freq' are its own copies), collects changes of items  *)
(* in `writes', and makes them durable together with whatever commits      *)
(* next.  revoke_assignment commits, also when the provider refuses, and   *)
(* so makes the caller's changes durable.  Phases of a session:            *)
(*                                                                         *)
(*   next   take the next pending item    revoke  revoke_assignment        *)
(*   record write the reviewer's decision count   is every item decided?   *)
(*   spawn  create the next campaign      link    set its parent           *)
(*   sweep  next overdue campaign         slots   next due schedule        *)
(*   move   hand the schedule on          rest    the poll's other sweeps  *)
(*                                                                         *)
(* How a grant is really taken away is the subject of Assignments: here    *)
(* revoke_assignment is one step with its three outcomes.                  *)
(***************************************************************************)
EXTENDS Integers, FiniteSets

CONSTANTS
    Campaigns,   \* identities of AccessReviewCampaign rows
    Grants,      \* the AccessAssignment rows in scope
    Requests,    \* API requests in flight
    Bodies,      \* the AccessReviewCampaignCreate bodies that are sent
    Engine,      \* the statuses the assignment engine gives to grants meanwhile
    Edits,       \* the changes update_campaign is asked for
    MaxCampaigns, \* bound: campaigns in all
    MaxChains,   \* bound: campaigns created by hand
    MaxEdits,    \* bound on edits
    MaxInFlight, \* bound: sessions under way at once (1 = serialised)
    MaxClock,    \* bound on the clock
    Faults,      \* which faults happen: "refused", "gone", "crash"
    MaxFaults,   \* bound on how many of them happen
    NoCampaign, NoGrant

NoTime == -1
Standing == {"ELIGIBLE", "ACTIVE"}
Worker == "access-review-worker"
Procs  == Requests \cup {Worker}

Body == [routed : BOOLEAN, keep : BOOLEAN, freq : BOOLEAN, scheduled : BOOLEAN]

ASSUME ConstantsAssumption ==
    /\ Bodies \subseteq Body /\ \A b \in Bodies : ~(b.freq /\ b.scheduled)
    /\ Edits \subseteq {"due", "repeat", "once", "schedule", "unschedule"}
    /\ Engine \subseteq Standing \cup {"REVOKED"}
    /\ {MaxCampaigns, MaxChains, MaxEdits, MaxInFlight, MaxClock, MaxFaults} \subseteq Nat
    /\ NoCampaign \notin Campaigns /\ NoGrant \notin Grants

(***************************************************************************)
(* State.  `chain' of a campaign is history: the campaign its recurrence   *)
(* or schedule began with.                                                 *)
(***************************************************************************)
VARIABLES
    campaigns, \* AccessReviewCampaign rows
    items,     \* items[c][g]: the decision on c's item for g
    instances, \* the items whose WorkflowInstance is PENDING
    grants,    \* status of each AccessAssignment
    op,        \* op[p]: the session of p in flight
    clock, edits, faults

vars == <<campaigns, items, instances, grants, op, clock, edits, faults>>

Undecided == "PENDING"
Taken     == {"REVOKED", "AUTO_REVOKED"}
Decisions == {Undecided, "APPROVED"} \cup Taken
NoItem    == "NONE"

Campaign == [status : {"ACTIVE", "COMPLETED"}, routed : BOOLEAN, keep : BOOLEAN, freq : BOOLEAN,
             next : Int, due : Nat, parent : Campaigns \cup {NoCampaign}, chain : Campaigns]

Absent == [status |-> "ABSENT"]
Idle   == [phase |-> "idle"]

Session == [phase : {"next", "revoke", "record", "count", "spawn", "link"},
            kind : {"decide", "outcome", "complete"}, c : Campaigns, g : Grants \cup {NoGrant},
            decision : Decisions, open : BOOLEAN, freq : BOOLEAN, todo : SUBSET Grants,
            writes : [Grants -> Decisions \cup {NoItem}], child : Campaigns \cup {NoCampaign},
            overdue : SUBSET [c : Campaigns, freq : BOOLEAN]]

Poll == [phase : {"sweep"}, overdue : SUBSET [c : Campaigns, freq : BOOLEAN]]
            \cup [phase : {"slots", "move"}, holders : SUBSET [c : Campaigns, open : BOOLEAN],
                  c : Campaigns \cup {NoCampaign}, child : Campaigns \cup {NoCampaign}]
            \cup [phase : {"rest"}]

Active(c)    == campaigns[c].status = "ACTIVE"
Present(c)   == campaigns[c].status # "ABSENT"
FreeCampaigns == {c \in Campaigns : ~Present(c)}
RowLeft      == FreeCampaigns # {} /\ Cardinality({c \in Campaigns : Present(c)}) < MaxCampaigns
FreshId      == CHOOSE c \in FreeCampaigns : TRUE
NoWrites     == [g \in Grants |-> NoItem]

Init ==
    /\ campaigns = [c \in Campaigns |-> Absent]
    /\ items = [c \in Campaigns |-> NoWrites]
    /\ instances = {}
    /\ grants = [g \in Grants |-> "NONE"]
    /\ op = [p \in Procs |-> Idle]
    /\ clock = 0 /\ edits = 0 /\ faults = 0

Room == Cardinality({q \in Procs : op[q] # Idle}) < MaxInFlight
MayStart(p) == op[p] = Idle /\ Room

Fault(f) == f \in Faults /\ faults < MaxFaults /\ faults' = faults + 1

(***************************************************************************)
(* create_campaign: the campaign, the snapshot of its scope and, if it is  *)
(* routed, an instance per item.  An instance of which every stage is      *)
(* skipped (their conditions are about the item's user) approves its item  *)
(* at once (start_workflow_instance); if all do, the campaign closes.      *)
(***************************************************************************)
InScope == {g \in Grants : grants[g] \in Standing}
Snapshot(skipped) == [g \in Grants |-> IF g \in skipped THEN "APPROVED" ELSE IF g \in InScope THEN Undecided ELSE NoItem]

NewCampaign(b, chain, skipped) ==
    [status |-> IF skipped # {} /\ skipped = InScope THEN "COMPLETED" ELSE "ACTIVE", routed |-> b.routed, keep |-> b.keep, freq |-> b.freq,
     next |-> IF b.scheduled THEN clock + 1 ELSE NoTime, due |-> clock + 1,
     parent |-> NoCampaign, chain |-> chain]

Create(b, chain, skipped) ==
    /\ campaigns' = [campaigns EXCEPT ![FreshId] = NewCampaign(b, chain, skipped)]
    /\ items' = [items EXCEPT ![FreshId] = Snapshot(skipped)]
    /\ instances' = IF b.routed THEN instances \cup {<<FreshId, g>> : g \in InScope \ skipped} ELSE instances
    /\ UNCHANGED <<grants, clock, edits>>

CreateCampaign ==
    /\ Room /\ RowLeft
    /\ Cardinality({campaigns[c].chain : c \in {x \in Campaigns : Present(x)}}) < MaxChains
    /\ \E b \in Bodies : \E skipped \in IF b.routed THEN SUBSET InScope ELSE {{}} : Create(b, FreshId, skipped)
    /\ UNCHANGED <<op, faults>>

(***************************************************************************)
(* update_campaign: an ACTIVE campaign's deadline, repetition or schedule; *)
(* the newer of repetition and schedule wins.                              *)
(***************************************************************************)
Edited(c, e) ==
    CASE e = "due"        -> [c EXCEPT !.due = clock + 1]
      [] e = "repeat"     -> [c EXCEPT !.freq = TRUE, !.next = NoTime]
      [] e = "once"       -> [c EXCEPT !.freq = FALSE]
      [] e = "schedule"   -> [c EXCEPT !.freq = FALSE, !.next = clock + 1]
      [] e = "unschedule" -> [c EXCEPT !.next = NoTime]

UpdateCampaign ==
    /\ Room
    /\ edits < MaxEdits /\ edits' = edits + 1
    /\ \E c \in Campaigns, e \in Edits :
        /\ Active(c)
        /\ campaigns' = [campaigns EXCEPT ![c] = Edited(@, e)]
    /\ UNCHANGED <<items, instances, grants, op, clock, faults>>

(***************************************************************************)
(* A session's own changes, made durable by the next commit of any kind.   *)
(***************************************************************************)
Written(o) == [g \in Grants |-> IF o.writes[g] # NoItem THEN o.writes[g] ELSE items[o.c][g]]
Flush(o) ==
    /\ items' = [items EXCEPT ![o.c] = Written(o)]
    /\ instances' = instances \ {<<o.c, g>> : g \in {x \in Grants : o.writes[x] # NoItem}}
Flushed(o) == [o EXCEPT !.writes = NoWrites]
NoFlush == UNCHANGED <<items, instances>>

\* Where a session goes when it is done with its campaign, or raises: a request ends, the
\* worker takes the next overdue campaign.
Done(p, o) == IF p = Worker THEN [phase |-> "sweep", overdue |-> o.overdue] ELSE Idle

NewSession(kind, c) ==
    [phase |-> "next", kind |-> kind, c |-> c, g |-> NoGrant, decision |-> Undecided,
     open |-> Active(c), freq |-> campaigns[c].freq, todo |-> {}, writes |-> NoWrites,
     child |-> NoCampaign, overdue |-> {}]

(***************************************************************************)
(* decide_item: a reviewer-mode item; the campaign's status is read but    *)
(* not a condition.                                                        *)
(***************************************************************************)

Pending(c, g) == Present(c) /\ items[c][g] = Undecided

DecideItem(p) ==
    /\ MayStart(p)
    /\ \E c \in Campaigns, g \in Grants, d \in {"APPROVED", "REVOKED"} :
        /\ Pending(c, g)
        /\ ~campaigns[c].routed
        /\ op' = [op EXCEPT ![p] = [NewSession("decide", c) EXCEPT
                    !.g = g, !.decision = d, !.phase = IF d = "REVOKED" THEN "revoke" ELSE "record"]]
    /\ UNCHANGED <<campaigns, items, instances, grants, clock, edits, faults>>

Record(p) ==
    /\ op[p].phase = "record"
    /\ LET o == [op[p] EXCEPT !.writes[op[p].g] = op[p].decision] IN
        /\ Flush(o)
        /\ op' = [op EXCEPT ![p] = [Flushed(o) EXCEPT !.phase = "count"]]
    /\ UNCHANGED <<campaigns, grants, clock, edits, faults>>

(***************************************************************************)
(* _apply_access_review_item_outcome: the instance of a routed item ends,  *)
(* decided (decide_stage) or cancelled by its requester.  The decision is  *)
(* set on the item before revoke_assignment is called.                     *)
(***************************************************************************)

Verdict(c, end) ==
    CASE end = "APPROVED"  -> "APPROVED"
      [] end = "REJECTED"  -> "REVOKED"
      [] end = "CANCELLED" -> IF campaigns[c].keep THEN "APPROVED" ELSE "AUTO_REVOKED"

Outcome(o, g, end) ==
    [o EXCEPT !.g = g, !.writes[g] = Verdict(o.c, end),
              !.phase = IF Verdict(o.c, end) \in Taken THEN "revoke" ELSE "count"]

EndInstance(p) ==
    /\ MayStart(p)
    /\ \E i \in instances, end \in {"APPROVED", "REJECTED", "CANCELLED"} :
        op' = [op EXCEPT ![p] = Outcome(NewSession("outcome", i[1]), i[2], end)]
    /\ UNCHANGED <<campaigns, items, instances, grants, clock, edits, faults>>

(***************************************************************************)
(* revoke_assignment, as its callers see it: the grant has already ended   *)
(* (nothing is committed and every caller goes on), it is taken away, or   *)
(* the provider refuses; both the last commit.                             *)
(***************************************************************************)
\* Mutant: only a grant in use has to be revoked.
InUse == {"ACTIVE"}

Revocable == Standing

AfterRevoke(o) ==
    CASE o.kind = "decide" -> [o EXCEPT !.phase = "record"]
      [] o.kind = "outcome" -> [o EXCEPT !.phase = "count"]
      [] o.kind = "complete" ->
            IF campaigns[o.c].routed THEN [o EXCEPT !.phase = "count"]
            ELSE [o EXCEPT !.phase = "next", !.writes[o.g] = "AUTO_REVOKED"]

RevokeGrant(p) ==
    /\ op[p].phase = "revoke"
    /\ \/ /\ grants[op[p].g] \notin Revocable
          /\ op' = [op EXCEPT ![p] = AfterRevoke(@)]
          /\ NoFlush /\ UNCHANGED grants
       \/ /\ grants[op[p].g] \in Revocable
          /\ grants' = [grants EXCEPT ![op[p].g] = "REVOKED"]
          /\ Flush(op[p])
          /\ op' = [op EXCEPT ![p] = AfterRevoke(Flushed(@))]
    /\ UNCHANGED <<campaigns, clock, edits, faults>>

\* The refusal is raised to the caller; only complete_campaign's reviewer-mode loop ignores it.
RevokeRefused(p) ==
    /\ Fault("refused")
    /\ op[p].phase = "revoke"
    /\ grants[op[p].g] = "ACTIVE"
    /\ Flush(op[p])
    /\ op' = [op EXCEPT ![p] = IF @.kind = "complete" /\ ~campaigns[@.c].routed
                               THEN AfterRevoke(Flushed(@)) ELSE Done(p, @)]
    /\ UNCHANGED <<campaigns, grants, clock, edits>>

(***************************************************************************)
(* The last decision closes the campaign, judged by the session's own copy *)
(* of its status and the items as it sees them.                            *)
(***************************************************************************)
AllDecided(o) == \A g \in Grants : Written(o)[g] # Undecided

Completed(c) == [campaigns EXCEPT ![c].status = "COMPLETED"]

\* Mutant: only the closing of a campaign by hand or by the sweep is followed by the next one.
SpawnOnlyWhenClosed(p, o, repeats) ==
    IF repeats /\ o.kind = "complete" THEN [o EXCEPT !.phase = "spawn"]
    ELSE IF o.kind = "complete" THEN [o EXCEPT !.phase = "next"] ELSE Done(p, o)

\* _maybe_spawn_recurrence
MaybeSpawn(p, o, repeats) ==
    IF repeats THEN [o EXCEPT !.phase = "spawn"]
    ELSE IF o.kind = "complete" THEN [o EXCEPT !.phase = "next"] ELSE Done(p, o)

CountLast(p) ==
    /\ op[p].phase = "count"
    /\ AllDecided(op[p]) /\ op[p].open
    /\ Flush(op[p])
    /\ campaigns' = Completed(op[p].c)
    /\ op' = [op EXCEPT ![p] = MaybeSpawn(p, [Flushed(@) EXCEPT !.open = FALSE], @.freq)]
    /\ UNCHANGED <<grants, clock, edits, faults>>

CountMore(p) ==
    /\ op[p].phase = "count"
    /\ ~(AllDecided(op[p]) /\ op[p].open)
    /\ IF op[p].kind = "complete"
       THEN op' = [op EXCEPT ![p].phase = "next"] /\ NoFlush
       ELSE op' = [op EXCEPT ![p] = Done(p, @)] /\ Flush(op[p])
    /\ UNCHANGED <<campaigns, grants, clock, edits, faults>>

(***************************************************************************)
(* complete_campaign: by an administrator, or by the worker for each       *)
(* campaign it listed as overdue (sweep_overdue_campaigns).                *)
(***************************************************************************)
\* Mutant: the items routed through a workflow are left to their instances.
UnroutedItems(c) == {g \in Grants : items[c][g] = Undecided /\ <<c, g>> \notin instances}

PendingItems(c) == {g \in Grants : items[c][g] = Undecided}

CompleteCampaign(p) ==
    /\ MayStart(p)
    /\ \E c \in Campaigns :
        /\ Active(c)
        /\ op' = [op EXCEPT ![p] = [NewSession("complete", c) EXCEPT !.todo = PendingItems(c)]]
    /\ UNCHANGED <<campaigns, items, instances, grants, clock, edits, faults>>

\* Mutant: a campaign is overdue only after its deadline.
PastDue(c) == Active(c) /\ campaigns[c].due < clock

Overdue(c) == Active(c) /\ campaigns[c].due <= clock

StartPoll ==
    /\ MayStart(Worker)
    /\ op' = [op EXCEPT ![Worker] = [phase |-> "sweep",
                overdue |-> {[c |-> c, freq |-> campaigns[c].freq] : c \in {x \in Campaigns : Overdue(x)}}]]
    /\ UNCHANGED <<campaigns, items, instances, grants, clock, edits, faults>>

\* The copy of the campaign is the listing's; the list of its items is read now.
NextOverdue ==
    /\ op[Worker].phase = "sweep"
    /\ \E due \in op[Worker].overdue :
        op' = [op EXCEPT ![Worker] = [NewSession("complete", due.c) EXCEPT
                 !.open = TRUE, !.freq = due.freq, !.todo = PendingItems(due.c),
                 !.overdue = op[Worker].overdue \ {due}]]
    /\ UNCHANGED <<campaigns, items, instances, grants, clock, edits, faults>>

NextItem(p) ==
    /\ op[p].phase = "next"
    /\ \E g \in op[p].todo :
        LET o == [op[p] EXCEPT !.g = g, !.todo = @ \ {g}]
            routed == campaigns[o.c].routed IN
        op' = [op EXCEPT ![p] =
            CASE routed /\ <<o.c, g>> \in instances -> Outcome(o, g, "CANCELLED")
              [] routed /\ <<o.c, g>> \notin instances -> o
              [] ~routed /\ campaigns[o.c].keep -> [o EXCEPT !.writes[g] = "APPROVED"]
              [] ~routed /\ ~campaigns[o.c].keep -> [o EXCEPT !.phase = "revoke"]]
    /\ UNCHANGED <<campaigns, items, instances, grants, clock, edits, faults>>

\* The campaign is read again after this commit, so its repetition is the current one.
CloseCampaign(p) ==
    /\ op[p].phase = "next" /\ op[p].todo = {} /\ op[p].open
    /\ Flush(op[p])
    /\ campaigns' = Completed(op[p].c)
    /\ op' = [op EXCEPT ![p] = MaybeSpawn(p, [Flushed(@) EXCEPT !.open = FALSE], campaigns[@.c].freq)]
    /\ UNCHANGED <<grants, clock, edits, faults>>

\* A routed item's outcome has closed the campaign already.
AlreadyClosed(p) ==
    /\ op[p].phase = "next" /\ op[p].todo = {} /\ ~op[p].open
    /\ op' = [op EXCEPT ![p] = Done(p, @)]
    /\ UNCHANGED <<campaigns, items, instances, grants, clock, edits, faults>>

(***************************************************************************)
(* _maybe_spawn_recurrence: create the next campaign (a commit), then link *)
(* it to this one (another).  A deleted target or reviewer ends the        *)
(* recurrence with a notification.  So does a workflow: create_campaign    *)
(* wants somebody to request its instances, and the actor of a recurrence, *)
(* "system:access-review-recurrence", is no user.                          *)
(***************************************************************************)
Refused(c) == campaigns[c].routed \/ ~RowLeft
Successor(c) == [routed |-> FALSE, keep |-> campaigns[c].keep, freq |-> TRUE, scheduled |-> FALSE]

AfterSpawn(p, o) == IF o.kind = "complete" THEN [o EXCEPT !.phase = "next"] ELSE Done(p, o)

Spawn(p) ==
    /\ op[p].phase = "spawn" /\ ~Refused(op[p].c)
    /\ Create(Successor(op[p].c), campaigns[op[p].c].chain, {})
    /\ op' = [op EXCEPT ![p].phase = "link", ![p].child = FreshId]
    /\ UNCHANGED faults

SpawnFails(p) ==
    /\ op[p].phase = "spawn"
    /\ Fault("gone") \/ (Refused(op[p].c) /\ UNCHANGED faults)
    /\ op' = [op EXCEPT ![p] = AfterSpawn(p, @)]
    /\ UNCHANGED <<campaigns, items, instances, grants, clock, edits>>

Link(p) ==
    /\ op[p].phase = "link"
    /\ campaigns' = [campaigns EXCEPT ![op[p].child].parent = op[p].c]
    /\ op' = [op EXCEPT ![p] = AfterSpawn(p, [@ EXCEPT !.child = NoCampaign])]
    /\ UNCHANGED <<items, instances, grants, clock, edits, faults>>

(***************************************************************************)
(* sweep_scheduled_campaigns: whoever holds a due slot starts the next     *)
(* campaign, or skips the slot while it is open itself.  The body it       *)
(* builds names a reviewer and no workflow, so a routed holder (which has  *)
(* no reviewer) raises past the whole poll: building the body is a         *)
(* ValueError, notifying nobody an IntegrityError.                         *)
(***************************************************************************)
SlotDue(c) == Present(c) /\ campaigns[c].next # NoTime /\ campaigns[c].next <= clock

ListHolders ==
    /\ op[Worker].phase = "sweep" /\ op[Worker].overdue = {}
    /\ op' = [op EXCEPT ![Worker] = [phase |-> "slots", c |-> NoCampaign, child |-> NoCampaign,
                holders |-> {[c |-> c, open |-> Active(c)] : c \in {x \in Campaigns : SlotDue(x)}}]]
    /\ UNCHANGED <<campaigns, items, instances, grants, clock, edits, faults>>

Following(c) == [campaigns EXCEPT ![c].next = clock + 1]

Without(h) == [op EXCEPT ![Worker].holders = @ \ {h}]
MissSlot(h) ==
    /\ campaigns' = Following(h.c)
    /\ op' = Without(h)
    /\ UNCHANGED <<items, instances, grants, clock, edits>>

SkipSlot ==
    /\ \E h \in op[Worker].holders : h.open /\ ~campaigns[h.c].routed /\ MissSlot(h)
    /\ UNCHANGED faults

FailToStart ==
    \E h \in op[Worker].holders :
        /\ ~h.open /\ ~campaigns[h.c].routed
        /\ Fault("gone") \/ (~RowLeft /\ UNCHANGED faults)
        /\ MissSlot(h)

StartNext ==
    /\ \E h \in op[Worker].holders :
        /\ ~h.open /\ ~campaigns[h.c].routed /\ RowLeft
        /\ Create([routed |-> FALSE, keep |-> campaigns[h.c].keep, freq |-> FALSE, scheduled |-> TRUE],
                  campaigns[h.c].chain, {})
        /\ op' = [Without(h) EXCEPT ![Worker].phase = "move", ![Worker].c = h.c, ![Worker].child = FreshId]
    /\ UNCHANGED faults

HandOver(c, d) == [campaigns EXCEPT ![d].parent = c, ![c].next = NoTime]

MoveSchedule ==
    /\ op[Worker].phase = "move"
    /\ campaigns' = HandOver(op[Worker].c, op[Worker].child)
    /\ op' = [op EXCEPT ![Worker].phase = "slots", ![Worker].c = NoCampaign, ![Worker].child = NoCampaign]
    /\ UNCHANGED <<items, instances, grants, clock, edits, faults>>

PollRaises ==
    /\ \E h \in op[Worker].holders : campaigns[h.c].routed
    /\ op' = [op EXCEPT ![Worker] = Idle]
    /\ UNCHANGED <<campaigns, items, instances, grants, clock, edits, faults>>

Slots == op[Worker].phase = "slots" /\ (SkipSlot \/ FailToStart \/ StartNext \/ PollRaises)

OtherSweeps ==
    /\ op[Worker].phase = "slots" /\ op[Worker].holders = {}
    /\ op' = [op EXCEPT ![Worker] = [phase |-> "rest"]]
    /\ UNCHANGED <<campaigns, items, instances, grants, clock, edits, faults>>

EndPoll ==
    /\ op[Worker].phase = "rest"
    /\ op' = [op EXCEPT ![Worker] = Idle]
    /\ UNCHANGED <<campaigns, items, instances, grants, clock, edits, faults>>

(***************************************************************************)
(* Everything else.                                                        *)
(***************************************************************************)
\* The assignment engine: a grant is made, activated, deactivated, or ends.
EngineMoves ==
    /\ \E g \in Grants, s \in Engine :
        /\ grants[g] # "REVOKED" /\ s # grants[g]
        /\ grants[g] = "NONE" => s # "REVOKED"
        /\ grants' = [grants EXCEPT ![g] = s]
    /\ UNCHANGED <<campaigns, items, instances, op, clock, edits, faults>>

Crash ==
    /\ Fault("crash")
    /\ \E p \in Procs : op[p] # Idle
    /\ op' = [p \in Procs |-> Idle]
    /\ UNCHANGED <<campaigns, items, instances, grants, clock, edits>>

Tick ==
    /\ clock < MaxClock
    /\ clock' = clock + 1
    /\ UNCHANGED <<campaigns, items, instances, grants, op, edits, faults>>

Steps(p) ==
    \/ Record(p)
    \/ RevokeGrant(p)
    \/ CountLast(p)
    \/ CountMore(p)
    \/ NextItem(p)
    \/ CloseCampaign(p)
    \/ AlreadyClosed(p)
    \/ Spawn(p)
    \/ SpawnFails(p)
    \/ Link(p)

PollSteps ==
    \/ NextOverdue
    \/ ListHolders
    \/ Slots
    \/ MoveSchedule
    \/ OtherSweeps
    \/ EndPoll

Next ==
    \/ CreateCampaign
    \/ UpdateCampaign
    \/ \E p \in Requests : DecideItem(p) \/ EndInstance(p) \/ CompleteCampaign(p)
    \/ StartPoll
    \/ PollSteps
    \/ \E p \in Procs : Steps(p) \/ RevokeRefused(p)
    \/ EngineMoves
    \/ Crash
    \/ Tick

Spec == Init /\ [][Next]_vars

-----------------------------------------------------------------------------
(***************************************************************************)
(* Correctness.                                                            *)
(***************************************************************************)
\* Every variable keeps its shape: campaigns, items, grants and each session in flight.
TypeOK ==
    /\ campaigns \in [Campaigns -> Campaign \cup {Absent}]
    /\ items \in [Campaigns -> [Grants -> Decisions \cup {NoItem}]]
    /\ instances \subseteq Campaigns \X Grants
    /\ grants \in [Grants -> Standing \cup {"NONE", "REVOKED"}]
    /\ op \in [Procs -> Session \cup Poll \cup {Idle}]
    /\ {clock, edits, faults} \subseteq Nat

\* A closed campaign has no item left undecided, nor an instance still asking for a decision,
\* whichever requests and polls closed it together (complete_campaign, decide_item,
\* _apply_access_review_item_outcome).
ClosedMeansDecided ==
    \A c \in Campaigns, g \in Grants :
        campaigns[c].status = "COMPLETED" => items[c][g] # Undecided /\ <<c, g>> \notin instances

\* An item recorded as revoked, by a reviewer or by the campaign's end, is one whose access
\* has really been taken away: the order of revoke_assignment and the item's own commit in
\* decide_item, complete_campaign and _apply_access_review_item_outcome.
RevocationsReal ==
    \A c \in Campaigns, g \in Grants : items[c][g] \in Taken => grants[g] = "REVOKED"

\* A recurring or scheduled review never has two campaigns open at once, whoever closes the
\* one and starts the next (sweep_scheduled_campaigns, _maybe_spawn_recurrence).
NeverTwoOpen ==
    \A c, d \in Campaigns : c # d /\ Active(c) /\ Active(d) => campaigns[c].chain # campaigns[d].chain

\* With no session half-way, no fault and a campaign row left to use, a closed recurring
\* campaign that reviewers decide has exactly one successor, whichever of the paths closed it.
\* One that a workflow decides has none: "so a periodic review never lapses just because nobody
\* manually re-created it" (access_reviews.py:438) is not true of it.
Repeats(c) == {d \in Campaigns : Present(d) /\ campaigns[d].parent = c}
RecurrenceContinues ==
    (\A p \in Procs : op[p] = Idle) /\ faults = 0 /\ RowLeft =>
        \A c \in Campaigns : campaigns[c].status = "COMPLETED" /\ campaigns[c].freq =>
            Cardinality(Repeats(c)) = IF campaigns[c].routed THEN 0 ELSE 1

(***************************************************************************)
(* The worker polls for ever, a poll takes every campaign it listed, and a *)
(* session that was started ends.  Requests are not obliged to arrive.     *)
(***************************************************************************)
Fairness ==
    /\ SF_vars(StartPoll)
    /\ WF_vars(PollSteps)
    /\ \A p \in Procs : WF_vars(Steps(p))

FairSpec == Spec /\ Fairness

\* Campaigns past their deadline are closed, or their deadline moved, until none is left,
\* whatever was refused or cut off on the way (sweep_overdue_campaigns: one bad campaign never
\* stops the others).
SomeLate      == \E c \in Campaigns : Active(c) /\ campaigns[c].due <= clock
OverdueCloses == SomeLate ~> ~SomeLate

=============================================================================
