------------------------ MODULE AccessReviewsProofs ------------------------
(***************************************************************************)
(* Proofs about AccessReviews, for any campaigns, grants, bodies, edits    *)
(* and faults: the type invariant; that a closed campaign has nothing left *)
(* to decide; that what is recorded as revoked is, as long as the provider *)
(* refuses nothing; and that with one session at a time a recurring review *)
(* that reviewers decide goes on, one campaign after the other.            *)
(*                                                                         *)
(* A session closes a campaign long after it listed what is undecided, so  *)
(* the invariant says of each session that closes one what has become of   *)
(* the items since (Sound), and of the rows that a routed item waits for   *)
(* an instance exactly as long as it is undecided (Coherent).  The frame   *)
(* is that no step makes an item undecided again (Keeps).                  *)
(*                                                                         *)
(* A session also holds verdicts it has not written yet: those that say    *)
(* revoked are of grants that are (Backed), and so are those written       *)
(* (RealInv).  Alone, it knows the campaigns as they are, and of each      *)
(* chain one campaign is alive (AloneReviews).                             *)
(*                                                                         *)
(* Both widths of the runs take the steps of AnyNext, which leaves out     *)
(* their bounds: what holds of it holds of Next and of Races!Next.         *)
(***************************************************************************)
EXTENDS MCAccessReviews, FiniteSetTheorems, TLAPS

Sessions == Session \cup Poll \cup {Idle}

There(c, C) == C[c].status # "ABSENT"

\* What a session knows of the campaigns C and the items I.
Sound(o, C, I) ==
    /\ o \in Session =>
        /\ There(o.c, C) /\ \A x \in o.overdue : There(x.c, C)
        /\ o.child # NoCampaign => There(o.child, C)
        /\ o.phase = "link" => o.child # NoCampaign
        /\ o.phase = "next" => o.kind = "complete"
        /\ \A g \in Grants : o.writes[g] # Undecided
        /\ o.phase = "record" \/ (o.phase = "revoke" /\ o.kind = "decide") => o.decision # Undecided
        /\ o.kind = "complete" => \A g \in Grants : I[o.c][g] = Undecided =>
                g \in o.todo \/ o.writes[g] # NoItem \/ (o.phase = "revoke" /\ o.g = g /\ ~C[o.c].routed)
    /\ o.phase = "sweep" => \A x \in o.overdue : There(x.c, C)
    /\ o.phase \in {"slots", "move"} => \A h \in o.holders : There(h.c, C)
    /\ o.phase = "move" => /\ o.c # NoCampaign /\ o.child # NoCampaign
                           /\ There(o.c, C) /\ There(o.child, C)

\* How campaigns, items and instances fit together.
Coherent(C, I, W) ==
    /\ \A c \in Campaigns, g \in Grants :
        /\ C[c].status = "COMPLETED" => I[c][g] # Undecided
        /\ <<c, g>> \in W => I[c][g] = Undecided /\ There(c, C)
        /\ There(c, C) /\ C[c].routed /\ I[c][g] = Undecided => <<c, g>> \in W

ClosedInv ==
    /\ TypeOK
    /\ Coherent(campaigns, items, instances)
    /\ \A p \in Procs : Sound(op[p], campaigns, items)

LEMMA InvImpliesClosed == ClosedInv => ClosedMeansDecided
BY DEF ClosedInv, Coherent, ClosedMeansDecided

\* D and J come later than C and I.
Keeps(C, I, D, J) ==
    \A c \in Campaigns : There(c, C) =>
        /\ There(c, D) /\ D[c].routed = C[c].routed
        /\ \A g \in Grants : J[c][g] = Undecided => I[c][g] = Undecided

LEMMA SoundStays ==
    ASSUME NEW C, NEW I, NEW D, NEW J, Keeps(C, I, D, J), NEW o \in Sessions, Sound(o, C, I)
    PROVE  Sound(o, D, J)
<1>1. CASE o \in Session
    <2>1. o.c \in Campaigns /\ (o.child # NoCampaign => o.child \in Campaigns) /\ \A x \in o.overdue : x.c \in Campaigns
        BY <1>1 DEF Session
    <2>2. o.phase \notin {"sweep", "slots", "move"}
        BY <1>1 DEF Session
    <2>. QED
        BY <1>1, <2>1, <2>2 DEF Sound, Keeps
<1>2. CASE o \in Poll
    <2>1. o \notin Session
        BY <1>2 DEF Session, Poll
    <2>2. o.phase = "sweep" => \A x \in o.overdue : x.c \in Campaigns
        BY <1>2 DEF Poll
    <2>3. o.phase \in {"slots", "move"} => /\ \A h \in o.holders : h.c \in Campaigns
                                           /\ o.c \in Campaigns \cup {NoCampaign} /\ o.child \in Campaigns \cup {NoCampaign}
        BY <1>2 DEF Poll
    <2>. QED
        BY <2>1, <2>2, <2>3 DEF Sound, Keeps
<1>3. CASE o = Idle
    <2>1. o \notin Session /\ o.phase = "idle"
        BY <1>3 DEF Session, Idle
    <2>. QED
        BY <2>1 DEF Sound
<1>. QED
    BY <1>1, <1>2, <1>3 DEF Sessions

LEMMA IdleSound == Idle \in Sessions /\ \A C, I : Sound(Idle, C, I)
BY DEF Sessions, Idle, Sound, Session

\* The variables other than op, as TypeOK has them.
Typed ==
    /\ campaigns \in [Campaigns -> Campaign \cup {Absent}]
    /\ items \in [Campaigns -> [Grants -> Decisions \cup {NoItem}]]
    /\ instances \subseteq Campaigns \X Grants
    /\ grants \in [Grants -> Standing \cup {"NONE", "REVOKED"}]
    /\ clock \in Nat /\ edits \in Nat /\ faults \in Nat

LEMMA TypedNow == ASSUME ClosedInv PROVE Typed /\ op \in [Procs -> Sessions]
BY DEF ClosedInv, TypeOK, Typed, Sessions

\* A step in which session p, if any, becomes h.
LEMMA Moves ==
    ASSUME ClosedInv, Typed', Keeps(campaigns, items, campaigns', items'), Coherent(campaigns', items', instances'),
           NEW p \in Procs, NEW h \in Sessions, Sound(h, campaigns', items'), op' = op \/ op' = [op EXCEPT ![p] = h]
    PROVE  ClosedInv'
<1>1. op \in [Procs -> Sessions] /\ op' \in [Procs -> Sessions]
    BY TypedNow
<1>2. TypeOK'
    BY <1>1 DEF TypeOK, Typed, Sessions
<1>3. ASSUME NEW q \in Procs PROVE Sound(op'[q], campaigns', items')
    <2>1. op[q] \in Sessions /\ Sound(op[q], campaigns, items)
        BY <1>1 DEF ClosedInv
    <2>2. Sound(op[q], campaigns', items')
        BY <2>1, SoundStays
    <2>3. op'[q] = h \/ op'[q] = op[q]
        BY <1>1
    <2>. QED
        BY <2>2, <2>3
<1>. QED
    BY <1>2, <1>3 DEF ClosedInv

LEMMA SomeProc == Worker \in Procs
BY DEF Procs

\* A step of which campaigns, items and instances know nothing.
LEMMA Aside ==
    ASSUME ClosedInv, UNCHANGED <<campaigns, items, instances>>, Typed',
           NEW p \in Procs, NEW h \in Sessions, Sound(h, campaigns, items), op' = op \/ op' = [op EXCEPT ![p] = h]
    PROVE  ClosedInv'
<1>1. Keeps(campaigns, items, campaigns', items')
    BY DEF Keeps
<1>2. Coherent(campaigns', items', instances') /\ Sound(h, campaigns', items')
    BY DEF ClosedInv
<1>. QED
    BY <1>1, <1>2, Moves

\* A step of one session's plans only.
LEMMA Plans ==
    ASSUME ClosedInv, UNCHANGED <<campaigns, items, instances, grants, clock, edits>>, faults' \in Nat,
           NEW p \in Procs, NEW h \in Sessions, Sound(h, campaigns, items), op' = [op EXCEPT ![p] = h]
    PROVE  ClosedInv'
<1>1. Typed'
    BY TypedNow DEF Typed
<1>. QED
    BY <1>1, Aside

-----------------------------------------------------------------------------
(***************************************************************************)
(* The steps without TLC's bounds.  A step of AccessReviews is one of      *)
(* these whatever its bounds, bodies, edits and faults are, and so is a    *)
(* step of either width of MCAccessReviews.                                *)
(***************************************************************************)
Counted == faults' = faults \/ faults' = faults + 1

\* Only an item routed through a workflow may be approved as it is made.
Skips(b, skipped) == skipped \subseteq InScope /\ (skipped = {} \/ b.routed)

AnyCreate ==
    /\ FreeCampaigns # {}
    /\ \E b \in Body, skipped \in SUBSET Grants : Skips(b, skipped) /\ Create(b, FreshId, skipped)
    /\ UNCHANGED <<op, faults>>

AnyUpdate ==
    /\ edits' = edits + 1
    /\ \E c \in Campaigns, e \in {"due", "repeat", "once", "schedule", "unschedule"} :
        /\ Active(c)
        /\ campaigns' = [campaigns EXCEPT ![c] = Edited(campaigns[c], e)]
    /\ UNCHANGED <<items, instances, grants, op, clock, faults>>

\* A session starts, or goes on without writing anything: it becomes h.
Turns(p, h) ==
    /\ op' = [op EXCEPT ![p] = h]
    /\ UNCHANGED <<campaigns, items, instances, grants, clock, edits, faults>>

Deciding(c, g, d) ==
    [NewSession("decide", c) EXCEPT !.g = g, !.decision = d, !.phase = IF d = "REVOKED" THEN "revoke" ELSE "record"]
AnyDecide(p) ==
    \E c \in Campaigns, g \in Grants, d \in {"APPROVED", "REVOKED"} :
        Pending(c, g) /\ ~campaigns[c].routed /\ Turns(p, Deciding(c, g, d))

AnyEnd(p) ==
    \E i \in instances, end \in {"APPROVED", "REJECTED", "CANCELLED"} :
        Turns(p, Outcome(NewSession("outcome", i[1]), i[2], end))

AnyComplete(p) ==
    \E c \in Campaigns : Active(c) /\ Turns(p, [NewSession("complete", c) EXCEPT !.todo = PendingItems(c)])

Listing == [phase |-> "sweep",
            overdue |-> {[c |-> c, freq |-> campaigns[c].freq] : c \in {x \in Campaigns : Overdue(x)}}]
AnyPoll == Turns(Worker, Listing)

AnyRefusal(p) ==
    /\ faults' = faults + 1
    /\ op[p].phase = "revoke"
    /\ grants[op[p].g] = "ACTIVE"
    /\ Flush(op[p])
    /\ op' = [op EXCEPT ![p] = IF @.kind = "complete" /\ ~campaigns[@.c].routed
                               THEN AfterRevoke(Flushed(@)) ELSE Done(p, @)]
    /\ UNCHANGED <<campaigns, grants, clock, edits>>

AnySpawn(p) ==
    /\ op[p].phase = "spawn" /\ FreeCampaigns # {}
    /\ Create(Successor(op[p].c), campaigns[op[p].c].chain, {})
    /\ op' = [op EXCEPT ![p].phase = "link", ![p].child = FreshId]
    /\ UNCHANGED faults

AnySpawnFails(p) ==
    /\ op[p].phase = "spawn"
    /\ Counted
    /\ op' = [op EXCEPT ![p] = AfterSpawn(p, @)]
    /\ UNCHANGED <<campaigns, items, instances, grants, clock, edits>>

AnyMiss == \E h \in op[Worker].holders : MissSlot(h) /\ Counted

Scheduled(h) == [routed |-> FALSE, keep |-> campaigns[h.c].keep, freq |-> FALSE, scheduled |-> TRUE]
AnyStart ==
    /\ FreeCampaigns # {}
    /\ \E h \in op[Worker].holders :
        /\ Create(Scheduled(h), campaigns[h.c].chain, {})
        /\ op' = [Without(h) EXCEPT ![Worker].phase = "move", ![Worker].c = h.c, ![Worker].child = FreshId]
    /\ UNCHANGED faults

AnyEngine ==
    /\ \E g \in Grants, s \in Standing \cup {"REVOKED"} :
        /\ grants[g] # "REVOKED"
        /\ grants' = [grants EXCEPT ![g] = s]
    /\ UNCHANGED <<campaigns, items, instances, op, clock, edits, faults>>

AnyCrash ==
    /\ op' = [p \in Procs |-> Idle]
    /\ faults' = faults + 1
    /\ UNCHANGED <<campaigns, items, instances, grants, clock, edits>>

AnyTick ==
    /\ clock' = clock + 1
    /\ UNCHANGED <<campaigns, items, instances, grants, op, edits, faults>>

AnySteps(p) ==
    \/ Record(p)
    \/ RevokeGrant(p)
    \/ CountLast(p)
    \/ CountMore(p)
    \/ NextItem(p)
    \/ CloseCampaign(p)
    \/ AlreadyClosed(p)
    \/ AnySpawn(p)
    \/ AnySpawnFails(p)
    \/ Link(p)

AnyPollSteps ==
    \/ NextOverdue
    \/ ListHolders
    \/ op[Worker].phase = "slots" /\ (AnyMiss \/ AnyStart \/ PollRaises)
    \/ MoveSchedule
    \/ OtherSweeps
    \/ EndPoll

\* Every step but a refusal.
Unrefused ==
    \/ AnyCreate
    \/ AnyUpdate
    \/ \E p \in Procs : AnyDecide(p) \/ AnyEnd(p) \/ AnyComplete(p)
    \/ AnyPoll
    \/ AnyPollSteps
    \/ \E p \in Procs : AnySteps(p)
    \/ AnyEngine
    \/ AnyCrash
    \/ AnyTick

AnyNext == Unrefused \/ \E p \in Procs : AnyRefusal(p)

LEMMA NextIsAny == ASSUME Next PROVE Unrefused \/ \E p \in Procs : AnyRefusal(p) /\ RevokeRefused(p)
<1>1. Requests \subseteq Procs
    BY DEF Procs
<1>2. CASE CreateCampaign
    <2>1. PICK b \in Bodies : \E skipped \in IF b.routed THEN SUBSET InScope ELSE {{}} : Create(b, FreshId, skipped)
        BY <1>2 DEF CreateCampaign
    <2>2. PICK skipped \in IF b.routed THEN SUBSET InScope ELSE {{}} : Create(b, FreshId, skipped)
        BY <2>1
    <2>3. skipped \in SUBSET Grants /\ Skips(b, skipped)
        BY <2>2 DEF Skips, InScope
    <2>4. b \in Body /\ FreeCampaigns # {} /\ UNCHANGED <<op, faults>>
        BY <1>2, ConstantsAssumption DEF CreateCampaign, RowLeft
    <2>. QED
        BY <2>2, <2>3, <2>4 DEF AnyCreate, Unrefused
<1>3. CASE UpdateCampaign
    BY <1>3, ConstantsAssumption DEF UpdateCampaign, AnyUpdate, Unrefused
<1>4. ASSUME NEW p \in Requests, DecideItem(p) \/ EndInstance(p) \/ CompleteCampaign(p) PROVE Unrefused
    <2>1. AnyDecide(p) \/ AnyEnd(p) \/ AnyComplete(p)
        <3>1. DecideItem(p) => AnyDecide(p)
            BY Zenon DEF DecideItem, AnyDecide, Turns, Deciding
        <3>2. EndInstance(p) => AnyEnd(p)
            BY Zenon DEF EndInstance, AnyEnd, Turns
        <3>3. CompleteCampaign(p) => AnyComplete(p)
            BY Zenon DEF CompleteCampaign, AnyComplete, Turns
        <3>. QED
            BY <1>4, <3>1, <3>2, <3>3
    <2>. QED
        BY <1>1, <2>1 DEF Unrefused
<1>5. CASE StartPoll
    BY <1>5 DEF StartPoll, AnyPoll, Turns, Listing, Unrefused
<1>6. CASE PollSteps
    <2>1. CASE Slots
        <3>1. SkipSlot => AnyMiss
            BY DEF SkipSlot, AnyMiss, Counted
        <3>2. FailToStart => AnyMiss
            BY DEF FailToStart, AnyMiss, Counted, Fault
        <3>3. StartNext => AnyStart
            BY Zenon DEF StartNext, AnyStart, Scheduled, RowLeft
        <3>. QED
            BY <2>1, <3>1, <3>2, <3>3 DEF Slots, AnyPollSteps, Unrefused
    <2>. QED
        BY <1>6, <2>1 DEF PollSteps, AnyPollSteps, Unrefused
<1>7. ASSUME NEW p \in Procs, Steps(p) PROVE Unrefused
    <2>1. Spawn(p) => AnySpawn(p)
        BY DEF Spawn, AnySpawn, Refused, RowLeft
    <2>2. SpawnFails(p) => AnySpawnFails(p)
        BY DEF SpawnFails, AnySpawnFails, Counted, Fault
    <2>. QED
        BY <1>7, <2>1, <2>2 DEF Steps, AnySteps, Unrefused
<1>8. ASSUME NEW p \in Procs, RevokeRefused(p) PROVE AnyRefusal(p)
    BY <1>8 DEF RevokeRefused, AnyRefusal, Fault
<1>9. CASE EngineMoves
    BY <1>9, ConstantsAssumption DEF EngineMoves, AnyEngine, Unrefused
<1>10. CASE Crash
    BY <1>10 DEF Crash, AnyCrash, Fault, Unrefused
<1>11. CASE Tick
    BY <1>11 DEF Tick, AnyTick, Unrefused
<1>. QED
    BY <1>2, <1>3, <1>4, <1>5, <1>6, <1>7, <1>8, <1>9, <1>10, <1>11 DEF Next

\* The two widths take the same steps wherever no bound is concerned.
LEMMA SameRecord == ASSUME NEW p, Races!Record(p) PROVE Record(p)
BY Zenon DEF Record, Races!Record, Flush, Races!Flush, Written, Races!Written, Flushed, Races!Flushed, NoWrites, Races!NoWrites, NoItem, Races!NoItem

LEMMA SameRevokeGrant == ASSUME NEW p, Races!RevokeGrant(p) PROVE RevokeGrant(p)
BY Zenon DEF RevokeGrant, Races!RevokeGrant, Revocable, Races!Revocable, Standing, Races!Standing, AfterRevoke, Races!AfterRevoke, NoFlush, Races!NoFlush, Flush, Races!Flush, Written, Races!Written, Flushed, Races!Flushed, NoWrites, Races!NoWrites, NoItem, Races!NoItem

LEMMA SameCountLast == ASSUME NEW p, Races!CountLast(p) PROVE CountLast(p)
BY Zenon DEF CountLast, Races!CountLast, AllDecided, Races!AllDecided, Undecided, Races!Undecided, Written, Races!Written, NoItem, Races!NoItem, Flush, Races!Flush, Flushed, Races!Flushed, NoWrites, Races!NoWrites, Completed, Races!Completed, MaybeSpawn, Races!MaybeSpawn, Done, Races!Done, Worker, Races!Worker, Idle, Races!Idle

LEMMA SameCountMore == ASSUME NEW p, Races!CountMore(p) PROVE CountMore(p)
BY Zenon DEF CountMore, Races!CountMore, AllDecided, Races!AllDecided, Undecided, Races!Undecided, Written, Races!Written, NoItem, Races!NoItem, Flush, Races!Flush, NoFlush, Races!NoFlush, Done, Races!Done, Worker, Races!Worker, Idle, Races!Idle

LEMMA SameNextItem == ASSUME NEW p, Races!NextItem(p) PROVE NextItem(p)
BY Zenon DEF NextItem, Races!NextItem, Outcome, Races!Outcome, Verdict, Races!Verdict, Taken, Races!Taken

LEMMA SameCloseCampaign == ASSUME NEW p, Races!CloseCampaign(p) PROVE CloseCampaign(p)
BY Zenon DEF CloseCampaign, Races!CloseCampaign, Written, Races!Written, NoItem, Races!NoItem, Flush, Races!Flush, Flushed, Races!Flushed, NoWrites, Races!NoWrites, Completed, Races!Completed, MaybeSpawn, Races!MaybeSpawn, Done, Races!Done, Worker, Races!Worker, Idle, Races!Idle

LEMMA SameAlreadyClosed == ASSUME NEW p, Races!AlreadyClosed(p) PROVE AlreadyClosed(p)
BY Zenon DEF AlreadyClosed, Races!AlreadyClosed, Done, Races!Done, Worker, Races!Worker, Idle, Races!Idle

LEMMA SameLink == ASSUME NEW p, Races!Link(p) PROVE Link(p)
BY Zenon DEF Link, Races!Link, AfterSpawn, Races!AfterSpawn, Done, Races!Done, Worker, Races!Worker, Idle, Races!Idle

LEMMA SameFresh == Races!FreshId = FreshId /\ Races!FreeCampaigns = FreeCampaigns
BY Zenon DEF Races!FreshId, FreshId, Races!FreeCampaigns, FreeCampaigns, Races!Present, Present

LEMMA SameScope == Races!InScope = InScope
BY Zenon DEF Races!InScope, InScope, Races!Standing, Standing

LEMMA SameCreate == ASSUME NEW b, NEW chain, NEW skipped, Races!Create(b, chain, skipped) PROVE Create(b, chain, skipped)
BY SameFresh, SameScope, Zenon DEF Races!Create, Create, Races!NewCampaign, NewCampaign, Races!NoTime, NoTime,
   Races!Snapshot, Snapshot, Races!Undecided, Undecided, Races!NoItem, NoItem

LEMMA SameNewSession == ASSUME NEW kind, NEW c PROVE Races!NewSession(kind, c) = NewSession(kind, c)
BY Zenon DEF Races!NewSession, NewSession, Races!Active, Active, Races!NoWrites, NoWrites, Races!NoItem, NoItem,
   Races!Undecided, Undecided

LEMMA SamePendingItems == ASSUME NEW c PROVE Races!PendingItems(c) = PendingItems(c)
BY Zenon DEF Races!PendingItems, PendingItems, Races!Undecided, Undecided

LEMMA RacesIsAny == ASSUME Races!Next PROVE Unrefused
<1>1. Requests \subseteq Procs /\ Races!Procs = Procs /\ Races!Worker = Worker
    BY DEF Procs, Races!Procs, Worker, Races!Worker
<1>2. CASE Races!CreateCampaign
    <2>1. RaceBodies \subseteq Body
        BY DEF RaceBodies, Routed, Keep, Recurring, Plain, Body
    <2>2. FreeCampaigns # {} /\ UNCHANGED <<op, faults>>
        BY <1>2, SameFresh DEF Races!CreateCampaign, Races!RowLeft
    <2>3. PICK b \in RaceBodies : \E skipped \in IF b.routed THEN SUBSET Races!InScope ELSE {{}} :
                                      Races!Create(b, Races!FreshId, skipped)
        BY <1>2 DEF Races!CreateCampaign
    <2>4. PICK skipped \in IF b.routed THEN SUBSET Races!InScope ELSE {{}} : Races!Create(b, Races!FreshId, skipped)
        BY <2>3
    <2>5. skipped \in SUBSET Grants /\ Skips(b, skipped)
        BY <2>4, SameScope DEF Skips, InScope
    <2>6. Create(b, FreshId, skipped)
        BY <2>4, SameFresh, SameCreate
    <2>. QED
        BY <2>1, <2>2, <2>5, <2>6 DEF AnyCreate, Unrefused
<1>3. CASE Races!UpdateCampaign
    BY <1>3 DEF Races!UpdateCampaign
<1>4. ASSUME NEW p \in Requests, Races!DecideItem(p) \/ Races!EndInstance(p) \/ Races!CompleteCampaign(p)
      PROVE  Unrefused
    <2>1. Races!DecideItem(p) => AnyDecide(p)
        BY SameNewSession, Zenon DEF Races!DecideItem, AnyDecide, Turns, Deciding, Races!Pending, Pending,
           Races!Present, Present, Races!Undecided, Undecided
    <2>2. Races!EndInstance(p) => AnyEnd(p)
        <3>1. ASSUME NEW o, NEW g, NEW end PROVE Races!Outcome(o, g, end) = Outcome(o, g, end)
            BY Zenon DEF Races!Outcome, Outcome, Races!Verdict, Verdict, Races!Taken, Taken
        <3>. QED
            BY <3>1, SameNewSession, Zenon DEF Races!EndInstance, AnyEnd, Turns
    <2>3. Races!CompleteCampaign(p) => AnyComplete(p)
        BY SameNewSession, SamePendingItems, Zenon DEF Races!CompleteCampaign, AnyComplete, Turns, Races!Active, Active
    <2>. QED
        BY <1>1, <1>4, <2>1, <2>2, <2>3 DEF Unrefused
<1>5. CASE Races!StartPoll
    <2>1. AnyPoll
        BY <1>5, <1>1, Zenon DEF Races!StartPoll, AnyPoll, Turns, Listing, Races!Overdue, Overdue, Races!Active, Active
    <2>. QED
        BY <2>1 DEF Unrefused
<1>6. CASE Races!PollSteps
    <2>1. Races!NextOverdue => NextOverdue
        BY <1>1, SameNewSession, SamePendingItems, Zenon DEF Races!NextOverdue, NextOverdue
    <2>2. Races!ListHolders => ListHolders
        BY <1>1, Zenon DEF Races!ListHolders, ListHolders, Races!SlotDue, SlotDue, Races!Present, Present,
           Races!Active, Active, Races!NoTime, NoTime
    <2>3. Races!Slots => op[Worker].phase = "slots" /\ (AnyMiss \/ AnyStart \/ PollRaises)
        <3>1. ASSUME NEW h, Races!MissSlot(h) PROVE MissSlot(h)
            BY <1>1, <3>1, Zenon DEF Races!MissSlot, MissSlot, Races!Following, Following, Races!Without, Without
        <3>2. Races!SkipSlot => AnyMiss
            BY <1>1, <3>1, Zenon DEF Races!SkipSlot, AnyMiss, Counted
        <3>3. Races!FailToStart => AnyMiss
            BY <1>1, <3>1, Zenon DEF Races!FailToStart, AnyMiss, Races!Fault, Counted
        <3>4. Races!StartNext => AnyStart
            <4>1. ASSUME NEW h PROVE Races!Without(h) = Without(h)
                BY <1>1, Zenon DEF Races!Without, Without
            <4>. QED
                BY <1>1, <4>1, SameFresh, SameCreate, Zenon DEF Races!StartNext, AnyStart, Scheduled, Races!RowLeft
        <3>5. Races!PollRaises => PollRaises
            BY <1>1, Zenon DEF Races!PollRaises, PollRaises, Races!Idle, Idle
        <3>. QED
            BY <1>1, <3>2, <3>3, <3>4, <3>5 DEF Races!Slots
    <2>4. Races!MoveSchedule => MoveSchedule
        BY <1>1, Zenon DEF Races!MoveSchedule, MoveSchedule, Races!HandOver, HandOver, Races!NoTime, NoTime
    <2>5. Races!OtherSweeps => OtherSweeps
        BY <1>1, Zenon DEF Races!OtherSweeps, OtherSweeps
    <2>6. Races!EndPoll => EndPoll
        BY <1>1, Zenon DEF Races!EndPoll, EndPoll, Races!Idle, Idle
    <2>. QED
        BY <1>6, <2>1, <2>2, <2>3, <2>4, <2>5, <2>6 DEF Races!PollSteps, AnyPollSteps, Unrefused
<1>7. ASSUME NEW p \in Procs, Races!Steps(p) PROVE Unrefused
    <2>1. Races!Spawn(p) => AnySpawn(p)
        <3>1. ASSUME NEW c PROVE Races!Successor(c) = Successor(c)
            BY Zenon DEF Races!Successor, Successor
        <3>. QED
            BY <3>1, SameFresh, SameCreate, Zenon DEF Races!Spawn, AnySpawn, Races!Refused, Races!RowLeft
    <2>2. Races!SpawnFails(p) => AnySpawnFails(p)
        BY Zenon DEF Races!SpawnFails, AnySpawnFails, Counted, Races!Fault, Races!AfterSpawn, AfterSpawn, Races!Done, Done,
           Races!Worker, Worker, Races!Idle, Idle
    <2>3. AnySteps(p)
        BY <1>7, <2>1, <2>2, SameRecord, SameRevokeGrant, SameCountLast, SameCountMore, SameNextItem, SameCloseCampaign,
           SameAlreadyClosed, SameLink DEF Races!Steps, AnySteps
    <2>. QED
        BY <2>3 DEF Unrefused
<1>8. ASSUME NEW p \in Procs PROVE ~Races!RevokeRefused(p)
    BY DEF Races!RevokeRefused, Races!Fault
<1>9. CASE Races!EngineMoves
    BY <1>9, Zenon DEF Races!EngineMoves, AnyEngine, Unrefused, Standing
<1>10. CASE Races!Crash
    <2>1. AnyCrash
        BY <1>10, <1>1, Zenon DEF Races!Crash, AnyCrash, Races!Fault, Races!Idle, Idle
    <2>. QED
        BY <2>1 DEF Unrefused
<1>11. CASE Races!Tick
    BY <1>11, Zenon DEF Races!Tick, AnyTick, Unrefused
<1>. QED
    BY <1>1, <1>2, <1>3, <1>4, <1>5, <1>6, <1>7, <1>8, <1>9, <1>10, <1>11 DEF Races!Next

-----------------------------------------------------------------------------
(***************************************************************************)
(* What rows a session may write.                                          *)
(***************************************************************************)
\* An item that a session writes is decided, and its instance goes with it.
Merged(o, I) == [I EXCEPT ![o.c] = [g \in Grants |-> IF o.writes[g] # NoItem THEN o.writes[g] ELSE I[o.c][g]]]
Ended(o, W)  == W \ {<<o.c, g>> : g \in {x \in Grants : o.writes[x] # NoItem}}

LEMMA FlushIs == ASSUME NEW o PROVE Flush(o) <=> items' = Merged(o, items) /\ instances' = Ended(o, instances)
BY DEF Flush, Written, Merged, Ended

LEMMA Flushing ==
    ASSUME ClosedInv, NEW o \in Session, \A g \in Grants : o.writes[g] # Undecided,
           NEW D, D = campaigns \/ (D = Completed(o.c) /\ \A g \in Grants : Merged(o, items)[o.c][g] # Undecided),
           There(o.c, campaigns)
    PROVE  /\ D \in [Campaigns -> Campaign \cup {Absent}]
           /\ Merged(o, items) \in [Campaigns -> [Grants -> Decisions \cup {NoItem}]]
           /\ Ended(o, instances) \subseteq Campaigns \X Grants
           /\ Keeps(campaigns, items, D, Merged(o, items)) /\ Keeps(campaigns, items, D, items)
           /\ Coherent(D, Merged(o, items), Ended(o, instances))
<1>. DEFINE J == Merged(o, items)
            W == Ended(o, instances)
<1>1. o.c \in Campaigns /\ o.writes \in [Grants -> Decisions \cup {NoItem}]
    BY DEF Session
<1>2. Typed
    BY TypedNow
<1>3. J \in [Campaigns -> [Grants -> Decisions \cup {NoItem}]]
    BY <1>1, <1>2 DEF Merged, Typed
<1>4. W \subseteq Campaigns \X Grants
    BY <1>2 DEF Ended, Typed
<1>5. D \in [Campaigns -> Campaign \cup {Absent}] /\ \A c \in Campaigns :
        /\ There(c, D) <=> There(c, campaigns)
        /\ There(c, campaigns) => D[c].routed = campaigns[c].routed
        /\ D[c].status = "COMPLETED" => campaigns[c].status = "COMPLETED" \/ (c = o.c /\ D = Completed(o.c))
    <2>1. CASE D = campaigns
        BY <1>2, <2>1 DEF Typed
    <2>2. CASE D = Completed(o.c)
        <3>. DEFINE closed == [campaigns[o.c] EXCEPT !.status = "COMPLETED"]
        <3>1. campaigns[o.c] \in Campaign
            BY <1>1, <1>2 DEF Typed, There, Absent
        <3>2. closed \in Campaign /\ closed.status = "COMPLETED" /\ closed.routed = campaigns[o.c].routed
            BY <3>1 DEF Campaign
        <3>3. D = [campaigns EXCEPT ![o.c] = closed]
            BY <2>2 DEF Completed
        <3>. HIDE DEF closed
        <3>. QED
            BY <1>1, <1>2, <2>2, <3>2, <3>3 DEF Typed, There
    <2>. QED
        BY <2>1, <2>2
<1>6. \A c \in Campaigns, g \in Grants :
        /\ J[c][g] = Undecided => items[c][g] = Undecided
        /\ J[c][g] = Undecided => ~(c = o.c /\ o.writes[g] # NoItem)
        /\ items[c][g] = Undecided /\ ~(c = o.c /\ o.writes[g] # NoItem) => J[c][g] = Undecided
    BY <1>1, <1>2 DEF Merged, Typed
<1>7. \A c \in Campaigns, g \in Grants :
        <<c, g>> \in W <=> <<c, g>> \in instances /\ ~(c = o.c /\ o.writes[g] # NoItem)
    BY DEF Ended
<1>8. Coherent(campaigns, items, instances)
    BY DEF ClosedInv
<1>9. D = Completed(o.c) /\ D # campaigns => \A g \in Grants : J[o.c][g] # Undecided
    OBVIOUS
<1>. HIDE DEF J, W
<1>10. Keeps(campaigns, items, D, J) /\ Keeps(campaigns, items, D, items)
    BY <1>5, <1>6 DEF Keeps
<1>11. Coherent(D, J, W)
    <2>. SUFFICES ASSUME NEW c \in Campaigns, NEW g \in Grants
                  PROVE  /\ D[c].status = "COMPLETED" => J[c][g] # Undecided
                         /\ <<c, g>> \in W => J[c][g] = Undecided /\ There(c, D)
                         /\ There(c, D) /\ D[c].routed /\ J[c][g] = Undecided => <<c, g>> \in W
        BY DEF Coherent
    <2>1. /\ campaigns[c].status = "COMPLETED" => items[c][g] # Undecided
          /\ <<c, g>> \in instances => items[c][g] = Undecided /\ There(c, campaigns)
          /\ There(c, campaigns) /\ campaigns[c].routed /\ items[c][g] = Undecided => <<c, g>> \in instances
        BY <1>8 DEF Coherent
    <2>2. D[c].status = "COMPLETED" => J[c][g] # Undecided
        BY <1>5, <1>6, <1>9, <2>1
    <2>3. <<c, g>> \in W => J[c][g] = Undecided /\ There(c, D)
        BY <1>5, <1>6, <1>7, <2>1
    <2>4. There(c, D) /\ D[c].routed /\ J[c][g] = Undecided => <<c, g>> \in W
        BY <1>5, <1>6, <1>7, <2>1
    <2>. QED
        BY <2>2, <2>3, <2>4
<1>. QED
    BY <1>3, <1>4, <1>5, <1>10, <1>11 DEF J, W

\* A flush leaves nothing of the session's own to write.
LEMMA FlushedSound ==
    ASSUME NEW o \in Session, NEW C, NEW I \in [Campaigns -> [Grants -> Decisions \cup {NoItem}]], Sound(o, C, I)
    PROVE  Flushed(o) \in Session /\ Sound(Flushed(o), C, Merged(o, I))
<1>. DEFINE f == Flushed(o)
<1>1. NoWrites \in [Grants -> Decisions \cup {NoItem}] /\ \A g \in Grants : NoWrites[g] = NoItem
    BY DEF NoWrites
<1>2. /\ f \in Session /\ f.c = o.c /\ f.child = o.child /\ f.phase = o.phase /\ f.kind = o.kind
      /\ f.decision = o.decision /\ f.todo = o.todo /\ f.g = o.g /\ f.overdue = o.overdue /\ f.writes = NoWrites
    BY <1>1 DEF Session, Flushed
<1>. HIDE DEF f
<1>3. \A g \in Grants : Merged(o, I)[o.c][g] = Undecided => I[o.c][g] = Undecided /\ o.writes[g] = NoItem
    BY DEF Merged, Session, Sound
<1>4. Undecided # NoItem /\ f.phase \notin {"sweep", "slots", "move"}
    BY <1>2 DEF Undecided, NoItem, Session
<1>5. Sound(f, C, Merged(o, I))
    BY <1>1, <1>2, <1>3, <1>4 DEF Sound
<1>. QED
    BY <1>2, <1>5 DEF f

\* A new campaign: its snapshot is undecided, but for the items of which every stage is skipped,
\* and has its instances if it is routed.
LEMMA Creating ==
    ASSUME ClosedInv, NEW b \in Body, NEW chain \in Campaigns, NEW skipped, Skips(b, skipped),
           Create(b, chain, skipped), FreeCampaigns # {}
    PROVE  /\ campaigns' \in [Campaigns -> Campaign \cup {Absent}]
           /\ items' \in [Campaigns -> [Grants -> Decisions \cup {NoItem}]]
           /\ instances' \subseteq Campaigns \X Grants
           /\ Keeps(campaigns, items, campaigns', items')
           /\ Coherent(campaigns', items', instances')
           /\ FreshId \in Campaigns /\ There(FreshId, campaigns')
<1>. DEFINE f == FreshId
            new == NewCampaign(b, chain, skipped)
            asked == InScope \ skipped
            shot == Snapshot(skipped)
<1>1. Typed
    BY TypedNow
<1>2. f \in Campaigns /\ campaigns[f].status = "ABSENT"
    BY DEF Create, FreshId, FreeCampaigns, Present
<1>3. new \in Campaign /\ new.status # "ABSENT" /\ new.routed = b.routed /\ (new.status = "COMPLETED" => asked = {})
    BY <1>1 DEF NewCampaign, Campaign, Body, NoTime, Typed
<1>4. shot \in [Grants -> Decisions \cup {NoItem}] /\ \A g \in Grants : shot[g] = Undecided <=> g \in asked
    BY DEF Snapshot, Decisions, Undecided, NoItem, Skips, InScope
<1>5. /\ campaigns' = [campaigns EXCEPT ![f] = new] /\ items' = [items EXCEPT ![f] = shot]
      /\ instances' = IF b.routed THEN instances \cup {<<f, g>> : g \in asked} ELSE instances
    BY DEF Create
<1>. HIDE DEF f, new, asked, shot
<1>6. /\ campaigns' \in [Campaigns -> Campaign \cup {Absent}]
      /\ items' \in [Campaigns -> [Grants -> Decisions \cup {NoItem}]]
    BY <1>1, <1>2, <1>3, <1>4, <1>5 DEF Typed
<1>7. instances' \subseteq Campaigns \X Grants
    <2>1. asked \subseteq Grants
        BY DEF asked, InScope
    <2>. QED
        BY <1>1, <1>2, <1>5, <2>1 DEF Typed
<1>8. /\ There(f, campaigns') /\ campaigns'[f].routed = b.routed /\ items'[f] = shot
      /\ campaigns'[f].status = "COMPLETED" => asked = {}
    BY <1>1, <1>2, <1>3, <1>5 DEF Typed, There
<1>9. \A c \in Campaigns : c # f => campaigns'[c] = campaigns[c] /\ items'[c] = items[c]
    BY <1>1, <1>5 DEF Typed
<1>10. \A c \in Campaigns, g \in Grants : <<c, g>> \in instances' <=> <<c, g>> \in instances \/ (b.routed /\ c = f /\ g \in asked)
    BY <1>5
<1>11. Keeps(campaigns, items, campaigns', items')
    BY <1>2, <1>9 DEF Keeps, There
<1>12. Coherent(campaigns', items', instances')
    <2>. SUFFICES ASSUME NEW c \in Campaigns, NEW g \in Grants
                  PROVE  /\ campaigns'[c].status = "COMPLETED" => items'[c][g] # Undecided
                         /\ <<c, g>> \in instances' => items'[c][g] = Undecided /\ There(c, campaigns')
                         /\ There(c, campaigns') /\ campaigns'[c].routed /\ items'[c][g] = Undecided
                                => <<c, g>> \in instances'
        BY DEF Coherent
    <2>1. /\ campaigns[c].status = "COMPLETED" => items[c][g] # Undecided
          /\ <<c, g>> \in instances => items[c][g] = Undecided /\ There(c, campaigns)
          /\ There(c, campaigns) /\ campaigns[c].routed /\ items[c][g] = Undecided => <<c, g>> \in instances
        BY DEF ClosedInv, Coherent
    <2>2. CASE c = f
        <3>1. <<c, g>> \notin instances
            BY <1>2, <2>1, <2>2 DEF There
        <3>. QED
            BY <1>4, <1>8, <1>10, <2>2, <3>1
    <2>3. CASE c # f
        BY <1>9, <1>10, <2>1, <2>3 DEF There
    <2>. QED
        BY <2>2, <2>3
<1>. QED
    BY <1>2, <1>6, <1>7, <1>8, <1>11, <1>12 DEF f

\* Campaigns change, but neither in their status nor in who decides.
Stamped(C, D) ==
    \A c \in Campaigns : /\ D[c].status = C[c].status
                         /\ There(c, C) => D[c].routed = C[c].routed

LEMMA Stamping ==
    ASSUME ClosedInv, UNCHANGED <<items, instances>>,
           Stamped(campaigns, campaigns')
    PROVE  Keeps(campaigns, items, campaigns', items') /\ Coherent(campaigns', items', instances')
<1>1. Keeps(campaigns, items, campaigns', items')
    BY DEF Keeps, There, Stamped
<1>2. Coherent(campaigns, items, instances)
    BY DEF ClosedInv
<1>3. Coherent(campaigns', items', instances')
    BY <1>2 DEF Coherent, There, Stamped
<1>. QED
    BY <1>1, <1>3

-----------------------------------------------------------------------------
(***************************************************************************)
(* Sessions start.                                                         *)
(***************************************************************************)
LEMMA Began ==
    ASSUME ClosedInv, NEW kind \in {"decide", "outcome", "complete"}, NEW c \in Campaigns, There(c, campaigns)
    PROVE  NewSession(kind, c) \in Session
<1>1. campaigns[c] \in Campaign
    BY TypedNow DEF Typed, There, Absent
<1>2. Active(c) \in BOOLEAN /\ campaigns[c].freq \in BOOLEAN
    BY <1>1 DEF Active, Campaign
<1>. QED
    BY <1>2 DEF NewSession, Session, NoWrites, Decisions, Undecided

LEMMA DecideItemKeeps == ASSUME ClosedInv, NEW p \in Procs, AnyDecide(p) PROVE ClosedInv'
<1>1. PICK c \in Campaigns, g \in Grants, d \in {"APPROVED", "REVOKED"} :
        /\ Pending(c, g)
        /\ Turns(p, Deciding(c, g, d))
    BY DEF AnyDecide
<1>. DEFINE n == NewSession("decide", c)
            h == [n EXCEPT !.g = g, !.decision = d, !.phase = IF d = "REVOKED" THEN "revoke" ELSE "record"]
<1>2. There(c, campaigns)
    BY <1>1 DEF Pending, Present, There
<1>3. n \in Session /\ n.kind = "decide" /\ n.c = c /\ n.overdue = {} /\ n.child = NoCampaign /\ n.writes = NoWrites
    BY <1>2, Began DEF NewSession
<1>. HIDE DEF n
<1>4. /\ h \in Session /\ h.kind = "decide" /\ h.c = c /\ h.overdue = {} /\ h.child = NoCampaign /\ h.writes = NoWrites
      /\ h.decision = d /\ h.phase \in {"revoke", "record"}
    BY <1>3 DEF Session, Decisions, Taken
<1>. HIDE DEF h
<1>5. h \in Sessions /\ Sound(h, campaigns, items)
    BY <1>2, <1>4 DEF Sessions, Sound, NoWrites, NoItem, Undecided
<1>6. UNCHANGED <<campaigns, items, instances, grants, clock, edits, faults>> /\ op' = [op EXCEPT ![p] = h]
    BY <1>1 DEF Turns, Deciding, h, n
<1>7. faults' \in Nat
    BY <1>6, TypedNow DEF Typed
<1>. QED
    BY <1>5, <1>6, <1>7, Plans

\* The verdict of an instance that ended is a decision.
LEMMA VerdictType ==
    ASSUME NEW c, NEW end \in {"APPROVED", "REJECTED", "CANCELLED"}
    PROVE  Verdict(c, end) \in Decisions /\ Verdict(c, end) # Undecided
BY DEF Verdict, Decisions, Taken, Undecided

\* Its session has the item decided, though not yet durably.
LEMMA OutcomeSound ==
    ASSUME NEW o \in Session, NEW g \in Grants, NEW end \in {"APPROVED", "REJECTED", "CANCELLED"}
    PROVE  /\ Outcome(o, g, end) \in Session /\ Outcome(o, g, end).c = o.c
           /\ Outcome(o, g, end).kind = o.kind /\ Outcome(o, g, end).overdue = o.overdue
           /\ Outcome(o, g, end).child = o.child /\ Outcome(o, g, end).todo = o.todo
           /\ Outcome(o, g, end).phase \in {"revoke", "count"}
           /\ Outcome(o, g, end).writes[g] # Undecided /\ Outcome(o, g, end).writes[g] # NoItem
           /\ \A x \in Grants : x # g => Outcome(o, g, end).writes[x] = o.writes[x]
<1>. DEFINE v == Verdict(o.c, end)
            w == [o.writes EXCEPT ![g] = v]
            u == [o EXCEPT !.g = g, !.writes = w, !.phase = IF v \in Taken THEN "revoke" ELSE "count"]
<1>1. v \in Decisions /\ v # Undecided /\ v # NoItem
    BY VerdictType DEF Decisions, Taken, Undecided, NoItem
<1>2. w \in [Grants -> Decisions \cup {NoItem}]
    BY <1>1 DEF Session
<1>3. Outcome(o, g, end) = u
    BY DEF Outcome, Session
<1>. HIDE DEF v, w
<1>4. /\ u \in Session /\ u.c = o.c /\ u.kind = o.kind /\ u.overdue = o.overdue /\ u.child = o.child
      /\ u.todo = o.todo /\ u.phase \in {"revoke", "count"} /\ u.writes = w
    BY <1>2 DEF Session
<1>. HIDE DEF u
<1>5. w[g] = v /\ \A x \in Grants : x # g => w[x] = o.writes[x]
    BY DEF w, Session
<1>. QED
    BY <1>1, <1>3, <1>4, <1>5

\* A session about to settle an item: all that it should know, but for that item.
Settling(o, g, C, I) ==
    /\ There(o.c, C) /\ \A x \in o.overdue : There(x.c, C)
    /\ o.child # NoCampaign => There(o.child, C)
    /\ o.kind # "decide"
    /\ \A x \in Grants : o.writes[x] # Undecided
    /\ o.kind = "complete" => \A x \in Grants : I[o.c][x] = Undecided =>
            x \in o.todo \/ o.writes[x] # NoItem \/ x = g

LEMMA SettledSound ==
    ASSUME NEW o \in Session, NEW g \in Grants, NEW end \in {"APPROVED", "REJECTED", "CANCELLED"},
           NEW C, NEW I, Settling(o, g, C, I)
    PROVE  Sound(Outcome(o, g, end), C, I)
<1>. DEFINE u == Outcome(o, g, end)
<1>1. u \in Session
    BY OutcomeSound
<1>2. u.c = o.c
    BY OutcomeSound
<1>3. u.kind = o.kind
    BY OutcomeSound
<1>4. u.overdue = o.overdue
    BY OutcomeSound
<1>5. u.child = o.child
    BY OutcomeSound
<1>6. u.todo = o.todo
    BY OutcomeSound
<1>7. u.phase \in {"revoke", "count"}
    BY OutcomeSound
<1>8. u.writes[g] # Undecided /\ u.writes[g] # NoItem
    BY OutcomeSound
<1>9. \A x \in Grants : x # g => u.writes[x] = o.writes[x]
    BY OutcomeSound
<1>. HIDE DEF u
<1>10. Sound(u, C, I)
    BY <1>1, <1>2, <1>3, <1>4, <1>5, <1>6, <1>7, <1>8, <1>9 DEF Sound, Settling
<1>. QED
    BY <1>10 DEF u

LEMMA EndInstanceKeeps == ASSUME ClosedInv, NEW p \in Procs, AnyEnd(p) PROVE ClosedInv'
<1>1. PICK c \in Campaigns, g \in Grants, end \in {"APPROVED", "REJECTED", "CANCELLED"} :
        <<c, g>> \in instances /\ Turns(p, Outcome(NewSession("outcome", c), g, end))
    <2>1. \A i \in instances : i[1] \in Campaigns /\ i[2] \in Grants /\ i = <<i[1], i[2]>>
        BY TypedNow DEF Typed
    <2>. QED
        BY <2>1 DEF AnyEnd
<1>2. There(c, campaigns)
    BY <1>1 DEF ClosedInv, Coherent
<1>3. PICK n : n = NewSession("outcome", c)
    OBVIOUS
<1>4. n \in Session /\ n.kind = "outcome" /\ n.c = c /\ n.overdue = {} /\ n.child = NoCampaign /\ n.writes = NoWrites
    BY <1>2, <1>3, Began DEF NewSession
<1>5. Settling(n, g, campaigns, items)
    BY <1>2, <1>4 DEF Settling, NoWrites, NoItem, Undecided
<1>6. PICK h : h = Outcome(n, g, end)
    OBVIOUS
<1>7. h \in Sessions /\ Sound(h, campaigns, items)
    BY <1>4, <1>5, <1>6, OutcomeSound, SettledSound DEF Sessions
<1>8. UNCHANGED <<campaigns, items, instances, grants, clock, edits, faults>> /\ op' = [op EXCEPT ![p] = h]
    BY <1>1, <1>3, <1>6 DEF Turns
<1>9. faults' \in Nat
    BY <1>8, TypedNow DEF Typed
<1>. QED
    BY <1>7, <1>8, <1>9, Plans

\* A session that closes a campaign has all that is undecided before it.
LEMMA ClosingSound ==
    ASSUME ClosedInv, NEW c \in Campaigns, There(c, campaigns), NEW open \in BOOLEAN, NEW freq \in BOOLEAN,
           NEW late \in SUBSET [c : Campaigns, freq : BOOLEAN], \A x \in late : There(x.c, campaigns)
    PROVE  LET h == [NewSession("complete", c) EXCEPT !.open = open, !.freq = freq, !.todo = PendingItems(c),
                                                     !.overdue = late] IN
           h \in Sessions /\ Sound(h, campaigns, items)
<1>. DEFINE n == NewSession("complete", c)
            h == [n EXCEPT !.open = open, !.freq = freq, !.todo = PendingItems(c), !.overdue = late]
<1>1. /\ n \in Session /\ n.kind = "complete" /\ n.c = c /\ n.child = NoCampaign /\ n.writes = NoWrites /\ n.phase = "next"
    BY Began DEF NewSession
<1>2. PendingItems(c) \subseteq Grants
    BY DEF PendingItems
<1>. HIDE DEF n
<1>3. /\ h \in Session /\ h.kind = "complete" /\ h.c = c /\ h.child = NoCampaign /\ h.writes = NoWrites
      /\ h.phase = "next" /\ h.todo = PendingItems(c) /\ h.overdue = late
    BY <1>1, <1>2 DEF Session
<1>. HIDE DEF h
<1>4. h \in Sessions /\ Sound(h, campaigns, items)
    BY <1>3 DEF Sessions, Sound, NoWrites, NoItem, Undecided, PendingItems
<1>. QED
    BY <1>4 DEF h, n

LEMMA CompleteCampaignKeeps == ASSUME ClosedInv, NEW p \in Procs, AnyComplete(p) PROVE ClosedInv'
<1>1. PICK c \in Campaigns : Active(c) /\ Turns(p, [NewSession("complete", c) EXCEPT !.todo = PendingItems(c)])
    BY DEF AnyComplete
<1>. DEFINE n == NewSession("complete", c)
            h == [n EXCEPT !.open = n.open, !.freq = n.freq, !.todo = PendingItems(c), !.overdue = {}]
<1>2. There(c, campaigns)
    BY <1>1 DEF Active, There
<1>3. n \in Session /\ n.overdue = {}
    BY <1>2, Began DEF NewSession
<1>4. n.open \in BOOLEAN /\ n.freq \in BOOLEAN
    BY <1>3 DEF Session
<1>5. h \in Sessions /\ Sound(h, campaigns, items)
    BY <1>2, <1>4, ClosingSound
<1>6. [n EXCEPT !.todo = PendingItems(c)] = h
    <2>. HIDE DEF n
    <2>. QED
        BY <1>3 DEF Session
<1>7. UNCHANGED <<campaigns, items, instances, grants, clock, edits, faults>> /\ op' = [op EXCEPT ![p] = h]
    BY <1>1, <1>6 DEF Turns
<1>8. faults' \in Nat
    BY <1>7, TypedNow DEF Typed
<1>. HIDE DEF h
<1>. QED
    BY <1>5, <1>7, <1>8, Plans

-----------------------------------------------------------------------------
(***************************************************************************)
(* The worker's poll.                                                      *)
(***************************************************************************)
LEMMA StartPollKeeps == ASSUME ClosedInv, AnyPoll PROVE ClosedInv'
<1>. DEFINE late == {[c |-> c, freq |-> campaigns[c].freq] : c \in {x \in Campaigns : Overdue(x)}}
            h == [phase |-> "sweep", overdue |-> late]
<1>1. \A c \in Campaigns : Overdue(c) => There(c, campaigns) /\ campaigns[c].freq \in BOOLEAN
    BY TypedNow DEF Overdue, Active, There, Typed, Campaign, Absent
<1>2. late \subseteq [c : Campaigns, freq : BOOLEAN] /\ \A x \in late : There(x.c, campaigns)
    BY <1>1
<1>. HIDE DEF late
<1>3. h \in Sessions /\ Sound(h, campaigns, items)
    BY <1>2 DEF Sessions, Poll, Session, Sound
<1>4. UNCHANGED <<campaigns, items, instances, grants, clock, edits, faults>> /\ op' = [op EXCEPT ![Worker] = h]
    BY DEF AnyPoll, Turns, Listing, late
<1>5. faults' \in Nat
    BY <1>4, TypedNow DEF Typed
<1>. QED
    BY <1>3, <1>4, <1>5, SomeProc, Plans

\* What the poll is at.
LEMMA PollIs ==
    ASSUME ClosedInv, op[Worker].phase \in {"sweep", "slots", "move", "rest"}
    PROVE  op[Worker] \in Poll /\ Sound(op[Worker], campaigns, items)
<1>1. op[Worker] \in Sessions
    BY TypedNow, SomeProc
<1>2. op[Worker] \notin Session /\ op[Worker] # Idle
    BY DEF Session, Idle
<1>. QED
    BY <1>1, <1>2, SomeProc DEF Sessions, ClosedInv

LEMMA NextOverdueKeeps == ASSUME ClosedInv, NextOverdue PROVE ClosedInv'
<1>1. PICK due \in op[Worker].overdue :
        op' = [op EXCEPT ![Worker] = [NewSession("complete", due.c) EXCEPT
                 !.open = TRUE, !.freq = due.freq, !.todo = PendingItems(due.c),
                 !.overdue = op[Worker].overdue \ {due}]]
    BY DEF NextOverdue
<1>. DEFINE late == op[Worker].overdue
            h == [NewSession("complete", due.c) EXCEPT
                    !.open = TRUE, !.freq = due.freq, !.todo = PendingItems(due.c), !.overdue = late \ {due}]
<1>2. late \in SUBSET [c : Campaigns, freq : BOOLEAN] /\ \A x \in late : There(x.c, campaigns)
    BY PollIs DEF NextOverdue, Poll, Sound
<1>3. due.c \in Campaigns /\ due.freq \in BOOLEAN /\ There(due.c, campaigns)
    BY <1>2
<1>4. late \ {due} \in SUBSET [c : Campaigns, freq : BOOLEAN] /\ \A x \in late \ {due} : There(x.c, campaigns)
    BY <1>2
<1>5. h \in Sessions /\ Sound(h, campaigns, items)
    BY <1>3, <1>4, ClosingSound
<1>6. UNCHANGED <<campaigns, items, instances, grants, clock, edits, faults>> /\ op' = [op EXCEPT ![Worker] = h]
    BY <1>1 DEF NextOverdue
<1>7. faults' \in Nat
    BY <1>6, TypedNow DEF Typed
<1>. HIDE DEF h
<1>. QED
    BY <1>5, <1>6, <1>7, SomeProc, Plans

LEMMA ListHoldersKeeps == ASSUME ClosedInv, ListHolders PROVE ClosedInv'
<1>. DEFINE due == {[c |-> c, open |-> Active(c)] : c \in {x \in Campaigns : SlotDue(x)}}
            h == [phase |-> "slots", c |-> NoCampaign, child |-> NoCampaign, holders |-> due]
<1>1. \A c \in Campaigns : SlotDue(c) => There(c, campaigns)
    BY DEF SlotDue, Present, There
<1>2. due \subseteq [c : Campaigns, open : BOOLEAN] /\ \A x \in due : There(x.c, campaigns)
    <2>1. \A c \in Campaigns : Active(c) \in BOOLEAN
        BY DEF Active
    <2>. QED
        BY <1>1, <2>1
<1>. HIDE DEF due
<1>3. h \in Sessions /\ Sound(h, campaigns, items)
    BY <1>2 DEF Sessions, Poll, Session, Sound
<1>4. UNCHANGED <<campaigns, items, instances, grants, clock, edits, faults>> /\ op' = [op EXCEPT ![Worker] = h]
    BY DEF ListHolders, due
<1>5. faults' \in Nat
    BY <1>4, TypedNow DEF Typed
<1>. QED
    BY <1>3, <1>4, <1>5, SomeProc, Plans

\* The poll among the slots: what it may become with some holders less.
Slotting == [phase : {"slots", "move"}, holders : SUBSET [c : Campaigns, open : BOOLEAN],
             c : Campaigns \cup {NoCampaign}, child : Campaigns \cup {NoCampaign}]

LEMMA SlotsSound ==
    ASSUME NEW o \in Slotting, NEW C, NEW I, Sound(o, C, I), NEW h \in Slotting, h.holders \subseteq o.holders,
           h.phase = "move" => h.c # NoCampaign /\ h.child # NoCampaign /\ There(h.c, C) /\ There(h.child, C)
    PROVE  h \in Sessions /\ Sound(h, C, I)
<1>1. \A x \in o.holders : There(x.c, C)
    BY DEF Slotting, Sound
<1>2. h \in Sessions
    BY DEF Slotting, Sessions, Poll
<1>3. h \notin Session /\ h.phase # "sweep"
    BY DEF Slotting, Session
<1>. QED
    BY <1>1, <1>2, <1>3 DEF Sound

LEMMA PollEndsKeeps ==
    ASSUME ClosedInv, OtherSweeps \/ EndPoll \/ (op[Worker].phase = "slots" /\ PollRaises)
    PROVE  ClosedInv'
<1>. DEFINE rest == [phase |-> "rest"]
<1>1. rest \in Sessions /\ Sound(rest, campaigns, items)
    BY DEF Sessions, Poll, Session, Sound
<1>2. UNCHANGED <<campaigns, items, instances, grants, clock, edits, faults>>
    BY DEF OtherSweeps, EndPoll, PollRaises
<1>3. op' = [op EXCEPT ![Worker] = rest] \/ op' = [op EXCEPT ![Worker] = Idle]
    BY DEF OtherSweeps, EndPoll, PollRaises
<1>4. faults' \in Nat
    BY <1>2, TypedNow DEF Typed
<1>. HIDE DEF rest
<1>. QED
    BY <1>1, <1>2, <1>3, <1>4, SomeProc, IdleSound, Plans

-----------------------------------------------------------------------------
(***************************************************************************)
(* A session goes on.                                                      *)
(***************************************************************************)
LEMMA SessionIs ==
    ASSUME ClosedInv, NEW p \in Procs, op[p].phase \in {"next", "revoke", "record", "count", "spawn", "link"}
    PROVE  op[p] \in Session /\ Sound(op[p], campaigns, items) /\ There(op[p].c, campaigns) /\ op[p].c \in Campaigns
<1>1. op[p] \in Sessions
    BY TypedNow
<1>2. op[p] \notin Poll /\ op[p] # Idle
    BY DEF Poll, Idle
<1>3. op[p] \in Session
    BY <1>1, <1>2 DEF Sessions
<1>4. Sound(op[p], campaigns, items)
    BY DEF ClosedInv
<1>. QED
    BY <1>3, <1>4 DEF Sound, Session

LEMMA DoneSound ==
    ASSUME NEW p, NEW o \in Session, NEW C, NEW I, Sound(o, C, I)
    PROVE  Done(p, o) \in Sessions /\ Sound(Done(p, o), C, I)
<1>. DEFINE sweep == [phase |-> "sweep", overdue |-> o.overdue]
<1>1. o.overdue \in SUBSET [c : Campaigns, freq : BOOLEAN] /\ \A x \in o.overdue : There(x.c, C)
    BY DEF Session, Sound
<1>2. sweep \in Sessions /\ Sound(sweep, C, I)
    BY <1>1 DEF Sessions, Poll, Session, Sound
<1>3. Done(p, o) = sweep \/ Done(p, o) = Idle
    BY DEF Done
<1>. HIDE DEF sweep
<1>. QED
    BY <1>2, <1>3, IdleSound

\* A session in another phase.
LEMMA Rephased ==
    ASSUME NEW o \in Session, NEW C, NEW I, Sound(o, C, I), NEW ph \in {"next", "record", "count", "spawn"},
           ph = "next" => o.kind = "complete", ph = "record" => o.phase = "revoke" /\ o.kind = "decide",
           o.kind = "complete" /\ o.phase = "revoke" => C[o.c].routed
    PROVE  [o EXCEPT !.phase = ph] \in Session /\ Sound([o EXCEPT !.phase = ph], C, I)
<1>. DEFINE h == [o EXCEPT !.phase = ph]
<1>1. /\ h \in Session /\ h.c = o.c /\ h.child = o.child /\ h.phase = ph /\ h.kind = o.kind
      /\ h.decision = o.decision /\ h.todo = o.todo /\ h.g = o.g /\ h.overdue = o.overdue /\ h.writes = o.writes
    BY DEF Session
<1>. HIDE DEF h
<1>2. Sound(h, C, I)
    BY <1>1 DEF Sound
<1>. QED
    BY <1>1, <1>2 DEF h

LEMMA Shut ==
    ASSUME NEW o \in Session, NEW C, NEW I, Sound(o, C, I)
    PROVE  /\ [o EXCEPT !.open = FALSE] \in Session /\ Sound([o EXCEPT !.open = FALSE], C, I)
           /\ [o EXCEPT !.open = FALSE].phase = o.phase
<1>. DEFINE h == [o EXCEPT !.open = FALSE]
<1>1. /\ h \in Session /\ h.c = o.c /\ h.child = o.child /\ h.phase = o.phase /\ h.kind = o.kind
      /\ h.decision = o.decision /\ h.todo = o.todo /\ h.g = o.g /\ h.overdue = o.overdue /\ h.writes = o.writes
      /\ h.phase \notin {"sweep", "slots", "move"}
    BY DEF Session
<1>. HIDE DEF h
<1>2. Sound(h, C, I)
    BY <1>1 DEF Sound
<1>. QED
    BY <1>1, <1>2 DEF h

LEMMA MaybeSpawnSound ==
    ASSUME NEW p, NEW o \in Session, NEW C, NEW I, Sound(o, C, I), o.phase # "revoke", NEW repeats \in BOOLEAN
    PROVE  MaybeSpawn(p, o, repeats) \in Sessions /\ Sound(MaybeSpawn(p, o, repeats), C, I)
<1>1. CASE repeats
    BY <1>1, Rephased DEF MaybeSpawn, Sessions
<1>2. CASE ~repeats /\ o.kind = "complete"
    BY <1>2, Rephased DEF MaybeSpawn, Sessions
<1>3. CASE ~repeats /\ o.kind # "complete"
    BY <1>3, DoneSound DEF MaybeSpawn
<1>. QED
    BY <1>1, <1>2, <1>3

LEMMA AfterSpawnSound ==
    ASSUME NEW p, NEW o \in Session, NEW C, NEW I, Sound(o, C, I), o.phase # "revoke"
    PROVE  AfterSpawn(p, o) \in Sessions /\ Sound(AfterSpawn(p, o), C, I)
<1>1. CASE o.kind = "complete"
    BY <1>1, Rephased DEF AfterSpawn, Sessions
<1>2. CASE o.kind # "complete"
    BY <1>2, DoneSound DEF AfterSpawn
<1>. QED
    BY <1>1, <1>2

LEMMA AfterRevokeSound ==
    ASSUME NEW o \in Session, o.phase = "revoke", NEW I, Sound(o, campaigns, I)
    PROVE  AfterRevoke(o) \in Sessions /\ Sound(AfterRevoke(o), campaigns, I)
<1>0. o.kind \in {"decide", "outcome", "complete"}
    BY DEF Session
<1>1. CASE o.kind = "decide"
    BY <1>1, Rephased DEF AfterRevoke, Sessions
<1>2. CASE o.kind = "outcome"
    BY <1>2, Rephased DEF AfterRevoke, Sessions
<1>3. CASE o.kind = "complete" /\ campaigns[o.c].routed
    BY <1>3, Rephased DEF AfterRevoke, Sessions
<1>4. CASE o.kind = "complete" /\ ~campaigns[o.c].routed
    <2>. DEFINE w == [o.writes EXCEPT ![o.g] = "AUTO_REVOKED"]
                h == [o EXCEPT !.phase = "next", !.writes = w]
    <2>1. AfterRevoke(o) = h
        BY <1>4 DEF AfterRevoke, Session
    <2>2. w \in [Grants -> Decisions \cup {NoItem}]
        BY DEF Session, Decisions, Taken
    <2>3. \A x \in Grants : IF x = o.g THEN w[x] = "AUTO_REVOKED" ELSE w[x] = o.writes[x]
        BY DEF Session
    <2>. HIDE DEF w
    <2>4. /\ h \in Session /\ h.c = o.c /\ h.child = o.child /\ h.phase = "next" /\ h.kind = o.kind
          /\ h.decision = o.decision /\ h.todo = o.todo /\ h.g = o.g /\ h.overdue = o.overdue /\ h.writes = w
        BY <2>2 DEF Session
    <2>. HIDE DEF h
    <2>5. Sound(h, campaigns, I)
        BY <1>4, <2>3, <2>4 DEF Sound, Undecided, NoItem
    <2>. QED
        BY <2>1, <2>4, <2>5 DEF Sessions
<1>. QED
    BY <1>0, <1>1, <1>2, <1>3, <1>4

-----------------------------------------------------------------------------
(***************************************************************************)
(* One lemma per step of a session.                                        *)
(***************************************************************************)
LEMMA NextItemKeeps == ASSUME ClosedInv, NEW p \in Procs, NextItem(p) PROVE ClosedInv'
<1>1. PICK s : s = op[p]
    OBVIOUS
<1>2. /\ s \in Session /\ Sound(s, campaigns, items) /\ There(s.c, campaigns) /\ s.c \in Campaigns
      /\ s.phase = "next" /\ s.kind = "complete"
    BY <1>1, SessionIs DEF NextItem, Sound
<1>3. PICK g \in s.todo :
        LET o == [s EXCEPT !.g = g, !.todo = @ \ {g}]
            routed == campaigns[o.c].routed IN
        op' = [op EXCEPT ![p] =
            CASE routed /\ <<o.c, g>> \in instances -> Outcome(o, g, "CANCELLED")
              [] routed /\ <<o.c, g>> \notin instances -> o
              [] ~routed /\ campaigns[o.c].keep -> [o EXCEPT !.writes[g] = "APPROVED"]
              [] ~routed /\ ~campaigns[o.c].keep -> [o EXCEPT !.phase = "revoke"]]
    BY <1>1 DEF NextItem
<1>4. g \in Grants
    BY <1>2, <1>3 DEF Session
<1>5. PICK o : o = [s EXCEPT !.g = g, !.todo = @ \ {g}]
    OBVIOUS
<1>6. /\ o \in Session /\ o.c = s.c /\ o.child = s.child /\ o.phase = "next" /\ o.kind = "complete" /\ o.g = g
      /\ o.overdue = s.overdue /\ o.writes = s.writes /\ o.todo = s.todo \ {g} /\ o.decision = s.decision
    BY <1>2, <1>4, <1>5 DEF Session
<1>7. Settling(o, g, campaigns, items)
    BY <1>2, <1>6 DEF Sound, Settling
<1>8. campaigns[o.c].routed \in BOOLEAN /\ campaigns[o.c].keep \in BOOLEAN
    BY <1>2, <1>6, TypedNow DEF Typed, There, Absent, Campaign
<1>9. ASSUME NEW h \in Session, Sound(h, campaigns, items), op' = [op EXCEPT ![p] = h]
      PROVE  ClosedInv'
    <2>1. UNCHANGED <<campaigns, items, instances, grants, clock, edits, faults>> /\ faults \in Nat
        BY TypedNow DEF NextItem, Typed
    <2>. QED
        BY <1>9, <2>1, Plans DEF Sessions
<1>10. CASE campaigns[o.c].routed /\ <<o.c, g>> \in instances
    <2>1. PICK h : h = Outcome(o, g, "CANCELLED")
        OBVIOUS
    <2>2. h \in Session
        BY <1>4, <1>6, <2>1, OutcomeSound
    <2>3. Sound(h, campaigns, items)
        BY <1>4, <1>6, <1>7, <2>1, SettledSound
    <2>4. op' = [op EXCEPT ![p] = h]
        BY <1>3, <1>5, <1>10, <2>1
    <2>. QED
        BY <1>9, <2>2, <2>3, <2>4
<1>11. CASE campaigns[o.c].routed /\ <<o.c, g>> \notin instances
    <2>1. items[o.c][g] # Undecided
        BY <1>2, <1>4, <1>6, <1>11 DEF ClosedInv, Coherent
    <2>2. Sound(o, campaigns, items)
        BY <1>2, <1>6, <2>1 DEF Sound
    <2>3. op' = [op EXCEPT ![p] = o]
        BY <1>3, <1>5, <1>11
    <2>. QED
        BY <1>6, <1>9, <2>2, <2>3
<1>12. CASE ~campaigns[o.c].routed /\ campaigns[o.c].keep
    <2>. DEFINE w == [o.writes EXCEPT ![g] = "APPROVED"]
                h == [o EXCEPT !.writes = w]
    <2>1. w \in [Grants -> Decisions \cup {NoItem}] /\ \A x \in Grants : IF x = g THEN w[x] = "APPROVED" ELSE w[x] = o.writes[x]
        BY <1>6 DEF Session, Decisions
    <2>2. [o EXCEPT !.writes[g] = "APPROVED"] = h
        BY <1>6 DEF Session
    <2>3. op' = [op EXCEPT ![p] = h]
        BY <1>3, <1>5, <1>12, <2>2
    <2>. HIDE DEF w
    <2>4. /\ h \in Session /\ h.c = o.c /\ h.child = o.child /\ h.phase = "next" /\ h.kind = "complete" /\ h.g = g
          /\ h.overdue = o.overdue /\ h.writes = w /\ h.todo = o.todo /\ h.decision = o.decision
        BY <1>6, <2>1 DEF Session
    <2>. HIDE DEF h
    <2>5. Sound(h, campaigns, items)
        BY <1>6, <1>7, <2>1, <2>4 DEF Sound, Settling, Undecided, NoItem
    <2>. QED
        BY <1>9, <2>3, <2>4, <2>5
<1>13. CASE ~campaigns[o.c].routed /\ ~campaigns[o.c].keep
    <2>1. PICK h : h = [o EXCEPT !.phase = "revoke"]
        OBVIOUS
    <2>2. /\ h \in Session /\ h.c = o.c /\ h.child = o.child /\ h.phase = "revoke" /\ h.kind = "complete" /\ h.g = g
          /\ h.overdue = o.overdue /\ h.writes = o.writes /\ h.todo = o.todo /\ h.decision = o.decision
        BY <1>6, <2>1 DEF Session
    <2>3. Sound(h, campaigns, items)
        BY <1>6, <1>7, <1>13, <2>2 DEF Sound, Settling
    <2>4. op' = [op EXCEPT ![p] = h]
        BY <1>3, <1>5, <1>13, <2>1
    <2>. QED
        BY <1>9, <2>2, <2>3, <2>4
<1>. QED
    BY <1>8, <1>10, <1>11, <1>12, <1>13

\* A step that commits what a session has to write, and lets it go on.
LEMMA Commits ==
    ASSUME ClosedInv, NEW p \in Procs, NEW o \in Session, Sound(o, campaigns, items), Flush(o),
           campaigns' = campaigns \/ (campaigns' = Completed(o.c) /\ AllDecided(o)),
           grants' \in [Grants -> Standing \cup {"NONE", "REVOKED"}], faults' \in Nat, UNCHANGED <<clock, edits>>
    PROVE  /\ Flushed(o) \in Session /\ Sound(Flushed(o), campaigns', items')
           /\ \A h \in Sessions : Sound(h, campaigns', items') /\ op' = [op EXCEPT ![p] = h] => ClosedInv'
<1>1. items' = Merged(o, items) /\ instances' = Ended(o, instances)
    BY FlushIs
<1>2. (\A g \in Grants : o.writes[g] # Undecided) /\ There(o.c, campaigns) /\ o.c \in Campaigns
    BY DEF Sound, Session
<1>3. AllDecided(o) => \A g \in Grants : Merged(o, items)[o.c][g] # Undecided
    BY <1>2, TypedNow DEF AllDecided, Written, Merged, Typed
<1>4. PICK D : D = campaigns'
    OBVIOUS
<1>5. D = campaigns \/ (D = Completed(o.c) /\ \A g \in Grants : Merged(o, items)[o.c][g] # Undecided)
    BY <1>3, <1>4
<1>6. /\ D \in [Campaigns -> Campaign \cup {Absent}]
      /\ Merged(o, items) \in [Campaigns -> [Grants -> Decisions \cup {NoItem}]]
      /\ Ended(o, instances) \subseteq Campaigns \X Grants
      /\ Keeps(campaigns, items, D, Merged(o, items)) /\ Keeps(campaigns, items, D, items)
      /\ Coherent(D, Merged(o, items), Ended(o, instances))
    BY <1>2, <1>5, Flushing
<1>7. Sound(o, D, items)
    BY <1>6, SoundStays DEF Sessions
<1>8. Flushed(o) \in Session /\ Sound(Flushed(o), D, Merged(o, items))
    BY <1>7, FlushedSound, TypedNow DEF Typed
<1>9. Typed'
    BY <1>1, <1>4, <1>6, TypedNow DEF Typed
<1>10. Keeps(campaigns, items, campaigns', items') /\ Coherent(campaigns', items', instances')
    BY <1>1, <1>4, <1>6
<1>11. \A h \in Sessions : Sound(h, campaigns', items') /\ op' = [op EXCEPT ![p] = h] => ClosedInv'
    BY <1>9, <1>10, Moves
<1>. QED
    BY <1>1, <1>4, <1>8, <1>11

LEMMA RecordKeeps == ASSUME ClosedInv, NEW p \in Procs, Record(p) PROVE ClosedInv'
<1>1. PICK s : s = op[p]
    OBVIOUS
<1>2. s \in Session /\ Sound(s, campaigns, items) /\ s.phase = "record" /\ s.decision # Undecided
    BY <1>1, SessionIs DEF Record, Sound
<1>. DEFINE w == [s.writes EXCEPT ![s.g] = s.decision]
            o == [s EXCEPT !.writes = w]
<1>3. [s EXCEPT !.writes[s.g] = s.decision] = o
    BY <1>2 DEF Session
<1>4. /\ w \in [Grants -> Decisions \cup {NoItem}]
      /\ \A x \in Grants : IF x = s.g THEN w[x] = s.decision ELSE w[x] = s.writes[x]
      /\ s.decision # NoItem
    BY <1>2 DEF Session, Decisions, Taken, Undecided, NoItem
<1>. HIDE DEF w
<1>5. /\ o \in Session /\ o.c = s.c /\ o.child = s.child /\ o.phase = "record" /\ o.kind = s.kind /\ o.g = s.g
      /\ o.overdue = s.overdue /\ o.writes = w /\ o.todo = s.todo /\ o.decision = s.decision
    BY <1>2, <1>4 DEF Session
<1>. HIDE DEF o
<1>6. Sound(o, campaigns, items)
    BY <1>2, <1>4, <1>5 DEF Sound
<1>7. Flush(o) /\ op' = [op EXCEPT ![p] = [Flushed(o) EXCEPT !.phase = "count"]]
    BY <1>1, <1>3 DEF Record
<1>8. UNCHANGED <<campaigns, grants, clock, edits, faults>> /\ faults \in Nat /\ Typed
    BY TypedNow DEF Record, Typed
<1>9. /\ Flushed(o) \in Session /\ Sound(Flushed(o), campaigns', items')
      /\ \A h \in Sessions : Sound(h, campaigns', items') /\ op' = [op EXCEPT ![p] = h] => ClosedInv'
    BY <1>5, <1>6, <1>7, <1>8, Commits DEF Typed
<1>10. Flushed(o).phase = "record"
    BY <1>5 DEF Flushed, Session
<1>11. PICK f : f = Flushed(o)
    OBVIOUS
<1>12. [f EXCEPT !.phase = "count"] \in Session /\ Sound([f EXCEPT !.phase = "count"], campaigns', items')
    BY <1>9, <1>10, <1>11, Rephased
<1>. QED
    BY <1>7, <1>9, <1>11, <1>12 DEF Sessions

\* A flush changes nothing of where the session is.
LEMMA FlushedIs ==
    ASSUME NEW o \in Session
    PROVE  Flushed(o).phase = o.phase /\ Flushed(o).kind = o.kind /\ Flushed(o).c = o.c
BY DEF Flushed, Session

LEMMA RevokeGrantKeeps == ASSUME ClosedInv, NEW p \in Procs, RevokeGrant(p) PROVE ClosedInv'
<1>1. PICK s : s = op[p]
    OBVIOUS
<1>2. s \in Session /\ Sound(s, campaigns, items) /\ s.phase = "revoke"
    BY <1>1, SessionIs DEF RevokeGrant
<1>3. UNCHANGED <<campaigns, clock, edits, faults>> /\ faults \in Nat /\ Typed
    BY TypedNow DEF RevokeGrant, Typed
<1>4. CASE op' = [op EXCEPT ![p] = AfterRevoke(s)] /\ UNCHANGED <<items, instances, grants>>
    BY <1>2, <1>3, <1>4, AfterRevokeSound, Plans
<1>5. CASE Flush(s) /\ op' = [op EXCEPT ![p] = AfterRevoke(Flushed(s))] /\ grants' = [grants EXCEPT ![s.g] = "REVOKED"]
    <2>1. grants' \in [Grants -> Standing \cup {"NONE", "REVOKED"}]
        BY <1>3, <1>5 DEF Typed
    <2>2. /\ Flushed(s) \in Session /\ Sound(Flushed(s), campaigns', items')
          /\ \A h \in Sessions : Sound(h, campaigns', items') /\ op' = [op EXCEPT ![p] = h] => ClosedInv'
        BY <1>2, <1>3, <1>5, <2>1, Commits
    <2>3. PICK I : I = items'
        OBVIOUS
    <2>4. Flushed(s).phase = "revoke" /\ Sound(Flushed(s), campaigns, I)
        BY <1>2, <1>3, <2>2, <2>3, FlushedIs
    <2>5. AfterRevoke(Flushed(s)) \in Sessions /\ Sound(AfterRevoke(Flushed(s)), campaigns, I)
        BY <2>2, <2>4, AfterRevokeSound
    <2>. QED
        BY <1>3, <1>5, <2>2, <2>3, <2>5
<1>. QED
    BY <1>1, <1>4, <1>5 DEF RevokeGrant, NoFlush

LEMMA RevokeRefusedKeeps == ASSUME ClosedInv, NEW p \in Procs, AnyRefusal(p) PROVE ClosedInv'
<1>1. PICK s : s = op[p]
    OBVIOUS
<1>2. s \in Session /\ Sound(s, campaigns, items) /\ s.phase = "revoke"
    BY <1>1, SessionIs DEF AnyRefusal
<1>3. /\ UNCHANGED <<campaigns, grants, clock, edits>> /\ faults' \in Nat /\ Typed /\ Flush(s)
      /\ op' = [op EXCEPT ![p] = AfterRevoke(Flushed(s))] \/ op' = [op EXCEPT ![p] = Done(p, s)]
    <2>1. op' = [op EXCEPT ![p] = IF s.kind = "complete" /\ ~campaigns[s.c].routed THEN AfterRevoke(Flushed(s))
                                  ELSE Done(p, s)]
        BY <1>1 DEF AnyRefusal
    <2>2. op' = [op EXCEPT ![p] = AfterRevoke(Flushed(s))] \/ op' = [op EXCEPT ![p] = Done(p, s)]
        BY <2>1, Zenon
    <2>3. UNCHANGED <<campaigns, grants, clock, edits>> /\ faults' \in Nat /\ Typed /\ Flush(s)
        BY <1>1, TypedNow DEF AnyRefusal, Typed
    <2>. QED
        BY <2>2, <2>3
<1>4. /\ Flushed(s) \in Session /\ Sound(Flushed(s), campaigns', items')
      /\ \A h \in Sessions : Sound(h, campaigns', items') /\ op' = [op EXCEPT ![p] = h] => ClosedInv'
    BY <1>2, <1>3, Commits DEF Typed
<1>5. PICK I : I = items'
    OBVIOUS
<1>6. Flushed(s).phase = "revoke" /\ Sound(Flushed(s), campaigns, I)
    BY <1>2, <1>3, <1>4, <1>5, FlushedIs
<1>7. AfterRevoke(Flushed(s)) \in Sessions /\ Sound(AfterRevoke(Flushed(s)), campaigns, I)
    BY <1>4, <1>6, AfterRevokeSound
<1>8. Done(p, s) \in Sessions /\ Sound(Done(p, s), campaigns, I)
    <2>1. Done(p, s) = Done(p, Flushed(s))
        BY <1>2 DEF Done, Flushed, Session
    <2>. QED
        BY <1>4, <1>6, <2>1, DoneSound
<1>. QED
    BY <1>3, <1>4, <1>5, <1>7, <1>8

LEMMA CountLastKeeps == ASSUME ClosedInv, NEW p \in Procs, CountLast(p) PROVE ClosedInv'
<1>1. PICK s : s = op[p]
    OBVIOUS
<1>2. s \in Session /\ Sound(s, campaigns, items) /\ s.phase = "count"
    BY <1>1, SessionIs DEF CountLast
<1>3. /\ campaigns' = Completed(s.c) /\ AllDecided(s) /\ UNCHANGED <<grants, clock, edits, faults>>
      /\ faults \in Nat /\ Typed /\ Flush(s)
      /\ op' = [op EXCEPT ![p] = MaybeSpawn(p, [Flushed(s) EXCEPT !.open = FALSE], s.freq)]
    BY <1>1, TypedNow DEF CountLast, Typed
<1>4. /\ Flushed(s) \in Session /\ Sound(Flushed(s), campaigns', items')
      /\ \A h \in Sessions : Sound(h, campaigns', items') /\ op' = [op EXCEPT ![p] = h] => ClosedInv'
    BY <1>2, <1>3, Commits DEF Typed
<1>5. s.freq \in BOOLEAN /\ Flushed(s).phase = "count"
    BY <1>2, FlushedIs DEF Session
<1>. DEFINE o == [Flushed(s) EXCEPT !.open = FALSE]
<1>6. o \in Session /\ Sound(o, campaigns', items') /\ o.phase = "count"
    BY <1>4, <1>5, Shut
<1>. HIDE DEF o
<1>7. MaybeSpawn(p, o, s.freq) \in Sessions /\ Sound(MaybeSpawn(p, o, s.freq), campaigns', items')
    BY <1>5, <1>6, MaybeSpawnSound
<1>. QED
    BY <1>3, <1>4, <1>7 DEF o

LEMMA CloseCampaignKeeps == ASSUME ClosedInv, NEW p \in Procs, CloseCampaign(p) PROVE ClosedInv'
<1>1. PICK s : s = op[p]
    OBVIOUS
<1>2. /\ s \in Session /\ Sound(s, campaigns, items) /\ s.phase = "next" /\ s.kind = "complete" /\ s.todo = {}
      /\ There(s.c, campaigns) /\ s.c \in Campaigns
    BY <1>1, SessionIs DEF CloseCampaign, Sound
<1>3. /\ campaigns' = Completed(s.c) /\ UNCHANGED <<grants, clock, edits, faults>> /\ faults \in Nat /\ Typed /\ Flush(s)
      /\ op' = [op EXCEPT ![p] = MaybeSpawn(p, [Flushed(s) EXCEPT !.open = FALSE], campaigns[s.c].freq)]
    BY <1>1, TypedNow DEF CloseCampaign, Typed
<1>4. AllDecided(s)
    BY <1>2 DEF AllDecided, Written, Sound
<1>5. /\ Flushed(s) \in Session /\ Sound(Flushed(s), campaigns', items')
      /\ \A h \in Sessions : Sound(h, campaigns', items') /\ op' = [op EXCEPT ![p] = h] => ClosedInv'
    BY <1>2, <1>3, <1>4, Commits DEF Typed
<1>6. campaigns[s.c].freq \in BOOLEAN /\ Flushed(s).phase = "next"
    BY <1>2, <1>3, FlushedIs DEF Typed, There, Absent, Campaign
<1>. DEFINE o == [Flushed(s) EXCEPT !.open = FALSE]
<1>7. o \in Session /\ Sound(o, campaigns', items') /\ o.phase = "next"
    BY <1>5, <1>6, Shut
<1>. HIDE DEF o
<1>8. MaybeSpawn(p, o, campaigns[s.c].freq) \in Sessions /\ Sound(MaybeSpawn(p, o, campaigns[s.c].freq), campaigns', items')
    BY <1>6, <1>7, MaybeSpawnSound
<1>. QED
    BY <1>3, <1>5, <1>8 DEF o

LEMMA CountMoreKeeps == ASSUME ClosedInv, NEW p \in Procs, CountMore(p) PROVE ClosedInv'
<1>1. PICK s : s = op[p]
    OBVIOUS
<1>2. s \in Session /\ Sound(s, campaigns, items) /\ s.phase = "count"
    BY <1>1, SessionIs DEF CountMore
<1>3. UNCHANGED <<campaigns, grants, clock, edits, faults>> /\ faults \in Nat /\ Typed
    BY TypedNow DEF CountMore, Typed
<1>4. CASE s.kind = "complete"
    <2>1. op' = [op EXCEPT ![p] = [s EXCEPT !.phase = "next"]] /\ UNCHANGED <<items, instances>>
        BY <1>1, <1>4 DEF CountMore, NoFlush
    <2>2. [s EXCEPT !.phase = "next"] \in Session /\ Sound([s EXCEPT !.phase = "next"], campaigns, items)
        BY <1>2, <1>4, Rephased
    <2>. QED
        BY <1>3, <2>1, <2>2, Plans DEF Sessions
<1>5. CASE s.kind # "complete"
    <2>1. op' = [op EXCEPT ![p] = Done(p, s)] /\ Flush(s)
        BY <1>1, <1>5 DEF CountMore
    <2>2. /\ Flushed(s) \in Session /\ Sound(Flushed(s), campaigns', items')
          /\ \A h \in Sessions : Sound(h, campaigns', items') /\ op' = [op EXCEPT ![p] = h] => ClosedInv'
        BY <1>2, <1>3, <2>1, Commits DEF Typed
    <2>3. Done(p, s) = Done(p, Flushed(s))
        BY <1>2 DEF Done, Flushed, Session
    <2>4. Done(p, s) \in Sessions /\ Sound(Done(p, s), campaigns', items')
        BY <2>2, <2>3, DoneSound
    <2>. QED
        BY <2>1, <2>2, <2>4
<1>. QED
    BY <1>4, <1>5

LEMMA AlreadyClosedKeeps == ASSUME ClosedInv, NEW p \in Procs, AlreadyClosed(p) PROVE ClosedInv'
<1>1. op[p] \in Session /\ Sound(op[p], campaigns, items)
    BY SessionIs DEF AlreadyClosed
<1>2. Done(p, op[p]) \in Sessions /\ Sound(Done(p, op[p]), campaigns, items)
    BY <1>1, DoneSound
<1>3. UNCHANGED <<campaigns, items, instances, grants, clock, edits, faults>> /\ faults \in Nat
    BY TypedNow DEF AlreadyClosed, Typed
<1>. QED
    BY <1>2, <1>3, Plans DEF AlreadyClosed

-----------------------------------------------------------------------------
(***************************************************************************)
(* New campaigns, and the steps that stamp a campaign.                     *)
(***************************************************************************)
\* A step that creates a campaign, after which session p, if any, is at h.
LEMMA Begins ==
    ASSUME ClosedInv, NEW b \in Body, NEW chain \in Campaigns, NEW skipped, Skips(b, skipped),
           Create(b, chain, skipped), FreeCampaigns # {}, UNCHANGED faults
    PROVE  /\ FreshId \in Campaigns /\ There(FreshId, campaigns') /\ Keeps(campaigns, items, campaigns', items')
           /\ \A p \in Procs, h \in Sessions :
                Sound(h, campaigns', items') /\ (op' = op \/ op' = [op EXCEPT ![p] = h]) => ClosedInv'
<1>1. UNCHANGED <<grants, clock, edits>> /\ Typed
    BY TypedNow DEF Create
<1>2. Typed'
    BY <1>1, Creating DEF Typed
<1>. QED
    BY <1>2, Creating, Moves

\* What a step may write on a campaign without anybody noticing.
LEMMA Stamps ==
    ASSUME ClosedInv, UNCHANGED <<items, instances, grants, clock>>, edits' \in Nat, faults' \in Nat,
           campaigns' \in [Campaigns -> Campaign \cup {Absent}],
           Stamped(campaigns, campaigns')
    PROVE  /\ Keeps(campaigns, items, campaigns', items')
           /\ \A p \in Procs, h \in Sessions :
                Sound(h, campaigns', items') /\ (op' = op \/ op' = [op EXCEPT ![p] = h]) => ClosedInv'
<1>1. Keeps(campaigns, items, campaigns', items') /\ Coherent(campaigns', items', instances')
    BY Stamping
<1>2. Typed'
    BY TypedNow DEF Typed
<1>. QED
    BY <1>1, <1>2, Moves

LEMMA CreateCampaignKeeps == ASSUME ClosedInv, AnyCreate PROVE ClosedInv'
<1>1. PICK b \in Body, skipped \in SUBSET Grants : Skips(b, skipped) /\ Create(b, FreshId, skipped)
    BY DEF AnyCreate
<1>2. FreshId \in Campaigns /\ FreeCampaigns # {}
    BY DEF AnyCreate, FreshId, FreeCampaigns
<1>3. UNCHANGED <<op, faults>>
    BY DEF AnyCreate
<1>. QED
    BY <1>1, <1>2, <1>3, Begins, SomeProc, IdleSound

LEMMA NoneSkipped == \A b : Skips(b, {})
BY DEF Skips

LEMMA EditedKeeps ==
    ASSUME clock \in Nat, NEW r \in Campaign, NEW e \in {"due", "repeat", "once", "schedule", "unschedule"}
    PROVE  /\ Edited(r, e) \in Campaign /\ Edited(r, e).status = r.status
           /\ Edited(r, e).routed = r.routed
<1>1. clock + 1 \in Nat /\ clock + 1 \in Int /\ NoTime \in Int
    BY DEF NoTime
<1>2. CASE e = "due"
    BY <1>1, <1>2 DEF Edited, Campaign
<1>3. CASE e = "repeat"
    BY <1>1, <1>3 DEF Edited, Campaign
<1>4. CASE e = "once"
    BY <1>1, <1>4 DEF Edited, Campaign
<1>5. CASE e = "schedule"
    BY <1>1, <1>5 DEF Edited, Campaign
<1>6. CASE e = "unschedule"
    BY <1>1, <1>6 DEF Edited, Campaign
<1>. QED
    BY <1>2, <1>3, <1>4, <1>5, <1>6

LEMMA UpdateCampaignKeeps == ASSUME ClosedInv, AnyUpdate PROVE ClosedInv'
<1>1. PICK c \in Campaigns, e \in {"due", "repeat", "once", "schedule", "unschedule"} : Active(c) /\ campaigns' = [campaigns EXCEPT ![c] = Edited(campaigns[c], e)]
    BY DEF AnyUpdate
<1>2. Typed /\ campaigns[c] \in Campaign
    BY <1>1, TypedNow DEF Active, Absent, Typed
<1>3. PICK u : u = Edited(campaigns[c], e)
    OBVIOUS
<1>4. u \in Campaign /\ u.status = campaigns[c].status /\ u.routed = campaigns[c].routed
    BY <1>2, <1>3, EditedKeeps DEF Typed
<1>5. /\ campaigns' \in [Campaigns -> Campaign \cup {Absent}]
      /\ Stamped(campaigns, campaigns')
    BY <1>1, <1>2, <1>3, <1>4 DEF Typed, Stamped
<1>6. UNCHANGED <<items, instances, grants, op, clock, faults>> /\ edits' \in Nat /\ faults \in Nat
    BY <1>2 DEF AnyUpdate, Typed
<1>. QED
    BY <1>5, <1>6, Stamps, SomeProc, IdleSound

LEMMA SpawnKeeps == ASSUME ClosedInv, NEW p \in Procs, AnySpawn(p) PROVE ClosedInv'
<1>1. PICK s : s = op[p]
    OBVIOUS
<1>2. /\ s \in Session /\ Sound(s, campaigns, items) /\ s.phase = "spawn"
      /\ There(s.c, campaigns) /\ s.c \in Campaigns
    BY <1>1, SessionIs DEF AnySpawn
<1>3. PICK f : f = FreshId
    OBVIOUS
<1>4. /\ Create(Successor(s.c), campaigns[s.c].chain, {}) /\ UNCHANGED faults /\ FreeCampaigns # {}
      /\ op' = [op EXCEPT ![p].phase = "link", ![p].child = f]
    BY <1>1, <1>3 DEF AnySpawn
<1>5. Successor(s.c) \in Body /\ campaigns[s.c].chain \in Campaigns /\ Skips(Successor(s.c), {})
    BY <1>2, TypedNow, NoneSkipped DEF Successor, Body, Typed, There, Absent, Campaign
<1>6. /\ f \in Campaigns /\ There(f, campaigns') /\ Keeps(campaigns, items, campaigns', items')
      /\ \A h \in Sessions : Sound(h, campaigns', items') /\ op' = [op EXCEPT ![p] = h] => ClosedInv'
    BY <1>3, <1>4, <1>5, Begins
<1>7. Sound(s, campaigns', items')
    BY <1>2, <1>6, SoundStays DEF Sessions
<1>. DEFINE h == [s EXCEPT !.phase = "link", !.child = f]
<1>8. op' = [op EXCEPT ![p] = h]
    BY <1>1, <1>2, <1>4, TypedNow DEF Session
<1>9. /\ h \in Session /\ h.c = s.c /\ h.child = f /\ h.phase = "link" /\ h.kind = s.kind /\ h.g = s.g
      /\ h.overdue = s.overdue /\ h.writes = s.writes /\ h.todo = s.todo /\ h.decision = s.decision
    BY <1>2, <1>6 DEF Session
<1>. HIDE DEF h
<1>10. f # NoCampaign
    BY <1>6, ConstantsAssumption
<1>11. Sound(h, campaigns', items')
    BY <1>2, <1>6, <1>7, <1>9, <1>10 DEF Sound
<1>. QED
    BY <1>6, <1>8, <1>9, <1>11 DEF Sessions

LEMMA SpawnFailsKeeps == ASSUME ClosedInv, NEW p \in Procs, AnySpawnFails(p) PROVE ClosedInv'
<1>1. op[p] \in Session /\ Sound(op[p], campaigns, items) /\ op[p].phase # "revoke"
    BY SessionIs DEF AnySpawnFails
<1>2. AfterSpawn(p, op[p]) \in Sessions /\ Sound(AfterSpawn(p, op[p]), campaigns, items)
    BY <1>1, AfterSpawnSound
<1>3. UNCHANGED <<campaigns, items, instances, grants, clock, edits>> /\ faults' \in Nat
    BY TypedNow DEF AnySpawnFails, Counted, Typed
<1>. QED
    BY <1>2, <1>3, Plans DEF AnySpawnFails

LEMMA LinkKeeps == ASSUME ClosedInv, NEW p \in Procs, Link(p) PROVE ClosedInv'
<1>1. PICK s : s = op[p]
    OBVIOUS
<1>2. /\ s \in Session /\ Sound(s, campaigns, items) /\ s.phase = "link"
      /\ There(s.child, campaigns) /\ s.child \in Campaigns /\ s.c \in Campaigns
    BY <1>1, SessionIs DEF Link, Sound, Session
<1>3. /\ campaigns' = [campaigns EXCEPT ![s.child].parent = s.c]
      /\ op' = [op EXCEPT ![p] = AfterSpawn(p, [s EXCEPT !.child = NoCampaign])]
      /\ UNCHANGED <<items, instances, grants, clock, edits, faults>> /\ edits \in Nat /\ faults \in Nat
    BY <1>1, TypedNow DEF Link, Typed
<1>4. PICK u : u = [campaigns[s.child] EXCEPT !.parent = s.c]
    OBVIOUS
<1>5. u \in Campaign /\ u.status = campaigns[s.child].status /\ u.routed = campaigns[s.child].routed
    BY <1>2, <1>4, TypedNow DEF Typed, There, Absent, Campaign
<1>6. campaigns' = [campaigns EXCEPT ![s.child] = u]
    BY <1>3, <1>4
<1>7. /\ campaigns' \in [Campaigns -> Campaign \cup {Absent}]
      /\ Stamped(campaigns, campaigns')
    BY <1>2, <1>5, <1>6, TypedNow DEF Typed, Stamped
<1>8. /\ Keeps(campaigns, items, campaigns', items')
      /\ \A h \in Sessions : Sound(h, campaigns', items') /\ op' = [op EXCEPT ![p] = h] => ClosedInv'
    BY <1>3, <1>7, Stamps
<1>9. CASE s.kind = "complete"
    <2>. DEFINE h == [s EXCEPT !.child = NoCampaign, !.phase = "next"]
    <2>1. op' = [op EXCEPT ![p] = h]
        BY <1>2, <1>3, <1>9 DEF AfterSpawn, Session
    <2>2. /\ h \in Session /\ h.c = s.c /\ h.child = NoCampaign /\ h.phase = "next" /\ h.kind = s.kind /\ h.g = s.g
          /\ h.overdue = s.overdue /\ h.writes = s.writes /\ h.todo = s.todo /\ h.decision = s.decision
        BY <1>2 DEF Session
    <2>. HIDE DEF h
    <2>3. Sound(h, campaigns, items)
        BY <1>2, <1>9, <2>2 DEF Sound
    <2>4. Sound(h, campaigns', items')
        BY <1>8, <2>2, <2>3, SoundStays DEF Sessions
    <2>. QED
        BY <1>8, <2>1, <2>2, <2>4 DEF Sessions
<1>10. CASE s.kind # "complete"
    <2>1. AfterSpawn(p, [s EXCEPT !.child = NoCampaign]) = Done(p, s)
        BY <1>2, <1>10 DEF AfterSpawn, Done, Session
    <2>2. Sound(s, campaigns', items')
        BY <1>2, <1>8, SoundStays DEF Sessions
    <2>3. Done(p, s) \in Sessions /\ Sound(Done(p, s), campaigns', items')
        BY <1>2, <2>2, DoneSound
    <2>. QED
        BY <1>3, <1>8, <2>1, <2>3
<1>. QED
    BY <1>9, <1>10

-----------------------------------------------------------------------------
(***************************************************************************)
(* The slots of the schedules.                                             *)
(***************************************************************************)
LEMMA SlotsAre ==
    ASSUME ClosedInv, op[Worker].phase \in {"slots", "move"}
    PROVE  \E o : /\ o = op[Worker] /\ o \in Slotting /\ o \in Poll /\ Sound(o, campaigns, items)
                  /\ op \in [Procs -> Sessions] /\ \A x \in o.holders : x.c \in Campaigns /\ There(x.c, campaigns)
<1>1. op[Worker] \in Poll /\ Sound(op[Worker], campaigns, items) /\ op \in [Procs -> Sessions]
    BY PollIs, TypedNow
<1>2. op[Worker] \in Slotting
    BY <1>1 DEF Poll, Slotting
<1>3. \A x \in op[Worker].holders : x.c \in Campaigns /\ There(x.c, campaigns)
    BY <1>1, <1>2 DEF Slotting, Sound
<1>. QED
    BY <1>1, <1>2, <1>3

LEMMA MissSlotKeeps ==
    ASSUME ClosedInv, op[Worker].phase = "slots", NEW h \in op[Worker].holders, MissSlot(h), faults' \in Nat
    PROVE  ClosedInv'
<1>1. PICK o : /\ o = op[Worker] /\ o \in Slotting /\ o \in Poll /\ Sound(o, campaigns, items)
               /\ op \in [Procs -> Sessions] /\ \A x \in o.holders : x.c \in Campaigns /\ There(x.c, campaigns)
    BY SlotsAre
<1>2. h.c \in Campaigns /\ There(h.c, campaigns)
    BY <1>1
<1>3. campaigns' = [campaigns EXCEPT ![h.c].next = clock + 1] /\ UNCHANGED <<items, instances, grants, clock, edits>>
    BY DEF MissSlot, Following
<1>4. PICK u : u = [campaigns[h.c] EXCEPT !.next = clock + 1]
    OBVIOUS
<1>5. u \in Campaign /\ u.status = campaigns[h.c].status /\ u.routed = campaigns[h.c].routed
    <2>1. campaigns[h.c] \in Campaign /\ clock + 1 \in Int
        BY <1>2, TypedNow DEF Typed, There, Absent
    <2>. QED
        BY <1>4, <2>1 DEF Campaign
<1>6. campaigns' = [campaigns EXCEPT ![h.c] = u]
    BY <1>3, <1>4
<1>7. campaigns' \in [Campaigns -> Campaign \cup {Absent}] /\ Stamped(campaigns, campaigns') /\ edits' \in Nat
    BY <1>2, <1>3, <1>5, <1>6, TypedNow DEF Typed, Stamped
<1>8. /\ Keeps(campaigns, items, campaigns', items')
      /\ \A s \in Sessions : Sound(s, campaigns', items') /\ op' = [op EXCEPT ![Worker] = s] => ClosedInv'
    BY <1>3, <1>7, Stamps, SomeProc
<1>. DEFINE r == [o EXCEPT !.holders = @ \ {h}]
<1>9. op' = [op EXCEPT ![Worker] = r]
    BY <1>1 DEF MissSlot, Without
<1>10. r \in Sessions /\ Sound(r, campaigns, items)
    <2>1. r \in Slotting /\ r.holders \subseteq o.holders /\ r.phase = "slots"
        BY <1>1 DEF Slotting
    <2>. HIDE DEF r
    <2>. QED
        BY <1>1, <2>1, SlotsSound
<1>. HIDE DEF r
<1>11. Sound(r, campaigns', items')
    BY <1>8, <1>10, SoundStays
<1>. QED
    BY <1>8, <1>9, <1>10, <1>11

LEMMA StartNextKeeps == ASSUME ClosedInv, op[Worker].phase = "slots", AnyStart PROVE ClosedInv'
<1>1. PICK h \in op[Worker].holders :
        /\ Create(Scheduled(h), campaigns[h.c].chain, {})
        /\ op' = [Without(h) EXCEPT ![Worker].phase = "move", ![Worker].c = h.c, ![Worker].child = FreshId]
    BY DEF AnyStart
<1>2. PICK o : /\ o = op[Worker] /\ o \in Slotting /\ o \in Poll /\ Sound(o, campaigns, items)
               /\ op \in [Procs -> Sessions] /\ \A x \in o.holders : x.c \in Campaigns /\ There(x.c, campaigns)
    BY SlotsAre
<1>3. h.c \in Campaigns /\ There(h.c, campaigns)
    BY <1>1, <1>2
<1>4. campaigns[h.c].keep \in BOOLEAN /\ campaigns[h.c].chain \in Campaigns
    BY <1>3, TypedNow DEF Typed, There, Absent, Campaign
<1>5. Scheduled(h) \in Body
    BY <1>4 DEF Scheduled, Body
<1>6. PICK f : f = FreshId
    OBVIOUS
<1>7. UNCHANGED faults /\ FreeCampaigns # {}
    BY DEF AnyStart
<1>8. /\ f \in Campaigns /\ There(f, campaigns') /\ Keeps(campaigns, items, campaigns', items')
      /\ \A s \in Sessions : Sound(s, campaigns', items') /\ op' = [op EXCEPT ![Worker] = s] => ClosedInv'
    BY <1>1, <1>4, <1>5, <1>6, <1>7, Begins, NoneSkipped, SomeProc
<1>. DEFINE r == [o EXCEPT !.holders = @ \ {h}, !.phase = "move", !.c = h.c, !.child = f]
<1>9. op' = [op EXCEPT ![Worker] = r]
    <2>1. Without(h) = [op EXCEPT ![Worker] = [o EXCEPT !.holders = @ \ {h}]]
        BY <1>2 DEF Without
    <2>. QED
        BY <1>1, <1>2, <1>6, <2>1, SomeProc
<1>10. f # NoCampaign /\ h.c # NoCampaign
    BY <1>3, <1>8, ConstantsAssumption
<1>11. There(h.c, campaigns') /\ Sound(o, campaigns', items')
    BY <1>2, <1>3, <1>8, SoundStays DEF Keeps, Sessions
<1>12. r \in Sessions /\ Sound(r, campaigns', items')
    <2>1. r \in Slotting /\ r.holders \subseteq o.holders /\ r.phase = "move" /\ r.c = h.c /\ r.child = f
        BY <1>2, <1>3, <1>8 DEF Slotting
    <2>. HIDE DEF r
    <2>. QED
        BY <1>2, <1>8, <1>10, <1>11, <2>1, SlotsSound
<1>. HIDE DEF r
<1>. QED
    BY <1>8, <1>9, <1>12

LEMMA MoveScheduleKeeps == ASSUME ClosedInv, MoveSchedule PROVE ClosedInv'
<1>1. PICK o : /\ o = op[Worker] /\ o \in Slotting /\ o \in Poll /\ Sound(o, campaigns, items)
               /\ op \in [Procs -> Sessions] /\ \A x \in o.holders : x.c \in Campaigns /\ There(x.c, campaigns)
    BY SlotsAre DEF MoveSchedule
<1>2. /\ o.phase = "move" /\ o.c \in Campaigns /\ o.child \in Campaigns
      /\ There(o.c, campaigns) /\ There(o.child, campaigns)
    BY <1>1 DEF MoveSchedule, Sound, Slotting
<1>3. /\ campaigns' = [campaigns EXCEPT ![o.child].parent = o.c, ![o.c].next = NoTime]
      /\ UNCHANGED <<items, instances, grants, clock, edits, faults>> /\ edits \in Nat /\ faults \in Nat
    BY <1>1, TypedNow DEF MoveSchedule, HandOver, Typed
<1>4. campaigns' \in [Campaigns -> Campaign \cup {Absent}] /\ Stamped(campaigns, campaigns')
    <2>1. PICK C : C = [campaigns EXCEPT ![o.child].parent = o.c]
        OBVIOUS
    <2>2. PICK u : u = [campaigns[o.child] EXCEPT !.parent = o.c]
        OBVIOUS
    <2>3. u \in Campaign /\ u.status = campaigns[o.child].status /\ u.routed = campaigns[o.child].routed
        <3>1. campaigns[o.child] \in Campaign
            BY <1>2, TypedNow DEF Typed, There, Absent
        <3>. QED
            BY <1>2, <2>2, <3>1 DEF Campaign
    <2>4. C \in [Campaigns -> Campaign \cup {Absent}] /\ Stamped(campaigns, C) /\ There(o.c, C)
        BY <1>2, <2>1, <2>2, <2>3, TypedNow DEF Typed, Stamped, There
    <2>5. PICK v : v = [C[o.c] EXCEPT !.next = NoTime]
        OBVIOUS
    <2>6. v \in Campaign /\ v.status = C[o.c].status /\ v.routed = C[o.c].routed
        BY <1>2, <2>4, <2>5 DEF There, Absent, Campaign, NoTime
    <2>7. campaigns' = [C EXCEPT ![o.c] = v]
        BY <1>2, <1>3, <2>1, <2>4, <2>5
    <2>. QED
        BY <1>2, <2>4, <2>6, <2>7 DEF Stamped, There
<1>5. /\ Keeps(campaigns, items, campaigns', items')
      /\ \A s \in Sessions : Sound(s, campaigns', items') /\ op' = [op EXCEPT ![Worker] = s] => ClosedInv'
    BY <1>3, <1>4, Stamps, SomeProc
<1>. DEFINE r == [o EXCEPT !.phase = "slots", !.c = NoCampaign, !.child = NoCampaign]
<1>6. op' = [op EXCEPT ![Worker] = r]
    BY <1>1, SomeProc DEF MoveSchedule
<1>7. r \in Sessions /\ Sound(r, campaigns, items)
    <2>1. r \in Slotting /\ r.holders \subseteq o.holders /\ r.phase = "slots"
        BY <1>1 DEF Slotting
    <2>. HIDE DEF r
    <2>. QED
        BY <1>1, <2>1, SlotsSound
<1>. HIDE DEF r
<1>8. Sound(r, campaigns', items')
    BY <1>5, <1>7, SoundStays
<1>. QED
    BY <1>5, <1>6, <1>7, <1>8

LEMMA PollStepsKeep == ASSUME ClosedInv, AnyPollSteps PROVE ClosedInv'
<1>1. CASE NextOverdue
    BY <1>1, NextOverdueKeeps
<1>2. CASE ListHolders
    BY <1>2, ListHoldersKeeps
<1>3. CASE op[Worker].phase = "slots" /\ (AnyMiss \/ AnyStart \/ PollRaises)
    <2>1. op[Worker].phase = "slots"
        BY <1>3
    <2>2. CASE AnyMiss
        BY <2>1, <2>2, MissSlotKeeps, TypedNow DEF AnyMiss, Counted, Typed
    <2>4. CASE AnyStart
        BY <2>1, <2>4, StartNextKeeps
    <2>5. CASE PollRaises
        BY <2>1, <2>5, PollEndsKeeps
    <2>. QED
        BY <1>3, <2>2, <2>4, <2>5
<1>4. CASE MoveSchedule
    BY <1>4, MoveScheduleKeeps
<1>5. CASE OtherSweeps \/ EndPoll
    BY <1>5, PollEndsKeeps
<1>. QED
    BY <1>1, <1>2, <1>3, <1>4, <1>5 DEF AnyPollSteps

-----------------------------------------------------------------------------
(***************************************************************************)
(* Everything else, and all steps together.                                *)
(***************************************************************************)
LEMMA EngineMovesKeeps == ASSUME ClosedInv, AnyEngine PROVE ClosedInv'
<1>1. Typed /\ UNCHANGED <<campaigns, items, instances, op, clock, edits, faults>>
    BY TypedNow DEF AnyEngine
<1>2. grants' \in [Grants -> Standing \cup {"NONE", "REVOKED"}]
    BY <1>1 DEF AnyEngine, Typed
<1>3. Typed'
    BY <1>1, <1>2 DEF Typed
<1>. QED
    BY <1>1, <1>3, SomeProc, IdleSound, Aside

LEMMA TickKeeps == ASSUME ClosedInv, AnyTick PROVE ClosedInv'
<1>1. Typed /\ UNCHANGED <<campaigns, items, instances, grants, op, edits, faults>> /\ clock' = clock + 1
    BY TypedNow DEF AnyTick
<1>2. Typed'
    BY <1>1 DEF Typed
<1>. QED
    BY <1>1, <1>2, SomeProc, IdleSound, Aside

LEMMA CrashKeeps == ASSUME ClosedInv, AnyCrash PROVE ClosedInv'
<1>1. UNCHANGED <<campaigns, items, instances, grants, clock, edits>> /\ op' = [p \in Procs |-> Idle]
    BY DEF AnyCrash
<1>2. TypeOK'
    BY <1>1, TypedNow DEF TypeOK, Typed, AnyCrash
<1>3. Coherent(campaigns', items', instances')
    BY <1>1 DEF ClosedInv
<1>4. \A p \in Procs : Sound(op'[p], campaigns', items')
    BY <1>1, IdleSound
<1>. QED
    BY <1>2, <1>3, <1>4 DEF ClosedInv

LEMMA StutterKeeps == ASSUME ClosedInv, UNCHANGED vars PROVE ClosedInv'
<1>1. UNCHANGED <<campaigns, items, instances, grants, op, clock, edits, faults>> /\ Typed
    BY TypedNow DEF vars
<1>2. Typed'
    BY <1>1 DEF Typed
<1>. QED
    BY <1>1, <1>2, SomeProc, IdleSound, Aside

LEMMA InitSound == Init => ClosedInv
<1>. SUFFICES ASSUME Init PROVE ClosedInv
    OBVIOUS
<1>1. NoWrites \in [Grants -> Decisions \cup {NoItem}] /\ \A g \in Grants : NoWrites[g] # Undecided
    BY DEF NoWrites, NoItem, Undecided
<1>2. TypeOK
    BY <1>1 DEF Init, TypeOK
<1>3. Coherent(campaigns, items, instances)
    BY DEF Init, Coherent, There, Absent
<1>4. \A p \in Procs : Sound(op[p], campaigns, items)
    BY IdleSound DEF Init
<1>. QED
    BY <1>2, <1>3, <1>4 DEF ClosedInv

LEMMA AnyNextKeeps == ASSUME ClosedInv, AnyNext PROVE ClosedInv'
<1>1. CASE AnyCreate \/ AnyUpdate \/ AnyPoll
    BY <1>1, CreateCampaignKeeps, UpdateCampaignKeeps, StartPollKeeps
<1>2. ASSUME NEW p \in Procs, AnyDecide(p) \/ AnyEnd(p) \/ AnyComplete(p)
      PROVE  ClosedInv'
    BY <1>2, DecideItemKeeps, EndInstanceKeeps, CompleteCampaignKeeps
<1>3. CASE AnyPollSteps
    BY <1>3, PollStepsKeep
<1>4. ASSUME NEW p \in Procs, AnySteps(p) \/ AnyRefusal(p)
      PROVE  ClosedInv'
    BY <1>4, RecordKeeps, RevokeGrantKeeps, CountLastKeeps, CountMoreKeeps, NextItemKeeps, CloseCampaignKeeps,
       AlreadyClosedKeeps, SpawnKeeps, SpawnFailsKeeps, LinkKeeps, RevokeRefusedKeeps DEF AnySteps
<1>5. CASE AnyEngine \/ AnyCrash \/ AnyTick
    BY <1>5, EngineMovesKeeps, CrashKeeps, TickKeeps
<1>. QED
    BY <1>1, <1>2, <1>3, <1>4, <1>5 DEF AnyNext, Unrefused

LEMMA NextKeeps == ClosedInv /\ [Next]_vars => ClosedInv'
<1>. SUFFICES ASSUME ClosedInv, [Next]_vars PROVE ClosedInv'
    OBVIOUS
<1>1. CASE Next
    <2>1. AnyNext
        BY <1>1, NextIsAny DEF AnyNext
    <2>. QED
        BY <2>1, AnyNextKeeps
<1>2. CASE UNCHANGED vars
    BY <1>2, StutterKeeps
<1>. QED
    BY <1>1, <1>2

-----------------------------------------------------------------------------
(***************************************************************************)
(* What is recorded as revoked has been.  revoke_assignment takes a grant  *)
(* that has ended for one that is taken away, so an item, an instance and  *)
(* a session must only ever be about grants that were once made; and of    *)
(* what a session is going to write, only the grant it is about to revoke  *)
(* may still stand.  No step but a refusal disturbs this.                  *)
(***************************************************************************)
Noted(I, W, G) ==
    \A c \in Campaigns, g \in Grants :
        /\ I[c][g] # NoItem => G[g] # "NONE"
        /\ <<c, g>> \in W => G[g] # "NONE"
        /\ I[c][g] \in Taken => G[g] = "REVOKED"

Backed(o, G) ==
    o \in Session =>
        /\ \A g \in o.todo : G[g] # "NONE"
        /\ o.phase \in {"revoke", "record"} => o.g \in Grants /\ G[o.g] # "NONE"
        /\ o.phase = "record" /\ o.decision \in Taken => G[o.g] = "REVOKED"
        /\ \A g \in Grants : o.writes[g] \in Taken => G[g] = "REVOKED" \/ (o.phase = "revoke" /\ o.g = g)
        /\ \A g \in Grants : o.writes[g] # NoItem => G[g] # "NONE"

RealInv ==
    /\ ClosedInv
    /\ Noted(items, instances, grants)
    /\ \A p \in Procs : Backed(op[p], grants)

LEMMA RealImpliesReal == RealInv => RevocationsReal
BY DEF RealInv, Noted, RevocationsReal

\* Grants only move on.
Later(G, H) == \A g \in Grants : (G[g] # "NONE" => H[g] # "NONE") /\ (G[g] = "REVOKED" => H[g] = "REVOKED")

LEMMA BackedStays == ASSUME NEW o, NEW G, NEW H, Backed(o, G), Later(G, H) PROVE Backed(o, H)
<1>1. o \in Session => o.todo \subseteq Grants
    BY DEF Session
<1>. QED
    BY <1>1 DEF Backed, Later

LEMMA NoSession == ASSUME NEW h, h.phase \in {"idle", "sweep", "slots", "move", "rest"}, NEW G PROVE Backed(h, G)
BY DEF Backed, Session

\* A step in which session p, if any, becomes h.
LEMMA RealMoves ==
    ASSUME RealInv, ClosedInv', Later(grants, grants'), Noted(items', instances', grants'),
           NEW p \in Procs, NEW h, Backed(h, grants'), op' = op \/ op' = [op EXCEPT ![p] = h]
    PROVE  RealInv'
<1>1. \A q \in Procs : Backed(op[q], grants')
    BY BackedStays DEF RealInv
<1>2. ASSUME NEW q \in Procs PROVE Backed(op'[q], grants')
    <2>1. op'[q] = op[q] \/ op'[q] = h
        BY TypedNow DEF RealInv
    <2>. QED
        BY <1>1, <2>1
<1>. QED
    BY <1>2 DEF RealInv

LEMMA IdleBacked == \A G : Backed(Idle, G)
BY NoSession DEF Idle

\* A step of one session's plans only.
LEMMA RealPlans ==
    ASSUME RealInv, ClosedInv', UNCHANGED <<items, instances, grants>>,
           NEW p \in Procs, NEW h, Backed(h, grants), op' = op \/ op' = [op EXCEPT ![p] = h]
    PROVE  RealInv'
<1>1. Later(grants, grants') /\ Noted(items', instances', grants') /\ Backed(h, grants')
    BY DEF Later, RealInv
<1>. QED
    BY <1>1, RealMoves

\* The snapshot is of grants that stand.
LEMMA CreateNoted ==
    ASSUME RealInv, NEW b \in Body, NEW chain \in Campaigns, NEW skipped, Skips(b, skipped),
           Create(b, chain, skipped), FreeCampaigns # {}
    PROVE  Noted(items', instances', grants') /\ Later(grants, grants')
<1>. DEFINE f == FreshId
            asked == InScope \ skipped
            shot == Snapshot(skipped)
<1>1. /\ items' = [items EXCEPT ![f] = shot] /\ grants' = grants
      /\ instances' = IF b.routed THEN instances \cup {<<f, g>> : g \in asked} ELSE instances
    BY DEF Create
<1>2. \A g \in Grants : shot[g] \in {"APPROVED", Undecided, NoItem} /\ (grants[g] = "NONE" => shot[g] = NoItem)
    BY DEF Snapshot, Skips, InScope, Standing
<1>3. \A g \in asked : grants[g] # "NONE"
    BY DEF InScope, Standing
<1>4. Undecided \notin Taken /\ NoItem \notin Taken /\ "APPROVED" \notin Taken
    BY DEF Undecided, NoItem, Taken
<1>. HIDE DEF f, asked, shot
<1>5. \A c \in Campaigns : items'[c] = items[c] \/ items'[c] = shot
    BY <1>1, TypedNow DEF RealInv, Typed
<1>6. \A c \in Campaigns, g \in Grants : <<c, g>> \in instances' => <<c, g>> \in instances \/ g \in asked
    BY <1>1
<1>7. Noted(items', instances', grants')
    BY <1>1, <1>2, <1>3, <1>4, <1>5, <1>6 DEF Noted, RealInv
<1>. QED
    BY <1>1, <1>7 DEF Later

\* What a session makes durable.
LEMMA MergedNoted ==
    ASSUME NEW o \in Session, NEW I \in [Campaigns -> [Grants -> Decisions \cup {NoItem}]], NEW W, NEW G,
           Noted(I, W, G), \A g \in Grants : o.writes[g] \in Taken => G[g] = "REVOKED",
           \A g \in Grants : o.writes[g] # NoItem => G[g] # "NONE"
    PROVE  Noted(Merged(o, I), Ended(o, W), G)
<1>1. o.c \in Campaigns
    BY DEF Session
<1>2. \A c \in Campaigns, g \in Grants :
        Merged(o, I)[c][g] = I[c][g] \/ (c = o.c /\ o.writes[g] # NoItem /\ Merged(o, I)[c][g] = o.writes[g])
    BY <1>1 DEF Merged
<1>3. \A c \in Campaigns, g \in Grants : <<c, g>> \in Ended(o, W) => <<c, g>> \in W
    BY DEF Ended
<1>. QED
    BY <1>2, <1>3 DEF Noted

LEMMA LaterNoted == ASSUME NEW I, NEW W, NEW G, NEW H, Noted(I, W, G), Later(G, H) PROVE Noted(I, W, H)
BY DEF Noted, Later

\* A step that commits what a session, about to revoke nothing more, has to write.
LEMMA RealCommits ==
    ASSUME RealInv, ClosedInv', NEW o \in Session, Flush(o), Later(grants, grants'),
           \A g \in Grants : o.writes[g] \in Taken => grants'[g] = "REVOKED",
           \A g \in Grants : o.writes[g] # NoItem => grants'[g] # "NONE",
           NEW p \in Procs, NEW h, Backed(h, grants'), op' = [op EXCEPT ![p] = h]
    PROVE  RealInv'
<1>1. items' = Merged(o, items) /\ instances' = Ended(o, instances)
    BY FlushIs
<1>2. PICK G : G = grants'
    OBVIOUS
<1>3. Noted(items, instances, G)
    BY <1>2, LaterNoted DEF RealInv
<1>4. items \in [Campaigns -> [Grants -> Decisions \cup {NoItem}]]
    BY TypedNow DEF RealInv, Typed
<1>5. Noted(Merged(o, items), Ended(o, instances), G)
    BY <1>2, <1>3, <1>4, MergedNoted
<1>6. Noted(items', instances', grants')
    BY <1>1, <1>2, <1>5
<1>. QED
    BY <1>6, RealMoves

\* A session between two revocations.
Resting(o, G) ==
    /\ \A g \in o.todo : G[g] # "NONE"
    /\ \A g \in Grants : o.writes[g] \in Taken => G[g] = "REVOKED"
    /\ \A g \in Grants : o.writes[g] # NoItem => G[g] # "NONE"

LEMMA RestingBacked ==
    ASSUME NEW o, NEW G, Resting(o, G), o.phase \in {"next", "count", "spawn", "link"}
    PROVE  Backed(o, G)
BY DEF Resting, Backed

LEMMA Rests ==
    ASSUME NEW o \in Session, NEW G, Backed(o, G), o.phase # "revoke" \/ G[o.g] = "REVOKED"
    PROVE  Resting(o, G)
BY DEF Resting, Backed

LEMMA FlushedRests ==
    ASSUME NEW o \in Session, NEW G, Backed(o, G)
    PROVE  Resting(Flushed(o), G)
<1>1. Flushed(o).todo = o.todo /\ Flushed(o).writes = NoWrites
    BY DEF Flushed, Session
<1>. QED
    BY <1>1 DEF Resting, Backed, NoWrites, NoItem, Taken

LEMMA DoneBacked == ASSUME NEW p, NEW o, NEW G PROVE Backed(Done(p, o), G)
<1>1. Done(p, o).phase \in {"idle", "sweep"}
    BY DEF Done, Idle
<1>. QED
    BY <1>1, NoSession

LEMMA RephasedBacked ==
    ASSUME NEW o \in Session, NEW G, Resting(o, G), NEW ph \in {"next", "count", "spawn"}
    PROVE  Backed([o EXCEPT !.phase = ph], G)
<1>. DEFINE h == [o EXCEPT !.phase = ph]
<1>1. h.todo = o.todo /\ h.writes = o.writes /\ h.phase = ph
    BY DEF Session
<1>. HIDE DEF h
<1>2. Backed(h, G)
    BY <1>1, RestingBacked DEF Resting
<1>. QED
    BY <1>2 DEF h

LEMMA MaybeSpawnBacked ==
    ASSUME NEW p, NEW o \in Session, NEW G, Resting(o, G), NEW repeats \in BOOLEAN
    PROVE  Backed(MaybeSpawn(p, o, repeats), G)
BY RephasedBacked, DoneBacked DEF MaybeSpawn

LEMMA AfterSpawnBacked ==
    ASSUME NEW p, NEW o \in Session, NEW G, Resting(o, G)
    PROVE  Backed(AfterSpawn(p, o), G)
BY RephasedBacked, DoneBacked DEF AfterSpawn

\* However revoke_assignment found the grant, it is taken away now.
LEMMA AfterRevokeBacked ==
    ASSUME NEW o \in Session, NEW G, Resting(o, G), o.g \in Grants, G[o.g] = "REVOKED"
    PROVE  Backed(AfterRevoke(o), G)
<1>0. o.kind \in {"decide", "outcome", "complete"}
    BY DEF Session
<1>1. CASE o.kind = "decide"
    <2>. DEFINE h == [o EXCEPT !.phase = "record"]
    <2>1. AfterRevoke(o) = h
        BY <1>1 DEF AfterRevoke
    <2>2. h.todo = o.todo /\ h.writes = o.writes /\ h.phase = "record" /\ h.g = o.g
        BY DEF Session
    <2>. HIDE DEF h
    <2>. QED
        BY <2>1, <2>2 DEF Resting, Backed
<1>2. CASE o.kind = "outcome" \/ (o.kind = "complete" /\ campaigns[o.c].routed)
    <2>1. AfterRevoke(o) = [o EXCEPT !.phase = "count"]
        BY <1>2 DEF AfterRevoke
    <2>. QED
        BY <2>1, RephasedBacked
<1>3. CASE o.kind = "complete" /\ ~campaigns[o.c].routed
    <2>. DEFINE w == [o.writes EXCEPT ![o.g] = "AUTO_REVOKED"]
                h == [o EXCEPT !.phase = "next", !.writes = w]
    <2>1. AfterRevoke(o) = h
        BY <1>3 DEF AfterRevoke, Session
    <2>2. \A x \in Grants : IF x = o.g THEN w[x] = "AUTO_REVOKED" ELSE w[x] = o.writes[x]
        BY DEF Session
    <2>. HIDE DEF w
    <2>3. h.todo = o.todo /\ h.writes = w /\ h.phase = "next"
        BY DEF Session
    <2>. HIDE DEF h
    <2>4. Resting(h, G)
        BY <2>2, <2>3 DEF Resting
    <2>. QED
        BY <2>1, <2>3, <2>4, RestingBacked
<1>. QED
    BY <1>0, <1>1, <1>2, <1>3

\* One lemma per step.
LEMMA RealCreate == ASSUME RealInv, ClosedInv', AnyCreate PROVE RealInv'
<1>1. PICK b \in Body, skipped \in SUBSET Grants : Skips(b, skipped) /\ Create(b, FreshId, skipped)
    BY DEF AnyCreate
<1>2. FreshId \in Campaigns /\ FreeCampaigns # {} /\ op' = op
    BY DEF AnyCreate, FreshId, FreeCampaigns
<1>3. Noted(items', instances', grants') /\ Later(grants, grants')
    BY <1>1, <1>2, CreateNoted
<1>. QED
    BY <1>2, <1>3, RealMoves, SomeProc, IdleBacked

\* The campaigns' stamps, the clock and a crash concern no grant.
LEMMA RealAside == ASSUME RealInv, ClosedInv', AnyUpdate \/ AnyTick \/ AnyCrash PROVE RealInv'
<1>1. CASE AnyUpdate \/ AnyTick
    <2>1. UNCHANGED <<items, instances, grants>> /\ op' = op
        BY <1>1 DEF AnyUpdate, AnyTick
    <2>. QED
        BY <2>1, RealPlans, SomeProc, IdleBacked
<1>2. CASE AnyCrash
    <2>1. UNCHANGED <<items, instances, grants>> /\ \A p \in Procs : op'[p] = Idle
        BY <1>2 DEF AnyCrash
    <2>. QED
        BY <2>1, IdleBacked DEF RealInv
<1>. QED
    BY <1>1, <1>2

LEMMA RealEngine == ASSUME RealInv, ClosedInv', AnyEngine PROVE RealInv'
<1>1. PICK g \in Grants, s \in Standing \cup {"REVOKED"} : grants[g] # "REVOKED" /\ grants' = [grants EXCEPT ![g] = s]
    BY DEF AnyEngine
<1>2. UNCHANGED <<items, instances, op>>
    BY DEF AnyEngine
<1>3. s # "NONE"
    BY DEF Standing
<1>4. PICK G : G = grants'
    OBVIOUS
<1>5. Later(grants, G)
    BY <1>1, <1>3, <1>4, TypedNow DEF RealInv, Typed, Later
<1>6. Noted(items, instances, G)
    BY <1>5, LaterNoted DEF RealInv
<1>. QED
    BY <1>2, <1>4, <1>5, <1>6, RealMoves, SomeProc, IdleBacked

LEMMA BeganIs ==
    ASSUME NEW kind, NEW c
    PROVE  /\ NewSession(kind, c).todo = {} /\ NewSession(kind, c).writes = NoWrites
           /\ NewSession(kind, c).phase = "next" /\ NewSession(kind, c).c = c
BY DEF NewSession

LEMMA RealDecide == ASSUME RealInv, ClosedInv', NEW p \in Procs, AnyDecide(p) PROVE RealInv'
<1>1. PICK c \in Campaigns, g \in Grants, d \in {"APPROVED", "REVOKED"} : Pending(c, g) /\ Turns(p, Deciding(c, g, d))
    BY DEF AnyDecide
<1>. DEFINE h == Deciding(c, g, d)
<1>2. /\ h.todo = {} /\ h.writes = NoWrites /\ h.g = g /\ h.decision = d
      /\ IF d = "REVOKED" THEN h.phase = "revoke" ELSE h.phase = "record"
    BY DEF Deciding, NewSession
<1>3. grants[g] # "NONE"
    BY <1>1 DEF Pending, RealInv, Noted, Undecided, NoItem
<1>. HIDE DEF h
<1>4. Backed(h, grants)
    BY <1>2, <1>3 DEF Backed, NoWrites, NoItem, Taken
<1>. QED
    BY <1>1, <1>4, RealPlans DEF Turns, h

\* An outcome is of a grant that was made, by a session between two revocations.
LEMMA OutcomeBacked ==
    ASSUME NEW o \in Session, NEW g \in Grants, NEW end \in {"APPROVED", "REJECTED", "CANCELLED"}, NEW G,
           Resting(o, G), G[g] # "NONE"
    PROVE  Backed(Outcome(o, g, end), G)
<1>. DEFINE v == Verdict(o.c, end)
            w == [o.writes EXCEPT ![g] = v]
            u == [o EXCEPT !.g = g, !.writes = w, !.phase = IF v \in Taken THEN "revoke" ELSE "count"]
<1>1. \A x \in Grants : IF x = g THEN w[x] = v ELSE w[x] = o.writes[x]
    BY DEF Session
<1>2. Outcome(o, g, end) = u
    BY DEF Outcome, Session
<1>. HIDE DEF v, w
<1>3. /\ u.todo = o.todo /\ u.writes = w /\ u.g = g
      /\ IF v \in Taken THEN u.phase = "revoke" ELSE u.phase = "count"
    BY DEF Session
<1>. HIDE DEF u
<1>4. Backed(u, G)
    BY <1>1, <1>3 DEF Resting, Backed
<1>. QED
    BY <1>2, <1>4

LEMMA BeganRests == ASSUME NEW kind, NEW c, NEW G PROVE Resting(NewSession(kind, c), G)
BY BeganIs DEF Resting, NoWrites, NoItem, Taken

LEMMA RealEnd == ASSUME RealInv, ClosedInv', NEW p \in Procs, AnyEnd(p) PROVE RealInv'
<1>1. PICK c \in Campaigns, g \in Grants, end \in {"APPROVED", "REJECTED", "CANCELLED"} :
        <<c, g>> \in instances /\ Turns(p, Outcome(NewSession("outcome", c), g, end))
    <2>1. \A i \in instances : i[1] \in Campaigns /\ i[2] \in Grants /\ i = <<i[1], i[2]>>
        BY TypedNow DEF Typed, RealInv
    <2>. QED
        BY <2>1 DEF AnyEnd
<1>2. There(c, campaigns) /\ grants[g] # "NONE"
    BY <1>1 DEF RealInv, ClosedInv, Coherent, Noted
<1>3. NewSession("outcome", c) \in Session
    BY <1>2, Began DEF RealInv
<1>4. Backed(Outcome(NewSession("outcome", c), g, end), grants)
    BY <1>2, <1>3, BeganRests, OutcomeBacked
<1>. QED
    BY <1>1, <1>4, RealPlans DEF Turns

\* A session that closes a campaign has undecided items before it.
LEMMA PendingMade == ASSUME RealInv, NEW c \in Campaigns PROVE \A g \in PendingItems(c) : grants[g] # "NONE"
BY DEF PendingItems, RealInv, Noted, Undecided, NoItem

LEMMA RealComplete == ASSUME RealInv, ClosedInv', NEW p \in Procs, AnyComplete(p) PROVE RealInv'
<1>1. PICK c \in Campaigns : Turns(p, [NewSession("complete", c) EXCEPT !.todo = PendingItems(c)])
    BY DEF AnyComplete
<1>. DEFINE h == [NewSession("complete", c) EXCEPT !.todo = PendingItems(c)]
<1>2. h.todo = PendingItems(c) /\ h.writes = NoWrites /\ h.phase = "next"
    BY DEF NewSession
<1>. HIDE DEF h
<1>3. Backed(h, grants)
    BY <1>2, PendingMade DEF Backed, NoWrites, NoItem, Taken
<1>. QED
    BY <1>1, <1>3, RealPlans DEF Turns, h

LEMMA RealNextOverdue == ASSUME RealInv, ClosedInv', NextOverdue PROVE RealInv'
<1>1. PICK due \in op[Worker].overdue :
        op' = [op EXCEPT ![Worker] = [NewSession("complete", due.c) EXCEPT
                 !.open = TRUE, !.freq = due.freq, !.todo = PendingItems(due.c),
                 !.overdue = op[Worker].overdue \ {due}]]
    BY DEF NextOverdue
<1>. DEFINE h == [NewSession("complete", due.c) EXCEPT !.open = TRUE, !.freq = due.freq, !.todo = PendingItems(due.c),
                                                       !.overdue = op[Worker].overdue \ {due}]
<1>2. h.todo = PendingItems(due.c) /\ h.writes = NoWrites /\ h.phase = "next"
    BY DEF NewSession
<1>3. due.c \in Campaigns
    BY PollIs DEF NextOverdue, Poll, RealInv
<1>. HIDE DEF h
<1>4. Backed(h, grants)
    BY <1>2, <1>3, PendingMade DEF Backed, NoWrites, NoItem, Taken
<1>5. UNCHANGED <<items, instances, grants>> /\ op' = [op EXCEPT ![Worker] = h]
    BY <1>1 DEF NextOverdue, h
<1>. QED
    BY <1>4, <1>5, RealPlans, SomeProc

LEMMA MissRested == ASSUME NEW o \in Slotting, NEW h PROVE [o EXCEPT !.holders = @ \ {h}].phase \in {"slots", "move"}
BY DEF Slotting

\* The worker goes on, but not with a session of its own.
WorkerAt(h) == op' = [op EXCEPT ![Worker] = h] /\ UNCHANGED <<items, instances, grants>>

LEMMA PollRests ==
    ASSUME RealInv, ClosedInv', NEW h, h.phase \in {"idle", "sweep", "slots", "move", "rest"}, WorkerAt(h)
    PROVE  RealInv'
<1>1. Backed(h, grants)
    BY NoSession
<1>2. op' = [op EXCEPT ![Worker] = h] /\ UNCHANGED <<items, instances, grants>>
    BY DEF WorkerAt
<1>. QED
    BY <1>1, <1>2, RealPlans, SomeProc

\* The poll's other steps: the worker holds no session.
LEMMA RealPoll == ASSUME RealInv, ClosedInv', AnyPoll \/ (AnyPollSteps /\ ~NextOverdue) PROVE RealInv'
<1>2. CASE AnyPoll
    <2>1. Listing.phase = "sweep" /\ WorkerAt(Listing)
        BY <1>2 DEF AnyPoll, Turns, Listing, WorkerAt
    <2>. QED
        BY <2>1, PollRests
<1>3. CASE ListHolders
    <2>. DEFINE h == [phase |-> "slots", c |-> NoCampaign, child |-> NoCampaign,
                      holders |-> {[c |-> c, open |-> Active(c)] : c \in {x \in Campaigns : SlotDue(x)}}]
    <2>1. h.phase = "slots"
        OBVIOUS
    <2>2. WorkerAt(h)
        BY <1>3 DEF ListHolders, WorkerAt
    <2>. HIDE DEF h
    <2>. QED
        BY <2>1, <2>2, PollRests
<1>4. CASE op[Worker].phase = "slots" /\ (AnyMiss \/ AnyStart \/ PollRaises)
    <2>1. PICK o : o = op[Worker] /\ o \in Slotting
        BY <1>4, SlotsAre DEF RealInv
    <2>2. CASE AnyMiss
        <3>1. PICK x \in op[Worker].holders : MissSlot(x)
            BY <2>2 DEF AnyMiss
        <3>2. PICK h : h = [o EXCEPT !.holders = @ \ {x}]
            OBVIOUS
        <3>3. WorkerAt(h)
            BY <2>1, <3>1, <3>2 DEF MissSlot, Without, WorkerAt
        <3>4. h.phase \in {"slots", "move"}
            BY <2>1, <3>2, MissRested
        <3>. QED
            BY <3>3, <3>4, PollRests
    <2>3. CASE PollRaises
        <3>1. Idle.phase = "idle" /\ WorkerAt(Idle)
            BY <2>3 DEF PollRaises, Idle, WorkerAt
        <3>. QED
            BY <3>1, PollRests
    <2>4. CASE AnyStart
        <3>1. PICK x \in op[Worker].holders :
                /\ Create(Scheduled(x), campaigns[x.c].chain, {})
                /\ op' = [Without(x) EXCEPT ![Worker].phase = "move", ![Worker].c = x.c, ![Worker].child = FreshId]
            BY <2>4 DEF AnyStart
        <3>2. x.c \in Campaigns /\ There(x.c, campaigns)
            BY <1>4, <2>1, SlotsAre DEF RealInv
        <3>3. Scheduled(x) \in Body /\ campaigns[x.c].chain \in Campaigns
            BY <3>2, TypedNow DEF RealInv, Scheduled, Body, Typed, There, Absent, Campaign
        <3>4. Noted(items', instances', grants') /\ Later(grants, grants')
            BY <2>4, <3>1, <3>3, CreateNoted, NoneSkipped DEF AnyStart
        <3>. DEFINE h == [o EXCEPT !.holders = @ \ {x}, !.phase = "move", !.c = x.c, !.child = FreshId]
        <3>5. op' = [op EXCEPT ![Worker] = h]
            <4>1. Without(x) = [op EXCEPT ![Worker] = [o EXCEPT !.holders = @ \ {x}]]
                BY <2>1 DEF Without
            <4>2. op \in [Procs -> Sessions]
                BY TypedNow DEF RealInv
            <4>. QED
                BY <2>1, <3>1, <4>1, <4>2, SomeProc
        <3>6. h.phase = "move"
            BY <2>1 DEF Slotting
        <3>. HIDE DEF h
        <3>7. Backed(h, grants')
            BY <3>6, NoSession
        <3>. QED
            BY <3>4, <3>5, <3>7, RealMoves, SomeProc
    <2>. QED
        BY <1>4, <2>2, <2>3, <2>4
<1>5. CASE MoveSchedule
    <2>1. PICK o : o = op[Worker] /\ o \in Slotting
        BY <1>5, SlotsAre DEF RealInv, MoveSchedule
    <2>. DEFINE h == [o EXCEPT !.phase = "slots", !.c = NoCampaign, !.child = NoCampaign]
    <2>2. h.phase = "slots"
        BY <2>1 DEF Slotting
    <2>3. WorkerAt(h)
        BY <1>5, <2>1 DEF MoveSchedule, WorkerAt
    <2>. HIDE DEF h
    <2>. QED
        BY <2>2, <2>3, PollRests
<1>6. CASE OtherSweeps \/ EndPoll
    <2>. DEFINE rest == [phase |-> "rest"]
    <2>1. rest.phase = "rest" /\ Idle.phase = "idle"
        BY DEF Idle
    <2>2. WorkerAt(rest) \/ WorkerAt(Idle)
        BY <1>6 DEF OtherSweeps, EndPoll, WorkerAt
    <2>. HIDE DEF rest
    <2>. QED
        BY <2>1, <2>2, PollRests
<1>. QED
    BY <1>2, <1>3, <1>4, <1>5, <1>6 DEF AnyPollSteps

LEMMA FlushedType == ASSUME NEW o \in Session PROVE Flushed(o) \in Session /\ Flushed(o).g = o.g
<1>1. NoWrites \in [Grants -> Decisions \cup {NoItem}]
    BY DEF NoWrites
<1>. QED
    BY <1>1 DEF Flushed, Session

LEMMA RealRecord == ASSUME RealInv, ClosedInv', NEW p \in Procs, Record(p) PROVE RealInv'
<1>1. PICK s : s = op[p]
    OBVIOUS
<1>2. s \in Session /\ s.phase = "record" /\ Backed(s, grants)
    BY <1>1, SessionIs DEF Record, RealInv
<1>. DEFINE w == [s.writes EXCEPT ![s.g] = s.decision]
            o == [s EXCEPT !.writes = w]
<1>3. [s EXCEPT !.writes[s.g] = s.decision] = o
    BY <1>2 DEF Session
<1>4. \A x \in Grants : IF x = s.g THEN w[x] = s.decision ELSE w[x] = s.writes[x]
    BY <1>2 DEF Session
<1>5. w \in [Grants -> Decisions \cup {NoItem}]
    BY <1>2 DEF Session
<1>. HIDE DEF w
<1>6. o \in Session /\ o.phase = "record" /\ o.writes = w /\ o.todo = s.todo /\ o.g = s.g /\ o.decision = s.decision
    BY <1>2, <1>5 DEF Session
<1>7. Flush(o) /\ op' = [op EXCEPT ![p] = [Flushed(o) EXCEPT !.phase = "count"]] /\ grants' = grants
    BY <1>1, <1>3 DEF Record
<1>. HIDE DEF o
<1>8. Resting(o, grants)
    BY <1>2, <1>4, <1>6 DEF Backed, Resting
<1>9. Flushed(o) \in Session /\ Resting(Flushed(o), grants)
    <2>1. Backed(o, grants)
        BY <1>2, <1>6, <1>8 DEF Backed, Resting
    <2>. QED
        BY <1>6, <2>1, FlushedRests, FlushedType
<1>10. PICK f : f = Flushed(o)
    OBVIOUS
<1>11. PICK h : h = [f EXCEPT !.phase = "count"]
    OBVIOUS
<1>12. Backed(h, grants')
    BY <1>7, <1>9, <1>10, <1>11, RephasedBacked
<1>13. /\ Later(grants, grants') /\ \A g \in Grants : o.writes[g] \in Taken => grants'[g] = "REVOKED"
       /\ \A g \in Grants : o.writes[g] # NoItem => grants'[g] # "NONE"
    BY <1>7, <1>8 DEF Later, Resting
<1>. QED
    BY <1>6, <1>7, <1>10, <1>11, <1>12, <1>13, RealCommits

LEMMA RealRevoke == ASSUME RealInv, ClosedInv', NEW p \in Procs, RevokeGrant(p) PROVE RealInv'
<1>1. PICK s : s = op[p]
    OBVIOUS
<1>2. s \in Session /\ s.phase = "revoke" /\ Backed(s, grants) /\ s.g \in Grants /\ grants[s.g] # "NONE"
    BY <1>1, SessionIs DEF RevokeGrant, RealInv, Backed
<1>3. grants \in [Grants -> Standing \cup {"NONE", "REVOKED"}]
    BY TypedNow DEF RealInv, Typed
<1>4. CASE grants[s.g] \notin Standing /\ op' = [op EXCEPT ![p] = AfterRevoke(s)] /\ UNCHANGED <<items, instances, grants>>
    <2>1. grants[s.g] = "REVOKED"
        BY <1>2, <1>3, <1>4
    <2>2. Backed(AfterRevoke(s), grants)
        BY <1>2, <2>1, Rests, AfterRevokeBacked
    <2>. QED
        BY <1>4, <2>2, RealPlans
<1>5. CASE Flush(s) /\ op' = [op EXCEPT ![p] = AfterRevoke(Flushed(s))] /\ grants' = [grants EXCEPT ![s.g] = "REVOKED"]
    <2>1. PICK G : G = grants'
        OBVIOUS
    <2>2. Later(grants, G) /\ G[s.g] = "REVOKED"
        BY <1>2, <1>3, <1>5, <2>1 DEF Later
    <2>3. Backed(s, G)
        BY <1>2, <2>2, BackedStays
    <2>4. Resting(s, G) /\ Resting(Flushed(s), G)
        BY <1>2, <2>2, <2>3, Rests, FlushedRests
    <2>5. PICK f : f = Flushed(s)
        OBVIOUS
    <2>6. f \in Session /\ f.g = s.g
        BY <1>2, <2>5, FlushedType
    <2>7. Backed(AfterRevoke(f), G)
        BY <1>2, <2>2, <2>4, <2>5, <2>6, AfterRevokeBacked
    <2>8. /\ \A g \in Grants : s.writes[g] \in Taken => grants'[g] = "REVOKED"
          /\ \A g \in Grants : s.writes[g] # NoItem => grants'[g] # "NONE"
        BY <2>1, <2>4 DEF Resting
    <2>. QED
        BY <1>2, <1>5, <2>1, <2>2, <2>5, <2>7, <2>8, RealCommits
<1>6. grants[s.g] \notin Standing \/ Flush(s)
    BY <1>1 DEF RevokeGrant, Revocable
<1>. QED
    BY <1>1, <1>4, <1>5 DEF RevokeGrant, NoFlush, Revocable

\* A step that commits a session which is between two revocations.
LEMMA RealCloses ==
    ASSUME RealInv, ClosedInv', NEW p \in Procs, op[p] \in Session, op[p].phase \in {"next", "count"},
           Flush(op[p]), UNCHANGED grants, NEW h, Resting(Flushed(op[p]), grants) => Backed(h, grants),
           op' = [op EXCEPT ![p] = h]
    PROVE  RealInv'
<1>1. PICK s : s = op[p]
    OBVIOUS
<1>2. s \in Session /\ Backed(s, grants) /\ s.phase # "revoke"
    BY <1>1 DEF RealInv
<1>3. Resting(s, grants) /\ Resting(Flushed(s), grants)
    BY <1>2, Rests, FlushedRests
<1>4. Later(grants, grants') /\ Backed(h, grants')
    BY <1>1, <1>3 DEF Later
<1>5. /\ \A g \in Grants : s.writes[g] \in Taken => grants'[g] = "REVOKED"
      /\ \A g \in Grants : s.writes[g] # NoItem => grants'[g] # "NONE"
    BY <1>3 DEF Resting
<1>. QED
    BY <1>1, <1>2, <1>4, <1>5, RealCommits

\* Closing a campaign leaves its session where it rests.
LEMMA ShutRests ==
    ASSUME NEW o \in Session, NEW G, Resting(o, G)
    PROVE  [o EXCEPT !.open = FALSE] \in Session /\ Resting([o EXCEPT !.open = FALSE], G)
<1>. DEFINE h == [o EXCEPT !.open = FALSE]
<1>1. h \in Session /\ h.todo = o.todo /\ h.writes = o.writes
    BY DEF Session
<1>. HIDE DEF h
<1>2. Resting(h, G)
    BY <1>1 DEF Resting
<1>. QED
    BY <1>1, <1>2 DEF h

LEMMA ClosedBacked ==
    ASSUME NEW p, NEW s \in Session, NEW G, Resting(Flushed(s), G), NEW repeats \in BOOLEAN
    PROVE  Backed(MaybeSpawn(p, [Flushed(s) EXCEPT !.open = FALSE], repeats), G)
<1>1. PICK o : o = Flushed(s)
    OBVIOUS
<1>2. o \in Session
    BY <1>1, FlushedType
<1>3. [o EXCEPT !.open = FALSE] \in Session /\ Resting([o EXCEPT !.open = FALSE], G)
    BY <1>1, <1>2, ShutRests
<1>. QED
    BY <1>1, <1>3, MaybeSpawnBacked

LEMMA RealCount == ASSUME RealInv, ClosedInv', NEW p \in Procs, CountLast(p) \/ CountMore(p) PROVE RealInv'
<1>1. op[p] \in Session /\ op[p].phase = "count" /\ grants' = grants /\ op[p].freq \in BOOLEAN
    BY SessionIs DEF CountLast, CountMore, RealInv, Session
<1>2. CASE CountLast(p)
    <2>1. PICK h : h = MaybeSpawn(p, [Flushed(op[p]) EXCEPT !.open = FALSE], op[p].freq)
        OBVIOUS
    <2>2. Resting(Flushed(op[p]), grants) => Backed(h, grants)
        BY <1>1, <2>1, ClosedBacked
    <2>3. Flush(op[p]) /\ op' = [op EXCEPT ![p] = h]
        BY <1>2, <2>1 DEF CountLast
    <2>. QED
        BY <1>1, <2>2, <2>3, RealCloses
<1>3. CASE CountMore(p) /\ op[p].kind # "complete"
    <2>1. PICK h : h = Done(p, op[p])
        OBVIOUS
    <2>2. Flush(op[p]) /\ op' = [op EXCEPT ![p] = h]
        BY <1>3, <2>1 DEF CountMore
    <2>. QED
        BY <1>1, <2>1, <2>2, DoneBacked, RealCloses
<1>4. CASE CountMore(p) /\ op[p].kind = "complete"
    <2>1. PICK h : h = [op[p] EXCEPT !.phase = "next"]
        OBVIOUS
    <2>2. op' = [op EXCEPT ![p] = h] /\ UNCHANGED <<items, instances, grants>>
        BY <1>4, <2>1 DEF CountMore, NoFlush
    <2>3. Resting(op[p], grants)
        BY <1>1, Rests DEF RealInv
    <2>4. Backed(h, grants)
        BY <1>1, <2>1, <2>3, RephasedBacked
    <2>. QED
        BY <2>2, <2>4, RealPlans
<1>. QED
    BY <1>2, <1>3, <1>4

LEMMA RealClose == ASSUME RealInv, ClosedInv', NEW p \in Procs, CloseCampaign(p) PROVE RealInv'
<1>1. /\ op[p] \in Session /\ op[p].phase = "next" /\ grants' = grants
      /\ op[p].c \in Campaigns /\ There(op[p].c, campaigns)
    BY SessionIs DEF CloseCampaign, RealInv
<1>2. campaigns[op[p].c].freq \in BOOLEAN
    BY <1>1, TypedNow DEF RealInv, Typed, There, Absent, Campaign
<1>3. PICK h : h = MaybeSpawn(p, [Flushed(op[p]) EXCEPT !.open = FALSE], campaigns[op[p].c].freq)
    OBVIOUS
<1>4. Resting(Flushed(op[p]), grants) => Backed(h, grants)
    BY <1>1, <1>2, <1>3, ClosedBacked
<1>5. Flush(op[p]) /\ op' = [op EXCEPT ![p] = h]
    BY <1>3 DEF CloseCampaign
<1>. QED
    BY <1>1, <1>4, <1>5, RealCloses

LEMMA RealAfter == ASSUME RealInv, ClosedInv', NEW p \in Procs, AlreadyClosed(p) \/ AnySpawnFails(p) \/ Link(p) PROVE RealInv'
<1>1. UNCHANGED <<items, instances, grants>>
    BY DEF AlreadyClosed, AnySpawnFails, Link
<1>2. op[p] \in Session /\ Resting(op[p], grants)
    <2>1. op[p] \in Session /\ op[p].phase # "revoke"
        BY SessionIs DEF AlreadyClosed, AnySpawnFails, Link, RealInv
    <2>. QED
        BY <2>1, Rests DEF RealInv
<1>3. CASE AlreadyClosed(p)
    BY <1>1, <1>3, DoneBacked, RealPlans DEF AlreadyClosed
<1>4. CASE AnySpawnFails(p)
    <2>1. Backed(AfterSpawn(p, op[p]), grants)
        BY <1>2, AfterSpawnBacked
    <2>. QED
        BY <1>1, <1>4, <2>1, RealPlans DEF AnySpawnFails
<1>5. CASE Link(p)
    <2>1. PICK u : u = [op[p] EXCEPT !.child = NoCampaign]
        OBVIOUS
    <2>2. u \in Session /\ u.todo = op[p].todo /\ u.writes = op[p].writes
        BY <1>2, <2>1 DEF Session
    <2>3. Backed(AfterSpawn(p, u), grants)
        BY <1>2, <2>2, AfterSpawnBacked DEF Resting
    <2>. QED
        BY <1>1, <1>5, <2>1, <2>3, RealPlans DEF Link
<1>. QED
    BY <1>3, <1>4, <1>5

LEMMA RealSpawn == ASSUME RealInv, ClosedInv', NEW p \in Procs, AnySpawn(p) PROVE RealInv'
<1>1. PICK s : s = op[p]
    OBVIOUS
<1>2. s \in Session /\ There(s.c, campaigns) /\ s.c \in Campaigns /\ s.phase = "spawn"
    BY <1>1, SessionIs DEF AnySpawn, RealInv
<1>3. Successor(s.c) \in Body /\ campaigns[s.c].chain \in Campaigns
    BY <1>2, TypedNow DEF RealInv, Successor, Body, Typed, There, Absent, Campaign
<1>4. Noted(items', instances', grants') /\ Later(grants, grants')
    BY <1>1, <1>3, CreateNoted, NoneSkipped DEF AnySpawn
<1>. DEFINE h == [s EXCEPT !.phase = "link", !.child = FreshId]
<1>5. op' = [op EXCEPT ![p] = h]
    BY <1>1, <1>2, TypedNow DEF AnySpawn, Session, RealInv
<1>6. h.todo = s.todo /\ h.writes = s.writes /\ h.phase = "link"
    BY <1>2 DEF Session
<1>. HIDE DEF h
<1>7. Resting(s, grants)
    BY <1>1, <1>2, Rests DEF RealInv
<1>8. Backed(h, grants)
    BY <1>6, <1>7, RestingBacked DEF Resting
<1>9. Backed(h, grants')
    BY <1>4, <1>8, BackedStays
<1>. QED
    BY <1>4, <1>5, <1>9, RealMoves

LEMMA RealNextItem == ASSUME RealInv, ClosedInv', NEW p \in Procs, NextItem(p) PROVE RealInv'
<1>1. PICK s : s = op[p]
    OBVIOUS
<1>2. s \in Session /\ s.phase = "next" /\ Resting(s, grants) /\ There(s.c, campaigns) /\ s.c \in Campaigns
    <2>1. s \in Session /\ s.phase = "next" /\ There(s.c, campaigns) /\ s.c \in Campaigns
        BY <1>1, SessionIs DEF NextItem, RealInv
    <2>. QED
        BY <1>1, <2>1, Rests DEF RealInv
<1>3. PICK g \in s.todo :
        LET o == [s EXCEPT !.g = g, !.todo = @ \ {g}]
            routed == campaigns[o.c].routed IN
        op' = [op EXCEPT ![p] =
            CASE routed /\ <<o.c, g>> \in instances -> Outcome(o, g, "CANCELLED")
              [] routed /\ <<o.c, g>> \notin instances -> o
              [] ~routed /\ campaigns[o.c].keep -> [o EXCEPT !.writes[g] = "APPROVED"]
              [] ~routed /\ ~campaigns[o.c].keep -> [o EXCEPT !.phase = "revoke"]]
    BY <1>1 DEF NextItem
<1>4. g \in Grants /\ grants[g] # "NONE"
    BY <1>2, <1>3 DEF Session, Resting
<1>5. PICK o : o = [s EXCEPT !.g = g, !.todo = @ \ {g}]
    OBVIOUS
<1>6. /\ o \in Session /\ o.c = s.c /\ o.phase = "next" /\ o.g = g
      /\ o.writes = s.writes /\ o.todo = s.todo \ {g}
    BY <1>2, <1>4, <1>5 DEF Session
<1>7. Resting(o, grants)
    BY <1>2, <1>6 DEF Resting
<1>8. campaigns[o.c].routed \in BOOLEAN /\ campaigns[o.c].keep \in BOOLEAN
    BY <1>2, <1>6, TypedNow DEF RealInv, Typed, There, Absent, Campaign
<1>9. ASSUME NEW h, Backed(h, grants), op' = [op EXCEPT ![p] = h]
      PROVE  RealInv'
    BY <1>9, RealPlans DEF NextItem
<1>10. CASE campaigns[o.c].routed /\ <<o.c, g>> \in instances
    <2>1. Backed(Outcome(o, g, "CANCELLED"), grants)
        BY <1>4, <1>6, <1>7, OutcomeBacked
    <2>2. op' = [op EXCEPT ![p] = Outcome(o, g, "CANCELLED")]
        BY <1>3, <1>5, <1>10
    <2>. QED
        BY <1>9, <2>1, <2>2
<1>11. CASE campaigns[o.c].routed /\ <<o.c, g>> \notin instances
    <2>1. op' = [op EXCEPT ![p] = o]
        BY <1>3, <1>5, <1>11
    <2>2. Backed(o, grants)
        BY <1>6, <1>7, RestingBacked
    <2>. QED
        BY <1>9, <2>1, <2>2
<1>12. CASE ~campaigns[o.c].routed /\ campaigns[o.c].keep
    <2>. DEFINE w == [o.writes EXCEPT ![g] = "APPROVED"]
                h == [o EXCEPT !.writes = w]
    <2>1. \A x \in Grants : IF x = g THEN w[x] = "APPROVED" ELSE w[x] = o.writes[x]
        BY <1>6 DEF Session
    <2>2. [o EXCEPT !.writes[g] = "APPROVED"] = h
        BY <1>6 DEF Session
    <2>3. op' = [op EXCEPT ![p] = h]
        BY <1>3, <1>5, <1>12, <2>2
    <2>. HIDE DEF w
    <2>4. h.phase = "next" /\ h.writes = w /\ h.todo = o.todo
        BY <1>6 DEF Session
    <2>. HIDE DEF h
    <2>5. Resting(h, grants)
        BY <1>4, <1>7, <2>1, <2>4 DEF Resting, Taken
    <2>6. Backed(h, grants)
        BY <2>4, <2>5, RestingBacked
    <2>. QED
        BY <1>9, <2>3, <2>6
<1>13. CASE ~campaigns[o.c].routed /\ ~campaigns[o.c].keep
    <2>1. PICK h : h = [o EXCEPT !.phase = "revoke"]
        OBVIOUS
    <2>2. h.phase = "revoke" /\ h.g = g /\ h.writes = o.writes /\ h.todo = o.todo
        BY <1>6, <2>1 DEF Session
    <2>3. Backed(h, grants)
        BY <1>4, <1>7, <2>2 DEF Backed, Resting
    <2>4. op' = [op EXCEPT ![p] = h]
        BY <1>3, <1>5, <1>13, <2>1
    <2>. QED
        BY <1>9, <2>3, <2>4
<1>. QED
    BY <1>8, <1>10, <1>11, <1>12, <1>13

LEMMA UnrefusedKeeps == ASSUME RealInv, Unrefused PROVE RealInv'
<1>1. ClosedInv'
    BY AnyNextKeeps DEF RealInv, AnyNext
<1>2. CASE AnyCreate
    BY <1>1, <1>2, RealCreate
<1>3. CASE AnyUpdate \/ AnyTick \/ AnyCrash
    BY <1>1, <1>3, RealAside
<1>4. ASSUME NEW p \in Procs, AnyDecide(p) \/ AnyEnd(p) \/ AnyComplete(p)
      PROVE  RealInv'
    BY <1>1, <1>4, RealDecide, RealEnd, RealComplete
<1>5. CASE AnyPoll \/ AnyPollSteps
    BY <1>1, <1>5, RealPoll, RealNextOverdue
<1>6. ASSUME NEW p \in Procs, AnySteps(p)
      PROVE  RealInv'
    BY <1>1, <1>6, RealRecord, RealRevoke, RealCount, RealNextItem, RealClose, RealAfter, RealSpawn DEF AnySteps
<1>7. CASE AnyEngine
    BY <1>1, <1>7, RealEngine
<1>. QED
    BY <1>2, <1>3, <1>4, <1>5, <1>6, <1>7 DEF Unrefused

LEMMA InitReal == ASSUME Init PROVE RealInv
<1>1. Noted(items, instances, grants)
    BY DEF Init, Noted, NoWrites, NoItem, Taken
<1>2. \A p \in Procs : Backed(op[p], grants)
    BY IdleBacked DEF Init
<1>. QED
    BY <1>1, <1>2, InitSound DEF RealInv

\* Faults are counted, and a refusal is one.
LEMMA FaultsCount == ASSUME ClosedInv, Unrefused PROVE Counted
<1>1. CASE AnyCreate \/ AnyUpdate \/ AnyPoll
    BY <1>1, Zenon DEF AnyCreate, AnyUpdate, AnyPoll, Turns, Counted
<1>2. CASE AnyEngine \/ AnyCrash \/ AnyTick
    BY <1>2, Zenon DEF AnyEngine, AnyCrash, AnyTick, Counted
<1>3. ASSUME NEW p \in Procs, AnyDecide(p) \/ AnyEnd(p) \/ AnyComplete(p)
      PROVE  Counted
    BY <1>3 DEF AnyDecide, AnyEnd, AnyComplete, Turns, Counted
<1>4. CASE AnyPollSteps
    <2>1. NextOverdue \/ ListHolders \/ MoveSchedule \/ OtherSweeps \/ EndPoll => faults' = faults
        BY Zenon DEF NextOverdue, ListHolders, MoveSchedule, OtherSweeps, EndPoll
    <2>2. AnyStart \/ PollRaises => faults' = faults
        BY Zenon DEF AnyStart, PollRaises
    <2>3. AnyMiss => Counted
        BY DEF AnyMiss
    <2>. QED
        BY <1>4, <2>1, <2>2, <2>3 DEF AnyPollSteps, Counted
<1>5. ASSUME NEW p \in Procs, AnySteps(p)
      PROVE  Counted
    <2>1. Record(p) \/ RevokeGrant(p) \/ CountLast(p) \/ CountMore(p) \/ NextItem(p) => faults' = faults
        BY Zenon DEF Record, RevokeGrant, CountLast, CountMore, NextItem
    <2>2. CloseCampaign(p) \/ AlreadyClosed(p) \/ AnySpawn(p) \/ Link(p) => faults' = faults
        BY Zenon DEF CloseCampaign, AlreadyClosed, AnySpawn, Link
    <2>3. AnySpawnFails(p) => Counted
        BY DEF AnySpawnFails
    <2>. QED
        BY <1>5, <2>1, <2>2, <2>3 DEF AnySteps, Counted
<1>. QED
    BY <1>1, <1>2, <1>3, <1>4, <1>5 DEF Unrefused

-----------------------------------------------------------------------------
(***************************************************************************)
(* One session at a time: a recurring review that reviewers decide goes    *)
(* on, one campaign after the other (one routed through a workflow has no  *)
(* successor: the actor of a recurrence may not request it).  A chain has  *)
(* one campaign alive, and the session under way knows the campaigns as    *)
(* they are: it closes one that is open, so no other of its chain is, and  *)
(* what follows is the only one.                                           *)
(***************************************************************************)
\* A campaign that may still be followed by another of its chain: an open one, or a closed one
\* that holds a schedule.
Alive(c, C) == C[c].status = "ACTIVE" \/ (C[c].status = "COMPLETED" /\ C[c].next # NoTime)

\* A campaign with a successor is closed, and no workflow decided it.
Followed(c, C) == C[c].status = "COMPLETED" /\ ~C[c].routed

Lineage(C) ==
    \A c \in Campaigns : There(c, C) =>
        /\ There(C[c].chain, C)
        /\ C[c].freq => C[c].next = NoTime
        /\ C[c].parent # NoCampaign => Followed(C[c].parent, C)

\* Of each chain one campaign is alive, those of H aside.
Sole(C, H) ==
    \A c, d \in Campaigns \ H : c # d /\ Alive(c, C) /\ Alive(d, C) => C[c].chain # C[d].chain

Heirless(c, C) == \A d \in Campaigns : There(d, C) => C[d].parent # c
OneHeir(c, C)  == \E d \in Campaigns : /\ There(d, C) /\ C[d].parent = c
                                       /\ \A e \in Campaigns : There(e, C) /\ C[e].parent = c => e = d

\* Every closed recurring campaign that reviewers decide, but those of W, has its one successor,
\* as long as nothing failed and a row was left.
Recurs(c, C) == C[c].status = "COMPLETED" /\ C[c].freq /\ ~C[c].routed
Passed(C, W, ok) ==
    \A c \in Campaigns : Recurs(c, C) =>
        /\ c \in W => Heirless(c, C)
        /\ c \notin W /\ ok => OneHeir(c, C)

\* What the one session knows of the campaigns.
OnTime(late, C) == \A x \in late : C[x.c].status = "ACTIVE" /\ x.freq = C[x.c].freq

Aware(o, C) ==
    /\ o \in Session =>
        /\ o.freq = C[o.c].freq /\ (o.open => C[o.c].status = "ACTIVE")
        /\ OnTime(o.overdue, C) /\ \A x \in o.overdue : x.c # o.c
        /\ o.phase \in {"spawn", "link"} => ~o.open /\ C[o.c].status = "COMPLETED" /\ C[o.c].freq
        /\ o.phase = "spawn" => \A d \in Campaigns : Alive(d, C) => C[d].chain # C[o.c].chain
        /\ o.phase = "link" => ~C[o.c].routed /\ C[o.child].status = "ACTIVE" /\ C[o.child].parent = NoCampaign
    /\ o.phase = "sweep" => OnTime(o.overdue, C)
    /\ o.phase \in {"slots", "move"} =>
        \A x \in o.holders : (x.open <=> C[x.c].status = "ACTIVE") /\ There(x.c, C) /\ C[x.c].next # NoTime
    /\ o.phase = "move" =>
        /\ Followed(o.c, C) /\ C[o.c].next # NoTime /\ \A x \in o.holders : x.c # o.c
        /\ C[o.child].status = "ACTIVE" /\ C[o.child].parent = NoCampaign

Givers(o)  == {x \in Campaigns : o.phase = "move" /\ x = o.c}
Waiting(o) == {x \in Campaigns : o.phase \in {"spawn", "link"} /\ x = o.c}

\* o is the session under way, or Idle.
Lone(o, C, ok) == Aware(o, C) /\ Lineage(C) /\ Sole(C, Givers(o)) /\ Passed(C, Waiting(o), ok)

Ok == faults = 0 /\ RowLeft
Busy(p) == \A q \in Procs : q # p => op[q] = Idle

AloneReviews == \E p \in Procs : Busy(p) /\ Lone(op[p], campaigns, Ok)

\* The rows' fields that matter here.
Shaped(C) == \A c \in Campaigns : There(c, C) =>
    /\ C[c].chain \in Campaigns /\ C[c].parent \in Campaigns \cup {NoCampaign}
    /\ C[c].freq \in BOOLEAN /\ C[c].status \in {"ACTIVE", "COMPLETED"}

LEMMA Shapes == ASSUME NEW C \in [Campaigns -> Campaign \cup {Absent}] PROVE Shaped(C)
BY DEF Shaped, There, Absent, Campaign

LEMMA Weaker ==
    ASSUME NEW o, NEW C, NEW ok \in BOOLEAN, NEW ko \in BOOLEAN, ko => ok, Lone(o, C, ok)
    PROVE  Lone(o, C, ko)
BY DEF Lone, Passed

-----------------------------------------------------------------------------
(***************************************************************************)
(* What the campaigns keep of this, whatever a step writes on them.        *)
(***************************************************************************)
\* D is C and a campaign f of the given chain, open unless a workflow approved all of it at once.
Grown(C, D, f, chain) ==
    /\ f \in Campaigns /\ C[f].status = "ABSENT"
    /\ \A c \in Campaigns : c # f => D[c] = C[c]
    /\ D[f].status = "ACTIVE" \/ (D[f].status = "COMPLETED" /\ D[f].routed)
    /\ D[f].chain = chain /\ D[f].parent = NoCampaign
    /\ D[f].freq => D[f].next = NoTime

LEMMA GrownLineage ==
    ASSUME NEW C, NEW D, NEW f, NEW chain, Shaped(C), Lineage(C), Grown(C, D, f, chain),
           There(chain, C) \/ chain = f, chain \in Campaigns
    PROVE  Lineage(D)
<1>1. \A c \in Campaigns : There(c, C) => There(c, D)
    BY DEF Grown, There
<1>2. There(f, D)
    BY DEF Grown, There
<1>. SUFFICES ASSUME NEW c \in Campaigns, There(c, D)
              PROVE  /\ There(D[c].chain, D)
                     /\ D[c].freq => D[c].next = NoTime
                     /\ D[c].parent # NoCampaign => Followed(D[c].parent, D)
    BY DEF Lineage
<1>3. CASE c = f
    BY <1>1, <1>2, <1>3 DEF Grown
<1>4. CASE c # f
    <2>1. D[c] = C[c] /\ There(c, C)
        BY <1>4 DEF Grown, There
    <2>2. C[c].chain \in Campaigns /\ There(C[c].chain, C)
        BY <2>1 DEF Shaped, Lineage
    <2>3. C[c].parent # NoCampaign => C[c].parent \in Campaigns /\ Followed(C[c].parent, C)
        BY <2>1 DEF Shaped, Lineage
    <2>4. C[c].parent # NoCampaign => C[c].parent # f
        BY <2>3 DEF Grown, Followed
    <2>5. C[c].parent # NoCampaign => D[C[c].parent] = C[C[c].parent]
        BY <2>3, <2>4 DEF Grown
    <2>. QED
        BY <1>1, <2>1, <2>2, <2>3, <2>5 DEF Lineage, Followed
<1>. QED
    BY <1>3, <1>4

LEMMA GrownSole ==
    ASSUME NEW C, NEW D, NEW f, NEW chain, NEW H, Grown(C, D, f, chain), Sole(C, H), f \notin H,
           \A d \in Campaigns \ H : Alive(d, C) => C[d].chain # chain
    PROVE  Sole(D, H)
<1>1. \A c \in Campaigns : c # f => (Alive(c, D) <=> Alive(c, C)) /\ D[c].chain = C[c].chain
    BY DEF Grown, Alive
<1>2. D[f].chain = chain
    BY DEF Grown
<1>. QED
    BY <1>1, <1>2 DEF Sole

LEMMA GrownPassed ==
    ASSUME NEW C, NEW D, NEW f, NEW chain, NEW W, NEW ok \in BOOLEAN, Grown(C, D, f, chain), Passed(C, W, ok)
    PROVE  Passed(D, W, ok)
<1>0. NoCampaign \notin Campaigns
    BY ConstantsAssumption
<1>1. \A c, d \in Campaigns : (There(d, D) /\ D[d].parent = c) <=> (There(d, C) /\ C[d].parent = c)
    BY <1>0 DEF Grown, There
<1>2. \A c \in Campaigns : (Heirless(c, C) => Heirless(c, D)) /\ (OneHeir(c, C) => OneHeir(c, D))
    BY <1>1 DEF Heirless, OneHeir
<1>3. \A c \in Campaigns : Recurs(c, D) => Recurs(c, C)
    BY DEF Grown, Recurs
<1>. QED
    BY <1>2, <1>3 DEF Passed

LEMMA GrownOnTime ==
    ASSUME NEW C, NEW D, NEW f, NEW chain, Grown(C, D, f, chain),
           NEW late \in SUBSET [c : Campaigns, freq : BOOLEAN], OnTime(late, C)
    PROVE  OnTime(late, D)
BY DEF Grown, OnTime

\* D is C with another repetition, schedule or deadline of c, which is alive.
Restamped(C, D, c) ==
    /\ c \in Campaigns /\ Alive(c, C)
    /\ \A d \in Campaigns : d # c => D[d] = C[d]
    /\ D[c].status = C[c].status /\ D[c].chain = C[c].chain /\ D[c].parent = C[c].parent
    /\ D[c].freq => D[c].next = NoTime
    /\ C[c].status = "COMPLETED" => D[c].freq = C[c].freq /\ D[c].routed = C[c].routed

LEMMA RestampedKeeps ==
    ASSUME NEW C, NEW D, NEW c, NEW H, NEW W, NEW ok \in BOOLEAN, Restamped(C, D, c), Shaped(C),
           Lineage(C), Sole(C, H), Passed(C, W, ok)
    PROVE  Lineage(D) /\ Sole(D, H) /\ Passed(D, W, ok)
<1>1. \A d \in Campaigns : /\ D[d].status = C[d].status /\ (There(d, C) <=> There(d, D))
                           /\ There(d, C) => D[d].chain = C[d].chain /\ D[d].parent = C[d].parent
    BY DEF Restamped, There, Alive
<1>2. \A d \in Campaigns : There(d, C) => (D[d].freq => D[d].next = NoTime)
    BY DEF Restamped, Lineage
<1>0. \A d \in Campaigns : Followed(d, C) => Followed(d, D)
    BY DEF Restamped, Followed
<1>3. Lineage(D)
    BY <1>0, <1>1, <1>2 DEF Lineage, Shaped
<1>4. \A d \in Campaigns : Alive(d, D) => Alive(d, C)
    BY DEF Restamped, Alive
<1>5. Sole(D, H)
    BY <1>1, <1>4 DEF Sole, Alive, There
<1>6. \A x \in Campaigns : (Heirless(x, C) => Heirless(x, D)) /\ (OneHeir(x, C) => OneHeir(x, D))
    BY <1>1 DEF Heirless, OneHeir
<1>7. \A d \in Campaigns : Recurs(d, D) => Recurs(d, C)
    BY DEF Restamped, Recurs
<1>8. Passed(D, W, ok)
    BY <1>6, <1>7 DEF Passed
<1>. QED
    BY <1>3, <1>5, <1>8

\* D is C with c closed.
Closing(C, D, c) ==
    /\ c \in Campaigns /\ C[c].status = "ACTIVE"
    /\ \A d \in Campaigns : d # c => D[d] = C[d]
    /\ D[c].status = "COMPLETED" /\ D[c].chain = C[c].chain /\ D[c].parent = C[c].parent
    /\ D[c].freq = C[c].freq /\ D[c].next = C[c].next

\* What is left to do for the campaign c just closed.
ClosedOff(C, D, c, ok) ==
    /\ Lineage(D) /\ Sole(D, {})
    /\ C[c].freq => Passed(D, {c}, ok) /\ \A d \in Campaigns : Alive(d, D) => D[d].chain # D[c].chain
    /\ ~C[c].freq => Passed(D, {}, ok)

LEMMA ClosingKeeps ==
    ASSUME NEW C, NEW D, NEW c, NEW ok \in BOOLEAN, Closing(C, D, c), Shaped(C),
           Lineage(C), Sole(C, {}), Passed(C, {}, ok)
    PROVE  ClosedOff(C, D, c, ok)
<1>1. \A d \in Campaigns : /\ There(d, C) <=> There(d, D)
                           /\ There(d, C) => /\ D[d].chain = C[d].chain /\ D[d].parent = C[d].parent
                                             /\ D[d].freq = C[d].freq /\ D[d].next = C[d].next
                           /\ Followed(d, C) => Followed(d, D)
    BY DEF Closing, There, Followed
<1>2. Lineage(D)
    BY <1>1 DEF Lineage, Shaped
<1>3. \A d \in Campaigns : Alive(d, D) => Alive(d, C)
    BY DEF Closing, Alive
<1>4. Sole(D, {})
    BY <1>1, <1>3 DEF Sole, Alive, There
<1>5. \A x \in Campaigns : (Heirless(x, C) => Heirless(x, D)) /\ (OneHeir(x, C) => OneHeir(x, D))
    BY <1>1 DEF Heirless, OneHeir
<1>6. Heirless(c, C)
    <2>1. c # NoCampaign
        BY ConstantsAssumption DEF Closing
    <2>. QED
        BY <2>1 DEF Heirless, Lineage, Followed, Closing
<1>7. \A d \in Campaigns : d # c /\ Recurs(d, D) => Recurs(d, C)
    BY DEF Closing, Recurs
<1>8. ASSUME C[c].freq PROVE Passed(D, {c}, ok) /\ \A d \in Campaigns : Alive(d, D) => D[d].chain # D[c].chain
    <2>1. Passed(D, {c}, ok)
        BY <1>5, <1>6, <1>7 DEF Passed
    <2>2. C[c].next = NoTime /\ Alive(c, C)
        BY <1>8 DEF Lineage, Closing, There, Alive
    <2>3. ~Alive(c, D)
        BY <2>2 DEF Closing, Alive
    <2>4. ASSUME NEW d \in Campaigns, Alive(d, D) PROVE D[d].chain # D[c].chain
        <3>1. d # c /\ Alive(d, C) /\ C[d].chain # C[c].chain
            BY <1>3, <2>2, <2>3, <2>4 DEF Sole, Closing
        <3>2. D[d] = C[d] /\ D[c].chain = C[c].chain
            BY <3>1 DEF Closing
        <3>. QED
            BY <3>1, <3>2
    <2>. QED
        BY <2>1, <2>4
<1>9. ASSUME ~C[c].freq PROVE Passed(D, {}, ok)
    <2>1. ~D[c].freq
        BY <1>9 DEF Closing
    <2>. QED
        BY <1>5, <1>7, <2>1 DEF Passed, Recurs
<1>. QED
    BY <1>2, <1>4, <1>8, <1>9 DEF ClosedOff

LEMMA ClosingOnTime ==
    ASSUME NEW C, NEW D, NEW c, Closing(C, D, c), NEW late \in SUBSET [c : Campaigns, freq : BOOLEAN],
           OnTime(late, C), \A x \in late : x.c # c
    PROVE  OnTime(late, D)
BY DEF Closing, OnTime

\* D is C with the open campaign d linked to c, which keeps its schedule or gives it away.
Linked(C, D, c, d) ==
    /\ c \in Campaigns /\ d \in Campaigns
    /\ Followed(c, C) /\ C[d].status = "ACTIVE" /\ C[d].parent = NoCampaign
    /\ \A x \in Campaigns : x # c /\ x # d => D[x] = C[x]
    /\ D[d].status = "ACTIVE" /\ D[d].parent = c /\ D[d].chain = C[d].chain
    /\ D[d].freq = C[d].freq /\ D[d].next = C[d].next
    /\ D[c].status = "COMPLETED" /\ D[c].parent = C[c].parent /\ D[c].chain = C[c].chain
    /\ D[c].freq = C[c].freq /\ D[c].routed = C[c].routed /\ (D[c].next = C[c].next \/ D[c].next = NoTime)

LEMMA LinkedKeeps ==
    ASSUME NEW C, NEW D, NEW c, NEW d, NEW W, NEW H, NEW ok \in BOOLEAN, Linked(C, D, c, d), Shaped(C), Lineage(C),
           Sole(C, H), H = {} \/ (H = {c} /\ D[c].next = NoTime),
           Passed(C, W, ok), W = {} \/ W = {c}, c \in W \/ ~C[c].freq
    PROVE  Lineage(D) /\ Sole(D, {}) /\ Passed(D, {}, ok)
<1>0. c # d /\ NoCampaign \notin Campaigns
    BY ConstantsAssumption DEF Linked, Followed
<1>1. \A x \in Campaigns : /\ D[x].status = C[x].status /\ (There(x, C) <=> There(x, D))
                           /\ Followed(x, C) => Followed(x, D)
    BY DEF Linked, There, Followed
<1>2. \A x \in Campaigns : There(x, C) => /\ D[x].chain = C[x].chain /\ D[x].freq = C[x].freq
                                          /\ D[x].next = C[x].next \/ D[x].next = NoTime
                                          /\ IF x = d THEN D[x].parent = c ELSE D[x].parent = C[x].parent
    BY <1>0 DEF Linked
<1>3. Lineage(D)
    <2>. SUFFICES ASSUME NEW x \in Campaigns, There(x, D)
                  PROVE  /\ There(D[x].chain, D)
                         /\ D[x].freq => D[x].next = NoTime
                         /\ D[x].parent # NoCampaign => Followed(D[x].parent, D)
        BY DEF Lineage
    <2>1. There(x, C) /\ C[x].chain \in Campaigns /\ C[x].parent \in Campaigns \cup {NoCampaign}
        BY <1>1 DEF Shaped
    <2>2. There(D[x].chain, D)
        BY <1>1, <1>2, <2>1 DEF Lineage
    <2>3. D[x].freq => D[x].next = NoTime
        BY <1>2, <2>1 DEF Lineage
    <2>4. Followed(c, D)
        BY <1>1 DEF Linked
    <2>5. D[x].parent # NoCampaign => Followed(D[x].parent, D)
        BY <1>1, <1>2, <2>1, <2>4 DEF Lineage
    <2>. QED
        BY <2>2, <2>3, <2>5
<1>4. \A x \in Campaigns : Alive(x, D) => Alive(x, C) /\ x \notin H
    <2>1. \A x \in Campaigns : Alive(x, D) => Alive(x, C)
        BY <1>1, <1>2 DEF Alive, There
    <2>2. D[c].next = NoTime => ~Alive(c, D)
        BY DEF Linked, Alive
    <2>. QED
        BY <2>1, <2>2
<1>5. Sole(D, {})
    BY <1>2, <1>4 DEF Sole, Alive, There
<1>6. \A x \in Campaigns : x # c => (Heirless(x, C) => Heirless(x, D)) /\ (OneHeir(x, C) => OneHeir(x, D))
    <2>1. \A x, y \in Campaigns : x # c => ((There(y, D) /\ D[y].parent = x) <=> (There(y, C) /\ C[y].parent = x))
        <3>. SUFFICES ASSUME NEW x \in Campaigns, NEW y \in Campaigns, x # c
                      PROVE  (There(y, D) /\ D[y].parent = x) <=> (There(y, C) /\ C[y].parent = x)
            OBVIOUS
        <3>1. CASE y = d
            BY <1>0, <3>1 DEF Linked
        <3>2. CASE y # d
            BY <1>1, <1>2, <3>2
        <3>. QED
            BY <3>1, <3>2
    <2>. QED
        BY <2>1 DEF Heirless, OneHeir
<1>7. Heirless(c, C) => OneHeir(c, D)
    BY <1>1, <1>2 DEF Heirless, OneHeir, Linked, Followed, There
<1>8. \A x \in Campaigns : Recurs(x, D) => Recurs(x, C)
    BY DEF Linked, Followed, Recurs
<1>9. Passed(D, {}, ok)
    <2>. SUFFICES ASSUME NEW x \in Campaigns, Recurs(x, D), ok PROVE OneHeir(x, D)
        BY DEF Passed
    <2>1. Recurs(x, C)
        BY <1>8
    <2>2. CASE x = c
        BY <1>7, <2>1, <2>2 DEF Passed, Recurs
    <2>3. CASE x # c
        BY <1>6, <2>1, <2>3 DEF Passed
    <2>. QED
        BY <2>2, <2>3
<1>. QED
    BY <1>3, <1>5, <1>9

LEMMA LinkedOnTime ==
    ASSUME NEW C, NEW D, NEW c, NEW d, Linked(C, D, c, d), NEW late \in SUBSET [c : Campaigns, freq : BOOLEAN],
           OnTime(late, C)
    PROVE  OnTime(late, D)
BY DEF Linked, Followed, OnTime

-----------------------------------------------------------------------------
(***************************************************************************)
(* The session under way, when there is one at a time.                     *)
(***************************************************************************)
Serial == MaxInFlight <= 1 /\ "crash" \notin Faults

\* Nothing is half-way on the campaigns C.
Rested(C, ok) == Lineage(C) /\ Sole(C, {}) /\ Passed(C, {}, ok)

\* What a session still deciding knows of the campaign it read.
Reading(o, C) ==
    /\ o.freq = C[o.c].freq /\ (o.open => C[o.c].status = "ACTIVE")
    /\ OnTime(o.overdue, C) /\ \A x \in o.overdue : x.c # o.c

Alike(h, o) == h.c = o.c /\ h.freq = o.freq /\ h.open = o.open /\ h.overdue = o.overdue

LEMMA RestedLone ==
    ASSUME NEW h, h.phase \in {"idle", "rest"}, NEW C, NEW ok
    PROVE  Lone(h, C, ok) <=> Rested(C, ok)
<1>1. h \notin Session
    BY DEF Session
<1>2. Givers(h) = {} /\ Waiting(h) = {}
    BY DEF Givers, Waiting
<1>. QED
    BY <1>1, <1>2 DEF Lone, Rested, Aware

LEMMA ReadingLone ==
    ASSUME NEW h, h.phase \in {"next", "revoke", "record", "count"}, NEW C, NEW ok
    PROVE  /\ Reading(h, C) /\ Rested(C, ok) => Lone(h, C, ok)
           /\ h \in Session /\ Lone(h, C, ok) => Reading(h, C) /\ Rested(C, ok)
<1>1. Givers(h) = {} /\ Waiting(h) = {}
    BY DEF Givers, Waiting
<1>. QED
    BY <1>1 DEF Lone, Rested, Reading, Aware

LEMMA SweepLone ==
    ASSUME NEW h, h.phase = "sweep", NEW C, NEW ok
    PROVE  Lone(h, C, ok) <=> OnTime(h.overdue, C) /\ Rested(C, ok)
<1>1. h \notin Session
    BY DEF Session
<1>2. Givers(h) = {} /\ Waiting(h) = {}
    BY DEF Givers, Waiting
<1>. QED
    BY <1>1, <1>2 DEF Lone, Rested, Aware

\* The holders of a due slot as the worker listed them.
Listed(xs, C) == \A x \in xs : (x.open <=> C[x.c].status = "ACTIVE") /\ There(x.c, C) /\ C[x.c].next # NoTime

LEMMA SlotsLone ==
    ASSUME NEW h, h.phase = "slots", NEW C, NEW ok
    PROVE  Lone(h, C, ok) <=> Listed(h.holders, C) /\ Rested(C, ok)
<1>1. h \notin Session
    BY DEF Session
<1>2. Givers(h) = {} /\ Waiting(h) = {}
    BY DEF Givers, Waiting
<1>. QED
    BY <1>1, <1>2 DEF Lone, Rested, Aware, Listed

LEMMA DoneLone ==
    ASSUME NEW p, NEW o, NEW C, NEW ok, OnTime(o.overdue, C), Rested(C, ok)
    PROVE  Lone(Done(p, o), C, ok)
<1>1. CASE p = Worker
    <2>1. PICK h : h = [phase |-> "sweep", overdue |-> o.overdue]
        OBVIOUS
    <2>2. h.phase = "sweep" /\ h.overdue = o.overdue /\ Done(p, o) = h
        BY <1>1, <2>1 DEF Done
    <2>. QED
        BY <2>2, SweepLone
<1>2. CASE p # Worker
    <2>1. Done(p, o) = Idle /\ Idle.phase = "idle"
        BY <1>2 DEF Done, Idle
    <2>. QED
        BY <2>1, RestedLone
<1>. QED
    BY <1>1, <1>2

LEMMA ReadOn ==
    ASSUME NEW o, NEW h, Alike(h, o), NEW C, Reading(o, C)
    PROVE  Reading(h, C)
BY DEF Alike, Reading

\* Whether all is well so far, after a step that makes no campaign.
LEMMA StillOk ==
    ASSUME faults \in Nat, Counted, \A c \in Campaigns : campaigns'[c].status = "ABSENT" <=> campaigns[c].status = "ABSENT"
    PROVE  Ok' => Ok
<1>1. {c \in Campaigns : Present(c)}' = {c \in Campaigns : Present(c)} /\ FreeCampaigns' = FreeCampaigns
    BY DEF Present, FreeCampaigns
<1>2. RowLeft' = RowLeft
    BY <1>1 DEF RowLeft
<1>3. faults' = 0 => faults = 0
    BY DEF Counted
<1>. QED
    BY <1>2, <1>3 DEF Ok

LEMMA OkType == Ok \in BOOLEAN /\ Ok' \in BOOLEAN
BY DEF Ok, RowLeft

LEMMA Lonely ==
    ASSUME AloneReviews, NEW p \in Procs, op[p] # Idle
    PROVE  Busy(p) /\ Lone(op[p], campaigns, Ok)
BY DEF AloneReviews, Busy

LEMMA IdleNow ==
    ASSUME AloneReviews, Serial, Room
    PROVE  (\A q \in Procs : op[q] = Idle) /\ Rested(campaigns, Ok)
<1>1. PICK p \in Procs : Busy(p) /\ Lone(op[p], campaigns, Ok)
    BY DEF AloneReviews
<1>2. op[p] = Idle
    <2>. SUFFICES ASSUME op[p] # Idle PROVE FALSE
        OBVIOUS
    <2>1. {q \in Procs : op[q] # Idle} = {p}
        BY <1>1 DEF Busy
    <2>2. Cardinality({p}) = 1
        BY FS_Singleton
    <2>3. Cardinality({q \in Procs : op[q] # Idle}) < MaxInFlight
        BY DEF Room
    <2>4. MaxInFlight \in Nat /\ MaxInFlight <= 1
        BY ConstantsAssumption DEF Serial
    <2>5. 1 < MaxInFlight
        BY <2>1, <2>2, <2>3
    <2>. QED
        BY <2>4, <2>5
<1>3. \A q \in Procs : op[q] = Idle
    BY <1>1, <1>2 DEF Busy
<1>4. Idle.phase = "idle"
    BY DEF Idle
<1>5. Rested(campaigns, Ok)
    BY <1>1, <1>2, <1>4, RestedLone
<1>. QED
    BY <1>3, <1>5

LEMMA Becomes ==
    ASSUME ClosedInv, NEW p \in Procs, Busy(p), NEW h, op' = [op EXCEPT ![p] = h], Lone(h, campaigns', Ok')
    PROVE  AloneReviews'
<1>1. op \in [Procs -> Sessions]
    BY TypedNow
<1>2. op'[p] = h /\ \A q \in Procs : q # p => op'[q] = Idle
    BY <1>1 DEF Busy
<1>3. Busy(p)'
    BY <1>2 DEF Busy
<1>. QED
    BY <1>2, <1>3 DEF AloneReviews

LEMMA StaysIdle ==
    ASSUME \A q \in Procs : op[q] = Idle, op' = op, Rested(campaigns', Ok')
    PROVE  AloneReviews'
<1>1. op'[Worker] = Idle /\ \A q \in Procs : op'[q] = Idle
    BY SomeProc
<1>2. Busy(Worker)'
    BY <1>1 DEF Busy
<1>3. Lone(Idle, campaigns', Ok')
    <2>1. Idle.phase = "idle"
        BY DEF Idle
    <2>. QED
        BY <2>1, RestedLone
<1>. QED
    BY <1>1, <1>2, <1>3, SomeProc DEF AloneReviews

LEMMA RestedWeaker ==
    ASSUME NEW C, NEW ok \in BOOLEAN, NEW ko \in BOOLEAN, ko => ok, Rested(C, ok)
    PROVE  Rested(C, ko)
BY DEF Rested, Passed

-----------------------------------------------------------------------------
(***************************************************************************)
(* One session at a time: campaigns are made and edited, sessions start.   *)
(***************************************************************************)
LEMMA Creates ==
    ASSUME ClosedInv, RowLeft, NEW b \in Body, ~(b.freq /\ b.scheduled), NEW chain \in Campaigns,
           NEW skipped, Skips(b, skipped), Create(b, chain, skipped)
    PROVE  Grown(campaigns, campaigns', FreshId, chain) /\ (skipped = {} => campaigns'[FreshId].status = "ACTIVE")
<1>1. PICK f : f = FreshId
    OBVIOUS
<1>2. f \in Campaigns /\ campaigns[f].status = "ABSENT"
    BY <1>1 DEF RowLeft, FreshId, FreeCampaigns, Present
<1>3. PICK new : new = NewCampaign(b, chain, skipped)
    OBVIOUS
<1>4. /\ new.status = "ACTIVE" \/ (new.status = "COMPLETED" /\ new.routed)
      /\ skipped = {} => new.status = "ACTIVE"
      /\ new.chain = chain /\ new.parent = NoCampaign
      /\ new.freq => new.next = NoTime
    BY <1>3 DEF NewCampaign, Body, Skips
<1>5. campaigns' = [campaigns EXCEPT ![f] = new]
    BY <1>1, <1>3 DEF Create
<1>6. campaigns'[f] = new /\ \A c \in Campaigns : c # f => campaigns'[c] = campaigns[c]
    BY <1>2, <1>5, TypedNow DEF Typed
<1>. QED
    BY <1>1, <1>2, <1>4, <1>6 DEF Grown

LEMMA ShapedNow == ASSUME ClosedInv PROVE Shaped(campaigns) /\ faults \in Nat
BY TypedNow, Shapes DEF Typed

\* A campaign is made when a row is left.
LEMMA GrownRested ==
    ASSUME NEW C, NEW D, NEW f, NEW chain \in Campaigns, NEW ok \in BOOLEAN, Grown(C, D, f, chain), Shaped(C), Rested(C, ok),
           There(chain, C) \/ chain = f, \A d \in Campaigns : Alive(d, C) => C[d].chain # chain
    PROVE  Rested(D, ok)
<1>1. Lineage(D)
    BY GrownLineage DEF Rested
<1>2. Sole(D, {})
    BY GrownSole DEF Rested
<1>3. Passed(D, {}, ok)
    BY GrownPassed DEF Rested
<1>. QED
    BY <1>1, <1>2, <1>3 DEF Rested

LEMMA CreateAlone == ASSUME ClosedInv, AloneReviews, Serial, CreateCampaign PROVE AloneReviews'
<1>1. (\A q \in Procs : op[q] = Idle) /\ Rested(campaigns, Ok)
    BY IdleNow DEF CreateCampaign
<1>2. PICK b \in Bodies : \E skipped \in IF b.routed THEN SUBSET InScope ELSE {{}} : Create(b, FreshId, skipped)
    BY DEF CreateCampaign
<1>3. /\ b \in Body /\ ~(b.freq /\ b.scheduled)
      /\ \E skipped : Skips(b, skipped) /\ Create(b, FreshId, skipped)
    BY <1>2, ConstantsAssumption DEF Skips
<1>4. RowLeft /\ UNCHANGED <<op, faults>>
    BY DEF CreateCampaign
<1>5. PICK f : f = FreshId
    OBVIOUS
<1>6. f \in Campaigns /\ campaigns[f].status = "ABSENT"
    BY <1>4, <1>5 DEF RowLeft, FreshId, FreeCampaigns, Present
<1>7. Grown(campaigns, campaigns', f, f)
    BY <1>3, <1>4, <1>5, <1>6, Creates
<1>8. \A d \in Campaigns : Alive(d, campaigns) => campaigns[d].chain # f
    BY <1>1, <1>6 DEF Rested, Lineage, Alive, There
<1>9. Rested(campaigns', Ok)
    BY <1>1, <1>6, <1>7, <1>8, GrownRested, ShapedNow, OkType
<1>10. Ok' => Ok
    BY <1>4 DEF Ok
<1>11. Rested(campaigns', Ok')
    BY <1>9, <1>10, RestedWeaker, OkType
<1>. QED
    BY <1>1, <1>4, <1>11, StaysIdle

LEMMA RestampedRested ==
    ASSUME NEW C, NEW D, NEW c, NEW ok \in BOOLEAN, Restamped(C, D, c), Shaped(C), Rested(C, ok)
    PROVE  Rested(D, ok) /\ \A d \in Campaigns : D[d].status = C[d].status
<1>1. Lineage(D) /\ Sole(D, {}) /\ Passed(D, {}, ok)
    BY RestampedKeeps DEF Rested
<1>2. \A d \in Campaigns : D[d].status = C[d].status
    BY DEF Restamped
<1>. QED
    BY <1>1, <1>2 DEF Rested

\* Of repetition and schedule the newer wins.
LEMMA EditedIs ==
    ASSUME NEW r \in Campaign, r.freq => r.next = NoTime, NEW e \in {"due", "repeat", "once", "schedule", "unschedule"}
    PROVE  /\ Edited(r, e).status = r.status /\ Edited(r, e).chain = r.chain /\ Edited(r, e).parent = r.parent
           /\ Edited(r, e).freq => Edited(r, e).next = NoTime
<1>1. CASE e = "due"
    BY <1>1 DEF Edited, Campaign
<1>2. CASE e = "repeat"
    BY <1>2 DEF Edited, Campaign
<1>3. CASE e = "once"
    BY <1>3 DEF Edited, Campaign
<1>4. CASE e = "schedule"
    BY <1>4 DEF Edited, Campaign
<1>5. CASE e = "unschedule"
    BY <1>5 DEF Edited, Campaign
<1>. QED
    BY <1>1, <1>2, <1>3, <1>4, <1>5

LEMMA UpdateAlone == ASSUME ClosedInv, AloneReviews, Serial, UpdateCampaign PROVE AloneReviews'
<1>1. (\A q \in Procs : op[q] = Idle) /\ Rested(campaigns, Ok)
    BY IdleNow DEF UpdateCampaign
<1>2. PICK c \in Campaigns, e \in Edits : Active(c) /\ campaigns' = [campaigns EXCEPT ![c] = Edited(campaigns[c], e)]
    BY DEF UpdateCampaign
<1>3. e \in {"due", "repeat", "once", "schedule", "unschedule"}
    BY ConstantsAssumption
<1>4. campaigns[c] \in Campaign /\ There(c, campaigns)
    BY <1>2, TypedNow DEF Typed, Active, There, Absent
<1>5. campaigns[c].freq => campaigns[c].next = NoTime
    BY <1>1, <1>4 DEF Rested, Lineage
<1>6. PICK u : u = Edited(campaigns[c], e)
    OBVIOUS
<1>7. /\ u.status = campaigns[c].status /\ u.chain = campaigns[c].chain /\ u.parent = campaigns[c].parent
      /\ u.freq => u.next = NoTime
    BY <1>3, <1>4, <1>5, <1>6, EditedIs
<1>8. campaigns'[c] = u /\ \A d \in Campaigns : d # c => campaigns'[d] = campaigns[d]
    BY <1>2, <1>6, TypedNow DEF Typed
<1>9. Restamped(campaigns, campaigns', c)
    BY <1>2, <1>7, <1>8 DEF Restamped, Alive, Active
<1>10. Rested(campaigns', Ok) /\ \A d \in Campaigns : campaigns'[d].status = campaigns[d].status
    BY <1>1, <1>9, RestampedRested, ShapedNow, OkType
<1>11. UNCHANGED <<op, faults>>
    BY DEF UpdateCampaign
<1>12. Ok' => Ok
    BY <1>10, <1>11, StillOk, ShapedNow DEF Counted
<1>13. Rested(campaigns', Ok')
    BY <1>10, <1>12, RestedWeaker, OkType
<1>. QED
    BY <1>1, <1>11, <1>13, StaysIdle

\* A session starts when there is none.
LEMMA StartsAlone ==
    ASSUME ClosedInv, AloneReviews, Serial, Room, NEW p \in Procs, NEW h, Turns(p, h),
           Rested(campaigns, Ok) => Lone(h, campaigns, Ok)
    PROVE  AloneReviews'
<1>1. (\A q \in Procs : op[q] = Idle) /\ Lone(h, campaigns, Ok)
    BY IdleNow
<1>2. op' = [op EXCEPT ![p] = h] /\ campaigns' = campaigns /\ faults' = faults
    BY DEF Turns
<1>3. Ok' => Ok
    BY <1>2, StillOk, ShapedNow DEF Counted
<1>4. Lone(h, campaigns', Ok')
    BY <1>1, <1>2, <1>3, Weaker, OkType
<1>5. Busy(p)
    BY <1>1 DEF Busy
<1>. QED
    BY <1>2, <1>4, <1>5, Becomes

\* What a new session has read.
LEMMA NewReads ==
    ASSUME NEW c, NEW h, NEW ok, h.c = c, h.freq = campaigns[c].freq, h.open = Active(c), h.overdue = {},
           h.phase \in {"next", "revoke", "record", "count"}, Rested(campaigns, ok)
    PROVE  Lone(h, campaigns, ok)
<1>1. Reading(h, campaigns)
    BY DEF Reading, OnTime, Active
<1>. QED
    BY <1>1, ReadingLone

LEMMA DecideAlone == ASSUME ClosedInv, AloneReviews, Serial, NEW p \in Procs, DecideItem(p) PROVE AloneReviews'
<1>1. Room
    BY DEF DecideItem, MayStart
<1>2. AnyDecide(p)
    BY Zenon DEF DecideItem, AnyDecide, Turns, Deciding
<1>3. PICK c \in Campaigns, g \in Grants, d \in {"APPROVED", "REVOKED"} : Turns(p, Deciding(c, g, d))
    BY <1>2 DEF AnyDecide
<1>4. PICK h : h = Deciding(c, g, d)
    OBVIOUS
<1>5. /\ h.c = c /\ h.freq = campaigns[c].freq /\ h.open = Active(c) /\ h.overdue = {}
      /\ h.phase \in {"next", "revoke", "record", "count"}
    BY <1>4 DEF Deciding, NewSession
<1>. QED
    BY <1>1, <1>3, <1>4, <1>5, NewReads, StartsAlone

LEMMA EndAlone == ASSUME ClosedInv, AloneReviews, Serial, NEW p \in Procs, EndInstance(p) PROVE AloneReviews'
<1>1. Room
    BY DEF EndInstance, MayStart
<1>2. AnyEnd(p)
    BY Zenon DEF EndInstance, AnyEnd, Turns
<1>3. PICK i \in instances, end \in {"APPROVED", "REJECTED", "CANCELLED"} :
        Turns(p, Outcome(NewSession("outcome", i[1]), i[2], end))
    BY <1>2 DEF AnyEnd
<1>4. PICK h : h = Outcome(NewSession("outcome", i[1]), i[2], end)
    OBVIOUS
<1>5. /\ h.c = i[1] /\ h.freq = campaigns[i[1]].freq /\ h.open = Active(i[1]) /\ h.overdue = {}
      /\ h.phase \in {"next", "revoke", "record", "count"}
    BY <1>4 DEF Outcome, NewSession
<1>. QED
    BY <1>1, <1>3, <1>4, <1>5, NewReads, StartsAlone

LEMMA CompleteAlone == ASSUME ClosedInv, AloneReviews, Serial, NEW p \in Procs, CompleteCampaign(p) PROVE AloneReviews'
<1>1. Room
    BY DEF CompleteCampaign, MayStart
<1>2. AnyComplete(p)
    BY Zenon DEF CompleteCampaign, AnyComplete, Turns
<1>3. PICK c \in Campaigns : Turns(p, [NewSession("complete", c) EXCEPT !.todo = PendingItems(c)])
    BY <1>2 DEF AnyComplete
<1>4. PICK h : h = [NewSession("complete", c) EXCEPT !.todo = PendingItems(c)]
    OBVIOUS
<1>5. /\ h.c = c /\ h.freq = campaigns[c].freq /\ h.open = Active(c) /\ h.overdue = {}
      /\ h.phase \in {"next", "revoke", "record", "count"}
    BY <1>4 DEF NewSession
<1>. QED
    BY <1>1, <1>3, <1>4, <1>5, NewReads, StartsAlone

LEMMA StartPollAlone == ASSUME ClosedInv, AloneReviews, Serial, StartPoll PROVE AloneReviews'
<1>1. Room /\ Turns(Worker, Listing)
    BY DEF StartPoll, MayStart, Turns, Listing
<1>2. PICK h : h = Listing
    OBVIOUS
<1>3. h.phase = "sweep" /\ OnTime(h.overdue, campaigns)
    BY <1>2 DEF Listing, OnTime, Overdue, Active
<1>. QED
    BY <1>1, <1>2, <1>3, SweepLone, StartsAlone, SomeProc

-----------------------------------------------------------------------------
(***************************************************************************)
(* One session at a time: the poll.                                        *)
(***************************************************************************)
LEMMA PollAlone ==
    ASSUME ClosedInv, AloneReviews, op[Worker].phase \in {"sweep", "slots", "move", "rest"}
    PROVE  Busy(Worker) /\ Lone(op[Worker], campaigns, Ok)
<1>1. op[Worker] # Idle
    BY DEF Idle
<1>. QED
    BY <1>1, Lonely, SomeProc

\* The session under way writes no campaign and becomes h.
LEMMA TurnsAlone ==
    ASSUME ClosedInv, NEW p \in Procs, Busy(p), UNCHANGED campaigns, Counted,
           NEW h, op' = [op EXCEPT ![p] = h], Lone(h, campaigns, Ok)
    PROVE  AloneReviews'
<1>1. Ok' => Ok
    BY StillOk, ShapedNow
<1>2. Lone(h, campaigns', Ok')
    BY <1>1, Weaker, OkType
<1>. QED
    BY <1>2, Becomes

LEMMA NextOverdueAlone == ASSUME ClosedInv, AloneReviews, NextOverdue PROVE AloneReviews'
<1>1. Busy(Worker) /\ Lone(op[Worker], campaigns, Ok) /\ op[Worker].phase = "sweep"
    BY PollAlone DEF NextOverdue
<1>2. PICK late : late = op[Worker].overdue
    OBVIOUS
<1>3. OnTime(late, campaigns) /\ Rested(campaigns, Ok) /\ late \in SUBSET [c : Campaigns, freq : BOOLEAN]
    BY <1>1, <1>2, SweepLone, PollIs DEF Poll
<1>4. PICK due \in late :
        op' = [op EXCEPT ![Worker] = [NewSession("complete", due.c) EXCEPT
                 !.open = TRUE, !.freq = due.freq, !.todo = PendingItems(due.c), !.overdue = late \ {due}]]
    BY <1>2 DEF NextOverdue
<1>5. PICK h : h = [NewSession("complete", due.c) EXCEPT
                 !.open = TRUE, !.freq = due.freq, !.todo = PendingItems(due.c), !.overdue = late \ {due}]
    OBVIOUS
<1>6. h.phase = "next" /\ h.c = due.c /\ h.open = TRUE /\ h.freq = due.freq /\ h.overdue = late \ {due}
    BY <1>5 DEF NewSession
<1>7. \A x \in late \ {due} : x.c # due.c
    <2>. SUFFICES ASSUME NEW x \in late, x.c = due.c PROVE x = due
        OBVIOUS
    <2>1. x.freq = due.freq
        BY <1>3 DEF OnTime
    <2>. QED
        BY <1>3, <2>1
<1>8. Reading(h, campaigns)
    BY <1>3, <1>6, <1>7 DEF Reading, OnTime
<1>9. Lone(h, campaigns, Ok)
    BY <1>3, <1>6, <1>8, ReadingLone
<1>10. op' = [op EXCEPT ![Worker] = h] /\ UNCHANGED campaigns /\ Counted
    BY <1>4, <1>5 DEF NextOverdue, Counted
<1>. QED
    BY <1>1, <1>9, <1>10, TurnsAlone, SomeProc

LEMMA ListHoldersAlone == ASSUME ClosedInv, AloneReviews, ListHolders PROVE AloneReviews'
<1>1. Busy(Worker) /\ Lone(op[Worker], campaigns, Ok) /\ op[Worker].phase = "sweep"
    BY PollAlone DEF ListHolders
<1>2. Rested(campaigns, Ok)
    BY <1>1, SweepLone
<1>3. PICK xs : xs = {[c |-> c, open |-> Active(c)] : c \in {x \in Campaigns : SlotDue(x)}}
    OBVIOUS
<1>4. PICK h : h = [phase |-> "slots", c |-> NoCampaign, child |-> NoCampaign, holders |-> xs]
    OBVIOUS
<1>5. h.phase = "slots" /\ h.holders = xs
    BY <1>4
<1>6. Listed(xs, campaigns)
    <2>. SUFFICES ASSUME NEW x \in xs
                  PROVE  /\ x.open <=> campaigns[x.c].status = "ACTIVE"
                         /\ There(x.c, campaigns) /\ campaigns[x.c].next # NoTime
        BY DEF Listed
    <2>1. PICK c \in Campaigns : SlotDue(c) /\ x = [c |-> c, open |-> Active(c)]
        BY <1>3
    <2>2. x.c = c /\ x.open = Active(c)
        BY <2>1
    <2>. QED
        BY <2>1, <2>2 DEF SlotDue, Active, Present, There
<1>7. Lone(h, campaigns, Ok)
    BY <1>2, <1>5, <1>6, SlotsLone
<1>8. op' = [op EXCEPT ![Worker] = h] /\ UNCHANGED campaigns /\ Counted
    BY <1>3, <1>4 DEF ListHolders, Counted
<1>. QED
    BY <1>1, <1>7, <1>8, TurnsAlone, SomeProc

\* The worker among the slots.
LEMMA SlotsAlone ==
    ASSUME ClosedInv, AloneReviews, op[Worker].phase = "slots"
    PROVE  \E o : /\ o = op[Worker] /\ o \in Slotting /\ o.phase = "slots" /\ Busy(Worker)
                  /\ Listed(o.holders, campaigns) /\ Rested(campaigns, Ok)
<1>1. Busy(Worker) /\ Lone(op[Worker], campaigns, Ok)
    BY PollAlone
<1>. QED
    BY <1>1, SlotsLone, SlotsAre

\* A holder's slot is put off: it still has one, so it does not recur.
LEMMA MissAlone ==
    ASSUME ClosedInv, AloneReviews, op[Worker].phase = "slots", NEW h \in op[Worker].holders, MissSlot(h), Counted
    PROVE  AloneReviews'
<1>1. PICK o : /\ o = op[Worker] /\ o \in Slotting /\ o.phase = "slots" /\ Busy(Worker)
               /\ Listed(o.holders, campaigns) /\ Rested(campaigns, Ok)
    BY SlotsAlone
<1>2. h.c \in Campaigns /\ There(h.c, campaigns) /\ campaigns[h.c].next # NoTime
    BY <1>1 DEF Listed, Slotting
<1>3. clock + 1 # NoTime
    BY TypedNow DEF Typed, NoTime
<1>4. campaigns[h.c] \in Campaign
    BY <1>2, TypedNow DEF Typed, There, Absent
<1>5. PICK u : u = [campaigns[h.c] EXCEPT !.next = clock + 1]
    OBVIOUS
<1>6. /\ u.status = campaigns[h.c].status /\ u.chain = campaigns[h.c].chain /\ u.parent = campaigns[h.c].parent
      /\ u.freq = campaigns[h.c].freq /\ u.routed = campaigns[h.c].routed /\ u.next = clock + 1
    BY <1>4, <1>5 DEF Campaign
<1>7. campaigns'[h.c] = u /\ \A d \in Campaigns : d # h.c => campaigns'[d] = campaigns[d]
    BY <1>2, <1>5, TypedNow DEF Typed, MissSlot, Following
<1>8. Alive(h.c, campaigns) /\ ~campaigns[h.c].freq
    BY <1>1, <1>2, <1>4 DEF Alive, Campaign, Rested, Lineage
<1>9. Restamped(campaigns, campaigns', h.c)
    BY <1>2, <1>6, <1>7, <1>8 DEF Restamped
<1>10. Rested(campaigns', Ok) /\ \A d \in Campaigns : campaigns'[d].status = campaigns[d].status
    BY <1>1, <1>9, RestampedRested, ShapedNow, OkType
<1>11. Ok' => Ok
    BY <1>10, StillOk, ShapedNow
<1>12. Rested(campaigns', Ok')
    BY <1>10, <1>11, RestedWeaker, OkType
<1>13. PICK r : r = [o EXCEPT !.holders = @ \ {h}]
    OBVIOUS
<1>14. r.phase = "slots" /\ r.holders = o.holders \ {h}
    BY <1>1, <1>13 DEF Slotting
<1>15. Listed(r.holders, campaigns')
    <2>. SUFFICES ASSUME NEW x \in o.holders
                  PROVE  /\ x.open <=> campaigns'[x.c].status = "ACTIVE"
                         /\ There(x.c, campaigns') /\ campaigns'[x.c].next # NoTime
        BY <1>14 DEF Listed
    <2>1. /\ x.c \in Campaigns
          /\ x.open <=> campaigns[x.c].status = "ACTIVE"
          /\ There(x.c, campaigns) /\ campaigns[x.c].next # NoTime
        BY <1>1 DEF Listed, Slotting
    <2>2. campaigns'[x.c].status = campaigns[x.c].status
        BY <1>10, <2>1
    <2>3. campaigns'[x.c].next # NoTime
        BY <1>3, <1>6, <1>7, <2>1
    <2>. QED
        BY <2>1, <2>2, <2>3 DEF There
<1>16. Lone(r, campaigns', Ok')
    BY <1>12, <1>14, <1>15, SlotsLone
<1>17. op' = [op EXCEPT ![Worker] = r]
    BY <1>1, <1>13 DEF MissSlot, Without
<1>. QED
    BY <1>1, <1>16, <1>17, Becomes, SomeProc

\* The next campaign of a schedule is started: until it is handed over, the two are alive.
LEMMA StartAlone == ASSUME ClosedInv, AloneReviews, op[Worker].phase = "slots", StartNext PROVE AloneReviews'
<1>1. PICK o : /\ o = op[Worker] /\ o \in Slotting /\ o.phase = "slots" /\ Busy(Worker)
               /\ Listed(o.holders, campaigns) /\ Rested(campaigns, Ok)
    BY SlotsAlone
<1>2. PICK h \in o.holders :
        /\ ~h.open /\ ~campaigns[h.c].routed /\ Create(Scheduled(h), campaigns[h.c].chain, {})
        /\ op' = [Without(h) EXCEPT ![Worker].phase = "move", ![Worker].c = h.c, ![Worker].child = FreshId]
    BY <1>1, Zenon DEF StartNext, Scheduled
<1>3. RowLeft /\ UNCHANGED faults
    BY DEF StartNext
<1>4. /\ h.c \in Campaigns /\ There(h.c, campaigns) /\ campaigns[h.c].next # NoTime
      /\ campaigns[h.c].status # "ACTIVE"
    BY <1>1, <1>2 DEF Listed, Slotting
<1>5. campaigns[h.c] \in Campaign /\ campaigns[h.c].keep \in BOOLEAN /\ campaigns[h.c].chain \in Campaigns
    BY <1>4, TypedNow DEF Typed, There, Absent, Campaign
<1>6. campaigns[h.c].status = "COMPLETED" /\ Alive(h.c, campaigns)
    BY <1>4, <1>5 DEF Alive, Campaign
<1>7. Scheduled(h) \in Body /\ ~(Scheduled(h).freq /\ Scheduled(h).scheduled)
    BY <1>5 DEF Scheduled, Body
<1>8. PICK f : f = FreshId
    OBVIOUS
<1>9. PICK chain : chain = campaigns[h.c].chain
    OBVIOUS
<1>10. PICK D : D = campaigns'
    OBVIOUS
<1>11. Grown(campaigns, D, f, chain) /\ D[f].status = "ACTIVE" /\ chain \in Campaigns
    BY <1>2, <1>3, <1>5, <1>7, <1>8, <1>9, <1>10, Creates, NoneSkipped
<1>12. f \in Campaigns /\ f # h.c /\ D[f].status = "ACTIVE" /\ D[f].parent = NoCampaign /\ D[h.c] = campaigns[h.c]
    BY <1>4, <1>11 DEF Grown, There
<1>13. There(chain, campaigns)
    BY <1>1, <1>4, <1>9 DEF Rested, Lineage
<1>14. Lineage(D)
    BY <1>1, <1>11, <1>13, GrownLineage, ShapedNow DEF Rested
<1>15. Sole(D, {h.c})
    <2>1. Sole(campaigns, {h.c}) /\ \A d \in Campaigns \ {h.c} : Alive(d, campaigns) => campaigns[d].chain # chain
        BY <1>1, <1>4, <1>6, <1>9 DEF Rested, Sole
    <2>. QED
        BY <1>11, <1>12, <2>1, GrownSole
<1>16. Passed(D, {}, Ok')
    <2>1. Passed(D, {}, Ok)
        BY <1>1, <1>11, GrownPassed, OkType DEF Rested
    <2>2. Ok' => Ok
        BY <1>3 DEF Ok
    <2>. QED
        BY <2>1, <2>2, OkType DEF Passed
<1>17. PICK r : r = [o EXCEPT !.holders = @ \ {h}, !.phase = "move", !.c = h.c, !.child = f]
    OBVIOUS
<1>18. r.phase = "move" /\ r.c = h.c /\ r.child = f /\ r.holders = o.holders \ {h}
    BY <1>1, <1>17 DEF Slotting
<1>19. op' = [op EXCEPT ![Worker] = r]
    <2>1. Without(h) = [op EXCEPT ![Worker] = [o EXCEPT !.holders = @ \ {h}]]
        BY <1>1 DEF Without
    <2>. QED
        BY <1>1, <1>2, <1>8, <1>17, <2>1, SomeProc, TypedNow
<1>20. \A x \in r.holders : /\ x.open <=> D[x.c].status = "ACTIVE"
                            /\ There(x.c, D) /\ D[x.c].next # NoTime /\ x.c # h.c
    <2>. SUFFICES ASSUME NEW x \in o.holders, x # h
                  PROVE  /\ x.open <=> D[x.c].status = "ACTIVE"
                         /\ There(x.c, D) /\ D[x.c].next # NoTime /\ x.c # h.c
        BY <1>18
    <2>1. x \in [c : Campaigns, open : BOOLEAN] /\ h \in [c : Campaigns, open : BOOLEAN]
        BY <1>1, <1>2 DEF Slotting
    <2>2. /\ x.open <=> campaigns[x.c].status = "ACTIVE"
          /\ There(x.c, campaigns) /\ campaigns[x.c].next # NoTime
        BY <1>1 DEF Listed
    <2>3. x.c # h.c
        BY <1>2, <1>4, <2>1, <2>2
    <2>4. D[x.c] = campaigns[x.c]
        BY <1>11, <2>1, <2>2 DEF Grown, There
    <2>. QED
        BY <2>2, <2>3, <2>4 DEF There
<1>21. Lone(r, D, Ok')
    <2>1. r \notin Session /\ Givers(r) = {h.c} /\ Waiting(r) = {}
        BY <1>4, <1>18 DEF Session, Givers, Waiting
    <2>2. Aware(r, D)
        BY <1>2, <1>4, <1>6, <1>12, <1>18, <1>20, <2>1 DEF Aware, Followed
    <2>. QED
        BY <1>14, <1>15, <1>16, <2>1, <2>2 DEF Lone
<1>. QED
    BY <1>1, <1>10, <1>19, <1>21, Becomes, SomeProc

\* The schedule is handed over: what held it is done.
LEMMA MoveAlone == ASSUME ClosedInv, AloneReviews, MoveSchedule PROVE AloneReviews'
<1>1. PICK o : /\ o = op[Worker] /\ o \in Slotting /\ o \in Poll /\ Sound(o, campaigns, items)
               /\ op \in [Procs -> Sessions] /\ \A x \in o.holders : x.c \in Campaigns /\ There(x.c, campaigns)
    BY SlotsAre DEF MoveSchedule
<1>2. /\ o.phase = "move" /\ o.c \in Campaigns /\ o.child \in Campaigns
      /\ There(o.c, campaigns) /\ There(o.child, campaigns)
    BY <1>1 DEF MoveSchedule, Sound, Slotting
<1>3. Busy(Worker) /\ Lone(o, campaigns, Ok)
    BY <1>1, <1>2, PollAlone
<1>4. Givers(o) = {o.c} /\ Waiting(o) = {}
    BY <1>2 DEF Givers, Waiting
<1>5. Lineage(campaigns) /\ Sole(campaigns, {o.c}) /\ Passed(campaigns, {}, Ok)
    BY <1>3, <1>4 DEF Lone
<1>6. /\ Followed(o.c, campaigns) /\ campaigns[o.c].status = "COMPLETED" /\ campaigns[o.c].next # NoTime
      /\ campaigns[o.child].status = "ACTIVE" /\ campaigns[o.child].parent = NoCampaign
      /\ Listed(o.holders, campaigns) /\ \A x \in o.holders : x.c # o.c
    BY <1>2, <1>3 DEF Lone, Aware, Listed, Followed
<1>7. o.c # o.child /\ ~campaigns[o.c].freq
    BY <1>2, <1>5, <1>6 DEF Lineage
<1>8. campaigns[o.c] \in Campaign /\ campaigns[o.child] \in Campaign
    BY <1>2, TypedNow DEF Typed, There, Absent
<1>9. PICK u : u = [campaigns[o.child] EXCEPT !.parent = o.c]
    OBVIOUS
<1>10. PICK v : v = [campaigns[o.c] EXCEPT !.next = NoTime]
    OBVIOUS
<1>11. /\ u.status = "ACTIVE" /\ u.parent = o.c /\ u.chain = campaigns[o.child].chain
       /\ u.freq = campaigns[o.child].freq /\ u.next = campaigns[o.child].next
    BY <1>6, <1>8, <1>9 DEF Campaign
<1>12. /\ v.status = "COMPLETED" /\ v.parent = campaigns[o.c].parent /\ v.chain = campaigns[o.c].chain
       /\ v.freq = campaigns[o.c].freq /\ v.routed = campaigns[o.c].routed /\ v.next = NoTime
    BY <1>6, <1>8, <1>10 DEF Campaign
<1>13. PICK D : D = campaigns'
    OBVIOUS
<1>14. D[o.child] = u /\ D[o.c] = v /\ \A d \in Campaigns : d # o.c /\ d # o.child => D[d] = campaigns[d]
    <2>1. campaigns' = [campaigns EXCEPT ![o.child].parent = o.c, ![o.c].next = NoTime]
        BY <1>1 DEF MoveSchedule, HandOver
    <2>. QED
        BY <1>2, <1>7, <1>9, <1>10, <1>13, <2>1, TypedNow DEF Typed
<1>15. Linked(campaigns, D, o.c, o.child)
    BY <1>2, <1>6, <1>11, <1>12, <1>14 DEF Linked
<1>16. D[o.c].next = NoTime
    BY <1>12, <1>14
<1>17. Rested(D, Ok)
    BY <1>5, <1>7, <1>15, <1>16, LinkedKeeps, ShapedNow, OkType DEF Rested
<1>18. Ok' => Ok
    <2>1. \A d \in Campaigns : campaigns'[d].status = "ABSENT" <=> campaigns[d].status = "ABSENT"
        BY <1>6, <1>11, <1>12, <1>13, <1>14
    <2>. QED
        BY <2>1, StillOk, ShapedNow DEF MoveSchedule, Counted
<1>19. PICK r : r = [o EXCEPT !.phase = "slots", !.c = NoCampaign, !.child = NoCampaign]
    OBVIOUS
<1>20. r.phase = "slots" /\ r.holders = o.holders
    BY <1>1, <1>19 DEF Slotting
<1>21. Listed(o.holders, D)
    <2>1. \A d \in Campaigns : d # o.c => D[d].status = campaigns[d].status /\ D[d].next = campaigns[d].next
        BY <1>6, <1>11, <1>14
    <2>. QED
        BY <1>1, <1>6, <2>1 DEF Listed, There
<1>22. Rested(D, Ok')
    BY <1>17, <1>18, RestedWeaker, OkType
<1>23. Lone(r, D, Ok')
    BY <1>20, <1>21, <1>22, SlotsLone
<1>24. op' = [op EXCEPT ![Worker] = r]
    BY <1>1, <1>19, SomeProc DEF MoveSchedule
<1>. QED
    BY <1>3, <1>13, <1>23, <1>24, Becomes, SomeProc

LEMMA PollEndsAlone ==
    ASSUME ClosedInv, AloneReviews, OtherSweeps \/ EndPoll \/ (op[Worker].phase = "slots" /\ PollRaises)
    PROVE  AloneReviews'
<1>1. UNCHANGED campaigns /\ Counted
    BY DEF OtherSweeps, EndPoll, PollRaises, Counted
<1>2. PICK rest : rest = [phase |-> "rest"]
    OBVIOUS
<1>3. rest.phase = "rest" /\ Idle.phase = "idle"
    BY <1>2 DEF Idle
<1>4. op' = [op EXCEPT ![Worker] = rest] \/ op' = [op EXCEPT ![Worker] = Idle]
    BY <1>2 DEF OtherSweeps, EndPoll, PollRaises
<1>5. op[Worker].phase \in {"slots", "rest"}
    BY DEF OtherSweeps, EndPoll
<1>6. Busy(Worker) /\ Lone(op[Worker], campaigns, Ok)
    BY <1>5, PollAlone
<1>7. Rested(campaigns, Ok)
    BY <1>5, <1>6, SlotsLone, RestedLone
<1>8. Lone(rest, campaigns, Ok) /\ Lone(Idle, campaigns, Ok)
    BY <1>3, <1>7, RestedLone
<1>. QED
    BY <1>1, <1>4, <1>6, <1>8, TurnsAlone, SomeProc

LEMMA PollStepsAlone == ASSUME ClosedInv, AloneReviews, PollSteps PROVE AloneReviews'
<1>1. CASE Slots
    <2>1. op[Worker].phase = "slots"
        BY <1>1 DEF Slots
    <2>2. CASE SkipSlot
        BY <2>1, <2>2, MissAlone DEF SkipSlot, Counted
    <2>3. CASE FailToStart
        BY <2>1, <2>3, MissAlone DEF FailToStart, Fault, Counted
    <2>4. CASE StartNext
        BY <2>1, <2>4, StartAlone
    <2>5. CASE PollRaises
        BY <2>1, <2>5, PollEndsAlone
    <2>. QED
        BY <1>1, <2>2, <2>3, <2>4, <2>5 DEF Slots
<1>. QED
    BY <1>1, NextOverdueAlone, ListHoldersAlone, MoveAlone, PollEndsAlone DEF PollSteps

-----------------------------------------------------------------------------
(***************************************************************************)
(* One session at a time: a session goes on.                               *)
(***************************************************************************)
LEMMA SessionAlone ==
    ASSUME ClosedInv, AloneReviews, NEW p \in Procs,
           op[p].phase \in {"next", "revoke", "record", "count", "spawn", "link"}
    PROVE  /\ op[p] \in Session /\ Busy(p) /\ Lone(op[p], campaigns, Ok) /\ Sound(op[p], campaigns, items)
           /\ op[p].c \in Campaigns /\ There(op[p].c, campaigns)
           /\ op[p].overdue \in SUBSET [c : Campaigns, freq : BOOLEAN]
<1>1. op[p] # Idle
    BY DEF Idle
<1>2. Busy(p) /\ Lone(op[p], campaigns, Ok)
    BY <1>1, Lonely
<1>. QED
    BY <1>2, SessionIs DEF Session

LEMMA GoesOn ==
    ASSUME ClosedInv, AloneReviews, NEW p \in Procs, op[p].phase \in {"next", "revoke", "record", "count"},
           UNCHANGED campaigns, Counted, NEW h, op' = [op EXCEPT ![p] = h],
           (Alike(h, op[p]) /\ h.phase \in {"next", "revoke", "record", "count"}) \/ h = Done(p, op[p])
    PROVE  AloneReviews'
<1>1. op[p] \in Session /\ Busy(p) /\ Lone(op[p], campaigns, Ok)
    BY SessionAlone
<1>2. Reading(op[p], campaigns) /\ Rested(campaigns, Ok)
    BY <1>1, ReadingLone
<1>3. CASE Alike(h, op[p]) /\ h.phase \in {"next", "revoke", "record", "count"}
    <2>1. Lone(h, campaigns, Ok)
        BY <1>2, <1>3, ReadOn, ReadingLone
    <2>. QED
        BY <1>1, <2>1, TurnsAlone
<1>4. CASE h = Done(p, op[p])
    <2>1. Lone(h, campaigns, Ok)
        BY <1>2, <1>4, DoneLone DEF Reading
    <2>. QED
        BY <1>1, <2>1, TurnsAlone
<1>. QED
    BY <1>3, <1>4

LEMMA FlushedAlike == ASSUME NEW o \in Session PROVE Alike(Flushed(o), o)
BY DEF Alike, Flushed, Session

LEMMA AfterRevokeAlike ==
    ASSUME NEW o \in Session
    PROVE  Alike(AfterRevoke(o), o) /\ AfterRevoke(o).phase \in {"next", "revoke", "record", "count"}
<1>1. o.kind \in {"decide", "outcome", "complete"}
    BY DEF Session
<1>2. CASE o.kind = "decide"
    BY <1>2 DEF AfterRevoke, Alike, Session
<1>3. CASE o.kind = "outcome"
    BY <1>3 DEF AfterRevoke, Alike, Session
<1>4. CASE o.kind = "complete" /\ campaigns[o.c].routed
    BY <1>4 DEF AfterRevoke, Alike, Session
<1>5. CASE o.kind = "complete" /\ ~campaigns[o.c].routed
    <2>1. AfterRevoke(o) = [o EXCEPT !.phase = "next", !.writes[o.g] = "AUTO_REVOKED"]
        BY <1>5 DEF AfterRevoke
    <2>. QED
        BY <2>1 DEF Alike, Session
<1>. QED
    BY <1>1, <1>2, <1>3, <1>4, <1>5

LEMMA AlikeOn == ASSUME NEW h, NEW u, NEW o, Alike(h, u), Alike(u, o) PROVE Alike(h, o)
BY DEF Alike

LEMMA RecordAlone == ASSUME ClosedInv, AloneReviews, NEW p \in Procs, Record(p) PROVE AloneReviews'
<1>1. PICK s : s = op[p]
    OBVIOUS
<1>2. s \in Session /\ s.phase = "record"
    BY <1>1, SessionIs DEF Record
<1>3. PICK o : o = [s EXCEPT !.writes[s.g] = s.decision]
    OBVIOUS
<1>4. PICK h : h = [Flushed(o) EXCEPT !.phase = "count"]
    OBVIOUS
<1>5. Alike(h, s) /\ h.phase = "count"
    BY <1>2, <1>3, <1>4 DEF Alike, Flushed, Session
<1>6. op' = [op EXCEPT ![p] = h]
    BY <1>1, <1>3, <1>4, Zenon DEF Record
<1>7. UNCHANGED campaigns /\ Counted
    BY DEF Record, Counted
<1>. QED
    BY <1>1, <1>2, <1>5, <1>6, <1>7, GoesOn

LEMMA RevokeAlone == ASSUME ClosedInv, AloneReviews, NEW p \in Procs, RevokeGrant(p) PROVE AloneReviews'
<1>1. PICK s : s = op[p]
    OBVIOUS
<1>2. s \in Session /\ s.phase = "revoke"
    BY <1>1, SessionIs DEF RevokeGrant
<1>3. UNCHANGED campaigns /\ Counted
    BY DEF RevokeGrant, Counted
<1>4. CASE op' = [op EXCEPT ![p] = AfterRevoke(s)]
    BY <1>1, <1>2, <1>3, <1>4, AfterRevokeAlike, GoesOn
<1>5. CASE op' = [op EXCEPT ![p] = AfterRevoke(Flushed(s))]
    <2>1. PICK f : f = Flushed(s)
        OBVIOUS
    <2>2. f \in Session /\ Alike(f, s)
        BY <1>2, <2>1, FlushedType, FlushedAlike
    <2>3. Alike(AfterRevoke(f), s) /\ AfterRevoke(f).phase \in {"next", "revoke", "record", "count"}
        BY <2>2, AfterRevokeAlike, AlikeOn
    <2>. QED
        BY <1>1, <1>2, <1>3, <1>5, <2>1, <2>3, GoesOn
<1>. QED
    BY <1>1, <1>4, <1>5 DEF RevokeGrant

LEMMA RefusedAlone == ASSUME ClosedInv, AloneReviews, NEW p \in Procs, RevokeRefused(p) PROVE AloneReviews'
<1>1. PICK s : s = op[p]
    OBVIOUS
<1>2. s \in Session /\ s.phase = "revoke"
    BY <1>1, SessionIs DEF RevokeRefused
<1>3. UNCHANGED campaigns /\ Counted
    BY DEF RevokeRefused, Counted, Fault
<1>4. PICK f : f = Flushed(s)
    OBVIOUS
<1>5. Alike(AfterRevoke(f), s) /\ AfterRevoke(f).phase \in {"next", "revoke", "record", "count"}
    BY <1>2, <1>4, FlushedType, FlushedAlike, AfterRevokeAlike, AlikeOn
<1>6. op' = [op EXCEPT ![p] = AfterRevoke(f)] \/ op' = [op EXCEPT ![p] = Done(p, s)]
    BY <1>1, <1>4 DEF RevokeRefused
<1>7. CASE op' = [op EXCEPT ![p] = AfterRevoke(f)]
    BY <1>1, <1>2, <1>3, <1>5, <1>7, GoesOn
<1>8. CASE op' = [op EXCEPT ![p] = Done(p, s)]
    BY <1>1, <1>2, <1>3, <1>8, GoesOn
<1>. QED
    BY <1>6, <1>7, <1>8

LEMMA CountMoreAlone == ASSUME ClosedInv, AloneReviews, NEW p \in Procs, CountMore(p) PROVE AloneReviews'
<1>1. PICK s : s = op[p]
    OBVIOUS
<1>2. s \in Session /\ s.phase = "count"
    BY <1>1, SessionIs DEF CountMore
<1>3. UNCHANGED campaigns /\ Counted
    BY DEF CountMore, Counted
<1>4. CASE op' = [op EXCEPT ![p] = [s EXCEPT !.phase = "next"]]
    <2>1. PICK h : h = [s EXCEPT !.phase = "next"]
        OBVIOUS
    <2>2. Alike(h, s) /\ h.phase = "next"
        BY <1>2, <2>1 DEF Alike, Session
    <2>. QED
        BY <1>1, <1>2, <1>3, <1>4, <2>1, <2>2, GoesOn
<1>5. CASE op' = [op EXCEPT ![p] = Done(p, s)]
    BY <1>1, <1>2, <1>3, <1>5, GoesOn
<1>. QED
    BY <1>1, <1>4, <1>5 DEF CountMore

LEMMA NextItemAlone == ASSUME ClosedInv, AloneReviews, NEW p \in Procs, NextItem(p) PROVE AloneReviews'
<1>1. PICK s : s = op[p]
    OBVIOUS
<1>2. /\ s \in Session /\ There(s.c, campaigns) /\ s.c \in Campaigns /\ s.phase = "next"
    BY <1>1, SessionIs DEF NextItem
<1>3. PICK g \in s.todo :
        LET o == [s EXCEPT !.g = g, !.todo = @ \ {g}]
            routed == campaigns[o.c].routed IN
        op' = [op EXCEPT ![p] =
            CASE routed /\ <<o.c, g>> \in instances -> Outcome(o, g, "CANCELLED")
              [] routed /\ <<o.c, g>> \notin instances -> o
              [] ~routed /\ campaigns[o.c].keep -> [o EXCEPT !.writes[g] = "APPROVED"]
              [] ~routed /\ ~campaigns[o.c].keep -> [o EXCEPT !.phase = "revoke"]]
    BY <1>1 DEF NextItem
<1>4. PICK o : o = [s EXCEPT !.g = g, !.todo = @ \ {g}]
    OBVIOUS
<1>5. g \in Grants
    BY <1>2, <1>3 DEF Session
<1>6. o \in Session /\ Alike(o, s) /\ o.phase = "next" /\ o.c = s.c
    BY <1>2, <1>4, <1>5 DEF Session, Alike
<1>7. campaigns[o.c].routed \in BOOLEAN /\ campaigns[o.c].keep \in BOOLEAN
    BY <1>2, <1>6, TypedNow DEF Typed, There, Absent, Campaign
<1>8. ASSUME NEW h, Alike(h, o), h.phase \in {"next", "revoke", "record", "count"}, op' = [op EXCEPT ![p] = h]
      PROVE  AloneReviews'
    <2>1. UNCHANGED campaigns /\ Counted
        BY DEF NextItem, Counted
    <2>2. Alike(h, s)
        BY <1>6, <1>8, AlikeOn
    <2>. QED
        BY <1>1, <1>2, <1>8, <2>1, <2>2, GoesOn
<1>9. CASE campaigns[o.c].routed /\ <<o.c, g>> \in instances
    <2>1. PICK h : h = Outcome(o, g, "CANCELLED")
        OBVIOUS
    <2>2. Alike(h, o) /\ h.phase \in {"next", "revoke", "record", "count"}
        BY <1>6, <2>1 DEF Outcome, Alike, Session
    <2>3. op' = [op EXCEPT ![p] = h]
        BY <1>3, <1>4, <1>9, <2>1
    <2>. QED
        BY <1>8, <2>2, <2>3
<1>10. CASE campaigns[o.c].routed /\ <<o.c, g>> \notin instances
    <2>1. op' = [op EXCEPT ![p] = o]
        BY <1>3, <1>4, <1>10
    <2>. QED
        BY <1>6, <1>8, <2>1 DEF Alike
<1>11. CASE ~campaigns[o.c].routed /\ campaigns[o.c].keep
    <2>1. PICK h : h = [o EXCEPT !.writes[g] = "APPROVED"]
        OBVIOUS
    <2>2. Alike(h, o) /\ h.phase = "next"
        BY <1>6, <2>1 DEF Alike, Session
    <2>3. op' = [op EXCEPT ![p] = h]
        BY <1>3, <1>4, <1>11, <2>1
    <2>. QED
        BY <1>8, <2>2, <2>3
<1>12. CASE ~campaigns[o.c].routed /\ ~campaigns[o.c].keep
    <2>1. PICK h : h = [o EXCEPT !.phase = "revoke"]
        OBVIOUS
    <2>2. Alike(h, o) /\ h.phase = "revoke"
        BY <1>6, <2>1 DEF Alike, Session
    <2>3. op' = [op EXCEPT ![p] = h]
        BY <1>3, <1>4, <1>12, <2>1
    <2>. QED
        BY <1>8, <2>2, <2>3
<1>. QED
    BY <1>7, <1>9, <1>10, <1>11, <1>12

LEMMA AlreadyAlone == ASSUME ClosedInv, AloneReviews, NEW p \in Procs, AlreadyClosed(p) PROVE AloneReviews'
<1>1. op[p].phase = "next" /\ op' = [op EXCEPT ![p] = Done(p, op[p])] /\ UNCHANGED campaigns /\ Counted
    BY DEF AlreadyClosed, Counted
<1>. QED
    BY <1>1, GoesOn

-----------------------------------------------------------------------------
(***************************************************************************)
(* One session at a time: a campaign is closed and followed by the next.   *)
(***************************************************************************)
\* The session that closes its campaign.
LEMMA ClosesAlone ==
    ASSUME ClosedInv, AloneReviews, NEW p \in Procs, op[p].phase \in {"next", "count"}, op[p].open,
           campaigns' = Completed(op[p].c), UNCHANGED faults,
           op' = [op EXCEPT ![p] = MaybeSpawn(p, [Flushed(op[p]) EXCEPT !.open = FALSE], op[p].freq)]
    PROVE  AloneReviews'
<1>1. PICK s : s = op[p]
    OBVIOUS
<1>2. /\ s \in Session /\ Busy(p) /\ Lone(s, campaigns, Ok) /\ s.c \in Campaigns /\ There(s.c, campaigns)
      /\ s.overdue \in SUBSET [c : Campaigns, freq : BOOLEAN]
    BY <1>1, SessionAlone
<1>3. Reading(s, campaigns) /\ Rested(campaigns, Ok)
    BY <1>1, <1>2, ReadingLone
<1>4. campaigns[s.c].status = "ACTIVE" /\ s.freq = campaigns[s.c].freq /\ s.freq \in BOOLEAN
    BY <1>1, <1>2, <1>3 DEF Reading, Session
<1>5. campaigns[s.c] \in Campaign
    BY <1>2, TypedNow DEF Typed, There, Absent
<1>6. PICK u : u = [campaigns[s.c] EXCEPT !.status = "COMPLETED"]
    OBVIOUS
<1>7. /\ u.status = "COMPLETED" /\ u.chain = campaigns[s.c].chain /\ u.parent = campaigns[s.c].parent
      /\ u.freq = campaigns[s.c].freq /\ u.next = campaigns[s.c].next
    BY <1>5, <1>6 DEF Campaign
<1>8. PICK D : D = campaigns'
    OBVIOUS
<1>9. D[s.c] = u /\ \A d \in Campaigns : d # s.c => D[d] = campaigns[d]
    BY <1>1, <1>2, <1>6, <1>8, TypedNow DEF Typed, Completed
<1>10. Closing(campaigns, D, s.c)
    BY <1>2, <1>4, <1>7, <1>9 DEF Closing
<1>11. /\ Lineage(D) /\ Sole(D, {})
       /\ s.freq => Passed(D, {s.c}, Ok) /\ \A d \in Campaigns : Alive(d, D) => D[d].chain # D[s.c].chain
       /\ ~s.freq => Passed(D, {}, Ok)
    <2>1. Lineage(campaigns) /\ Sole(campaigns, {}) /\ Passed(campaigns, {}, Ok) /\ Shaped(campaigns) /\ Ok \in BOOLEAN
        BY <1>3, ShapedNow, OkType DEF Rested
    <2>2. ClosedOff(campaigns, D, s.c, Ok)
        BY <1>10, <2>1, ClosingKeeps
    <2>. QED
        BY <1>4, <2>2 DEF ClosedOff
<1>12. OnTime(s.overdue, D) /\ \A x \in s.overdue : x.c # s.c
    BY <1>2, <1>3, <1>10, ClosingOnTime DEF Reading
<1>13. Ok' => Ok
    <2>1. \A d \in Campaigns : campaigns'[d].status = "ABSENT" <=> campaigns[d].status = "ABSENT"
        BY <1>4, <1>7, <1>8, <1>9
    <2>. QED
        BY <2>1, StillOk, ShapedNow DEF Counted
<1>14. PICK o : o = [Flushed(s) EXCEPT !.open = FALSE]
    OBVIOUS
<1>15. /\ o \in Session /\ o.c = s.c /\ o.freq = s.freq /\ o.open = FALSE /\ o.overdue = s.overdue /\ o.kind = s.kind
    <2>1. PICK f : f = Flushed(s)
        OBVIOUS
    <2>2. f \in Session /\ Alike(f, s) /\ f.kind = s.kind
        BY <1>2, <2>1, FlushedType, FlushedAlike, FlushedIs
    <2>. QED
        BY <1>14, <2>1, <2>2 DEF Alike, Session
<1>16. PICK h : h = MaybeSpawn(p, o, s.freq)
    OBVIOUS
<1>17. op' = [op EXCEPT ![p] = h]
    BY <1>1, <1>14, <1>16
<1>18. CASE s.freq
    <2>1. h = [o EXCEPT !.phase = "spawn"]
        BY <1>16, <1>18 DEF MaybeSpawn
    <2>2. h.phase = "spawn" /\ h.c = s.c /\ h.freq = s.freq /\ h.open = FALSE /\ h.overdue = s.overdue
        BY <1>15, <2>1 DEF Session
    <2>3. Givers(h) = {} /\ Waiting(h) = {s.c}
        BY <1>2, <2>2 DEF Givers, Waiting
    <2>4. Passed(D, {s.c}, Ok')
        BY <1>11, <1>13, <1>18, OkType DEF Passed
    <2>5. Aware(h, D)
        BY <1>4, <1>7, <1>9, <1>11, <1>12, <1>18, <2>2 DEF Aware
    <2>6. Lone(h, D, Ok')
        BY <1>11, <2>3, <2>4, <2>5 DEF Lone
    <2>. QED
        BY <1>2, <1>8, <1>17, <2>6, Becomes
<1>19. CASE ~s.freq
    <2>1. Rested(D, Ok')
        BY <1>11, <1>13, <1>19, OkType DEF Rested, Passed
    <2>2. CASE o.kind = "complete"
        <3>1. h = [o EXCEPT !.phase = "next"]
            BY <1>16, <1>19, <2>2 DEF MaybeSpawn
        <3>2. h.phase = "next" /\ h.c = s.c /\ h.freq = s.freq /\ h.open = FALSE /\ h.overdue = s.overdue
            BY <1>15, <3>1 DEF Session
        <3>3. Reading(h, D)
            BY <1>4, <1>7, <1>9, <1>12, <3>2 DEF Reading
        <3>4. Lone(h, D, Ok')
            BY <2>1, <3>2, <3>3, ReadingLone
        <3>. QED
            BY <1>2, <1>8, <1>17, <3>4, Becomes
    <2>3. CASE o.kind # "complete"
        <3>1. h = Done(p, o)
            BY <1>16, <1>19, <2>3 DEF MaybeSpawn
        <3>2. Lone(h, D, Ok')
            BY <1>12, <1>15, <2>1, <3>1, DoneLone
        <3>. QED
            BY <1>2, <1>8, <1>17, <3>2, Becomes
    <2>. QED
        BY <2>2, <2>3
<1>. QED
    BY <1>4, <1>18, <1>19

LEMMA CountLastAlone == ASSUME ClosedInv, AloneReviews, NEW p \in Procs, CountLast(p) PROVE AloneReviews'
<1>1. op[p].phase = "count" /\ op[p].open /\ campaigns' = Completed(op[p].c) /\ UNCHANGED faults
    BY DEF CountLast
<1>2. op' = [op EXCEPT ![p] = MaybeSpawn(p, [Flushed(op[p]) EXCEPT !.open = FALSE], op[p].freq)]
    BY DEF CountLast
<1>. QED
    BY <1>1, <1>2, ClosesAlone

LEMMA CloseAlone == ASSUME ClosedInv, AloneReviews, NEW p \in Procs, CloseCampaign(p) PROVE AloneReviews'
<1>1. op[p].phase = "next" /\ op[p].open /\ campaigns' = Completed(op[p].c) /\ UNCHANGED faults
    BY DEF CloseCampaign
<1>2. op' = [op EXCEPT ![p] = MaybeSpawn(p, [Flushed(op[p]) EXCEPT !.open = FALSE], campaigns[op[p].c].freq)]
    BY DEF CloseCampaign
<1>3. campaigns[op[p].c].freq = op[p].freq
    BY <1>1, SessionAlone, ReadingLone DEF Reading
<1>. QED
    BY <1>1, <1>2, <1>3, ClosesAlone

LEMMA SpawnAlone == ASSUME ClosedInv, AloneReviews, NEW p \in Procs, Spawn(p) PROVE AloneReviews'
<1>1. PICK s : s = op[p]
    OBVIOUS
<1>2. /\ s \in Session /\ Busy(p) /\ Lone(s, campaigns, Ok) /\ s.c \in Campaigns /\ There(s.c, campaigns)
      /\ s.overdue \in SUBSET [c : Campaigns, freq : BOOLEAN] /\ s.phase = "spawn"
    BY <1>1, SessionAlone DEF Spawn
<1>3. Givers(s) = {} /\ Waiting(s) = {s.c}
    BY <1>2 DEF Givers, Waiting
<1>4. Lineage(campaigns) /\ Sole(campaigns, {}) /\ Passed(campaigns, {s.c}, Ok)
    BY <1>2, <1>3 DEF Lone
<1>5. /\ s.freq = campaigns[s.c].freq /\ OnTime(s.overdue, campaigns) /\ \A x \in s.overdue : x.c # s.c
      /\ ~s.open /\ campaigns[s.c].status = "COMPLETED" /\ campaigns[s.c].freq
      /\ \A d \in Campaigns : Alive(d, campaigns) => campaigns[d].chain # campaigns[s.c].chain
    BY <1>2 DEF Lone, Aware
<1>6. /\ campaigns[s.c].routed \in BOOLEAN /\ campaigns[s.c].keep \in BOOLEAN
      /\ campaigns[s.c].chain \in Campaigns
    BY <1>2, TypedNow DEF Typed, There, Absent, Campaign
<1>7. Successor(s.c) \in Body /\ ~(Successor(s.c).freq /\ Successor(s.c).scheduled)
    BY <1>6 DEF Successor, Body
<1>8. PICK f : f = FreshId
    OBVIOUS
<1>9. PICK chain : chain = campaigns[s.c].chain
    OBVIOUS
<1>10. PICK D : D = campaigns'
    OBVIOUS
<1>11. RowLeft /\ ~campaigns[s.c].routed /\ UNCHANGED faults /\ Create(Successor(s.c), chain, {})
    BY <1>1, <1>9 DEF Spawn, Refused
<1>12. Grown(campaigns, D, f, chain) /\ D[f].status = "ACTIVE" /\ chain \in Campaigns
    BY <1>6, <1>7, <1>8, <1>9, <1>10, <1>11, Creates, NoneSkipped
<1>13. f \in Campaigns /\ f # s.c /\ D[f].status = "ACTIVE" /\ D[f].parent = NoCampaign /\ D[s.c] = campaigns[s.c]
    BY <1>2, <1>12 DEF Grown, There
<1>14. Lineage(D) /\ Sole(D, {})
    <2>1. There(chain, campaigns)
        BY <1>2, <1>4, <1>9 DEF Lineage
    <2>2. Lineage(D)
        BY <1>4, <1>12, <2>1, GrownLineage, ShapedNow
    <2>3. \A d \in Campaigns \ {} : Alive(d, campaigns) => campaigns[d].chain # chain
        BY <1>5, <1>9
    <2>4. Sole(D, {})
        BY <1>4, <1>12, <2>3, GrownSole
    <2>. QED
        BY <2>2, <2>4
<1>15. Passed(D, {s.c}, Ok')
    <2>1. Passed(D, {s.c}, Ok)
        BY <1>4, <1>12, GrownPassed, OkType
    <2>2. Ok' => Ok
        BY <1>11 DEF Ok
    <2>. QED
        BY <2>1, <2>2, OkType DEF Passed
<1>16. OnTime(s.overdue, D)
    BY <1>2, <1>5, <1>12, GrownOnTime
<1>17. PICK h : h = [s EXCEPT !.phase = "link", !.child = f]
    OBVIOUS
<1>18. /\ h.phase = "link" /\ h.child = f /\ h.c = s.c /\ h.freq = s.freq /\ h.open = s.open /\ h.overdue = s.overdue
    BY <1>2, <1>17 DEF Session
<1>19. op' = [op EXCEPT ![p] = h]
    BY <1>1, <1>8, <1>17, TypedNow DEF Spawn
<1>20. Aware(h, D)
    BY <1>5, <1>11, <1>13, <1>16, <1>18 DEF Aware
<1>21. Givers(h) = {} /\ Waiting(h) = {s.c}
    BY <1>2, <1>18 DEF Givers, Waiting
<1>22. Lone(h, D, Ok')
    BY <1>14, <1>15, <1>20, <1>21 DEF Lone
<1>. QED
    BY <1>2, <1>10, <1>19, <1>22, Becomes

\* The closing is over, whether the next campaign was made or not.
LEMMA AfterSpawnLone ==
    ASSUME NEW p, NEW o \in Session, NEW C, NEW ok, Rested(C, ok), Reading(o, C)
    PROVE  Lone(AfterSpawn(p, o), C, ok)
<1>1. CASE o.kind = "complete"
    <2>1. PICK h : h = [o EXCEPT !.phase = "next"]
        OBVIOUS
    <2>2. Alike(h, o) /\ h.phase = "next" /\ AfterSpawn(p, o) = h
        BY <1>1, <2>1 DEF Alike, Session, AfterSpawn
    <2>. QED
        BY <2>2, ReadOn, ReadingLone
<1>2. CASE o.kind # "complete"
    BY <1>2, DoneLone DEF AfterSpawn, Reading
<1>. QED
    BY <1>1, <1>2

LEMMA SpawnFailsAlone == ASSUME ClosedInv, AloneReviews, NEW p \in Procs, SpawnFails(p) PROVE AloneReviews'
<1>1. PICK s : s = op[p]
    OBVIOUS
<1>2. s \in Session /\ Busy(p) /\ Lone(s, campaigns, Ok) /\ s.phase = "spawn"
    BY <1>1, SessionAlone DEF SpawnFails
<1>3. Givers(s) = {}
    BY <1>2 DEF Givers
<1>4. Lineage(campaigns) /\ Sole(campaigns, {}) /\ Reading(s, campaigns)
    BY <1>2, <1>3 DEF Lone, Aware, Reading
<1>5. campaigns' = campaigns /\ op' = [op EXCEPT ![p] = AfterSpawn(p, s)]
    BY <1>1 DEF SpawnFails
<1>6. Passed(campaigns, {}, Ok')
    <2>1. Passed(campaigns, {s.c}, Ok)
        BY <1>2 DEF Lone, Waiting, Passed
    <2>2. CASE Fault("gone")
        <3>1. ~Ok'
            BY <2>2, ShapedNow DEF Fault, Ok
        <3>. QED
            BY <3>1 DEF Passed
    <2>3. CASE ~RowLeft
        <3>1. ~Ok'
            BY <1>5, <2>3 DEF Ok, RowLeft, FreeCampaigns, Present
        <3>. QED
            BY <3>1 DEF Passed
    <2>4. CASE campaigns[s.c].routed /\ UNCHANGED faults
        <3>1. Ok' = Ok
            BY <1>5, <2>4 DEF Ok, RowLeft, FreeCampaigns, Present
        <3>. QED
            BY <2>1, <2>4, <3>1 DEF Passed, Recurs
    <2>. QED
        BY <1>1, <2>2, <2>3, <2>4 DEF SpawnFails, Refused
<1>7. Rested(campaigns, Ok')
    BY <1>4, <1>6 DEF Rested
<1>8. Lone(AfterSpawn(p, s), campaigns, Ok')
    BY <1>2, <1>4, <1>7, AfterSpawnLone
<1>9. Lone(AfterSpawn(p, s), campaigns', Ok')
    BY <1>5, <1>8
<1>. QED
    BY <1>2, <1>5, <1>9, Becomes

LEMMA LinkAlone == ASSUME ClosedInv, AloneReviews, NEW p \in Procs, Link(p) PROVE AloneReviews'
<1>1. PICK s : s = op[p]
    OBVIOUS
<1>2. /\ s \in Session /\ Busy(p) /\ Lone(s, campaigns, Ok) /\ s.c \in Campaigns /\ There(s.c, campaigns)
      /\ s.overdue \in SUBSET [c : Campaigns, freq : BOOLEAN] /\ s.phase = "link"
      /\ There(s.child, campaigns) /\ s.child \in Campaigns
    BY <1>1, SessionAlone DEF Link, Sound, Session
<1>3. Givers(s) = {} /\ Waiting(s) = {s.c}
    BY <1>2 DEF Givers, Waiting
<1>4. Lineage(campaigns) /\ Sole(campaigns, {}) /\ Passed(campaigns, {s.c}, Ok)
    BY <1>2, <1>3 DEF Lone
<1>5. /\ s.freq = campaigns[s.c].freq /\ OnTime(s.overdue, campaigns) /\ \A x \in s.overdue : x.c # s.c
      /\ ~s.open /\ campaigns[s.c].status = "COMPLETED" /\ campaigns[s.c].freq /\ ~campaigns[s.c].routed
      /\ campaigns[s.child].status = "ACTIVE" /\ campaigns[s.child].parent = NoCampaign
    BY <1>2 DEF Lone, Aware
<1>6. campaigns[s.child] \in Campaign
    BY <1>2, TypedNow DEF Typed, There, Absent
<1>7. PICK u : u = [campaigns[s.child] EXCEPT !.parent = s.c]
    OBVIOUS
<1>8. /\ u.status = "ACTIVE" /\ u.parent = s.c /\ u.chain = campaigns[s.child].chain
      /\ u.freq = campaigns[s.child].freq /\ u.next = campaigns[s.child].next
    BY <1>5, <1>6, <1>7 DEF Campaign
<1>9. PICK D : D = campaigns'
    OBVIOUS
<1>10. D[s.child] = u /\ \A d \in Campaigns : d # s.child => D[d] = campaigns[d]
    BY <1>1, <1>2, <1>7, <1>9, TypedNow DEF Typed, Link
<1>11. Linked(campaigns, D, s.c, s.child)
    BY <1>2, <1>5, <1>8, <1>10 DEF Linked, Followed
<1>12. Rested(D, Ok) /\ OnTime(s.overdue, D)
    BY <1>2, <1>4, <1>5, <1>11, LinkedKeeps, LinkedOnTime, ShapedNow, OkType DEF Rested
<1>13. Ok' => Ok
    <2>1. \A d \in Campaigns : campaigns'[d].status = "ABSENT" <=> campaigns[d].status = "ABSENT"
        BY <1>5, <1>8, <1>9, <1>10
    <2>. QED
        BY <2>1, StillOk, ShapedNow DEF Link, Counted
<1>14. Rested(D, Ok')
    BY <1>12, <1>13, RestedWeaker, OkType
<1>15. PICK o : o = [s EXCEPT !.child = NoCampaign]
    OBVIOUS
<1>16. o \in Session /\ o.c = s.c /\ o.freq = s.freq /\ o.open = s.open /\ o.overdue = s.overdue
    BY <1>2, <1>15 DEF Session
<1>17. Reading(o, D)
    <2>1. s.c # s.child
        BY <1>5
    <2>2. D[s.c] = campaigns[s.c]
        BY <1>2, <1>10, <2>1
    <2>. QED
        BY <1>5, <1>12, <1>16, <2>2 DEF Reading
<1>18. Lone(AfterSpawn(p, o), D, Ok')
    BY <1>14, <1>16, <1>17, AfterSpawnLone
<1>19. op' = [op EXCEPT ![p] = AfterSpawn(p, o)]
    BY <1>1, <1>15 DEF Link
<1>. QED
    BY <1>2, <1>9, <1>18, <1>19, Becomes

-----------------------------------------------------------------------------
(***************************************************************************)
(* One session at a time: all steps together.                              *)
(***************************************************************************)
LEMMA UnchangedAlone == ASSUME AloneReviews, UNCHANGED <<campaigns, op, faults>> PROVE AloneReviews'
<1>1. PICK p \in Procs : Busy(p) /\ Lone(op[p], campaigns, Ok)
    BY DEF AloneReviews
<1>2. Busy(p)' /\ Ok' = Ok
    BY <1>1 DEF Busy, Ok, RowLeft, FreeCampaigns, Present
<1>3. Lone(op'[p], campaigns', Ok')
    BY <1>1, <1>2
<1>. QED
    BY <1>2, <1>3 DEF AloneReviews

LEMMA StepsAlone == ASSUME ClosedInv, AloneReviews, NEW p \in Procs, Steps(p) PROVE AloneReviews'
BY RecordAlone, RevokeAlone, CountLastAlone, CountMoreAlone, NextItemAlone, CloseAlone, AlreadyAlone,
   SpawnAlone, SpawnFailsAlone, LinkAlone DEF Steps

LEMMA NextAlone == ASSUME ClosedInv, AloneReviews, Serial, Next PROVE AloneReviews'
<1>1. CASE CreateCampaign
    BY <1>1, CreateAlone
<1>2. CASE UpdateCampaign
    BY <1>2, UpdateAlone
<1>3. ASSUME NEW p \in Requests, DecideItem(p) \/ EndInstance(p) \/ CompleteCampaign(p) PROVE AloneReviews'
    <2>1. p \in Procs
        BY DEF Procs
    <2>. QED
        BY <1>3, <2>1, DecideAlone, EndAlone, CompleteAlone
<1>4. CASE StartPoll
    BY <1>4, StartPollAlone
<1>5. CASE PollSteps
    BY <1>5, PollStepsAlone
<1>6. ASSUME NEW p \in Procs, Steps(p) \/ RevokeRefused(p) PROVE AloneReviews'
    BY <1>6, StepsAlone, RefusedAlone
<1>7. CASE EngineMoves \/ Tick
    BY <1>7, UnchangedAlone DEF EngineMoves, Tick
<1>8. CASE Crash
    BY <1>8 DEF Crash, Fault, Serial
<1>. QED
    BY <1>1, <1>2, <1>3, <1>4, <1>5, <1>6, <1>7, <1>8 DEF Next

LEMMA InitAlone == ASSUME Init PROVE AloneReviews
<1>1. \A c \in Campaigns : campaigns[c].status = "ABSENT"
    BY DEF Init, Absent
<1>2. Rested(campaigns, Ok)
    BY <1>1 DEF Rested, Lineage, Sole, Passed, Recurs, Alive, There
<1>3. \A p \in Procs : op[p] = Idle
    BY DEF Init
<1>4. Lone(Idle, campaigns, Ok)
    <2>1. Idle.phase = "idle"
        BY DEF Idle
    <2>. QED
        BY <1>2, <2>1, RestedLone
<1>5. Busy(Worker) /\ Lone(op[Worker], campaigns, Ok)
    BY <1>3, <1>4, SomeProc DEF Busy
<1>. QED
    BY <1>5, SomeProc DEF AloneReviews

LEMMA AloneNeverTwo == ASSUME AloneReviews PROVE NeverTwoOpen
<1>1. PICK p \in Procs : Lone(op[p], campaigns, Ok)
    BY DEF AloneReviews
<1>2. Sole(campaigns, Givers(op[p]))
    BY <1>1 DEF Lone
<1>3. \A c \in Campaigns : Active(c) => c \notin Givers(op[p])
    BY <1>1 DEF Lone, Aware, Followed, Givers, Active
<1>. QED
    BY <1>2, <1>3 DEF NeverTwoOpen, Sole, Alive, Active

LEMMA AloneContinues == ASSUME ClosedInv, AloneReviews PROVE RecurrenceContinues
<1>. SUFFICES ASSUME \A p \in Procs : op[p] = Idle, faults = 0, RowLeft,
                     NEW c \in Campaigns, campaigns[c].status = "COMPLETED", campaigns[c].freq
              PROVE  Cardinality(Repeats(c)) = IF campaigns[c].routed THEN 0 ELSE 1
    BY DEF RecurrenceContinues
<1>1. Lone(Idle, campaigns, Ok)
    BY DEF AloneReviews
<1>2. Rested(campaigns, Ok)
    <2>1. Idle.phase = "idle"
        BY DEF Idle
    <2>. QED
        BY <1>1, <2>1, RestedLone
<1>3. CASE campaigns[c].routed
    <2>1. c # NoCampaign
        BY ConstantsAssumption
    <2>2. \A d \in Campaigns : Present(d) => campaigns[d].parent # c
        BY <1>2, <1>3, <2>1 DEF Rested, Lineage, Followed, There, Present
    <2>3. Repeats(c) = {}
        BY <2>2 DEF Repeats
    <2>. QED
        BY <1>3, <2>3, FS_EmptySet
<1>4. CASE ~campaigns[c].routed
    <2>1. OneHeir(c, campaigns)
        BY <1>2, <1>4 DEF Rested, Passed, Recurs, Ok
    <2>2. PICK d \in Campaigns : /\ There(d, campaigns) /\ campaigns[d].parent = c
                                 /\ \A e \in Campaigns : There(e, campaigns) /\ campaigns[e].parent = c => e = d
        BY <2>1 DEF OneHeir
    <2>3. Repeats(c) = {d}
        BY <2>2 DEF There, Present, Repeats
    <2>. QED
        BY <1>4, <2>3, FS_Singleton
<1>. QED
    BY <1>3, <1>4

-----------------------------------------------------------------------------
(***************************************************************************)
(* The theorems.                                                           *)
(***************************************************************************)
\* The inductive invariant holds of every run.
THEOREM Inductive == Spec => []ClosedInv
BY InitSound, NextKeeps, PTL DEF Spec

\* Campaigns, items, grants and the sessions in flight keep their shape.
THEOREM TypeCorrect == Spec => []TypeOK
<1>1. ClosedInv => TypeOK
    BY DEF ClosedInv
<1>. QED
    BY <1>1, Inductive, PTL

\* However many requests and polls close campaigns at once, and wherever they are refused or
\* cut off, a closed campaign has no item left undecided and no instance still open.
THEOREM ClosedDecided == Spec => []ClosedMeansDecided
BY Inductive, InvImpliesClosed, PTL

\* What is kept at either width.
KeptReviews == ClosedInv /\ (width = 2 \/ faults = 0 => RealInv)

LEMMA KeepsReviews == KeptReviews /\ [WideNext]_<<vars, width>> => KeptReviews'
<1>. SUFFICES ASSUME KeptReviews, [WideNext]_<<vars, width>> PROVE KeptReviews'
    OBVIOUS
<1>1. CASE UNCHANGED <<vars, width>>
    <2>1. ClosedInv'
        BY <1>1, StutterKeeps DEF KeptReviews
    <2>2. RealInv => RealInv'
        BY <1>1, <2>1, RealPlans, SomeProc, IdleBacked DEF vars
    <2>. QED
        BY <1>1, <2>1, <2>2 DEF KeptReviews, vars
<1>2. ASSUME Unrefused, width' = width PROVE KeptReviews'
    <2>1. ClosedInv'
        BY <1>2, AnyNextKeeps DEF KeptReviews, AnyNext
    <2>2. faults' = 0 => faults = 0
        BY <1>2, FaultsCount, TypedNow DEF KeptReviews, Counted, Typed
    <2>3. RealInv => RealInv'
        BY <1>2, UnrefusedKeeps
    <2>. QED
        BY <1>2, <2>1, <2>2, <2>3 DEF KeptReviews
<1>3. CASE width = 1 /\ Next /\ width' = width
    <2>1. ASSUME NEW p \in Procs, AnyRefusal(p) PROVE KeptReviews'
        <3>1. ClosedInv'
            BY <2>1, AnyNextKeeps DEF KeptReviews, AnyNext
        <3>2. faults' # 0
            BY <2>1, TypedNow DEF AnyRefusal, KeptReviews, Typed
        <3>. QED
            BY <1>3, <3>1, <3>2 DEF KeptReviews
    <2>. QED
        BY <1>2, <1>3, <2>1, NextIsAny
<1>4. CASE Races!Next /\ width' = width
    BY <1>2, <1>4, RacesIsAny
<1>. QED
    BY <1>1, <1>3, <1>4 DEF WideNext

\* As long as the provider refuses nothing, an item recorded as revoked is one whose access has
\* really been taken away, whatever requests and polls decide and close at once and wherever
\* they are cut off (services/access_reviews.py, services/workflows.py).
THEOREM RevocationsAlways == WideSpec => []UnrefusedRevocationsReal
<1>1. WideInit => KeptReviews
    BY InitReal DEF WideInit, KeptReviews, RealInv
<1>2. KeptReviews => UnrefusedRevocationsReal
    BY RealImpliesReal DEF KeptReviews, UnrefusedRevocationsReal
<1>. QED
    BY <1>1, <1>2, KeepsReviews, PTL DEF WideSpec

\* What is kept at width 1, where one session runs at a time.
KeptAlone == ClosedInv /\ (width = 1 => AloneReviews)

LEMMA KeepsAlone == ASSUME Serial PROVE KeptAlone /\ [WideNext]_<<vars, width>> => KeptAlone'
<1>. SUFFICES ASSUME KeptAlone, [WideNext]_<<vars, width>> PROVE KeptAlone'
    OBVIOUS
<1>1. width' = width
    BY DEF WideNext
<1>2. ClosedInv'
    <2>1. CASE UNCHANGED <<vars, width>>
        BY <2>1, StutterKeeps DEF KeptAlone
    <2>2. CASE Next
        BY <2>2, NextKeeps DEF KeptAlone
    <2>3. CASE Races!Next
        BY <2>3, RacesIsAny, AnyNextKeeps DEF KeptAlone, AnyNext
    <2>. QED
        BY <2>1, <2>2, <2>3 DEF WideNext
<1>3. ASSUME width = 1 PROVE AloneReviews'
    <2>1. CASE UNCHANGED <<vars, width>>
        BY <1>3, <2>1, UnchangedAlone DEF KeptAlone, vars
    <2>2. CASE Next
        BY <1>3, <2>2, NextAlone DEF KeptAlone
    <2>. QED
        BY <1>3, <2>1, <2>2 DEF WideNext
<1>. QED
    BY <1>1, <1>2, <1>3 DEF KeptAlone

\* With one request or poll at a time that is never cut off, whatever is refused on the way, a
\* recurring or scheduled review never has two campaigns open, and as long as nothing failed a
\* closed recurring campaign that reviewers decide has exactly one successor and one that a
\* workflow decides has none (_maybe_spawn_recurrence, sweep_scheduled_campaigns).
THEOREM RecursAlways == ASSUME Serial PROVE WideSpec => []AloneRecurs
<1>1. WideInit => KeptAlone
    BY InitSound, InitAlone DEF WideInit, KeptAlone
<1>2. KeptAlone => AloneRecurs
    BY AloneNeverTwo, AloneContinues DEF KeptAlone, AloneRecurs, ClosedInv
<1>3. KeptAlone /\ [WideNext]_<<vars, width>> => KeptAlone'
    BY KeepsAlone
<1>. QED
    BY <1>1, <1>2, <1>3, PTL DEF WideSpec
=============================================================================
