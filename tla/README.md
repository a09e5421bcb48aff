# Verification of AccessPilot

TLA+ models of the parts of AccessPilot (`src/backend`) that decide who has access to
what, from the day a person is imported or joins to the day their accounts are deleted:
the assignment engine with its background workers, approval workflows, access reviews,
joiners, movers and leavers, birthright access, packages and business roles, separation of
duties, non-human identities and the HR import. TLC checks each model on small instances;
TLAPS proves the main results for every value of the constants.

- `PROJECT.json` lists components, runs, mutants, the map from definitions to source
  lines, hazards, findings and theorems.
- Run a model: `tlc -workers 2 -config Assign.cfg MCAssignmentsWide` (each run of
  `PROJECT.json` names its module and its configuration). Check the proofs:
  `tlapm AssignmentsProofs.tla`, and so for every module whose name ends in `Proofs`.

## 1. Inventory

AccessPilot is one Python process: FastAPI handlers and background workers
(`main.py`, `lifespan`) are coroutines of one asyncio loop over one PostgreSQL database.
Handlers interleave at every `await`. Each request has its own SQLAlchemy session with
`expire_on_commit=False`; rows carry no version column and are never locked, so a commit
writes the columns that changed *against what the session read* over whatever the row has
become. Access is real only at a provider (Entra ID, Active Directory, Okta), called over
the network. Those three facts make almost all of the hard behaviour.

| Component | State | Operations | Interacts with |
|---|---|---|---|
| Assignment engine (`services/assignments.py`) | `access_assignments` | create, activate, deactivate, revoke, approve, reject, supersede | providers, SoD, group mappings, workflows, local memberships |
| Workers (`workers/expiration.py`, `activation.py`) | none of their own | expire, lapse eligibility, start scheduled | call the engine's provider steps, each row in its own session |
| Group mappings (`services/group_role_mapping.py`) | `group_role_mappings`, rows with `group_role_mapping_id` | evaluate, reconcile, cascade | called by activate / deactivate / revoke / sync |
| Directory sync (`services/directory_sync.py`) | `user_groups`, users, groups, roles, applications | fetch, upsert, remove stale, reconcile | memberships and rows of the engine, birthright, leaver |
| SoD (`services/sod.py`) | policies, exceptions, requests for them, notifications | check conflicts, grant or deny an exception, lapse, detect and notify | called before create and activate; grants create assignments, lapses end them |
| Approval workflows (`services/workflows.py`) | definitions, instances, stages, decisions | start, advance, decide, cancel, escalate, edit | settle assignments, review items, attribute changes |
| Access reviews (`services/access_reviews.py`) | campaigns, items | create, update, decide, close, recur, schedule | `revoke_assignment`, workflows, notifications |
| Joiners (`services/joiner.py`) | joiner requests with a target per directory | submit, provision, activate, retry, cancel | provider accounts, birthright |
| Movers (`services/lifecycle.py`) | pending moves | schedule, cancel, apply | attributes, birthright, dynamic groups |
| Leavers (`lifecycle.py`, `leaver_followup.py`, `accounts.py`) | leaver stamps, requests, returns | leave, return, enable and disable, delete accounts | providers, engine, ownerships |
| Birthright access (`services/birthright.py`) | policies, rows tagged with them | save, delete, recheck, reconcile, evaluate | engine, packages, roles |
| Dynamic groups (`services/dynamic_groups.py`) | rules, the real group behind one | create, edit, sync modes, membership | engine, providers |
| Packages, business roles (`packages.py`, `business_roles.py`) | bundles of entitlements | create, edit, owners' removals, archive, delete, assign, request | engine, workflows, catalogue |
| Onboarding, HR (`onboarding.py`, `hr_integration.py`, `provisioning.py`) | imports, identities | validate, commit, poll, create accounts | providers, birthright, leaver |
| Privileged accounts (`services/privileged_accounts.py`) | `privileged_account_requests`, policies, linked User rows | ask, approve, reject, provision, switch | providers, directory sync, leaver |
| Non-human identities (`nhi*.py`) | applications, owners, reviews, notifications | sync, switch, register, own, review, notify | provider, workflows, leaver |
| Portal authentication, settings, agent, audit, reports, catalogue, branding, front end | see `PROJECT.json` | mostly single-row edits and queries | - |

What makes each correct is what its properties say (section 3), and where it is hard is
`PROJECT.json` "hazards": each with its line, the properties that would catch it, and what
they leave open. In short: reads that are stale when they are used, two handlers on one row,
a directory that refuses or whose answer is lost, a process that stops between two commits,
batches that fail half-way, and rules that are edited while they are being applied.

## 2. Modules

| Module | Models |
|---|---|
| `AccessPromise` | abstract: access appears only for targets that were decided on |
| `Assignments` | the engine, its workers, mappings' cascades, the sync, SoD checks, providers |
| `Workflow` | one workflow instance over one pending assignment |
| `AccessReviews` | chains of campaigns over a set of grants |
| `Leaver` | one person's way out (and back), their accounts and what they hold |
| `Directories` | what `create_user`, `set_user_enabled` and `delete_user` of the three providers do |
| `Joiner` | one person's way in, on top of `Directories` |
| `PrivilegedAccounts` | a person's requests for privileged and test accounts, beside the sync and the leaver process, on top of `Directories` |
| `Birthright` | birthright policies, one dynamic group and scheduled moves of one person |
| `Bundles` | packages and business roles, and the batches of rows made from them |
| `SodGovernance` | policies, exceptions, requests, the sweep of lapsed ones, notifications |
| `Nhi` | non-human identities, ownership reviews, notifications of risks |
| `Intake` | HR syncs and uploads beside the directory's sync |
| `AssignmentsProofs`, `LeaverProofs`, `WorkflowProofs`, `AccessReviewsProofs`, `BundlesProofs`, `BirthrightProofs` | theorems about the module they name |
| `SodGovernanceProofs` | theorems about `SodGovernance`, and about `Nhi`, the other module whose notifications come and go with what a page finds, through `MCNhi` |
| `JoinerProofs` | theorems about `Joiner` and `PrivilegedAccounts`, through `MCJoiner`, which has both, and about `Intake`, the other way in, through `MCIntake` |
| `MC...` | the instance of a module for TLC; `MCAssignmentsWide` puts three instances of `Assignments` into one run |

How they fit. `Assignments` implements `AccessPromise` (`Promise == INSTANCE AccessPromise
WITH access <- real`), `Joiner` and `PrivilegedAccounts` extend
`Directories`. The others meet at rows of
`access_assignments`, and use the engine through what it promises: `revoke_assignment` is one
step that has already happened, works or is refused (`RevokeGrant`, `RevokeRefused`,
`TakeAway`, `RevokeOne`, `EndLapsed`), `create_assignment` one that works or is blocked
(`GrantOne`, `GiveItem`, `Grant`), and what the engine does on its own account is a move seen
from outside (`SettleElsewhere`, `EngineMoves`, `AdvanceRow`, `RowSteps`). They are separate
state spaces on purpose: their product would hide each component's own interleavings behind
bounds of one.

Definitions whose comment starts with "Mutant:" are deliberate errors, each the form of a
mapped definition in which one property must fail; no specification uses them.

### 2.1 Assignments

State: `rows` (the `AccessAssignment` rows of one person: persons never share a row),
`real` (what the provider grants), `members` (the local `UserGroup` rows), `clock`,
`op[p]` (the handler of process `p` in flight), `faults`, and two history variables,
`approved` (rows that somebody approved) and `sanctioned` (targets that somebody with the
authority, or an active mapping, decided on).

A handler is a record that moves through phases; between two steps any other handler may
run. Its reads, checks and the building of its write happen in the first step (they come
before the first provider call in the code); then come the provider call, the commit, and
the cascade.

| Code | Actions |
|---|---|
| `create_assignment` | `CreateAssignment`, (`Oust`, `Replace`, `GrantAccess`), `Commit` |
| `activate_assignment` | `ActivateAssignment`, (`Oust`, `Replace`), `GrantAccess`, `Commit`, cascade |
| `deactivate_assignment`, `revoke_assignment` | `DeactivateAssignment` / `RevokeAssignment`, `RemoveAccess`, `Commit`, cascade |
| `approve_assignment`, `reject_assignment`, a workflow's outcome | `DecideAssignment`, `Commit` |
| `_supersede_existing_assignment` | `EnterGrant`, `Oust`, `Replace` |
| cascades of `group_role_mapping.py` | `EvaluateMapping`, `ListLinked`, `NextLinked`, `FinishLinked` |
| `expire_due_assignments`, `expire_due_eligibility` | `ExpireDue`, `LapseEligibility` |
| `activate_due_assignments` | `StartScheduled` |
| `run_sync` | `FetchDirectory`, `ApplySync`, cascade |
| provider refuses / answers too late / process dies / directory edited by hand | `CallRefused`, `ReplyLost`, `Crash`, `DirectoryChanges` |

`Flush` is SQLAlchemy's unit of work: a column is written when it differs from what the
session read. A flushed but uncommitted new row becomes durable with the supersede's own
commit (`Replace`), as in the code. A row met twice by one session is one object, so a
caller's listing sees the session's own write (`Dropped`).

Abstractions. Start times that are not in the future are stored as 0: the code only asks
whether the start has come. The activation cooldown has its default (off). Who may approve
is "some authorised decider"; who may activate and deactivate (owner, Admin, Admin with
override) is modelled. Creating the missing provider account is part of the grant call.
The sync's writes and its commit are one step; the failed listing of a single group is not
modelled. Mappings do not change, and mappings that grant business roles are left out.
A request that the workflow approves at creation is a creation and an approval.

### 2.2 Workflow

State: `definition` (the administrator's stage list, editable at any moment), `instance`,
`stages`, `votes`, `subject` (the assignment's status and who settled it), `op[u]` (one
request per user), `edits`. `decide_stage` is three steps: `ReadStage` (status,
authorisation, no earlier vote), `CountVotes` (flush the vote, count the committed ones,
compute the outcome from the current definition), `CommitDecision`.
`cancel_workflow_instance` is `ReadCancel` and `CommitCancel`. A stage's condition is the
Boolean `applies`; a deadline may pass at any moment once the stage has a fallback
approver. A crash before the commit leaves no trace. `CHECK_DEADLOCK FALSE`: an instance
really ends, and nothing happens afterwards. Attribute changes and requests without a
subject are not modelled.

### 2.3 AccessReviews

State: `campaigns`, `items[c][g]` (the decision), `instances` (items whose workflow instance
is still pending), `grants` (statuses of the assignments), `op[p]`, `clock`, `edits`,
`faults`. A request or one poll of the worker is a session that keeps its own copy of the
campaign (`open`, `freq`) and the changes it has not committed yet (`writes`). The central
fact is that `revoke_assignment` commits *the caller's session*, also when it fails: so
`RevokeGrant` and `RevokeRefused` flush `writes`.

| Code | Actions |
|---|---|
| `create_campaign`, `update_campaign` | `CreateCampaign`, `UpdateCampaign` (one commit each) |
| `decide_item` | `DecideItem`, `RevokeGrant` / `RevokeRefused`, `Record`, `CountLast` / `CountMore` |
| `_apply_access_review_item_outcome` | `EndInstance`, `RevokeGrant` / `RevokeRefused`, `CountLast` / `CountMore` |
| `complete_campaign` | `CompleteCampaign` or `NextOverdue`, `NextItem`..., `CloseCampaign` / `AlreadyClosed` |
| `_maybe_spawn_recurrence` | `Spawn` / `SpawnFails` (always for a routed campaign, `Refused`), `Link` |
| `sweep_scheduled_campaigns` | `ListHolders`, `SkipSlot`, `StartNext`, `MoveSchedule`, `FailToStart`, `PollRaises` |
| `access_review_worker_loop` | `StartPoll`, ..., `OtherSweeps`, `EndPoll` |

Abstractions. A campaign's scope is all live grants. A routed item's workflow has a single
remaining decision (`Workflow` models the stages), or skips its stages for that item and
approves it at creation (`Snapshot`). Who may decide is left out. Dates are a
small clock: a deadline or a slot lies one unit ahead. A new campaign takes a free row as long as
there are fewer than `MaxCampaigns` (`RowLeft`); when none is left a spawn fails, as it does when a
target was deleted. `chain` is a history variable:
the campaign a recurrence or schedule began with.

### 2.4 Leaver

State: `user` (the person's row: status, whether `leaver_processed_at` and
`accounts_deleted_at` are set, the leaver date and `accounts_delete_at` as none, ahead or
due), `account` (status of each `IdentityAccount` and of each linked privileged account),
`dir` (what the directories say), `held` (grants, group memberships, ownerships),
`requests` and `returns` (`LeaverRequest`, `ReenableRequest`), `op[p]`. A handler keeps the
copies of the rows that its session has read: `Load` keeps the first copy (the identity
map; `expire_on_commit` is off), `Flush` writes the columns that differ from it. `by` is a
history variable: who switched each account last.

| Code | Actions |
|---|---|
| `set_account_enabled` | `CallDirectory` / `CallFails`, `SwitchCommit` |
| `set_person_enabled`, the `accounts` endpoints | `SetOne`, `SetAll`, then the above per account, `FinishSetting` |
| `run_leaver` | `TakeAway`..., `DisableLinked`, `DisableAccounts`, the above per account, `FinishLeaving` |
| its callers | `SweepLeavers`, `ApproveLeaver`, `ApplyUsers` (after `FetchUsers`), `TerminateByCsv` |
| `start_leaver_request`, `decide_leaver_request` | `StartLeaver`, `FinishStart`; `ApproveLeaver` or `DenyLeaver`, `RecordDecision` |
| `create_request`, `decide` (a return) | `RequestReturn`; `ApproveReturn`, `FinishReturn` or `RejectReturn` |
| `update_person_lifecycle` | `SetLeaverDate` |
| `sweep_account_deletions` | `SweepDeletions`, `DeleteAccount`..., `CommitDeletions`, `MarkDeleted` |
| directory edited by hand / access given again / process dies | `DirectoryChanges`, `GivenAgain`, `Crash` |

Abstractions. What a person holds is three sets; taking one away is one step that works or
is refused (`Assignments` models the revocation itself), in any order. The policy in force
is any of `Policies`. Who may decide is left out. A call whose answer is lost has had its
effect. Rows of requests are created in one step with their check, except a leaver
request, which is written long after it (`StartLeaver`, `FinishStart`).
`CHECK_DEADLOCK FALSE` in the run: once a person is DELETED and the edits are used
up nothing is left to do.

### 2.5 Directories, Joiner and PrivilegedAccounts

`Directories` has the calls of the three providers that make, switch and delete an account, by
what they do to one account and what they answer: Active Directory switches a new account
off in a second call, Okta's activation differs from its creation, deletion is "not found" the
second time for two of the three. `Answers` are done, refused and lost; a lost answer has had
its effect.

`Joiner`, state: `joiner` (the request's row with its targets), `account` (the truth), `rows`
(the `IdentityAccount` rows), `people`, `active` and `granted` (User rows), `on` (which
directories take joiners), `settings`, `clock`, `op[p]`. A handler has its session's copy of
the row, and a commit writes the columns in which it differs from what was read.

| Code | Actions |
|---|---|
| `create_joiner` | `CreateJoiner`, `CallCreate` per directory, `FinishCreate` or `RefuseJoiner`, or only `Deferred` |
| `sweep_pending_provisioning`, `sweep_joiners`, `sweep_failed_joiner_targets` | `ProvisionDue`, `ActivateDue`, `RetryDue` |
| `activate_joiner` | `CallEnable` per account, `FinishEnable`, `GrantBirthright` |
| `retry_joiner`, `cancel_joiner` | `RetryJoiner`; `CancelJoiner`, `CallDelete`..., `FinishCancel` |
| directory switched for joiners / day passes / process dies | `SetTargetEnabled`, `Tick`, `Crash` |

Abstractions: one joiner; a User row is named by the directory whose account made it; time in
days; the manager, which is only copied, is left out.

`PrivilegedAccounts`, state: `policy` (types that name an approver), `request` (the
`PrivilegedAccountRequest` rows), `account` (the truth), `row` (the User rows: whether linked,
and their status), `left` (the person's leaver process), `op[p]`, and the history variables
`agreed` and `since`. The calls are those of `Directories`.

| Code | Actions |
|---|---|
| `update_policy`, `create_request` | `UpdatePolicy`, `CreateRequest` (with no approver followed by `CallCreate`) |
| `approve_request`, `reject_request` | `ApproveRequest`; `StartReject`, `RejectRequest` |
| `_provision_and_finalize` | `CallCreate`, `Save` |
| `set_account_enabled` | `SetAccountEnabled`, `CallSwitch`, `Record` |
| `disable_linked_accounts_for_leaver` in `run_leaver` | `StartLeaving`, `CallDisable`, `NoteDisabled`, `FinishLeaving` |
| `run_sync` / process dies | `SyncRead`, `SyncSave` / `Crash` |

Abstractions: one person and one primary directory of any type; a policy that was never edited
names no approver; who may decide is left out; a person who is leaving makes no new request
(they cannot sign in). Accounts that an administrator makes linked to nobody, and deletions
(`Leaver`), are left out.

### 2.6 Birthright

State: `user` (department and status), `policy`, `tagged` (policies some row refers to),
`package` and `role` (bundles a policy may give), `rows` (live rows of the person with their
source), `access` (what the directory grants), `dyn` (the dynamic group, its real group and
mode), `moves`, `clock`, `op`, `edits`, `faults` and the history variable `stale` (what an
interrupted handler left unreconciled).

| Code | Actions |
|---|---|
| `apply_user_attribute_change`, `upsert_user` | `EditDepartment`, `SyncPerson` |
| `create_`, `update_`, `delete_birthright_policy...` | `CreatePolicy`, `UpdatePolicy`, `DeletePolicy` |
| `reconcile_birthright_policies_for_user` | `Reconcile`, `RevokeOne`, `RevokedAll` |
| `evaluate_birthright_policies` | `Evaluate`, `Plan`, `LookUp`, `GrantOne`, `GrantedAll` |
| `dynamic_groups.py` | `CreateDynamicGroup`, `UpdateDynamicGroup`, `SetSyncMode`, `DeleteDynamicGroup`, `EnsureGroup`, `Join`, `Expel`, `Promote`, `Demote`, `Membership` |
| `schedule_move`, `cancel_move`, `apply_move`, `sweep_pending_moves` | `ScheduleMove`, `CancelMove`, `ApplyMove`, `SettleMove` |
| the engine, bundles edited meanwhile | `AssignByHand`, `Activate`, `Revoke`, `EditBundles` |

Abstractions: a condition is an equality or its negation (every operator divides the
departments in two); one person and one directory; previews, the leftover review and the
mover event, which record and decide nothing, are left out.

### 2.7 Bundles

State: `bundle[b]` (status, items, owners, principals, who approves), `rows` (assignments made
from bundles), `op`. One handler per administrator; a batch is one `GiveItem` per item and
member, for a package followed by `LinkItem`.

| Code | Actions |
|---|---|
| `create_package`, `update_package`, `set_package_eligibility` | `CreatePackage`, `UpdatePackage`, `SetPackageEligibility` (one commit each) |
| `create_business_role`, `update_business_role` | `CreateBusinessRole`, `UpdateBusinessRole`, then `SaveRole` |
| `owner_remove_item` of both | `OwnerRemoveItem`, `RemoveItem` |
| `delete_package`, `delete_business_role` | `DeleteBundle`, `DropBundle` |
| `assign_package`, `assign_business_role`, `request_package` | `Assign`, `RequestPackage`, `GiveItem`, `LinkItem`, `GivenAll` |

### 2.8 SodGovernance

State: `policy`, `rows` (the person's assignments in the order of creation), `direct` (targets
held outside AccessPilot), `recent` (within the cooldown), `exceptions`, `requests`, `notes`
(unresolved notifications), `settings`, `op`. A target is a resource tuple, to which packages
and roles on a side are expanded.

| Code | Actions |
|---|---|
| policies, settings | `CreatePolicy`, `UpdatePolicy`, `DeletePolicy`, `UpdateSettings` |
| `create_sod_exception`, `create_`, `deny_sod_exception_request` | `CreateException`, `CreateRequest`, `DenyRequest` |
| `grant_sod_exception_request` | `StartGrant`, `Grant`, `Link` |
| `revoke_sod_exception` | `RevokeException`, `EndRevoked` |
| `revoke_lapsed_sod_exceptions` | `Poll`, `SweepOne`, `SweptAll` |
| `reconcile_sod_notifications` and the page that calls it | `LookAt`, (`Read`, `Tell`) per topic, `Told` |
| the engine, the directory, time | `AssignByHand`, `AdvanceRow`, `ChangeDirect`, `CooldownPasses`, `Elapse` |

### 2.9 Nhi

State: `there` and `row` (an identity at the provider and in `applications`), `owners`,
`accepted` risks, `settings`, `notes`, `campaigns` with their items, `op`.

| Code | Actions |
|---|---|
| `run_sync`, `refresh_application_from_provider` | `SyncRead`, `SyncSave`; `RefreshRead`, `RefreshSave` |
| `_set_enabled`, `register_new_identity` | `SetEnabled`, `SaveEnabled`; `Register`, `SaveRegistered` |
| owners, accepted risks, settings | `AssignOwner`, `RemoveOwner`, `AcceptRisk`, `AcceptanceEnds`, `UpdateSettings` |
| `create_campaign`, `decide_item`, a workflow's outcome | `CreateCampaign`; `Decide`, `DecideRemove`, `DecideSave`, `CloseIfDone`, `Spawn`, `Link`; `Judge`, `JudgeSave` |
| `_remove_nhi_ownerships` of a leaver | `Leave`, `ResolveItems`, `DropOwner` |
| `reconcile_nhi_notifications` | `LookAt`, `Read`, `Tell`, `Told` |

Deletions at the provider are not modelled: the sync never removes rows of applications. Neither is
a review whose workflow skips all its stages and so approves every item at creation.
`MCNhi` gives its variables names of its own, so that one module can prove about both.

### 2.10 Intake

State: `feed` (rows of the HR application), `account`, `rejects`, `second` (the provider's side),
`person` (identities), `stray` (a row of the same account without employee id), `access`
(departments whose birthright access a person has), `uploads`, `op`.

| Code | Actions |
|---|---|
| `upload_csv`, `commit_import` | `Upload`, `CommitUpload`, then per row `Skip`, `Disable` and `Leave`, or `Provision`, `Save`, `GiveAccess`; `Finish` |
| `run_hr_sync`, `sweep_hr_sync` | `Poll`, then the same |
| `run_sync` of the directory | `SyncDirectory` |
| `sweep_missing_secondary_accounts` | `SweepSecond` |
| HR, the administrators of the provider, process dies | `HrEdits`, `AccountByHand`, `DomainVerified`, `Crash` |

Abstractions: attributes are one department; future effective dates are in `Birthright`, leaver
dates in `Leaver`; file syntax, settings, trigger tokens and the report back are left out. A
creation refused for the moment, one whose answer is lost and a conflict whose lookup finds nothing
all leave the import without an account (`Provision`); they differ in what the provider has.
`second` and `SweepSecond` are there because saving a row also makes the second account; no
property is about it, since a sweep tries again whatever is missing.

## 3. Runs

Eleven runs must pass, one must find a violation. An `MC` module has a variable `width` (or
`subject`) that is fixed in the initial state, so that one run answers two questions. Width 1
is one handler, sweep or request at a time, which is how the code reads and where its guards
are meant to be enough; properties named `Alone...` are stated there (most of them fail with
two, which section 5 lists). Width 2 is two in flight, interleaved at every await; a hazard
that needs three concurrent handlers on one row needs two of them to disagree first. `Races`,
`Calls`, `Sync1` are instances of the same module with other constants.

| Run | Instance | Shows |
|---|---|---|
| `assign` | *races*: 2 rows, 2 requests and the workers, 2 in flight, all four faults; *calls*: 3 targets (a mapped group, an application role, its SoD counterpart), 5 kinds of body, a refused call or failed SoD read; *sync*: 3 rows, the group also edited in the directory | `ApprovalRespected` and `PromiseKept` everywhere, `ReconcilesSync` in *sync* |
| `assign_sweeps` | one handler at a time; 2 rows: an approved timed group membership, a scheduled application role that is also changed in the directory, a timed bypass grant of its SoD counterpart; one fault of any kind, fairness | `SodExclusion`, `NoOrphanAccess`, `ExpiredAccessRemoved`, `ScheduledAccessStarts` |
| `workflow` | 3 users; width 1: 3 definitions with skipped stages and a fallback approver, 2 edits; width 2: 2 definitions, 1 edit | `QuorumRespected`; alone `StagesAgree`, `NoStuckStage`, `SubjectFollows` |
| `reviews` | 2 grants; width 1: 3 campaigns of a chain (recurring, decided by reviewers or a workflow, or scheduled), an edit, a refused revocation or deleted target, fairness; width 2: 2 campaigns, a crash, grants that end meanwhile | `ClosedMeansDecided`, `RevocationsReal` without refusals; alone `NeverTwoOpen`, `RecurrenceContinues`, `OverdueCloses` |
| `leaver` | 2 directories, a grant; width 1: every operation, a refused call, fairness; width 2: worker, sync, requests and deletion with any one fault | `LockedOut`, `DeletedIsGone`; alone `OnlyLeaversLose`, `OnlyLeftAreDeleted`, `LeaverRuns`, `DeletionCompletes` |
| `joiner` | *joiner*: a joiner in Entra and Active Directory; *privileged*: two requests, a privileged and a test account (one type at width 2) in one of the two directories; 2 faults or edits each (1 at width 2) | `JoinerStarts`, `MadeAsAgreed`; alone `AccountsMatch`, `CancelledStaysOff`, `OnePerson`, `RetriesConverge`, `OneRequestEach`, `NoneSurvive` |
| `birthright` | 2 overlapping policies (one also gives a package), a dynamic group, 3 edits, moves or faults (2 at width 2) | `MovesSettle`; alone `Reconciled`, `AccessBacked`, `OneGrant`, and every applied move is reconciled |
| `bundles` | a package, 2 roles, 2 entitlements (one of high risk, one of an application), 4 edits or faults (3 at width 2) | `HighRiskRouted`, `MappedOnce`; alone packages keep items and nothing comes from a deleted one |
| `sod` | 2 policies over 2 targets, 2 requests, exceptions and rows, 3 edits or faults | `LapseEndsItsOwn`, `LapsedEnds`; alone `GrantsTraceable`, `Noted` |
| `nhi` | 2 identities, 1 owner; risks at width 1 and 2, reviews at width 1, 4 edits or faults (3 at width 2) | `RowsCatchUp`; alone `CampaignsClose`, `OneSuccessor`, `Noted`, `LeaverNotAsked` |
| `intake` | 2 people, 2 departments, an upload, 3 edits or faults (2 at width 2) | `HrIsApplied`, `LeaversLose`; alone `AccessFollows` |
| `break_intake` | 1 person, one import at a time, 4 edits | `TerminatedDisables` violated, finding 1 |

Bounds. Two rows are enough for a row and the one it supersedes, or a group's row and a
mapped one; three for both with an SoD counterpart. The clock takes one step: before and
after a start, an expiry, a deadline or a slot. One fault per execution is enough to cut
each handler at each await; what follows it is unbounded, except that edits and faults share
one bound where a module has many kinds of both. Two grants give a campaign an
item that is decided and one that is not; three campaigns give a closed one, its successor
and the one after it. Two directories let one refuse while the other has already
answered. Two policies overlap, two roles want one entitlement, a package of two items has a
last one. At width 1 nothing else happens while a handler of `Birthright`, `Bundles`,
`SodGovernance`, `Nhi` or `Intake` runs: that is what "one at a time" means. Every bound is a constant named in the guard it bounds (`MaxEdits`,
`MaxRows`, `MaxClock`, `MaxInFlight`, `FaultLimit`, ...) or a conjunct of `WideNext`
(`ImportsNext` and `NhiNext` in the modules that have names of their own). Symmetry
is used for rows, requests, roles and administrators where only safety is checked.
`CHECK_DEADLOCK FALSE` where the edits may be used up with nothing left to do: an ended
instance, a deleted person, a settled identity. Each MC property that names a type invariant
checks it along with the rest.

Fairness. Each worker is `while True` with a sleep of 60 s, every exception caught
(`workers/*.py`), and the container is restarted unless stopped (`docker-compose.yml:33`),
so a sweep that stays possible is taken. The assumption on a sweep's *start* is strong
fairness where the bound on handlers in flight disables it now and then, when a request is
under way; steps of a handler that has started are weakly fair. Requests are never obliged to
arrive, provider calls may fail up to their bound, and no fairness is assumed of
them, of edits, of faults or of the clock. `HrIsApplied` and `LeaversLose` speak of people
whose row no unique or foreign key blocks for good (`Unblocked`; section 5).

Mutants. Each property of a passing run has a mutant: the form a plausible slip would give
to a mapped definition, under which the property fails in the same run.

## 4. Proofs

`AssignmentsProofs` proves, for any sets of rows, targets, groups, mappings, policies, bodies
and requests, any number of handlers in flight and any faults (assumption: only
`ConstantsAssumption`, the shape of the constants):

- `TypeCorrect`: `Spec => []TypeOK`.
- `ApprovalsRespected`: `Spec => []ApprovalRespected`. A row that asked for an approval is
  usable only if somebody approved it.
- `AccessSanctioned`: `Spec => []NoUnsanctionedAccess`. Nothing is granted that nobody
  decided on.
- `Refinement`: `Spec => PromiseKept`. The engine implements `AccessPromise`.
- `Inductive`: `Spec => []IndInv`, on which the others rest.

Why an inductive invariant is needed: `ApprovalRespected` speaks of `rows` only, and a
handler's `Commit` writes a status computed from a copy read many steps ago. What makes the
blind write harmless is a fact about every *handler in flight* (`CallSound`): its copy and
its write name the same target and the same approval flag as the row still has, and the
copy was itself cleared when read (`Cleared`; clearance is never withdrawn, for `approved`
and `sanctioned` only grow). Cascades keep copies for later, so the same is said of every
entry of a `queue` (`QueueSound`). A creation has no row yet: `NewRowsApart` says that no
two handlers in flight create the same row, so the first commit does not meet a stranger.
`IndInv` is the conjunction, with the type invariant. The
proof has one lemma per action; `Commit` and `NextLinked` carry the weight.

Two more hold with one handler in flight, and are false with two (section 5); the hypothesis is
`MaxInFlight <= 1`, everything else stays arbitrary:

- `SodExcluded`: `Spec => []SodExclusion`. The two sides of an SoD policy are ACTIVE together
  only with an override on record.
- `NoOrphans`: `Spec => []NoOrphanAccess`. Settled access that came through the engine has an
  ACTIVE row.

Both rest on `AloneInv`: what the handler read is still so when it commits, what it is about to
make ACTIVE was checked against the rows as they still are, and every granted access is backed by
an ACTIVE row or is the one the handler's own call has just made or is about to take away, until
an answer was lost or a crash fell between a call and its commit (`Reliable`).

`LeaverProofs` proves, for any accounts, holdings, requests, policies and number of handlers
in flight, any edits and any faults (assumption: only `ConstantsAssumption` of `Leaver`):

- `TypeCorrect`: `Spec => []TypeOK`.
- `DeletedTrusted`: `Spec => []DeletedIsGone`. A person labelled DELETED has no account left
  in any directory.
- `Inductive`: `Spec => []DeletionInv`, on which both rest.
- `NobodyKeepsAccess`: `Spec => []LockedOut`, provided no handler of AccessPilot that enables
  accounts runs beside the leaver process (`NobodyEnables`: one handler in flight, or any number
  without switching, denials and returns). What a person who has left was to lose is off and gone,
  except where a call failed or the directory's own administrators switched it on.
- `OnlyLeaversAlways`: `WideSpec => AloneOnlyLeaversLose`, the two action properties
  `OnlyLeaversLose` and `OnlyLeftAreDeleted`, provided handlers run one at a time (`OneByOne`)
  and no answer is lost and no process dies (`AnswersArrive`); any number of refused calls,
  of changes in the directory, requests and returns. These are the conditions of the run at
  width 1; section 5 shows what happens without them.

`DeletedIsGone` speaks of the person's row and the directories. What lies between them is
the list of accounts a sweep skips because its rows already say DELETED, and what its own
calls have done since: `RowsTrue` and `CopiesTrue` say that no row, and no session's copy of
one, says DELETED of an account that is still there (other handlers write rows from old
copies all the time), `HowFar` that a deletion in flight has each account deleted, failed or
still to do. `Orderly` ties a handler's step to its request. The frame is the same for
every action (`Kept`: no directory brings back a deleted account, no request vanishes), so
the proof has two general lemmas, for a handler that moves on (`Moves`) and for handlers
that end (`Stops`), and one lemma per action.

`LockedOut` is about the moment the departure is recorded, long after each account was dealt with.
`LockInv` says of every handler in flight (`Firm`) that what the process is done with is gone, off
or noted as failed, or was switched on in the directory (`TakenAway`, `LinkedOff`, `AccountsOff`);
that linked rows marked DISABLED are off (`LinkedTrue`); and that a handler which enables accounts
has no other beside it (`Serial`). Without `NobodyEnables` TLC refutes it (section 5).

The two action properties read the User row where they mean the directory. Between handlers the
two agree: whoever is recorded active but is off was switched off in the directory (`OffByWhom`),
whoever is recorded disabled but is on was not switched on by AccessPilot (`OnByWhom`). In a
handler they part company, from a call to its commit and from the CSV import's first write to the
end of the process; `Told` says what the handler then holds (its copy of the status is the
row's, an account it has called about is as it left it, a deletion in flight is a leaver's).
`TellInv`, with `DeletionInv` and `LockInv`, is inductive; a lost answer, a crash or a second
handler breaks it, which is how the deviations of section 5 come about.

`WorkflowProofs` proves, for any users, definitions, edits and number of requests in flight
(assumption: only `ConstantsAssumption` of `Workflow`):

- `TypeCorrect`: `Spec => []TypeOK`.
- `DecisionsCarried`: `Spec => []QuorumRespected`. A stage that ended has the votes its mode
  asks for, each of somebody entitled to it.
- `OneStageOpen` and `SubjectSettled`: `WideSpec => []AloneStagesAgree`, `WideSpec =>
  []AloneSubjectFollows`, under `MaxInFlight <= 1`, the run's value at width 1 (both are false
  with two requests, section 5).
- `Inductive` and `AloneInductive`, on which they rest.

A request reads a stage and its votes, awaits, and commits an outcome computed from what it
read; meanwhile others vote and escalate. It is harmless because what was read only grows:
stages keep their mode and approvers, votes and escalated approvers are added and never
withdrawn (`Extends`), so a quorum that was there when it was counted is there when it is
written. `Sound` says this of each request; lemmas `NewStagesType` and `AdvancedEnters` say what
the loop over skipped stages leaves behind, `Least` (from well-founded induction) that the first
stage not skipped exists. Alone, the stage a request decides or cancels at is the open one when
it commits (`Current`), so the commit closes it and enters at most one other (`Closing`,
`Approving`). The assignment is the part an Admin may change meanwhile: what was read of it is
stale only as unsettled (`Believed`), and the commit then overwrites it whole (`SettlesRight`).

`AccessReviewsProofs` proves, for any grants, campaigns, bodies, edits and faults (assumption:
only `ConstantsAssumption` of `AccessReviews`, unless said otherwise):

- `TypeCorrect`: `Spec => []TypeOK`.
- `ClosedDecided`: `Spec => []ClosedMeansDecided`. A campaign that is closed has no undecided
  item.
- `Inductive`: `Spec => []ClosedInv`, on which both rest.
- `RevocationsAlways`: `WideSpec => []UnrefusedRevocationsReal`. As long as the provider refuses
  nothing, an item recorded as revoked is one whose access is gone, at either width of the run.
- `RecursAlways`: `WideSpec => []AloneRecurs`. At width 1 no chain has two campaigns open, and a
  closed recurring one that reviewers decide has exactly one successor until something fails; one
  that a workflow decides has none. The hypothesis `Serial`
  (`MaxInFlight <= 1`, no crash) is the run's own at width 1: with two sessions, or a crash between
  `StartNext` and `MoveSchedule`, a chain may have two campaigns open (TLC finds both).

A campaign is closed by a commit whose session counted the undecided items before, and which
may have been cut by refusals and crashes. `ClosedInv` says of every session (`Sound`) that
an undecided item of the campaign it closes is on its list, in its uncommitted writes, or the
one it is revoking, and (`Coherent`) that a routed item waits for an instance exactly as long
as it is undecided. The frame is `Keeps`: no step makes a decided item undecided. Lemmas
`Moves`, `Aside`, `Plans`, `Commits`, `Begins` and `Stamps` are the shapes of a step; each
action is one of them. The two widths differ only in bounds, so the lemmas are about `AnyNext`,
which has none; `NextIsAny` and `RacesIsAny` say that both take its steps.

A verdict is set on an item before or after the call that makes it true, and may wait in a
session through several commits of others. `Backed` says that a session's unwritten `REVOKED` is
of a grant that is revoked, or of the one it is about to revoke (and then a refusal, and only a
refusal, can write it down untrue). `RealInv` adds the same of the items written, and that a grant
once made stays made and a revoked one revoked (`Later`).

For the recurrence, `AloneReviews` says of the one session that what it read of the campaigns is
still so (`Aware`), and of the campaigns that a chain has one that may still be followed (`Alive`,
`Sole`): a schedule being handed over is the exception (`Givers`). A closed recurring campaign
that reviewers decide has its one heir, but for the one the session is about to spawn and link
(`Passed`, `Waiting`). A campaign with a successor is one that no workflow decided (`Followed`). A
campaign comes to be, is restamped, closed or linked (`Grown`, `Restamped`, `Closing`, `Linked`):
one lemma each says what becomes of this, and each action is one of the four or none.

`BundlesProofs` proves, for any bundles, items, people and administrators (assumption: only
`BundlesAssumption`):

- `TypeCorrect` and `RoutedAlways`: `Spec => []HighRiskRouted`. No high-risk item is given
  from a bundle without the workflow that the rule asks for.
- `Inductive`: `RoutingInv`, on which both rest: a batch carries the items and the terms
  that were cleared together when it began, whatever is edited under it.
- `OneRoleEach` and `PackagesSound`: `PacedSpec => []MappedOnce`, `PacedSpec =>
  []AlonePackagesSound`. `PacedSpec` is the specification the run checks, without its bound on
  edits and faults and for any width. `AloneInductive` says that a batch alone still finds the
  bundle it looked up (`Current`), that an entitlement is mapped once (`Unique`), and that a row
  without a link is the one the batch is about to link (`Accounted`).

`SodGovernanceProofs` proves, for any policies, targets, requests, exceptions and handlers
(assumption: only `SodAssumption`):

- `TypeCorrect`: `Spec => []TypeOK`, which includes that references point to what is there.
- `LapsedEndTheirOwn`: `Spec => LapseEndsItsOwn`. The sweep ends the assignment the lapsed
  exception was granted for, or one that still violates the policy uncovered, whatever handlers
  interleave with it and wherever they crash.
- `GrantsFound`: `PacedSpec => []AloneGrantsTraceable`. With one handler at a time and no crash
  between the two commits of a grant, its request tells which assignment was made for it.
- `NotedAlways`: `PacedSpec => []AloneNoted`. With one handler at a time and Graph reached,
  whoever has looked at every topic finds one notification for each violated policy and none
  for another, and a violation with a lapsed exception and no live one pointed out.
- `Inductive`, `AloneInductive`, on which they rest.

What the sweep ends was written by two commits of another handler long before. It is the right
row because rows are appended and never renumbered, requests and exceptions keep their policy,
and an exception was granted to one request (`References`; the frame is `Grows`). A row has a
request of its own because only a PENDING request is granted (`Pending`, `Granted`, `OneEach`);
two handlers may both see it PENDING, so that part is for one at a time.

A look at notifications is a scan, then for each of three topics a read and a write. `NoteInv`
says what holds between them: the scan made is that of the violations there are, what is about
to be written is what is wanted now and what is open now (`Ready`), the topics behind are told
(`NewTold`, `LapsedTold`), and nothing is open twice (`OnceEach`), without which an open
notification would be counted up again. Only the handler's own steps can happen meanwhile
(`OwnStep`, `LooksStay`). A read that Graph fails misses violations and resolves what is still
true, so the invariant ends with the first.

`JoinerProofs` proves of the privileged accounts that `MCJoiner` has beside its joiners
(`Privileged == INSTANCE PrivilegedAccounts`), for any account types, requests and number of
handlers in flight, any edits and any faults, without an assumption:

- `PrivilegedTyped`: `Privileged!Spec => []Privileged!TypeOK`.
- `PrivilegedAgreed`: `Privileged!Spec => []Privileged!MadeAsAgreed`. There is no privileged
  account nobody agreed to, and what a request says was provisioned is linked to its person.
- `PrivilegedInductive`: `Privileged!Spec => []AgreedInv`, on which both rest.
- `PrivilegedAlways`: `WideSpec => []PrivilegedSound`, that is, the same at any width in the
  specification the run checks, and `OneRequestEach` and `NoneSurvive` at width 1
  (`PrivilegedAlone`).

A handler makes an account, or writes a row, on the strength of a request or row it read
before its calls. `Carries` says what it relies on, and the frame `Kept` that no step takes
it back: requests keep their type, linked rows stay linked (the sync stores over them without
unlinking), what was agreed to stays so. `Moves` and `Steps` carry that over to every handler;
`Stays` and `RowsHold` are the two kinds of step, besides the one that links (`SaveKeeps`).
Alone, what a handler read is so when it commits (`Fits`); an account, the request that made it
and its row agree (`PrivilegedStraight`) but for the one a handler has called about and not yet written
down (`Unsettled`), and whatever is on while a leaver process runs is on its list or came to be
on since (`Leaving`). `PrivilegedAlone` is their conjunction. Both end with the first lost answer or
stop (`Told`), as the properties do.

Of the joiners themselves, for any directories, requests, delays and faults (assumption: only
`ConstantsAssumption` of `Joiner`): `AccountsAlways` is `WideSpec => []AloneAccountsMatch`, that
is, `TypeOK` at any width, and `AccountsMatch`, `CancelledStaysOff` and `OnePerson` at width 1.
A handler calls one directory after the other and commits once, at the end of a phase; until
then only its copy of the row and its unwritten account rows know of the accounts it made.
`Flight` says that they do, in each phase, and what is still to be done; `Regular` what a row's
status says of its targets, on which the guards of the next handler rest; `JoinerInv` what holds
at any width (`Own`: a copy never knows less of its person than it read). `CallAlone`,
`CommitAlone`, `StartAlone` and `EndAlone` are the shapes of a step.

Of the imports (`MCIntake`, whose names are its own for that reason), for any people,
departments, uploads and imports in flight, any edits and faults, without an assumption:
`AccessFollowsAlone` is `ImportsSpec => []AloneAccessFollows`, that is, `TypeOK` at any width,
and `AccessFollows` at width 1 until the process dies in an import. An import writes from a file that was validated long
before, and gives a newcomer what the account it found says. `IntakeInv`, at any width, is what
makes these writes well-formed: a file has a row for whomever it applies to (`Filed`), and an
account that was found is still there when the person is saved, because accounts are switched
off and never disappear (`Founded`; the frame is `HeldOn`). `ImportAlone` says that between two
steps of an import only the person being dealt with may lack the access due to them
(`AllRight`): the commit has saved them and is about to give it, and unless they were found to
have moved, it only has to add (`GivesTo`); one about to lose everything is no longer active
(`LeftAlone`). A stop in between leaves it at that, and the next import compares with what was
saved, not with what was given, hence the condition.

`BirthrightProofs` proves, for any policies, rules, targets, rows, contents of bundles and
number of handlers, any edits and faults (assumption: only `ConstantsAssumption` of
`Birthright`):

- `BirthrightTyped`: `Spec => []TypeOK`, whatever interleaves.
- `ReconciledAlone` and `AccessBackedAlone`: `WideSpec => []AloneReconciled` and `WideSpec =>
  []AloneAccessBacked`. One handler at a time, access and the dynamic group follow the rules,
  and what the directory grants has its one row.
- `AppliedIsReconciledAlone`: `WideSpec => AloneAppliedIsReconciled`, the action property that
  a move is stamped APPLIED only when the person is in the new department and access follows.

Alone, nothing is edited under a handler (`Paced`, what `WideNext` adds at width 1), and
`AloneInv` follows it from phase to phase: what it has read is still so (`Reads`), the phases are
those of its kind (`Course`), and the work behind it is done (`Revoking`: each row a policy no
longer justifies is on the list of those to revoke; `Granting`: none is left, and each policy
that applies is granted or on the list of those to grant; `Following`: the person is in the
group as the rule says). Hence nothing is left to do when the handler ends. A refused call or a
stop is remembered (`failed`, `stale`), and excuses what it left. `RowsApart` says that a
policy's target and the group have one row each; that an ACTIVE row stands behind each access
(`Backed`) ends with the first refusal.

Of the non-human identities (`MCNhi`), for any identities, people and campaigns, any edits and
any faults (assumption: only `NhiAssumption`): three theorems about `PacedNhiSpec`, the
specification the run checks without its bounds, for any width. What they say, but for
`TypeOK`, is of width 1:

- `NhiReviewsAlone`: `PacedNhiSpec => []AloneReviewsGoOn`. `TypeOK` at any width; a campaign of
  which people have decided all items is closed, and a closed recurring one that no workflow
  decides has exactly one successor, until the process dies in a handler.
- `NhiRisksNotedAlone`: `PacedNhiSpec => []AloneRisksNoted`. Whoever has looked at every topic finds
  one open notification for each identity at risk and none for another.
- `NhiLeaversAlone`: `PacedNhiSpec => AloneLeaversLeaveNothing`, the action property that no owner
  is dropped in a leaver process while an open campaign still asks them.

`NhiInv` holds at any width: what a handler goes by is there, the campaign it decides in, the row
it saves (`Relies`), and no step takes it back (`Lasts`). `NhiAlone` says of the one handler
under way that it also goes by what is still so: in a look at the risks, the scan still holds, the
topics behind are told and nothing is open twice (`Heard`); a leaver's items are resolved before
the ownership goes (`Gone`); a campaign is active while an item of it is decided, it is closed
exactly when all are (`Settled`), and has its successor (`Followed`) but for the one
the handler is about to spawn and link (`Reviewing`). `Steady` is their conjunction. The reviews'
part ends with the first crash, the other two have no exception.

Only model-checked: all liveness, and of `Assignments` the reconciliation of the sync. Out of the
prover's reach are liveness under fairness, `ENABLED`, and induction over data (what a fold over a sequence
computes for every input); no module uses a RECURSIVE operator.

## 5. Findings

1. *Terminated, and active again* (`onboarding.py:148`). `_plan_row` plans NO_CHANGE for a
   TERMINATED row of somebody already DISABLED, and `commit_import` treats NO_CHANGE like an
   update and saves the person as ACTIVE: the second HR sync with the row activates them and
   grants birthright access, the third disables them. `App.tsx:6208` says such a row
   "disables the identity and automatically revokes any access it still holds".

### Other deviations

Each was found with a run that is no longer kept: an instance of the same module with more
handlers in flight, another fault, or the property without its condition.

Engine, workflows, reviews, leavers:

- `workflows.py:298`, *revocation on paper*: `_apply_access_review_item_outcome` sets the
  decision before it calls `revoke_assignment`, whose FAILURE commit (`assignments.py:576`)
  makes it durable when the provider refuses; the item reads as REVOKED, the access stays.
  `complete_campaign` (`access_reviews.py:538`) has the same outcome by ignoring the refusal.
  `RevocationsReal` therefore holds as long as nothing is refused.
- `access_reviews.py:457`, *a review that lapses*: `_maybe_spawn_recurrence` creates the next
  campaign as "system:access-review-recurrence", which is no user, and `create_campaign` (line
  231) refuses a campaign routed through a workflow when nobody is found to request its
  instances. A recurring review that a workflow decides never gets a successor, with no fault
  involved; its creator is told to make it by hand. Line 438 says the next one is made "so a
  periodic review never lapses just because nobody manually re-created it".
  `RecurrenceContinues` states what happens: one successor for a campaign that reviewers decide,
  none for one that a workflow decides.
- `access_reviews.py:683`, *a slot that stops the worker*: a schedule on a campaign routed
  through a workflow raises on every poll (`PollRaises`), outside the `try`; the slot never
  moves and the eight sweeps after it never run, though line 666 says a failed start
  "retries at the next slot".

- `assignments.py:573`, *orphaned access*: a revocation, deactivation, sweep or supersede
  decides on a status read before an await; an activation in flight ends with the access
  granted and no ACTIVE row behind it (`NoOrphanAccess` with two handlers in flight).
- `workflows.py:594`, *stuck stage*: the last two approvers of an ALL_OF stage vote at
  once, each counts only the votes its transaction sees, and the stage stays open for ever
  (`NoStuckStage` with two requests in flight).
- `leaver_followup.py:238`, *deletion that cannot be completed*: the directory deletes the
  account and the answer is lost, or the process stops before line 245. Every retry asks
  for an account that no longer exists, is refused (Entra and Okta answer "not found"; Active
  Directory would agree),
  and the person is never labelled DELETED; lines 201-202 say that a failed attempt is
  "retried on the next tick" (`DeletionCompletes` with `Faults = {"lost"}`).
- `lifecycle.py:361`: a listing fetched before, and applied after, AccessPilot's own
  disabling or enabling makes a later sync see ACTIVE -> DISABLED and run the whole leaver
  process; so does a disabling whose answer was lost. `OnlyLeaversLose` therefore holds
  only with handlers one at a time and answers that arrive.
- `lifecycle.py:474`: an administrator enables an account, or approves a return, beside the
  leaver process, which has not stamped the person yet; the account is on when the departure is
  recorded (`LockedOut` with two such handlers in flight).
- `leaver_followup.py:386`: the leaver date passes while a manual request waits and the
  process runs; denying the request then enables the accounts again without a re-enable
  approval, which `README.md:141` says is always required.
- `leaver_followup.py:164`: a return of one secondary account leaves `accounts_delete_at`
  in place; the account that was just enabled is deleted with the others.
- `lifecycle.py:513`: a disabling that failed is recorded with the event and never
  retried; if it was the primary account's, `guard_enable` lets the others be enabled.
- `leaver_followup.py:90`: `create_request` and `decide` do not ask whether a leaver
  request waits, so a return may be approved under it.
- `assignments.py:349`: a bypass creation whose grant fails after a supersede leaves an
  ACTIVE row without access (the supersede's commit made the flushed row durable); line 93
  says callers must not mark ACTIVE on failure.
- `assignments.py:487`: interleaved, `activate_assignment` writes ACTIVE over a row that
  has become REVOKED; final rows are final only with handlers one at a time.
- `assignments.py:216`: the supersede takes the first of several rows to the target, so two
  ACTIVE rows to one target may remain.
- `assignments.py:618`: two conflicting pending requests, approved in turn, are both
  ELIGIBLE without a check, which `sod.py:135` calls the state the engine exists to prevent
  (they cannot both be activated without an override).
- `sod.py:343`: two concurrent grants on the two sides of a policy both pass the check.
- `expiration.py:51`: a group's expiry does not cascade to the grants its mapping gave;
  they outlive it until the next sync that notices.
- `workflows.py:565`: interleaved, a vote lands on a stage that has been closed.
- `access_reviews.py:509`, `:541`, `:556`, `:699`: interleaved or cut off by a crash, a
  recurring campaign may get two successors or none, a schedule may start twice, and an
  automatic revocation may overwrite a reviewer's approval. The serial runs show that none
  of these happens with sessions one at a time.

Joiners:

- `joiner.py:411`: `retry_joiner` counts a PARTIAL joiner as started, and
  `sweep_pending_provisioning` makes a joiner PARTIAL before its start date when no directory
  could create an account: the retry then enables the accounts and grants the birthright
  access before the date, although line 398 says "If the start date has already passed".
- `joiner.py:130`: two overlapping retries of a joiner without a person make two User rows.
- `joiner.py:426`: `cancel_joiner` and the activation both read SCHEDULED; accounts may be on
  under a CANCELLED request.
- `joiner.py:130`: a creation whose answer was lost conflicts on every retry; in Active
  Directory an exception between creating and disabling leaves the object behind.
- `joiner.py:345`: a PARTIAL joiner with an account that could not be enabled and nothing
  FAILED is swept by nobody.
- `joiner.py:332`: a stop after the commit that makes the joiner ACTIVE loses the birthright
  evaluation.

Privileged accounts (`MadeAsAgreed` holds in all of these, `OneRequestEach` and `NoneSurvive` do
not):

- `privileged_accounts.py:135`: two who decide one request at once both read
  PENDING_APPROVAL; the later commit writes REJECTED over PROVISIONED, or the second creation
  conflicts and writes FAILED, although the account was made.
- `privileged_accounts.py:70`: the account is created and the answer, or the commit, is lost.
  It is enabled; the next sync stores it as a regular person linked to nobody, the retry
  conflicts and the request reads FAILED, and the leaver process does not see the account.
- `privileged_accounts.py:69`: an exception that is not a `GraphError`, or a stop, leaves a
  request that needs no approver in PENDING_APPROVAL, with nobody designated to decide it.
- `privileged_accounts.py:136`: nothing asks whether the requester has left. A request approved
  after, or while, the leaver process runs makes an enabled account it does not list; lines
  192-193 say such accounts "must never survive their departure unnoticed".

Birthright, dynamic groups, moves:

- `lifecycle.py:265`: a stop between the department's commit and the mover event loses the
  event and the leftover review; one in the middle of a reconciliation of an edit leaves the
  access stale, since the next edit compares with the row.
- `birthright.py`: overlapping evaluations grant twice; deleting a policy rechecks nobody, and
  any row it ever granted forbids deleting it (foreign key); an archived package is still
  granted.
- `dynamic_groups.py:168`: `_demote_to_eligible` does not look at the directory's answer; a
  refused grant rolls back also the link to the real group just created, whose name then
  conflicts on every retry, and so does a group deleted and created again.

Packages and business roles:

- `packages.py:110`: two owners who each remove one of two items empty a package.
- `business_roles.py:30`: two saves may map one group or directory role to two roles.
- `business_roles.py`: an update that read DRAFT or ACTIVE writes it back over ARCHIVED.
- `packages.py:317`: a stop between a row and its link lets a package be deleted whose access
  somebody holds.
- `business_roles.py:241`: a role of which only scheduled or ended rows are left cannot be deleted (foreign key),
  where the docstring says archive; likewise a package with owners or principals
  (`packages.py:267`).
- Birthright grants of a package skip the rule that high risk needs a workflow.

Separation of duties:

- `sod.py:607`: a grant whose assignment is blocked, or a stop before the link is saved,
  leaves a GRANTED request without link; the sweep then revokes *any* later assignment to its
  target, and the one after it, although lines 616-618 say "new grants never take this path
  at all".
- `sod.py:661`: a removal refused when an exception is revoked by hand is never tried again;
  the same after a stop.
- `sod.py`: the lapse of an exception ends its assignment even when another exception
  covers it; the cooldown does not look at expired assignments; two deciders grant twice;
  two reconciliations file a notification twice.

Non-human identities:

- `nhi_reviews.py:171`: a campaign whose last item a leaver's process resolves, or created
  with no item, or cut off before its close, stays ACTIVE for ever; two deciders at once both
  close it and both start the next; two outcomes of workflows may each miss the other.
- `nhi_reviews.py`: a recurring campaign routed to a workflow never recurs (nobody is found
  who asked for it); the next one begins at once, where `models.py` says "frequency_days
  after this one completes".
- `lifecycle.py:472`: a campaign created between the resolution of a leaver's items and the
  removal of the ownership asks about the leaver.
- `nhi.py:226`: a registration whose answer is lost leaves an identity without owner, which
  conflicts on retry. `nhi_notifications.py`: notifications of a type that is switched off are
  never resolved.

Import:

- `onboarding.py`: a duplicate employee id, or rows that refer to a duplicate, blocks the
  commit and every later HR sync; a stop between saving an identity and its reconciliation
  loses the move.
- `provisioning.py`: `provision_real_account` "never raises", but the lookup in its handler may;
  a second account whose creation was answered late conflicts for good.
- `hr_integration.py`: HR and the directory's sync overwrite each other's department on each
  turn, though `models.py:428` calls HR the "source of truth"; two tokens generated at once are
  both active.

## 6. Plan

Done: the modules of section 2. What is worth adding next, in order:

1. `Workflow` over attribute changes and review items (their outcomes in
   `_apply_subject_outcome`), several instances at once.
2. Portal sessions: lock-out, break-glass and first-run setup.
3. Editing of group mappings and lifecycle policies under the sweeps that read them.
4. A second person in `Assignments` and `Birthright` (the rows are disjoint today; shared
   are the bundles and the mappings).

Theorems: the reconciliation of `Assignments`.

## 7. Not modelled

Listed per component in `PROJECT.json` with the reason. In short: provider wire protocols,
token validation, the agent and the deployment are I/O; reports, dashboards, catalogue,
branding and audit are queries and single-row edits that decide nothing; the front end is
a client; portal authentication is in the plan.
