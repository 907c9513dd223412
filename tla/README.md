# AssetFlow verification project

AssetFlow is a multi-tenant API (Express 5, TypeScript) for the asset register of
an organization: assets, their custody and disposal, maintenance, approvals,
audits, depreciation, and the people who work with them. It keeps its state in
PostgreSQL through Drizzle ORM and a `node-pg` pool, at the default isolation
level, READ COMMITTED. Many requests run at once, in one process and in several;
a `node-cron` scheduler adds background jobs, directly or through a BullMQ queue.

Nearly everything that is hard in this code has one shape. A service function
reads rows, checks them, and then writes with statements that compare less than
was checked, or nothing; sometimes it writes in several statements or
transactions. Between any two of them another request may commit, or the request
may fail. The modules here model exactly that. All paths below are relative to
the repository's `src/`.

## 1. Inventory

For each component: its state; its operations; how it interacts; what is hard;
what makes it correct.

**Asset register** (`repositories/assets.ts`, `repositories/bulk.ts`,
`services/assets.ts`, `services/bulk.service.ts`). Rows of `assets` (status,
`deleted_at`, branch, holder), `asset_disposals`, `asset_lifecycle_events`,
`asset_transfers`. Create, update, transfer, status transition, dispose, restore,
delete, notes, and bulk deletion, transfer and status. Called by maintenance,
approvals, import and depreciation. Hard: reads and writes of one asset by
concurrent requests; bulk operations that filter on rows read before their
transaction. Correct: one disposal record per disposal, deleted assets frozen, a
timeline that says what happened.

**Maintenance** (`services/maintenance.ts`, `repositories/maintenance.ts`). Rows of
`maintenance_tasks`. Create, update, complete, each with a later
transaction of the register that sets the asset's status. Hard: the gap between
the two transactions, two tasks of one asset, row locks. Correct: an asset is in
maintenance when a task on it is in progress; a task is completed once; a retired
asset is left alone.

**Approvals** (`services/approvals.service.ts`, `repositories/approvals.ts`). Rows
of `approval_requests`. Request, approve, reject; the approved action is carried
out on the register after the decision committed. Hard: several approvers,
failures in between. Correct: one outcome, carried out at most once, not lost.

**Login sessions and tokens** (`services/auth.ts`, `services/auth-session.ts`,
`repositories/auth.ts`). `refresh_tokens`, password-reset codes, the users'
passwords. Login, refresh (rotation), logout, logout everywhere, change and reset
of the password. Hard: rotation racing revocation; what a failure leaves. Correct:
one live token per session; a change of password ends older sessions.

**Rate limiter** (`middlewares/rateLimit.ts`). An in-memory bucket per key. Hard:
boundaries of windows and the periodic sweep. Correct: no window lets more than
its limit through.

**Membership, invitations and roles** (`services/user.ts`,
`services/invitation.service.ts`, `repositories/users.ts`,
`repositories/invitations.ts`). `organization_users`, `user_roles`, invitation
tokens, `organizations.owner_user_id`. Invite, resend, cancel, accept, suspend,
reactivate, assign and replace roles, remove, transfer ownership. Hard: none of
these is a transaction. Correct: the organization belongs to a member; dead
invitation links stay dead; a removed member is signed out.

**Audit campaigns** (`services/audit.service.ts`, `repositories/audit.ts`). A
campaign, its verifications and its totals. Create, edit, start, verify, complete,
delete. Hard: auditors verify while the campaign is completed. Correct: a campaign
goes draft, in progress, completed, once; its totals are those of its rows.

**Notifications and event stream** (`services/notifications.ts`,
`services/notification-hub.ts`, `controllers/notifications.ts`). Rows of
`notifications` and the streams of this process. Fan-out to the administrators in
a pool of workers, opening and closing of streams, marking as read. Hard: an index
shared by the workers; what a stream misses while it opens. Correct: each
recipient once; no gap in a stream.

**Depreciation** (`services/depreciation.service.ts`, `depreciation.batch.service.ts`,
`repositories/depreciation.ts`). Yearly snapshots per asset. Month arithmetic and
a batch over the register. Hard: methods that change over the years, batches that
overlap or are run for an earlier year; one snapshot that cannot be stored rolls
back the run. Correct: no charge beyond the base, nothing charged twice or forgotten.

**Branches and asset import** (`services/branches.ts`, `repositories/branches.ts`,
`services/assets.import.service.ts`). Rows of `branches`, and the branch of an asset.
A branch is deleted after its assets were counted, or with force without counting; an
import lists the branches, resolves each row to one, and inserts its rows in one
transaction. Hard: assets that arrive between the count and the deletion, by four
different ways; blank rows in a sheet, the limit on rows. Correct: a branch that is
deleted without force strands nothing that was counted; every row is reported.

**Asset export** (`services/assets.export.service.ts`,
`listAssetsForExportBatch`). Pages by creation time and id while assets come and go.
Hard: the cursor's time has milliseconds, the table's microseconds. Correct: no row
twice, none left out.

**Documents and temporary files** (`services/documents.service.ts`,
`controllers/documents.ts`, `controllers/assets.ts`). Rows of `documents`, files in the
store and in the temporary directory. Hard: a rename, an insert and the compensating
unlinks, with a stop of the process between any two. Correct: a row has its file; a
request that is over leaves no file behind.

**Recognition policy** (`services/assets.recognition.service.ts` and its callers).
The accounting treatment kept with an asset. Hard: it is decided on a row read before
and written with what the request gives; costs are rounded after the decision.
Correct: the treatment is the one the asset's fields call for.

**Organization settings** (`services/organization-settings.service.ts` and its
repository). One row, made on first use. Hard: first users that overlap. Correct: no
update is undone by making the row.

**Role seeding** (`db/seeds/roles.seeder.ts`, `index.ts`, `services/auth.ts` register).
Rows of `roles` and `role_permissions`, made by every process that starts and by every
registration. Hard: seeders overlap, fail and stop. Correct: a seeder that came to its
end leaves every role with its permissions.

**Scheduler, queue and worker** (`jobs/`, `queue/`, `worker.ts`,
`repositories/scheduler.ts`). Warranty and maintenance reminders once a day, in every
process or through a queue. Hard: several processes and workers, a worker that stops
within a job or loses the job's lock and goes on, failures of one organization. Correct:
one reminder for one firing, one more if its job stalled; what is due is reminded of,
whatever fails elsewhere.

**Not stateful**: routes, controllers and validators; scope and permission checks;
reports, templates and QR codes; mail; configuration, logging and
documentation pages. They read, translate or send.

## 2. How the code is modelled

* **A request** is a record in `job`, one per session or request in flight. Each
  statement that reads what a later one relies on, and each commit, is a step of
  its own. `Fail`, `Abandon` or `Conflict` ends a request at any of these points,
  as an SQL error, a deadlock abort or a crash of the process does; what
  committed stays.
* **Row locks.** An `UPDATE` holds the lock of its row until the transaction
  commits. Where the transaction only writes on, `UPDATE ... COMMIT` is one step.
  Where it reads or inserts more (Maintenance, the rotation of a token), the
  locked row is a state, and others that update it wait. A waiting `UPDATE`
  compares its WHERE clause again with the row the other left. A bulk `UPDATE`
  that locks several rows is one step: PostgreSQL takes the locks one after the
  other, and a deadlock among them ends one transaction as `Abandon` does.
* **One organization.** Every statement filters on the organization's id, so
  organizations do not meet. AuthSessions has several, because a password is
  one for all of them.
* **Data.** Descriptive columns, texts and mails are left out. Money,
  where it matters (Depreciation), is whole cents.
* **Composition.** AssetRegister is proved to implement AssetLifecycle. The
  modules that call the register (Maintenance, Approvals) use AssetLifecycle
  in its place: `Register == INSTANCE AssetLifecycle`, whose steps other users of
  the register take at any time (`RegisterStep`).
* **Parts side by side.** Ten small modules model parts that share no state. `Requests`
  (RateLimit, Recognition, Intake, AssetExport, Settings, Depreciation) and `Settling`
  (Provisioning, Notifications, Files, Reminders) instantiate them, give the variables
  and constants of all of them, and restate their properties; the first part named is
  extended, the others are the instances `R`, `I`, `E`, `S`, `D` and `N`, `F`, `R`. In
  `MCRequests` and `MCSettling` the variable `part`, which never changes, says which
  part moves; the others stay in their initial state, so a run is the same as its parts
  checked one after the other. The proofs are about each part's own specification
  (`D!Spec`, say). A part's property refers to that part's variables only.
* **History variables** are named as such where declared: they record what a
  property talks about (how often an approval was carried out, which sessions
  were open when the password changed) and no action reads them to decide.
* A comment `Mutant:` marks a deliberately wrong variant of the definition it
  precedes; no action uses it. Putting it in the definition's place must break
  the property it is paired with in `PROJECT.json`, which shows that the property
  depends on that code.

## 3. Modules

| Module | Code | State and actions |
|---|---|---|
| `AssetRegister` | `repositories/assets.ts`, `repositories/bulk.ts` | `asset`, `registered` are the rows; `openDisposals` counts disposal records since the asset was last in service; `logged` holds the timeline rows the last step inserted. `<Op>Read` is the SELECT of an operation, `<Op>Write` its UPDATE and the rest of its transaction. |
| `AssetLifecycle` | what the register promises | `life` (absent, active, maintenance, disposed; deleted) and `filed`, the disposal records since the asset was last in service; every operation is one step. |
| `Maintenance` | `services/maintenance.ts` | `task` rows; `TaskRead`, `TaskUpdate` (takes the lock), `TaskCommit`, then `AssetRead`, `AssetWrite` in the second transaction. |
| `Approvals` | `services/approvals.service.ts`, `repositories/approvals.ts` | `approval` rows; `RequestRead`, `RequestCheck`, `RequestInsert`; `DecideRead`, `DecideWrite`, `ExecuteDisposal` or `ExecuteTransfer`, `Tell`. |
| `AuthSessions` | `services/auth.ts`, `repositories/auth.ts` | `token` rows, `password`, `code`; a token is its user, organization and second of issue, as the signed JWT is, so two of one second are one token (`LoginClash`, `RotateClash`). `RevokeStart` takes the snapshot of the revoking UPDATE, `RevokeFinish` writes it. |
| `RateLimit` | `middlewares/rateLimit.ts` | `buckets`, `nextSweepAt`; a request is `OpenWindow`, `Pass` or `Refuse`, each with the sweep in front. |
| `Membership` | `services/user.ts`, `services/invitation.service.ts` | `owner`, `status`, `invite`, `roles`, `session`; the reads of a request are one step, each write is one. |
| `AuditCampaign` | `services/audit.service.ts` | one campaign, `check` per verification row; `scope` is the set of assets eligible now. |
| `Depreciation` | `services/depreciation.service.ts`, `depreciation.batch.service.ts`, `repositories/depreciation.ts` | `snap`, the yearly snapshots; `run`, what each run has read and computed; `Calculate` is the computation; `RunRead`, `RunCompute` per asset, `RunWrite` for all; `RecordByHand`, `Revise`. |
| `Notifications` | `services/notifications.ts`, `notification-hub.ts`, `controllers/notifications.ts` | `worker` per slot of a fan-out, `row` per notification, `stream` and `client` for the hub. |
| `Files` | `services/documents.service.ts`, `controllers/documents.ts`, the import and export of `controllers/assets.ts` | `step`, `disk` and `row` per request: where it is, where its file is, whether a row names it; `reader`, a download; each rename, insert and unlink is a step, `Stop` ends them all. |
| `Intake` | `services/assets.ts` (branch and tag), `services/assets.import.service.ts`, `services/branches.ts` | `branch`, `asset`; `import` from `List` to `Insert` or `InsertFails`; `removal` from `CountAssets` or `Force` to `DeleteBranch`. |
| `AssetExport` | `services/assets.export.service.ts`, `repositories/assets.ts` | `born`, `matching`: the creation times, and what the filters let through; `export`, the cursor and what was written; `Page` is one query. |
| `Recognition` | `services/assets.recognition.service.ts`, its callers in `services/assets.ts` | `row`, the accounting fields; `job`, an update between `Read` and `Write`; `Evaluate` is the decision. |
| `Settings` | `services/organization-settings.service.ts`, `repositories/organization-settings.ts` | `setting`, the row; `call`, one SELECT, INSERT or UPDATE per step. |
| `Provisioning` | `db/seeds/roles.seeder.ts`, `index.ts`, `services/auth.ts` register | `role`: not there, bare, or granted; `job` of each starting process and each registration, which seed with the same steps. |
| `Requests`, `Settling` | | the parts side by side (section 2): no action of their own. |
| `Reminders` | `jobs/`, `queue/`, `worker.ts`, `repositories/scheduler.ts` | `ring` of each process's cron; `waiting`, the jobs in the queue, each known by its firing (process and day); `stalls`, BullMQ's count of each job; `run` of each process and worker: for which firing, and whether with the job's lock; `due` items. `TakeJob`, `StopWorker` and `LoseLock` are the worker's. |

`PROJECT.json` gives, under `map`, the source lines of every definition. Each
`MC<Module>` adds the symmetry sets that TLC uses, and sets of values too long for a
`.cfg` (the sheets of an import, the terms of an asset); each `.cfg` is one run, named
in `PROJECT.json`. `MCDepreciation` serves the claim about Depreciation only. Symmetry
is used in runs without liveness properties only. `<Module>Proofs` holds the theorems
about `<Module>`, and in `RequestsProofs` and `SettlingProofs` about its parts.

Simplifications worth knowing, by module:

* *AssetRegister*: `PATCH` validators keep the defaults of the creation schema
  (`partial()` in zod), so an update may carry a status the client did not send;
  payload fields are therefore enumerated freely, `Keep` standing for an absent one.
* *Approvals*: `ExecuteSkipped` and `ExecuteNothing` are the approved action that
  finds nothing to do; `excused` records them and failures.
* *AuthSessions*: what a lost answer does to the client is not modelled; signing a token and inserting its row is one step in a login;
  expiry may happen to any token at any time; registration and access tokens are
  left out; membership checks are in Membership.
* *RateLimit*: one process; its buckets are lost in a restart and are not shared.
* *Membership*: the `users` row of an invited person exists from the start;
  sending an invitation again is an invitation without a role; the permissions
  behind a role are left out; `users.is_active`, which no check reads, too.
* *AuditCampaign*: `ScopeChange` lets the register add and remove assets from the
  campaign's scope at any time.
* *Depreciation*: floating point is replaced by exact quotients, rounded as `round2`
  does; the rate of the reducing balance, a root in the code, is part of an asset's
  terms, the fraction that floating point makes of it: of the root of a residual value
  `TermsAreSound` assumes no more than that it is at most one and has the sign of the
  base, for any life, in whole years or not. A fiscal year is a number from 1 on, and
  `RunEnd` is a dry run as well as a failure.
* *Notifications*: one process, and preferences and mails left out; `lost` records
  events that an error kept from being sent. A notification that the worker process
  creates reaches no stream, because the hub of that process has none: what streams
  are told is modelled for the process that serves them. The numbers in a count or an
  event are left out: `NoGap` says that a stream is told of every notification, not that
  the last number it gets is the newest; a count read earlier may be written after the
  event of a later notification.
* *Files*: requests do not share files, so one record per request holds its step, its
  file and its row. What the upload library does with the temporary file of a request
  that fails before the handler is outside. `denied` holds inserts that committed though
  the reply was lost: their file is removed and the row stays, and `FilesAgree` names
  them.
* *Intake*: a cell is blank, bad or good; a sheet is a sequence of such rows. The
  library counts the rows that hold something but hands out consecutive rows, so blank
  rows push as many off the end: `ImportAccounts` says exactly that. The name of a
  deleted branch, which becomes free, is not used again in the model. Any non-empty
  text after `force=`, "false" included, is true for the validator: `Force` is the
  request whatever its text.
* *AssetExport*: time is a number of microseconds, `Unit` of them in a millisecond;
  rows of one transaction share their time and commit in any order.
* *Recognition*: only the default policy is ever passed
  (`getRecognitionPolicy` has no other caller); the two flags that travel together are
  one; a cost is in tenths of a cent, so that rounding at the threshold is seen.
* *Settings*: the defaults returned while the table does not exist yet (error 42P01)
  are left out.
* *Provisioning*: what a role's permissions are is data. A registration whose seeding
  fails leaves an organization with a bare admin role and an owner who cannot
  register again; the next process that starts completes the roles, which is why
  `RolesVouchedFor` speaks of seeders that came to their end.
* *Reminders*: the warranty and the maintenance job have the same shape and are one.
  A process that stops loses what it was running. `worker.ts` leaves BullMQ its
  defaults: a job gets one attempt, and one that stalls is queued again once
  (`MaxStalled`, per job), then fails. It stalls when its worker stops, or when the
  worker does not renew the lock in time and, not knowing, goes on (`LoseLock`): two
  workers may then be in one job. The time the lock takes to lapse is left out, and so is
  a `queue.add` that the Redis client sends twice because the connection was lost before
  the answer. Nothing records that a reminder was sent: it repeats every day, and in
  every process. `OncePerFiring` is about each firing by itself.

## 4. Runs

Passing runs. Their bounds are the smallest in which every interleaving the code
allows between two requests occurs: two requests in flight, since each property
relates one request to whatever else happened meanwhile, and one object of each
kind more than the property names.

| Run | Instance | Shows |
|---|---|---|
| `asset_register` | 2 assets, 1 holder, 2 requests, every operation | `DisposalLedger`: exactly one disposal record per disposal, whoever races; `DeletedIsFrozen`; `CheckedEventsAreExact`: transfers, transitions and disposals log what they did; `ImplementsLifecycle`: every interleaving, bulk operations included, is a behaviour of AssetLifecycle, in which each operation is one step and a disposal files one record. Two assets, so that a bulk operation finds one of its rows changed and the other not. |
| `maintenance_tasks` | 1 asset, 2 tasks, 2 requests, failures | `RestingAssetsAgree`, `CompletedOnce`, `SparesRetired`, and `RequestsEnd` under fairness. Two tasks are what the look at the other tasks of the asset is about. |
| `approval_decisions` | 1 asset, 2 approvals, 2 requests, failures | `OneOutcome`, `ApprovedIsExecuted`, and `DecisionIsTold` under fairness. |
| `auth_sessions` | 1 user, 2 organizations, 2 requests, 2 seconds, 1 change of password, 1 code | `OneTokenPerSession`, `OldSessionsEnd`. Two seconds: rotations that clash with another issue and rotations that do not. |
| `members` | 2 users, 2 requests that may fail anywhere; either 2 invitations and no roles named, or 1 invitation and 1 role named (`focus`) | `RemovedIsSignedOut`, `DeadTokensStayDead`, `BackByInvitation` (a removed member returns by an invitation, `ReturnsByInvitation`, and an acceptance is one of the invitation as it stands, `AcceptedAsInvited`), `NobodyDisplaced`, `ReplacedMeansOne`. |
| `audit_campaign` | 2 assets, 2 requests, failures, 2 batches of verifications | `EachAssetOnce`, `CampaignOrder`, `TotalsMatch`. Two batches: one more than there should be. |
| `depreciation_years` | Depreciation as a part of `Requests`: 1 asset revised at any time among 3 sets of terms, 2 overlapping runs, 2 fiscal years, 2 records by hand | `ChargedWithinBase`, `LedgerAddsUp`, `CentsFollowMonths`. Two years are a year and what was brought forward into it; the terms include a purchase within the year, a rounded charge, a residual value above the cost, and one with an irrational rate and a life in part years; one record by hand is a cent off its sum, as the validator lets it be. |
| `intake_and_rates` | five parts side by side | **RateLimit**, 2 keys, limit 2, window 3, clock to 8 (three windows fit, sweeps fall inside and between them): `WindowsApart`, and `AtMostTwice`, no stretch as long as a window sees more than twice the limit. **Recognition**, 1 asset, 2 overlapping updates, costs just below, at and above the threshold: `RecognitionFits`. **Intake**, 2 assets, 2 branches, 1 import of up to 3 rows with a limit of 2, 1 deletion: `ImportAccounts`, `OnlyNewcomersStranded`. **AssetExport**, 4 assets, 3 instants of which two share a millisecond, pages of 2, limit 3: `SkipsShareMillisecond`. **Settings**, 3 calls, 2 columns: `SettingsKept`; the third call reads what the other two left. |
| `settling` | four parts side by side | **Provisioning**, 2 processes and 1 registration, 3 roles: `RolesVouchedFor`, `SeedingEnds`. **Notifications**, 3 users, 1 fan-out, pool of 2 (so that a worker comes back for more), 1 stream: `EachOnce`, `NoGap`, `Finishes`. **Files**, 2 requests: `FilesAgree`, `FilesSettle`. **Reminders**, 2 organizations with an item each, 1 day; either 2 processes and 1 worker with both items due (two jobs that may each stall), or 1 process and 2 workers with items that come due and are resolved (one job in two workers at once): `OncePerFiring`, `RemindersArrive`. |

Deadlock is checked where one module moves: a request, a client or a run can always
go on. In `intake_and_rates` and `settling` everything asked for may have been
answered, and nothing is left to do.

Violation runs. Each checks one statement that a message or comment of the
repository makes and that the code breaks; the findings in `PROJECT.json` quote it.

| Run | Statement broken | How |
|---|---|---|
| `asset_bulk_claim` | a bulk status update leaves disposed assets alone | disposed between the filter and the UPDATE |
| `depreciation_claim` | the months of a year are capped to the remaining useful life, and never negative | reducing balance counts months beyond the useful life; a straight-line year after it gets a negative number, which the table refuses, and with it the year of every asset of the run |
| `export_claim` | the documentation promises an export of the assets the filters let through | the cursor loses the microseconds of the last row's creation time: the other rows of that millisecond, the rest of an import among them, are on no page |

### What overtaking does

The services of memberships and audit campaigns check and then write, and their
writes do not compare what was checked. So that a property can say what the checks
achieve and where they stop, `Membership` and `AuditCampaign` keep `crossed`, the
requests in whose course another one wrote. `NobodyDisplaced`, `AcceptedAsInvited`,
`ReplacedMeansOne`, `CampaignOrder` and `TotalsMatch` hold of every step of a request that was not crossed; without that
condition TLC finds, within a few steps:

* a removal past its checks while the ownership is transferred to the member
  removed: the organization belongs to someone outside it;
* two transfers by the same owner: the second gives away what is no longer theirs;
* an invitation sent again while it is accepted: the active member is `invited`
  again;
* an acceptance that hashes the password while the invitation is cancelled: it
  activates all the same;
* two starts of a campaign, or a start after one that failed: every asset is
  verified twice, and a completed campaign is in progress again;
* a verification that is written after the campaign was completed, so that its
  totals are no longer those of its rows;
* a deletion of a campaign that was started meanwhile.

Two more history variables excuse by name rather than by overlap: `loose`
(Membership), users that signed in or were invited with checks made before their
removal, or whose removal failed before it revoked; `halfStarted` (AuditCampaign),
a start that failed half way or overlapped another. In the same way `behind`
(Depreciation) holds the years computed before an earlier year was written:
`LedgerAddsUp` excuses those, because nothing computes them again.

Relations that follow from the code but that no run checks because they fail in
known ways, for a reader of the code: a PATCH may set a disposed asset active
without a restore, and logs the status it read, not the one it replaced; two
requests may file two pending approvals of one asset; an approval may be carried
out on an asset deleted meanwhile and is reported as executed; the single dispose
endpoint disposes of an asset of any cost, although the comment on its route speaks
of an approval above a threshold; an asset keeps or is
given a branch that was deleted, by transfer, restore, creation or import; the settings
page promises reminders "48 hours before due date" and "30 and 7 days before expiry"
(`services/notification-preferences.service.ts:12`, `:14`), while the jobs send one
every day of their window and consult no preference; a rotation that
commits while a revocation waits for its lock survives it; a reset code may be
used by two requests that both read it unused; one end and one start of a window
let twice the limit through within an instant.

## 5. Fairness

* *Maintenance*: strong fairness of each request's next step. A request may wait
  for a row lock that others take again and again; PostgreSQL queues the waiters
  of a lock and serves each, so a request able to proceed again and again does.
* *Approvals*: weak fairness of "proceed or fail": a statement sent to the
  database returns or raises an error (`pg` connection and statement timeouts).
* *Notifications*: weak fairness of each worker's step: the event loop runs what is
  ready, and the database answers or fails. Nobody is assumed to open or read.

* *Files*: weak fairness of what a handler started, the unlinks included: awaited calls
  return or throw. That an export which is being sent ends assumes that the client
  reads or disconnects; `FilesSettle` excuses a process that stops.
* *Provisioning*: weak fairness of each seeder: the database answers or fails. Nothing
  obliges a process to start or to stop.
* *Reminders*: weak fairness of every run, and of each worker's taking a job: workers are
  there for the queue, and one that stopped is started again. The crons themselves are
  not obliged to fire: `RemindersArrive` begins with a firing.

No other run uses fairness, and no property says that a client ever sends a
request.

## 6. Proofs

Checked by TLAPS for every value of the constants. Every invariant and every action
property of the passing runs, and the refinement, is stated by a theorem; the bounds of
section 4 then only say where TLC has looked as well. The theorems of one module rest on
the inductive invariant named with it; a property of steps follows from it step by step,
with one proof step per action.

| Theorems | Statement | Inductive invariant, and why it is needed |
|---|---|---|
| `AssetRegisterProofs!Typing`, `LedgerExact` | `TypeOK`, `DisposalLedger` | `IInv`: a disposal in flight has *seen* its asset in service and the UPDATE compares that status, so a second disposal cannot find it; the ledger of a disposed asset tells how it came to be so. |
| `DeletedStaysFrozen`, `TimelineIsExact` | `DeletedIsFrozen`, `CheckedEventsAreExact` | `IInv` again: an UPDATE that compares `deleted_at`, the status or the holder finds the row as it was read, and its event says so. |
| `Refinement` | `ImplementsLifecycle` | from `IInv`, step by step: reads and failures stutter, each write is one lifecycle step. |
| `MaintenanceProofs!MaintenanceTyping`, `CompletedOnceHolds`, `SparesRetiredHolds` | `TypeOK`, `CompletedOnce`, `SparesRetired` | `MInv`: a row lock has one holder and, while held, the task is as it was read. |
| `RestingAssetsAgreeHolds` | `RestingAssetsAgree` | `AssetInv`: as long as an asset is not disturbed, at most one request is past its UPDATE on it, and what that request is about to write is right. The property speaks only of assets at rest. |
| `ApprovalsProofs!ApprovalsTyping`, `OneOutcomeHolds`, `NothingLost` | `TypeOK`, `OneOutcome`, `ApprovedIsExecuted` | `AInv`: of the requests past their decision on an approval there is one, and what it remembers is what the row says. |
| `AuthSessionsProofs!SessionTyping`, `OneTokenHolds` | `TypeOK`, `OneTokenPerSession` | `SInv`: a rotation between its two statements holds the lock of an open token, alone; the roots of issued tokens are first tokens. |
| `OldSessionsEndHolds` | `OldSessionsEnd` | `ChangeInv`: an open token's session was opened with the password in force, or is excused, or a change or reset on its way still revokes it. |
| `MembershipProofs!RemovedIsSignedOutHolds`, `DeadLinksStayDead`, `BackByInvitationHolds`, `NobodyIsDisplaced`, `ReplacedMeansOneHolds` | `RemovedIsSignedOut`, `DeadTokensStayDead`, `BackByInvitation`, `NobodyDisplaced`, `ReplacedMeansOne` | `MInv`: what a request checked still holds of it until another request writes (`Uncrossed`); a removal that has begun revokes before it is over (`Leaving`). |
| `AuditCampaignProofs!EachAssetOnceHolds`, `CampaignOrderHolds`, `TotalsMatchHolds` | `EachAssetOnce`, `CampaignOrder`, `TotalsMatch` | `AInv`: what a request found is so until another one writes (`Uncrossed`); unless a start is half done there is one batch of verifications (`OneBatch`), and while the campaign is a draft the request that inserted it is about to start it (`Begun`). |
| `RequestsProofs!RateTyping`, `WindowsNeverOverlap` | `TypeOK`, `WindowsApart` | `RInv`: a bucket counts the window it says; every earlier window of its key ended before it, also when a sweep removed it. |
| `AtMostTwiceHolds` | `AtMostTwice` | `Counted`, with `RInv`: what passes in a stretch as long as a window was counted by windows opened within it or at most a window before it. Windows are so far apart (`WindowsApart`) that these are two, of at most the limit each. |
| `RecognitionFitsHolds` | `RecognitionFits` | `TreatmentInv`: an update in flight holds the decision on the row it read, which is the row unless another one wrote. |
| `ImportAccountsHolds`, `OnlyNewcomersStrandedHolds` | `ImportAccounts`, `OnlyNewcomersStranded` | `ImportInv`: what an import reports adds up, by counting the rows of a sheet; `PlaceInv`: past its count, a deletion without force finds in the branch only assets that came later. |
| `SkipsShareMillisecondHolds` | `SkipsShareMillisecond` | `ExportInv`: of the assets there throughout, each is on a page, or behind the cursor still to come, or in the cursor's millisecond. |
| `SettingsKeptHolds` | `SettingsKept` | `SettingsInv`: the row is the last one an update left, or not made yet. |
| `ChargedWithinBaseHolds`, `LedgerAddsUpHolds`, `CentsFollowMonthsHolds` | `ChargedWithinBase`, `LedgerAddsUp`, `CentsFollowMonths` | `LedgerInv`: a year that is not behind is what would be computed from the table as it is now (`StillTrue`), and so is what a run has computed and no one crossed (`StillGood`). The sums over the years follow by taking the first year at which they fail. |
| `SettlingProofs!ProvisioningTyping`, `RolesVouchedForHolds` | `TypeOK`, `RolesVouchedFor` | `PInv`: a seeder at work has its organization's admin role before it and only granted roles behind it; other seeders take nothing back. Without "a registration seeds its own organization" the owner's session would vouch for nothing. |
| `FilesTyping`, `FilesAgreeHolds` | `TypeOK` of Files, `FilesAgree` | `FInv`: where a request is says where its file can be and whether a row can name it, and only an insert reported as failed breaks that; a download that found the row looks for a file nothing removes. |
| `EachOnceHolds`, `NoGapHolds` | `EachOnce`, `NoGap` | `NInv`: a recipient is taken by one worker, whose insert is the only one; with it `Gapless`: what is unread and not yet told is with a worker that is about to publish it. |
| `OncePerFiringHolds` | `OncePerFiring` | `RInv` of Reminders: for each firing and item, the reminders sent, the job waiting and the runs that may still remind come to no more than one and the job's stalls (`Covered`); nothing was done for a cron that has yet to fire (`Untouched`), so that a firing begins at nought. |

Theorems about a part of `Requests` or `Settling` are about the part's `Spec`
(`R!Spec => []RecognitionFits`). A behaviour of `MCRequests` in which that part moves is
one of the part's specification, because the steps of the others leave its variables
unchanged.

**Assumptions.** The named `ASSUME`s of the modules and nothing else; TLC evaluates them
in the runs. Values that stand for NULL, "absent" or "keep" are no ids, no rows and no
statuses (`ValuesDistinct`, `TasksDistinct`, `KeepIsNoStatus`, `NoneIsApart`); bounds and
limits are naturals, positive where the code's are (`BoundsAreNat`, `MaxInvitesIsNat`,
`MaxBatchesIsNat`, `DaysAreDays`, `LimitsAreNat`, `WidthIsPositive`, `Bounds`, `PagesAreFinite`); there is an asset (`SomeAsset`);
what is counted is finite (`AssetsAreFinite`, `RunnersAreFinite`, `PagesAreFinite`);
inputs are what the validators admit (`CostsAreTenths`, `SheetsAreRows`,
`MarksAreResults`, `NamedAreRoles`, `LedgersAreSound`). `LedgersAreSound` says of a
record by hand what `recordAssetDepreciationSchema` and the columns let through: no
amount is negative, and the total differs from the sum of the two others by less than a
cent before the table rounds each of the three, so by two stored cents at most. Of an
asset's terms it says (`TermsAreSound`) that the cost is not negative, the useful life
is positive, the residual value is not negative but may exceed the cost, and of the rate
of the reducing balance that without a residual value it is two over the useful life in
years, as in the code, and otherwise at most one, not negative where the base is
not, and not positive where the residual value is at least the cost: what
`1 - (residual / cost) ** (1 / life)` has for any life, also computed in floating point.

**Typing.** In AssetRegister, Maintenance, Approvals, AuthSessions, RateLimit, Files and
Provisioning typing is a theorem of its own and no run checks it again. In the other
modules it is a conjunct of an invariant that is checked and proved
(`RemovedIsSignedOut`, `EachAssetOnce`, `LedgerAddsUp`, `EachOnce`, `RecognitionFits`,
`OnlyNewcomersStranded`, `SkipsShareMillisecond`, `OncePerFiring`); Settings' is part of
`SettingsInv`.

**Sums and induction over data.** `AtMostTwice` and the ledger are sums over sets, folds
in the community modules. The library's induction theorems take an operator as a
parameter, which the provers here cannot instantiate; where a sum or a cardinality calls
for induction, the proofs form the set of the numbers at which the claim fails and take
its least member (`LeastNat`, from the well-foundedness of the naturals), or the smallest
member of a finite set.

**Only model-checked.** The liveness properties `RequestsEnd`, `DecisionIsTold`,
`SeedingEnds`, `Finishes`, `FilesSettle` and `RemindersArrive`: the provers used here have
no rules for ENABLED, on which fairness rests. The three claims of the violation runs are
false and stay with TLC's counterexamples.

## 7. Hazards

`PROJECT.json` lists under `hazards` what tests would hardly reach, at its line,
with the properties that cover it. Each has one. Where a property excuses by name the
very failure a hazard describes, because the code has no answer to it, the hazard's
`note` says what is left of the property: that nothing else goes wrong.

## 8. What is left

Modelled: everything the plan named. Proved: every property that is not one of liveness.
In order of weight, what could follow:

1. A statement of what an overtaken request may still do, stronger than the excuses of
   `crossed` in Membership and AuditCampaign.
2. Abstract specifications of approvals and of sessions, and their refinement, in the
   manner of AssetLifecycle.
3. The descriptive columns of assets under concurrent updates, which follow the rule of
   the last writer and promise nothing.

## 9. Not modelled

* *Scope and permission checks* decide over one request from rows they read and keep
  nothing. Every module takes requests that passed them; a check that is stale by the
  time its request writes is modelled where the service makes it (Membership, Approvals).
* *Routes, controllers and validators* translate. What a validator admits is the input
  set of the actions.
* *Reports, template and QR codes* are queries and file formats without state.
* *Mail* is sent by a service outside and its errors are logged; *notification
  preferences* are one row per user that is overwritten as a whole and that no sender
  reads.
* *Configuration, logging and documentation pages* are start-up and text. Migrations
  are taken as applied.
