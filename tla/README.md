# UniPass in TLA+

A model of the UniPass back end (NestJS API and worker, Postgres through Prisma,
BullMQ queues on Redis) and of the pages of its front end (Next.js): what the
components promise, how they do it when requests, cron runs, workers, answers and
crashes interleave, the TLC runs that check it on small instances and the TLAPS proofs
for every instance. Paths below are relative to `src/backend/src/` unless they start
with `src/` or, in the tables about pages, to `src/frontend/src/`.

## The system

Two processes share one Postgres database and one Redis (`src/docker-compose.yml`;
both restart when they die):

* the **API** (`main.ts`, `app.module.ts`) serves HTTP and runs every `@Cron`;
* the **worker** (`worker.ts`, `queue/notification-worker.module.ts`) runs the BullMQ
  processors, five webhook jobs and ten notification jobs at a time.

No service sets an isolation level, so every transaction is READ COMMITTED, and only
the webhook processor takes locks (`pg_advisory_xact_lock`). Everything else that
reads, decides and writes does so in separate statements: between two of them any
other request, cron run or worker may act. This is what most of the models are about.

| Component | State it keeps | Operations | What is hard | What makes it correct |
|---|---|---|---|---|
| Billing webhooks (`billing/billing-webhook.service.ts`, `queue/`) | `BillingEventLog` rows, `BillingCharge` rows, jobs | persist, enqueue, process, mark failure, retry cron | duplicate and reordered deliveries, retries, worker and cron on the same event, crashes, unreachable queue | one commit per event; a charge never mixes two events; its status date only advances; every event is processed in the end |
| Charges (`billing/billing.service.ts`) | `BillingCharge`, `BillingCustomer` | issue, release cron, lists | two issues at once, webhook between read and write, month and day boundaries | one active charge per student, template and month; what the lists call overdue is overdue |
| Billing settings (`billing/billing.service.ts`, the page `app/dashboard/billing`) | `CompanyBillingSettings`; the form of the page | update, submit the onboarding; load, edit, save, cancel | updates that overlap a submission; overviews that arrive during an edit | a review is of the platform's gateway; a page at rest shows what was loaded last |
| Notification prompts (`notifications/`, `notification-prompts/`, `confirmations/`) | `NotificationPrompt`, `ScheduleConfirmation`, jobs | minute cron, dispatch, in-app fetch, answer, confirm | answer during a push, retry of a dispatch, cron crash before the enqueue, expiry, a departure moved while its prompts exist | an unanswered prompt can be fetched until the earliest departure its schedule has had; one push per occurrence |
| Push subscriptions (`push-notifications/`) | `PushSubscription` | register with its merge of rows, deactivate, dispatch, tickets | a subscription changed between the read and the result of a send; registrations that overlap | a device receives the notices of who registered it last; a deactivated one stays so |
| Devices (`devices/`, `buses/`) | `Device`, `Bus` | start pairing, claim, link, update, link bus, delete | two links of one device, lost answer of a claim, expiry, deleted bus | a device's bus is its owner's; a reader keeps working credentials |
| Boarding (`transport/`, `rfid/`) | `TransportEvent`, `RfidCard` | board, deboard, link card | two reads of a card at once, two devices, deactivation | boardings and deboardings of a student alternate; who is aboard can leave |
| Companies (`companies/`) | `Company`, SMS challenges in memory | SMS code, verify, onboarding, profile, plan request and its application | awaits between check and use, restart, overlapping requests | a verification that made a company is spent when its onboarding ends; a plan request is not lost |
| Students, groups and templates (`students/`, `groups/`, `billing/billing-templates.service.ts`) | `Student`, `Group`, `BillingTemplate`, `StudentRoute` | create, update, deactivate, delete | reads before the transaction, columns written back | who was deactivated stays so; nobody is moved to a group that is closed |
| Users and authentication (`users/`, `auth/`) | `User`, signed tokens | create, update, deactivate, login, guards | two accounts for one student, tokens that outlive their account | one account per student; an account deactivated while no update of it is in progress is let in nowhere |
| Schedules and routes (`route-schedules/`, `routes/`) | `RouteSchedule`, `Route` | create, update, deactivate, remove | two creates at once, stale updates, midnight and week wrap of the notice | no two active schedules share a slot; the cron fires exactly at the notice of a departure |
| Location (`location/`, the page's `useLocationOverview.ts`) | telemetry on `Device`, the page's trail | telemetry, live location, polling | answers out of order, several readers on a bus, the freshness limit | the trail is one drive, in order |
| Dashboard and reports (`dashboard/`) | none | figures, charts, five reports | five joins of one log, rows moved since, the midnight of three clocks | the reports of one query agree with each other |
| Management pages (`app/dashboard/*` and their hooks) | React state: rows, query, dialogs | filter, page, deactivate, save, options, card step | answers out of order, a dialog closed and opened again over its calls | a page at rest shows its query; a dialog is about one opening |
| Session of a browser (`contexts`, `app/dashboard/layout.tsx`) | user, loading, dialog of the ended session; the cookie | who am I, login, logout, refused calls | late answers, a cookie of another account, a role changed meanwhile | what the menu offers is not refused |
| Queue connection, opaque ids, bootstrap, sign-up page, drawing components | - | - | - | see "Not modelled" |

How they interact: the webhook pipeline and issuing write the same `BillingCharge`
rows (the release cron takes no advisory lock); schedules carry the notice the prompt
cron looks for; prompts end in push subscriptions; boarding reads devices, cards and
students, which pairing and the roster change; reports read what boarding writes;
location reads the device that pairing linked to a bus; a page shows what one of these
services answers. Calls between services are direct; the API and the worker meet only in
Postgres and through the two BullMQ queues; a page and the API meet only over HTTP.

## Modules

| Module | What it is | Built on |
|---|---|---|
| `Null` | the value `None` every other module uses for a null | |
| `QueuedJob` | one BullMQ job, from the options the queues are created with | `Null` |
| `ChargePlan` | what one webhook event does to one charge row, as pure operators | `Null` |
| `BillingWebhook` | the webhook pipeline, step by step | `ChargePlan`, `QueuedJob` |
| `WebhookLedger` | its abstract specification: one atomic step per event | `ChargePlan` |
| `NotificationPrompts` | cron, queue, workers, students' requests | `QueuedJob` |
| `StudentPrompts` | its abstract specification: a prompt is offered, answered, withdrawn | `Null` |
| `ChargeIssuing` | issuing, release, lists | `Null` |
| `ChargeBook` | its abstract specification: an issue is one step | |
| `BillingSettings`, `BillingPage` | the settings at the server, the page where they are edited | `Null` |
| `PushSubscriptions` | registrations, dispatches and their tickets | `Null` |
| `Boarding` | taps, denials, cards | `Null` |
| `DevicePairing` | readers, links, buses | `Null` |
| `CompanyOnboarding`, `PlanChange` | the sign-up of a company, its plan | `Null` |
| `Roster` | students against their groups, templates and routes | `Null` |
| `UserAccounts` | accounts, their students, their tokens | `Null` |
| `RouteScheduling` | schedules of a route and their notice | `Null` |
| `LiveLocation` | telemetry, live position, trail of the page | `Null` |
| `Reports` | reports and figures over the log of the readers | `Null` |
| `ListScreen`, `FormDialog` | the table and the dialog of a management page | `Null` |
| `Session` | one browser tab: session, menu, guards | `Null` |
| `BillingWebhookProofs`, `NotificationPromptsProofs`, `ChargeIssuingProofs` | theorems about the module named | that module, TLAPS |
| `AccountProofs` | theorems about `PushSubscriptions`, `UserAccounts`, `CompanyOnboarding`, `Session` | these, TLAPS |
| `CompanyProofs` | theorems about `Roster`, `RouteScheduling`, `LiveLocation`, `PlanChange`, `BillingSettings`, `BillingPage` | these, TLAPS |
| `ScreenProofs` | theorems about `FormDialog`, `ListScreen` | these, TLAPS |
| `IdentityProofs` | theorems about `DevicePairing`, `Boarding`, and about the sum `MCIdentity` | `MCIdentity`, `AccountProofs` |
| `ManagementProofs` | theorems about `Reports`, and about the sum `MCManagement` | `MCManagement`, `CompanyProofs`, `ScreenProofs` |
| `MC...` | instances for TLC; `MCManagement` and `MCIdentity` are sums of several components | the modules they name |

Conventions: an id, a name, a tag or a code is a model value or a small string; time is a
number; an action is the code between two awaits at which another process can see or
change what it uses; a reader's or a request's local variables are records or functions
over the processes and are cleared when its call is over. A definition whose comment
begins "Mutated form of" is a plausible bug in the definition that follows it; it is
never part of a specification, and is there to show that the property notices it.

### BillingWebhook

An event id stands for a deduplication key, hence for one `BillingEventLog` row.

| Code | Model |
|---|---|
| `BillingEventLog` row: createdAt, processedAt, processingResult, billingChargeId | `log[e]` (creation order, `processed`, `result`, `charge`) |
| `BillingCharge` row: the six columns an event can write | `charge[c]` |
| `handleAsaasWebhook`, `persistIncomingWebhookEvent` (unique key) | `ReceiveWebhook`; `handlers` are the requests between the insert and the enqueue |
| `enqueueWebhookProcessing`; its catch, or a death of the API | `EnqueueJob`; `EnqueueFails` |
| `BillingWebhookWorkerService` and BullMQ | `TakeJob`, `CompleteJob`, `FailJob`, `StallJob`, `RecoverJob`, `RemoveJob` |
| `retryPendingWebhookEvents` (age cutoff, oldest first, batch, loop that catches) | `Age`, `StartRun`, `NextOfBatch`, `EndOfIteration` |
| `processWebhookEventLog`: first read; lock of the event and second read; `resolveWebhookTargets`; lock of the charge and its read; the two updates and the commit | `ReadLog`; `LockEvent`; `ResolveTargets`; `LockCharge`; `Commit` |
| a unique index refuses the update of the charge | `Conflict` |
| `markWebhookProcessingFailure`: read, update | `FailureRead`, `FailureWrite` |
| a failed statement, a dead process | `DatabaseFails`, `Crash`, with `StallJob` at most `MaxFaults` in all |
| `releaseScheduledCharges` (one UPDATE, no lock) | `ReleaseScheduledCharges` |

The locks are not variables: who holds one follows from `pc` (`HoldsEventLock`,
`HoldsChargeLock`), and a crash or a rollback releases it by leaving the location. The
UPDATE of a charge is computed from the snapshot `snap` and applied to the row as it is
(`Planned(row, snap, x)`), so what the sweep changed in between survives where the code
lets it. `applied` is a history variable: commits per event.

`WebhookLedger` knows no queue, lock, retry or snapshot: an event is processed at most
once, in one step, from the row as it is, or as it was just before the release sweep.
The refinement maps `rows` to `charge` and `done` to the events whose row says processed.

### NotificationPrompts

A prompt id stands for (userId, scheduleId, occurrenceKey), one per active student of
the route; time is the minutes of the day of the occurrence. A schedule has its departure
and its notice in minutes, both of which an update writes. A notice later than the
departure is of the departure of the next day, another occurrence with other prompts, so
it is not due for these ones (`DueNow`); neither is that of a deactivated schedule, whose
prompts the code leaves as they are.

| Code | Model |
|---|---|
| `NotificationPrompt` row: status, response, order of creation; `ScheduleConfirmation` | `status`, `response`, `createdAt`; `confirmation` |
| `handleNotifications`: schedules whose notice is this minute, students of the route, one after the other | `StartRun` (at most once a minute, `fired`), `NextStudent`, `EndRun` |
| `preparePromptForDispatch` and the enqueue | `FindPrompt`, `CreatePrompt`, `CreateRefused` (unique key: the exception ends the run), `ResetPrompt`, `EnqueuePrompt` |
| `dispatchPrompt` in the worker | `ReadPrompt`, `ExpirePrompt`, `Push` (a push, or the in-app fallback), `MarkDispatched`, `MarkFailed` |
| `findPendingPromptForUser` | `StartFetch` (first rows of the student, with their statuses and departures, in `seen`), `FetchNext`, `EndFetch` |
| `respondToPrompt`: read, then expiry or the transaction of both rows | `StartAnswer`, `ExpireAnswer`, `CommitAnswer` |
| `confirmations` confirm | `Confirm` |
| `isExpired`, with the departure of the row just read | `IsExpired`, of `Departure(p)` or of the one a fetch has in `seen` |
| `route-schedules` update | `Reschedule`: any of the bounded `Timetables`, a departure with a notice |
| failed statements and calls, crashes, stalls | `CallFails`, `Crash`, `StallJob`, at most `MaxFaults` |

All updates are by id and unconditional, as in the code. That an answered prompt can be
set back to DISPATCHED by the worker or a fetch that had read it before is therefore in
the model; no text of the repository forbids it, so it is not a property. A FAILED prompt
that the cron resets is added under the id of its failed job, which BullMQ keeps: the
add is a no-op, and only the in-app fetch is left.

A departure that is moved while its prompts exist moves what `isExpired` compares with,
but not what was done before: a prompt expired by an earlier departure stays EXPIRED
(`notification-prompts.service.ts:78` enqueues it no more, and 190 no longer finds it) though
the new departure is still to come, and a fetch that has read the old departure still
expires by it. The history variable `earliest` therefore keeps, for every prompt, the
earliest departure its schedule has had since the row exists: `OpenUntilOver` promises an
unanswered prompt until then. That it is not reopened afterwards is a behaviour of the
model; no text of the repository speaks of a moved departure.

`StudentPrompts` is what a student sees of all this: a prompt is shown in the app from
the moment it exists until it is answered, or a departure it has had has passed, and the
answer and what the route learns of it are one step. The refinement maps `asked` to the rows
that exist, `offered` to those whose status is in `Open`, and `until` to `earliest`: asking
sets it, a departure moved sooner lowers it (`Advance`), and `Withdraw` needs it passed. The late mark or reset that shows
an answered or expired prompt again is its `OfferAgain`: nothing in the code excludes it.

### ChargeIssuing

| Code | Model |
|---|---|
| `issueCharges`: the students with their templates and customers | `StartIssue` (what is read is `request[r].listed`, the instant `from`) |
| the charges of the month, inside the transaction | `ReadExisting` |
| `createMany`, `ensureBillingCustomer`, commit | `CommitIssue`; a rollback or nothing to do is `AbandonIssue` |
| `buildDueDate` (last day of a short month) | `DueDate` |
| `releaseScheduledCharges` | `Release` |
| the status a webhook writes | `ReportStatus`, which marks a charge revived from CANCELLED as `restored` |
| template update and deactivation, student update and deactivation | `UpdateTemplate`, `UpdateStudent`, `DeactivateStudent` |
| the where clauses of `findCharges` and `getOverview`, and the badge | `ListedOpen`, `ListedOverdue`, `ShownOverdue` |

`ChargeBook` has the charges and nothing they were made from: an issue is one step that
adds, to the charges as they are, one of a month for each of some students who have none
in force; afterwards only statuses change, and every charge that is due is released at
once. The refinement is the identity on `now`, `charges` and `issues`. The code meets it
while the issues in progress are apart (see "Proofs"); `charges_twice` shows what happens
otherwise.

### Boarding

A request is a tap, from the reader or from the driver's page; `DeviceOf` fixes its
device. `StartTap` reads the device, `FindCard` the card with its student, then
`LogDenied`, or `ReadLastEvent`/`Refuse` and `CreateEvent`: one action for each
statement of `processBoarding` and `processDeboarding`. `LinkCard`, `SetStudentActive`
and `DeactivateGate` are what others change meanwhile. `events` is the table in the
order of creation, which is what `findFirst ... orderBy createdAt desc` reads.

### DevicePairing

A device is a hardwareId. The reader's side: `StartPairing` with `CreateDevice` or
`RenewCode` (the read and the write of `startPairing`), `StartClaim` and `Claim` (of
`claimPairing`; its answer may be lost), with `shown` and `held` for what the reader has
on its screen and in its store, and `call` for the call it waits for. The
administrators' side: `StartLink` and `LinkDevice` (`linkDevice`), `StartLinkBus` and
`LinkBus`, `LinkRefused` when the foreign key refuses a bus deleted meanwhile,
`Deactivate`, `DeleteBus` (which sets the devices' bus to null). The code a row gets is
not one another row has: the column is unique. Secrets are numbered as generated.

### RouteScheduling

`ScheduleData` and `NoticeDay` are `buildScheduleData` and `getScheduleMetadata`: the
minute and the weekdays of the notice, computed when the row is written.
`StartCreateSchedule` and `StartUpdateSchedule` make the checks (`SlotAvailable`),
`WriteSchedule` the insert or the update of every column, `DeactivateSchedules` and
`DeactivateRoute` the bulk updates. `Due` and `Occurrence` are the cron's selection and
the departure it announces.

### LiveLocation

`StartTelemetry`/`StoreTelemetry` are the reads and the update of
`updateDeviceTelemetry`; `Location` is `getLiveBusLocation`, with the order Postgres
gives to nulls; `Fetch`, `AnswerCall`, `DropCall` and `ApplyAnswer` are the page's poll:
calls are not serialised, so an answer may be applied after one that was asked later.
`NextTrail` is `applyLiveResponse`. The page keeps each bus apart, so one bus is enough.

### PushSubscriptions

The table `row`, in which a deleted id never comes back. `StartRegistration`,
`FindToken` and `WriteRegistration` are the two lookups and the delete, update or insert
of `registerSubscription`; `RefuseRegistration` its rollback, when a unique index or a row
that has gone refuses. `DeactivateSubscription` is one bulk update. `StartDispatch`,
`ReceiveTickets`, `ApplyTicket` are `dispatchPromptNotification`: the rows are read, the
push service answers, then one row at a time is updated from what was read;
`FailDispatch` is a call that fails. `registrant` and `closed` are history.

### CompanyOnboarding and PlanChange

A challenge is an object of the API's memory; `current` is the map from phones to
objects and an onboarding keeps a reference to the object it read. Every await of
`createOnboarding` ends an action: `StartOnboarding`, `CheckCompany`, `CheckEmail`,
`CreateCompany` or `RefuseCompany`, `FinishOnboarding`. `StartEdit`/`WriteEdit` are
`updateMine`; `Restart` clears the memory of the API.

`PlanChange` has the read and the update of `requestPlanChange` (`StartRequest`,
`WriteRequest`) and of `applyRequestedPlan` (`StartApply`, `WriteApply`).

### Roster and UserAccounts

Both services read a row, check what the request asks for, and write every column back:
`StartCreate`/`CommitCreate`, `StartStudentUpdate` (`StartUpdate` for accounts)/
`CheckUpdate`/`CommitUpdate`, `FailUpdate`. What a request leaves out is the value that
was read (`NextActivity`, `NextGroups`, `NextRoutes`). Groups and billing templates are
under the same rules and are both `Groups`. `DeleteStudents` never deletes anybody who
has a route: the foreign key of `StudentRoute` refuses the whole statement.
In `UserAccounts` a request is an `Edits`, its local variables are `change`.
`Identity` is `resolveUserIdentity`, `Admitted` the JWT strategy with the guards, which
read the account on every request. `dormant`, `sealed` and `unlinked` are history.

### BillingSettings and BillingPage

`NextStatus` is `resolveOnboardingStatusChange`; an update and a submission read, then
write (`StartUpdate`, `WriteUpdate`, `StartSubmit`, `WriteSubmit`). The page
(`app/dashboard/billing/page.tsx`) keeps the last overview, the form and the edit mode;
`Ask`, `Answer`, `Arrive`, `LoadFails` are its requests, `Refresh`, `StartEditing`,
`StartGatewaySetup`, `Edit`, `CancelEdit`, `Save`, `SubmitOnboarding` its buttons,
`SaveAnswered`, `Submitted` and `Fail` what comes back. What the fields contain is one
value.

### Reports

`events` is what the readers recorded; a student's group and routes, and the reader's
bus, are those of the moment of the query. Each report is an operator on the query `f`:
`BoardingEvents`, `StudentEvents`, `FleetEvents`, with its rows (`StudentRow`, `GroupRow`,
`RouteRow`, `FleetRow`), its totals and its chart (`Bar`, `ChartTotal`). `Zone`, `Fixed`
and `Local` are the three midnights of the code: that of `APP_TIMEZONE` (`getDateKey`),
that of -03:00 (`parseDateKey`), that of the process (the first page).

### ListScreen and FormDialog

The eight pages of rows, and their eight dialogs, have one shape each and differ where a
record says so (`Screens`, `AllDialogs`): whether the effect that loads has a guard
against late answers, whether the table goes while it loads, which pages are linked to,
what the list answers when it is empty; whether the dialog loads options, waits for
them, links a card afterwards. `requests` are those of rows on their way, in the order
they were sent; `Read` is the server, `ArriveRows` and `Lose` the network.
`StartDeactivate`, `StartSave`, `Commit`, `Finish` and `OperationFails` are an operation
with its refetch. In the
dialog, an opening has a number, and every call carries the number of the opening it
was made in: that is what tells a late answer from one that is due.

### Session

`Endpoints` are the roles of fourteen controllers, an endpoint is a pair of a controller
and of what is asked of it, and `RolesOf` its roles; the `...Page` operators say what each
page asks of whom, `Sidebar` what the menu offers a role. `tab` is the state of the provider
and of the layout, `tabCall` the requests on their way: `Mount`, `AskPage`, `HandleLogin`,
`HandleLogout`, `Serve`, `Lose`, and the four `Arrive...`; `Redirect` and `Navigate` are the
effects; `RunOut` and `ChangeAccount` happen to the token and to the account.

### MCManagement and MCIdentity

Fifteen components that share no state need no fifteen runs. The
two sums therefore fix, in the initial state, the `part` that steps; the others stay where
they began. What the part can do is exactly what its own specification allows, so each of
its properties is checked over all its behaviours, and nothing of a composition is claimed.
That the sum is its parts is itself a theorem (`IdentityIsItsParts`,
`ManagementIsItsParts`). The modules are extended, so that the runs check the very
definitions the theorems state; only `Reports`, whose names would clash with others, is an
instance, and its property is named again under the condition that its part steps.

## Runs

| Run | Module, configuration | Question |
|---|---|---|
| `webhook_concurrency` | `MCBillingWebhook`, `BillingWebhookConcurrency` | do the two advisory locks make concurrent processing look atomic? `ChargeShowsOneEvent`, `TransactionsIsolated`, `StampMonotone`, `LedgerSpec` |
| `webhook_faults` | `BillingWebhookFaults` | does an event commit once through duplicates, retries, crashes and stalls? `TypeOK`, `AppliedOnce` |
| `webhook_recovery` | `BillingWebhookRecovery` | is a persisted event processed in the end? `EventuallyProcessed` under `FairSpec` |
| `webhook_starvation` | `BillingWebhookStarvation` | ... behind rows that always fail? Violated |
| `webhook_late_failure` | `BillingWebhookLateFailure` | is a processed row left alone by a failed attempt? Violated |
| `prompts_faults` | `MCNotificationPrompts`, `NotificationPromptsFaults` | can an unanswered prompt be fetched until the earliest departure it has had; is it pushed once when nothing fails; does a student see the prompts of `StudentPrompts`? `TypeOK`, `OpenUntilOver`, `PushedOnce`, `PromiseSpec` |
| `prompts_liveness` | `NotificationPromptsLiveness` | does every student of a cron run get a prompt that leaves PENDING? `EveryStudentNotified` under `FairSpec` |
| `charges_serial` | `MCChargeIssuing`, `ChargeIssuingSerial` | one issue at a time: `TypeOK`, `OneActiveCharge`, `OnOneList`, `Released`; is an issue as if done in one step? `BookSpec` |
| `charges_twice` | `ChargeIssuingTwice` | two at a time: `OneActiveCharge`. Violated |
| `boarding_denied` | `MCBoarding`, `BoardingDenied` | is only a student who is not aboard refused to get off? `AboardMayLeave`. Violated |
| `identity_serial` | `MCIdentity`, `IdentitySerial` | `IdentityTypeOK`; pairing: `BusOfOwner`, `CredentialsKept`; rides: `Alternates`; sign-up: `VerificationSpent`; accounts: `StudentAccounts`, `DeactivatedIsOut`; push: `TokenOfRegistrant`, `ClosedStaysClosed`; browser: `OfferedIsAllowed` |
| `management_serial` | `MCManagement`, `ManagementSerial` | `ManagementTypeOK`; location: `TrailIsOneDrive`; schedules: `NoticeExact`, `NoSharedSlot`; roster: `DeactivatedStays`, `NoNewcomers`; plan: `PendingKept`; settings: `ReviewedByPlatform`, `ShowsWhatIsSaved`; reports: `ReportsAgree`; pages: `ShowsItsQuery`, `OneOpening`, `SavedIsListed` |

### Bounds, and why they are enough

* `webhook_concurrency`: one charge, two events, each of five kinds (created, overdue,
  received, undated, restored: every order of their dates and arrivals, an event that
  changes only the gateway's status, one that has the row's own mapped status), the row
  issued or scheduled, two worker slots and a cron run, no faults. A violation of
  isolation or of the order of dates needs two transactions on one charge and a third
  process for the same event; the lock argument does not depend on more, which the
  theorems confirm for any number. Workers and events are interchangeable
  (`SYMMETRY`); no liveness is checked there.
* `webhook_faults`: two charges, two events, one of which carries the gateway id of one
  charge and the reference of the other and so breaks a unique index for ever, the other
  undated; one worker, one cron run, two attempts, two faults. Two faults are a crash of
  an attempt followed by a crash, a stall or an error of the next one.
* `webhook_recovery`: one event, two attempts, two faults: every attempt of its job can
  be lost, and the job removed or still blocking its id.
* `webhook_starvation`: the batch holds one row and the oldest row always fails; the
  default batch of 20 filled with such rows behaves alike.
* `prompts_faults`: one prompt, two cron runs that may overlap after the notice was
  moved, one worker slot, one request of the student, one fault, three minutes. The
  departure is given as minute 0, 1 or 2, with notices before it (`Departures`), so that
  it is moved sooner and later while the prompt is prepared, dispatched, fetched,
  answered or expired: the minute before, the minute itself and the minute after are all
  there. One attempt of a job is enough here: a second attempt is another reader of the
  row, like the second cron run, and the theorem is for any number. That a fetch goes through
  several prompts, in order and up to its limit, is in the module and in the theorem;
  the instance has one.
* `prompts_liveness`: two students on one list, no faults, the departure and its notice
  moved together (`Shifts`), one cron run, so that no two overlap: a refused insert or an error ends a run and drops the rest of its
  list (`notifications/notifications.service.ts:82`), so the property is false beyond.
* `charges_serial`: one student with or without a template, one template, two months
  (the second shorter than the due day), two issues, due days 1 and 2, issue dates 1 and 2
  before, on and after the current day, two days, the gateway reporting OVERDUE or
  CANCELLED. Two issues are the least that can duplicate a charge, or reissue a
  cancelled one.
* `identity_serial`: each of its six parts goes through all its behaviours while the
  others stay where they began. Pairing: two readers, two codes, two companies with a
  bus each, one administrator, a code that lives one minute of two. Rides: two gates of
  two companies, two students, two cards, three events (on, off and on again, with a
  denial anywhere), one tap in progress at each gate. Sign-up: one phone, two challenges,
  two onboardings that may overlap, two companies, two registrations, three domains of
  which one is the platform's, restarts. Accounts: two of them for one student, two
  requests that overlap, one token. Push: two users and two tokens, of which one is
  of the push service, one installation, two rows, two registrations at once, one
  dispatch: the least in which two rows must be merged while a dispatch holds one.
  Browser: one account with each of four roles in turn (COORDINATOR differs from DRIVER
  in one endpoint), two calls on their way. Ids of one kind are interchangeable; the
  parts share the names of theirs so that one symmetry set serves them all.
* `management_serial`: nine parts. Page of the location: one reader, two calls at a time,
  a trail of two points, a gap of two instants and a threshold of one, three instants.
  Schedules: two of one slot, a day of three minutes, departures at 0 and 1, notices of 0
  to 2 minutes (before, at and after midnight), day sets {0}, {1}, {0, 1} (day 0 reaches
  into the week before), one create or update at a time; `NoticeExact` is checked at every
  instant of a week. Roster: one student, two groups, two routes, one request at a time
  (the two lookups and the write still interleave with deactivations). Plan: three plans,
  two requests and two owners. Settings: three calls, since it takes two updates and a
  submission to disagree. Reports: two students, two groups, two routes, a bus, two events
  in a day of two instants, three instants over two days, so that a period can begin or
  end between them. Page of the settings: a blank, an own and a platform content, the three
  overviews. List: two rows, one to a page, one operation, two requests on their way.
  Dialog: three openings: one that is closed over its call, one in which the answer
  arrives, one after.
* Deadlock is not checked in the two sums, nor in runs whose bounds stop them: the
  system really may stop there (every reader deactivated or paired, a clock or a number
  of openings at its bound).

### Fairness

* Webhooks: weak fairness of each process's own steps, of a worker taking and settling
  jobs and of the cron (both containers restart, `@Cron` fires every minute), of the
  passing of the age cutoff (time passes), and strong fairness of the two lock steps:
  Postgres grants an advisory lock to its waiters in the order they came, so a waiter
  is served though the lock is taken again and again. Nothing is fair about the gateway
  delivering, the handler reaching the queue, the removal of a finished job, or a fault.
* Prompts: weak fairness of a running cron run and of the workers. Nothing makes the
  clock, a student or an administrator act, nor starts a run.
* Charges: weak fairness of the hourly release, when it has something to release.

### What the runs found

1. **Starvation of the retry** (`webhook_starvation`). `retryPendingWebhookEvents`
   takes the oldest pending rows; rows that fail every time stay the oldest, so a batch
   full of them hides every later row, against the log line that calls the cron the
   fallback (`billing/billing-webhook.service.ts:495`).
2. **A late failure marks a processed row** (`webhook_late_failure`).
   `markWebhookProcessingFailure` checks `processedAt` and updates in two statements;
   another attempt can commit between them.
3. **Two charges for one month** (`charges_twice`). Two issues read no charge and both
   insert one; the reason the code gives for skipping is that there is one already
   (`billing/billing.service.ts:430`).
4. **A denied boarding strands a student** (`boarding_denied`). A DENIED event counts as
   the last event of the student, who is then told not to be on the bus
   (`transport/transport.service.ts:219`).

Races of the same kind, which no text of the repository rules out, are kept out of the
properties, either by having one request at a time where the bounds say so (the theorems
need less, see "Proofs") or by a history variable that names the case. Each of them is a
behaviour of the model:

* two taps at one device board a student twice; two links of one code move the device
  or change its secret under the reader; two creates of one slot both succeed;
* a departure moved later after it has passed, or sooner and back, leaves the prompts it
  expired EXPIRED; a fetch judges by the departure it read (`earliest`);
* a deactivation of a student, of an account or of a subscription that falls between
  the read and the write of another request is undone (`dormant`, `closed`);
* two overlapping updates of one student can write back a group that was left;
* a plan asked for while an owner applies another is cleared without being applied
  (`owed`); two overlapping onboardings that read one challenge make two companies of one
  verification (`Finishing`);
* a submission during which the gateway is switched off leaves the settings under
  review without it (`late`);
* two accounts that take one student at once: one loses it (`unlinked`);
* a list without a guard, and every refetch, shows the answer that came last
  (`crossed`); a dialog closed over its save and opened again is closed by the answer,
  or shows the card step of another student (`abandoned`).

Other facts worth knowing:

* a charge's status date advances only when a status changes, so `ChargeShowsOneEvent`
  says the row shows the event its date names, not the newest processed one;
* the page resets a trail when a position repeats, so the branch for a repeated point is
  never taken;
* no code writes a `Trip` or an event of type LEAVING: the figures about trips are those
  of an empty table;
* `deleteMany` of students is always refused: a student always has a route
  (`StudentRoute`);
* the reports cut a period at -03:00 but draw its bars in `APP_TIMEZONE`: with another
  offset than -03:00 a chart no longer adds up to its total, which is why `Zone = Fixed`
  in the run;
* the lists of students, devices and buses answer 0 as the last page of an empty list,
  which the links of the table take for "there is a next page";
* a logout whose request fails leaves the cookie, and so the session; a late answer of
  the first "who am I" overwrites the user of a login made meanwhile (the tab then
  shows one account and holds the cookie of another);
* the list of open charges and the card of the first page differ in what they call open.

## Proofs

`tlapm` checks 55 theorems and some 230 lemmas in eight modules (see "Modules"). They
assume only the named assumptions on the constants, which TLC evaluates in the runs:
processes are distinct, the prompts, events and rows of a list are finitely many, months do
not overlap, the bounds are naturals, the payloads and the initial rows have their types,
the initial rows have no date yet and respect the unique indexes, departures and notices are
minutes of a day (`route-schedules/dto` bounds both), a tap is at a gate, the readers are numbered,
what the reports are about is finite, with a group and a route at least,
`None` is none of the values it stands beside. What a theorem asks beyond that is in its
statement, and repeated below: seven theorems, and the two that collect them, ask that no
state has two requests in progress about one thing, a reader, a student, a slot or a
charge (`Spec /\ []Apart => []Inv`, where `Apart` is a condition on states). Any number of
requests about different things may overlap. The races listed under "What the runs found"
violate these conditions, so each says what a lock on that thing would buy. One theorem
asks that the days of `APP_TIMEZONE` begin at midnight of -03:00, as with its default.

* `TypeCorrect`: `Spec => []TypeOK`, by a lemma on the types of what an event writes
  (`NextStatusType`, `WrittenType`), two on jobs, and one step per action.
* `Isolation`: `Spec => []TransactionsIsolated`. `TypeOK /\ TransactionsIsolated` is
  inductive as it stands. `EventIsolated`: who is past the event lock is alone there
  and the row is unprocessed. `ChargeIsolated`: who is about to write is alone on the
  charge, and its snapshot is the current row up to the release sweep. The last part is
  what makes a write from a snapshot right: without it, nothing relates the row that is
  written to the row the plan was made from. Actions that touch neither the charge rows
  nor the processed flags nor a lock (`Neutral`) are dealt with once.
* `ProcessedOnce`: `Spec => []AppliedOnce`, from `Isolation`: only a process that holds
  the event lock commits, and it finds the row unprocessed.
* `StampNeverRegresses`: `Spec => StampMonotone`, from `Isolation` and `WrittenMonotone`:
  the stale check on the snapshot and the guarded UPDATE never write an earlier date, and
  an undated event writes none.
* `ShowsOneEvent`: `Spec => []ChargeShowsOneEvent`, from `Isolation` and `WrittenShows`:
  a dated event leaves the row showing it, or leaves the three columns alone. The snapshot
  may be older than a release, but no event asks for SCHEDULED (`NeverScheduled`), so what
  the release changes is never what an event showed.
* `ImplementsLedger`: `Spec => LedgerSpec`. Initial states map to initial states; `Commit`
  maps to `ProcessEvent` (the snapshot is a basis of the row by `Isolation`, the event
  is not done by the same), the release to the release, and every other action stutters.
* `StaysOpen`: `Spec => []OpenUntilOver` for any number of prompts, workers, cron runs,
  requests and faults, and any departures they are moved to. `OpenUntilOver` is not
  inductive: a process about to write EXPIRED could have any reason. `Inv` adds `EarliestOK`
  (the departure of a prompt that exists is not before the earliest), `ExpiryJustified`
  (such a process saw a departure pass that is not before the earliest, and a fetch holds no
  earlier one; neither time nor `earliest` goes back) and `RowsJustified` (an EXPIRED
  prompt is over, an ANSWERED one has a response: the two columns are written in one
  transaction). That `earliest` is set when a row is created disturbs nobody, since
  whoever marks or fetches a prompt works on one that exists (`Exist` in `TypeInv`).
* `ImplementsPromise`: `Spec => PromiseSpec`, for any number of processes and faults. Each
  write of a status is one step of `StudentPrompts`: an EXPIRED is a `Withdraw` because of
  `ExpiryJustified` in `Inv`, an ANSWERED is an `Answer` because one transaction writes the
  prompt and the confirmation, a DISPATCHED or a reset is a stutter when the prompt is shown and an
  `OfferAgain` when it is not. `RescheduleEarliest` makes a schedule update an `Advance`.
  `TypeInv` gives that a prompt that is written exists.
* `PromptTypes`: `Spec => []TypeOK` of `NotificationPrompts`, with `TypeInv` for whose
  prompt a process works on.
* `PromptPushedOnce`: `Spec => []PushedOnce`. While no fault has happened, a worker slot
  that works on a prompt holds its job, so no other slot does (`SlotHoldsJob`,
  `JobHasSlot`); a prompt that was pushed is marked before the job is let go
  (`PushIsMarked`), and a slot about to push has a prompt that was not (`PushIsNew`).
  None of this survives a fault, so the inductive invariant is `faults = 0 => Calm`.
* `DevicePairing`: `PairingTypeCorrect` for any number of administrators, with the codes
  of different readers kept apart. `BusIsOfTheOwner` and `ReaderKeepsCredentials` as long
  as no two requests are in progress about one reader (`OneRequestADevice`):
  `ReadIsCurrent`, the company and secret that a link read are still those of the row when
  it writes, is what two of them break.
* `ChargeIssuing`: `IssuingTypeCorrect` for any number of issues that overlap.
  `OneActive` as long as no two issues that are about to insert have a student, template
  and month in common (`IssuesApart`): `ReadsAreCurrent`, an issue read every charge in
  force that concerns it, is what an issue of the same breaks (`charges_twice` shows it).
  `UnpaidOnOneList`: `OnOneList`, from the types.
* `IssuesAreAtomic`: under the same condition `Spec => BookSpec`. `CommitIsIssue`: although
  a commit rests on the reads of earlier statements, and students, templates, statuses and
  other issues have moved on since, it adds what an issue in one step would add now.
* `PlanChange`: `StaysPending`, `Spec => []PendingKept`, inductive with `PlanTypeOK`.
* `BillingSettings`: `ReviewIsOfThePlatform`. `ReviewedByPlatform` alone is not
  inductive: an update in progress carries a status it computed from an earlier row.
  `UpdatesConsistent` says that the status and the gateway an update will write agree,
  `SubmissionsKnow` that a submission that is not late found the gateway on.
* `BillingPage`: `RestingPageShowsOverview`. `FormConfirmed` adds what the form is while
  something is on its way: the last overview, unless it is edited or an answer is due
  that will fill it.
* `FormDialog`: `DialogIsAboutOneOpening` and `SavedRowsAreListed`, for any number of
  openings: a call on its way is of the opening that is open, unless one was abandoned.
* `PushSubscriptions`: `DeviceIsOfItsRegistrant` is inductive with the types.
  `ClosedIsNotRevived` needs `ClosedUnheld`: no dispatch holds a row that was closed while
  none held it, so no ticket writes it.
* `Roster`: `DeactivationLasts` needs `Dormancy`: a request about a dormant student that
  leaves the flag out read it as inactive. `NobodyMovesToTheSealed` holds as long as no two
  requests are in progress about one student (`OneEditAStudent`): by `Routed` and
  `Placement`, what a request may write is a place that is open, or one the student has.
* `Boarding`: `RidesAlternate`, as long as no two taps of one student are about to be
  recorded at one device (`OneTapOfAStudent`). The inductive invariant adds to `Alternates`
  that what a tap was allowed when it read the last event (`Allowed`) still fits when it
  writes its own (`TapsFit`), which two taps of one student break.
  `EventsAt` and `LastEvent` of the other devices and students are shown to be left alone.
* `CompanyOnboarding`: `VerifiedOnce`, from `ChallengesExist`: the challenge of a phone or
  of an onboarding exists and is of that phone. So the onboarding that created a company
  removes, by phone, the very challenge that `current` has, unless another took its place.
  An onboarding that starts later finds no verification to use; those that overlap it may
  have read the same challenge and each make a company, which the theorem does not exclude.
* `UserAccounts`: `OneAccountPerStudent` and `DeactivatedStaysOut`. `EditsTheirs` (an update
  is of an account that exists, a creation of one that nobody else creates),
  `RowsHaveStudents` (what is about to be written as an account of a student has one) and
  `DormantOff` (a dormant account, and what an update that leaves the flag out is about to
  write over it, is inactive) make them inductive. An account deactivated between the read
  and the write of an update is not dormant: the update revives it (`users.service.ts:207`).
* `RouteScheduling`: `NoticesAreExact` for every length of the day. `Derived` says of every
  row, stored or about to be, that its notice is the one computed from its departure; that
  this notice is exact is arithmetic (`DivisionMod`, `OneDivision`, `NoticeInstant`,
  `NoticeWeekday`: the remainder across midnight, the weekday across the week).
  `SlotsAreApart` as long as no two requests are about to write one slot
  (`OneRequestASlot`): `SlotsInv` adds that the slot a request found available still is when
  it writes, since deactivations only free slots and the others write other slots.
* `LiveLocation`: `OneDrive`. The server answers with a report of a reader of the bus
  (`LinkedReaderIsLinked`), an answer has a point exactly when its state says so
  (`AnswersOK`), and `NextTrail` of a drive is a drive (`DriveExtended`, `TrailAfter`).
* `ListScreen`: `PageShowsItsQuery`. `Settling`: without an operation on its way, and
  unless an answer crossed or was lost, every answer on its way is harmless to a page that is
  up to date, or the newest one will bring it up to date.
* `Session`: `OfferedPagesAllowed`, an action property. `SidebarPermitted` shows of every
  role and every page of its menu that the controllers admit the role (`EndpointRoles`,
  `PagesPermitted`); `Proper`, the invariant, that a request of a page still carries the
  user it was shown to and the roles of an endpoint offered to that user. A refusal
  therefore means that the role of the account behind the cookie is another.
* `Reports`: `ReportsTellOneStory`, `ReportsAgree` for any log, company, horizon and length
  of the day. Each total is a sum of counts over rows or days, and equals the number of
  pairs of a row and an event it counts (`SumFunction` over a finite set); two totals agree
  because their pairs correspond. That a sum of counts is a count of pairs is shown
  without an induction rule, which would take a predicate: among the finite sets on which
  it failed there would be a least one, and a row less would still fail. The inductive
  invariant is that the log is finite and that only a denial is of a card of nobody. In another
  zone than -03:00 a day at the edge of the period has no bar, hence the hypothesis.
* The types of every module (`PlanTypeCorrect`, `SessionTypeCorrect`, ...).
* The sums: `IdentityIsItsParts` and `ManagementIsItsParts`, `Spec` of the sum implies the
  specification of each component. Hence `IdentityTypeCorrect`, `ManagementTypeCorrect`, and
  `IdentityIsSafe`, `ManagementIsSafe`: what the two runs check, for every value of the
  constants, each part under the condition of the theorem it comes from.

Every safety invariant, action property and refinement of the passing runs is thus a
theorem. Only model-checked are the three liveness properties (`EventuallyProcessed`,
`EveryStudentNotified`, `Released`): the prover does not reason about fairness and
enabledness.

## Not modelled

* Of the modelled components: the checks that only reject a request (signature, token
  and IP of a webhook, ids of another company), names, addresses, passwords, message
  texts, coordinates, headings, the columns and the order of a report, the fields of a
  form, totals, the arithmetic of dates behind the occurrence key.
* The parsing of the Redis connection, opaque ids and the check of the origin: stateless,
  they decide on one value or one request alone.
* Bootstrap, module wiring and configuration: no state of the system.
* The sign-up page (`src/frontend/src/app/cadastro`): a wizard over three calls that
  `CompanyOnboarding` models at the server; its own state is the step it shows.
* Pages that only show, layout, maps and drawing components.
* Compositions of components that share a row: prompts with real subscriptions (a push
  has a free outcome in `NotificationPrompts`), issuing with the webhook pipeline (the
  gateway reports a status at any time in `ChargeIssuing`), boarding with pairing. Each
  side lets the other do more than it can, so what holds of it holds of the whole.
