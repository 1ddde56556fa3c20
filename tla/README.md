# OrgFlow: a verification development

OrgFlow is a multi-tenant workflow platform. Organisations describe processes
(a form, steps, rules, deadlines), people open cases of them, and a workflow
engine moves each case from task to task until it ends. These modules model the
parts of it where steps of several actors meet over shared state, and the
algorithms they rest on. TLC checks them on small instances; TLAPS proves the
safety properties that matter most for all instances.

All paths below are relative to the repository root.

## 1. Inventory

| Component | State it keeps | Operations | What makes it correct |
| --- | --- | --- | --- |
| Workflow engine, `packages/core/src/engine` | none, a pure function | `advance` for five events: submitted, resubmitted, cancelled, task decided, escalation triggered | every answer is typed and either moves the case somewhere a person can act, ends it, or marks it unassigned; automatic steps terminate |
| Case tables, `packages/db/src/repositories/{cases,case-tasks,sla-timers}.ts`, `apps/api/src/cases/persist-engine-output.ts` | `cases`, `case_tasks`, `sla_timers` (PostgreSQL), `caseValues` (MongoDB) | create, claim, decide, cancel, escalate, schedule, fire, the version-checked `updateCaseState` | case, tasks and timers agree; a stale writer loses |
| Case and task requests, `apps/api/src/routes/{cases,tasks}.ts` | what a handler read, for the time it runs | create, patch, submit, resubmit, cancel, claim, decide | ended cases stay ended; a pin never changes; a decision moves the case it was made on; a claim has one winner |
| SLA sweep, `apps/api/src/sla/sweep.ts` | the batch of due timers, for one tick | remind, escalate, mark fired, publish | no timer is lost, no level is reached twice, one bad timer does not stop the rest |
| Definitions, `apps/api/src/routes/process-definitions.ts`, `packages/db/.../process-definitions.ts`, `packages/documents` | `process_definitions`, `process_versions` (PostgreSQL), the document of each version (MongoDB) | create, save draft, publish, allocate a reference | at most one draft; what is published never changes and passes its integrity check; references are unique |
| Notification workers, `workers/src` | `notifications` rows with a lease, SQS messages | publish, receive, claim, send, mark, give up | each recipient is served; a second email has an excuse; every message leaves the queue |
| One-click links, `repositories/task-decision-tokens.ts`, `routes/tasks.ts` | `task_decision_tokens` | mint with the email, confirm, expire | a link works once, a task is decided once |
| Attachments and scanning, `apps/api/src/routes/attachments.ts`, `workers/src/attachment-scan` | `attachments`, objects in S3 | presign, post any number of times, confirm, scan, download, delete | nothing unscanned is downloadable; rows lead to the objects they are about |
| Retention and data protection, `apps/api/src/retention`, `routes/data-protection.ts` | `redacted_at`, values, objects | redact, change the period | a redaction that stops half-way is completed by the next sweep; what it leaves is known |
| Organisations, members, groups, invitations, delegations | rows of the same names | found, invite, accept, revoke, change roles, remove, delegate | an owner remains; an invitation is used once; whoever is named has a membership row |
| Working calendar, `packages/core/src/engine/calendar.ts` | `organisation_calendars`, `organisation_holidays` | edit settings, count hours of work | a deadline is the instant by which exactly so much work was possible |
| Conditions and form values, `packages/core/src/conditions` | none, a pure function | evaluate, list warnings | agree with a three-valued reading, but for `neq` between types |
| Builder, `apps/web/src/features/{form-builder,workflow-builder}` | the document a page edits | edit, validate, save, publish | what is published runs; a page without unsaved changes shows what is saved |
| Templates and cloning, `apps/api/src/routes/templates.ts`, `packages/core/src/templates` | `templates`, `process_definitions`, documents of both | create a process, save as, share, rename, delete, clone | rows have their documents, nobody from another organisation is named; keys are unique; a template holds what its author saw |
| Shipped templates, `packages/documents/src/seed` | none | seven documents | they run, and take the approvals their amounts ask for |
| Simulator, `apps/web/src/features/workflow-simulator` | one run in the browser | start, decide, edit, reset | waits on one task at a time |
| Filling in, `apps/web/src/features/cases` with `routes/cases.ts` | pages with answers and files | type, save, submit, amend, upload | what is submitted is all that was asked and no more |
| Sign-in, `apps/api/src/auth`, `routes/{auth,identity-providers}.ts`, the seed of a development sign-in | cookies, `users`, `user_identities`, `identity_providers` | log in, call back, log out, accept, edit providers, seed | one user per account; a session was earned in that browser |
| Task queues, `repositories/case-tasks.ts`, `apps/web/src/features/approvals` | the page somebody looks at | list by cursor, open, claim | reading to the last page shows every row that stayed |
| Reports, `repositories/reports.ts` | none, queries over `cases`, `case_transitions`, `case_tasks` | volume, turnaround, durations, rejections, load | parts agree with one another and with the rows |
| Tenancy, notification preferences API, comments, event publication, timeline and audit, the other pages, infrastructure | policies, append-only rows, none | | section 8 |

How they interact: a request handler reads rows in a PostgreSQL transaction,
calls the engine with them, and persists what the engine answers in the same
transaction; in between it reads and writes MongoDB and S3, which are not part
of it. Events are published to SNS after the commit and reach the workers
through SQS; the workers send email, which carries links back into the API, and
scan files. The SLA and retention sweeps are timers inside every API process;
they do what a handler does, on behalf of nobody. The browser keeps drafts of
documents and answers for as long as a page is open, and sends them in requests
whose answers may be lost.

What is hard to test in this: handlers and ticks interleave at every `await`;
only `row_version` keeps two writers of a case apart, and some writes do not
compare or raise it; writes to MongoDB and S3 survive a roll back; a sweep works
in several transactions and may die between them, and nothing keeps two sweeps
apart; events are published after the state that caused them, and delivered late,
twice, or never; several tabs share cookies and drafts. `PROJECT.json` lists each
hazard with the line where it bites and the properties aimed at it.

## 2. Plan

In the order written, most important behaviour first. All of it is done.

1. `WorkflowEngine`, `CaseStore`, `CaseRequests`, `SlaSweep`, `CaseSystem`: one
   case under everything that acts on it; abstract specification `CaseContract`.
2. `DefinitionStore`: one definition; abstract specification `PublicationLog`.
3. `NotificationDelivery` and, on top of it, `DecisionLinks`.
4. `AttachmentCustody`: files, scanning, redaction.
5. `Organisation`, `WorkingCalendar`, `SignIn`, `TaskQueue`, `Reports`.
6. `Conditions`, `FormRuntime`, `ProcessBuilder`, `TemplateLibrary`,
   `ShippedTemplates`, `Simulation`.
7. Proofs, component by component: the case, the definition, the work of a case
   and its contract, notifications, custody, organisation, pages, calendar and reports,
   conditions and forms, shipped processes.

Left: the end of section 5 says what is only model-checked, section 8 what is not
modelled.

## 3. Modules

| Module | Models | Extends |
| --- | --- | --- |
| `WorkflowEngine` | `advance()` as one operator per event, each returning the set of outputs the code may return | |
| `CaseStore` | the rows of one case, the repository functions on them, `persistEngineOutput` | `WorkflowEngine` |
| `CaseRequests` | the request handlers | `CaseStore` |
| `SlaSweep` | sweep ticks and the passing of time | `CaseStore` |
| `CaseSystem` | their composition, and its properties | `CaseRequests`, `SlaSweep` |
| `CaseContract` | the abstract, sequential case | `WorkflowEngine` |
| `DefinitionStore` | one definition: its rows, their locks, the documents, the requests that share them | |
| `PublicationLog` | the abstract definition: a log of published contents | |
| `NotificationDelivery` | one domain event after another on its way to people | |
| `DecisionLinks` | links in emails, and the decisions they race with | `NotificationDelivery` |
| `AttachmentCustody` | the files of one case from upload to redaction | |
| `Organisation` | who belongs to an organisation and how that changes | |
| `WorkingCalendar` | calendar settings and deadline arithmetic | |
| `SignIn` | sign-ins, sessions, providers, the development seed | |
| `TaskQueue` | the approvals screen and who may do what there | |
| `Reports` | the rows transactions leave and the aggregates over them | |
| `Conditions` | the condition evaluator, and a three-valued reference | |
| `FormRuntime` | filling in, submitting and amending a request | `Conditions` |
| `ProcessBuilder` | pages editing, saving and publishing one process | |
| `TemplateLibrary` | processes and templates of several organisations, between two stores | |
| `ShippedTemplates` | the shipped processes as documents of the engine | `WorkflowEngine` |
| `Simulation` | the simulator | `ShippedTemplates` |
| `MCCaseSystem`, `MCDefinitionStore`, `MCNotifications`, `MCCustody`, `MCOrganisation`, `MCPages`, `MCTaskQueue` | the instances TLC checks | the above |
| `CaseSystemProofs`, `CaseWorkProofs`, `DefinitionStoreProofs`, `NotificationProofs`, `CustodyProofs`, `OrganisationProofs`, `PagesProofs`, `FormProofs` | section 5 | the above, TLAPS |

The components meet where one takes for granted what another shows.
`DefinitionStore` shows what a pinned version is worth: it stays published, and
its row, hence its hash, never changes; `CaseSystem` takes a version to be a
constant document on that ground and shows that the case keeps to the one it was
submitted with. `ProcessBuilder` shows that what is published takes its cases
only to steps that exist, but for automatic steps nobody checks; `CaseSystem` does
without that and lets rules lead anywhere. `Organisation` shows that whoever a group
or a delegation names has a row; `CaseSystem` lets directories find anybody or nobody. `DecisionLinks` leaves
what a decision does to its case to `CaseRequests`.

### WorkflowEngine

An operator such as `TaskDecided(ctx, row, decision, comment)` stands for one
branch of `advance()`. It returns a singleton, or `{}` where the code returns
errors and no case update. Data is abstracted to what routing depends on:

- a condition is a model value, and a context carries the set of conditions that
  hold for the values; `selectNextStepKey` takes the first rule whose condition
  is in it or that has none;
- assignment resolution is a function from strategies to a person, a pool
  (a role or a group) or `Nobody`; delegation is part of that function;
- a due date is whether the step has one; `computeTimerSpecs` gives a reminder
  (timer 0) and one timer per escalation rule.

Automatic steps are iterated by a recursive function bounded by
`MaxAutomaticSteps` (20 in the code, 3 in the instances, which is enough for a
loop of two steps to run out of iterations). `Output` keeps what
`persistEngineOutput` uses: whether and where the case moves, the tasks to
create with their timers, and the event.

### CaseStore

`caseRow`, `tasks`, `timers`, `values`, `current` are the tables. A transaction
is READ COMMITTED: its reads are separate actions, its writes take place in the
action that commits, which is where `row_version` is compared; PostgreSQL
re-evaluates the `WHERE` of an `UPDATE` after waiting for a row lock, so the
comparison at commit time is the one that counts. A row is absent until it is
created. `born`, `visit` and `late` are history variables: in which visit of the
case to a step a task was created, which task it was escalated from, and which
tasks were claimed when they were closed already.

`PersistEngineOutput` is the whole of `persistEngineOutput`: the version-checked
update of the case, the sweep of open tasks and timers when it ends, the timers
of a decided task, the new task and its timers, the recorded escalation level.

### CaseRequests

A handler in flight is a client with a program counter. It reads (`Start...`,
`ReadCase`), reads and writes the values document (`ReadValues`, at once and
outside the transaction; `put` is the contents that merging the body gives), and
commits or rolls back. `RollBack` is any conflict, deadlock victim, lost
connection or crash. `PublishVersion` moves `current_version_id` to any other
version, back included: a publication that read its draft long ago still commits
(`PointDefinition` of `DefinitionStore`). Publishing events after a commit
touches none of these rows and is left out.

### SlaSweep

A tick takes the due timers (`StartTick`), works through them one at a time
(`TakeTimer`, `ReadTask`, `ReadEscalatedCase`, `CommitEscalation`), marks the
timer fired in a transaction of its own (`MarkFired`) and publishes last. Several
ticks run at once: every API process has a sweep, and `setInterval` does not wait
for the previous tick. `ProcessTimerThrows` is the `catch` of the loop;
`ProcessDies` a process that goes away, for the ticks listed in `Unreliable`.
Timers fall due in any order, because deadlines are computed from calendars the
model does not have. The event of an exhausted escalation is not told apart from
other events: nothing the case does depends on it.

### CaseContract

The case as one sequential object with a state of status, step and version:
submission, resubmission, decision, cancellation and exhausted escalation take
effect at once on the state as it stands, as the engine answers for the pinned
version; a submission may pin any version. `CaseSystem` implements it under the
mapping that reads `state` off the case row.

### DefinitionStore

The state is `version` (rows of `process_versions` by number: status and document
hash), `document` (what their `document_id` leads to in MongoDB), `current` and
`counter` (columns of the row of `process_definitions`), and `pinned` (what each
case of the definition was submitted with). A content stands for itself and for
its SHA-256 hash, so "the hash matches" is equality. A row that is absent, and
its document, keep the bootstrap content as filler; nothing reads them.

A handler is a client whose program counter names the statement it is about to
run:

| Request | Steps |
| --- | --- |
| save a draft | `StartSave` (locks the definition), `LookUpDraft`, then `ReplaceDocument` and `RecordHash` for an open draft, `InsertVersion` for a new one |
| publish | `StartPublish` (finds the draft, locks nothing), `MarkPublished` (locks the version), `PointDefinition` (the definition, and commit) |
| submit | `StartSubmit` (reads the version and verifies its document), `AllocateReference` (locks the definition), `PersistSubmission` or `Conflict` |

Locks are no variables: which rows a handler has updated follows from where it
is (`HoldsDefinition`, `HoldsVersion`), and a step that updates a row needs it
free. The writes of a transaction become visible in the action that commits it,
except the document, which `ReplaceDocument` changes for everyone, outside the
transaction. A last statement and the commit that follows it are one step, and so
are the reads of version and document in a submission, because the properties
speak of what was read, not of when. `RollBack` is any refusal, error or crash, and
leaves a replaced document as it is. A `Fragile` client can also lose its
database session, and with it its locks, while its `replaceOne` is still on the
way (`LoseSession`, `OrphanedReplace`). Saves lock the definition first and the
version last, publications the other way round; `BreakDeadlock` is PostgreSQL's
deadlock detector.

Mark and point are two statements of `publishProcessVersion`, and the version is
found by its id alone, whatever its status: that is why a publication that waited
can publish again what was published long ago.

### PublicationLog

What a definition promises its cases: a log of published contents that grows by
one entry at a time and never changes; a submission pins an entry, content and
all, and takes a reference beyond every earlier one. `DefinitionStore` implements
it with the recorded hash of a published version for its entry; drafts, locks,
documents and roll backs cannot be seen.

### NotificationDelivery

One event after another from `Publish`, which may lose it, to the mailbox.
`message` is where the message is and how often it was received; `row` is the
`notifications` table by idempotency key (event, person, channel). A worker is a
Lambda invocation, which a time limit stops (`Abandon`), or the polling consumer,
which none does (`Slow`). Its program counter follows `handle-task-created.ts`
and its siblings: resolve the recipients, for each read the preferences, claim
the email row, write the in-app row, send, mark. `LeaseRunsOut` is the passing of
five minutes; `created_at` is that of the first claim, so taking a row over does
not renew it. `accepted`, `excuse` and `promised` are history: emails the provider
took, failures nobody can tell from a delivery, and what finished handlers found
they had to deliver.

### DecisionLinks

Every attempt at an email about a new task mints a link. `Request` are the
`/confirm` handlers with their two reads and version-checked commit, next to
whoever decides the task in the product and the end of the case. The link is
spent before the decision is made, and stays spent when that is refused.

### AttachmentCustody

The `attachments` table and the object store side by side, no transaction across
both: presign, upload, confirm (with `maxFiles`), publish, download, delete; the
scanner's fetch, copy to quarantine, removal and mark; the retention sweep's
tombstones, listing, deletions and mark. A presigned form (`upload`) can be posted
any number of times until it expires, whatever has become of the row: each post puts
a file under the original key, infected or not (`Upload`, `FormExpires`). Every call
to the store may fail and every process die (`MaxFaults`). Retention is counted in
days, so that no form and no request outlives a window (`WindowElapses`); by then the
pinned document may have been spoiled (`legible`), and `redactCase` returns without
redacting. `astray` and `again` are history: files a scan moved whose row did not
follow, and files posted again after their confirmation.

### Organisation

Every handler of organisations, members, invitations, groups and delegations.
What is read may have changed by the time it is written, since nothing is locked
before it is written; creating an organisation and accepting an invitation are two
transactions each, and may stop between them (`Stop`). A group's key is computed
from the keys there are and kept unique by an index. `loose` and `overlapped`
record when requests overlapped: the properties that need them not to have, say
so.

### WorkingCalendar

Time in ticks, days of four and weeks of three of them, clocks that change once.
`toInstant`, `addWorkingHours` and the search for a working day are operators
translated statement by statement, the loop over days (`WorkOneDay`) as a recursive
function of the number of days (`Consume`); `WorkedBetween` counts the ticks of work
between two instants and is the definition deadlines are compared with. Settings and
holidays are edited while tasks are created.

### SignIn

A sign-in is a tab's round trip: `Login` leaves the flow cookie, of which a
browser has one for all its tabs; `Callback` arrives with a profile; then the
identity, the user and the memberships are found or created in statements of
their own, and `Answer` sets the session. Cookies change when an answer arrives,
so that answers of several requests cross. Providers, memberships and invitations
change meanwhile. `DevLogin`, `Look`, `Insert` are the development sign-in, which
seeds the database one statement after another and may fail at each.

### TaskQueue

Both lists of the approvals screen with their composite cursor, previous pages
kept in the URL, and the decision page behind a row (`Shown`: 404, claim, decide or
read only). Tasks are created, claimed, decided and cancelled, and memberships
move. `steady` and `seen` are history: the rows in the list ever since its first
page was read, and those the reader was shown.

### Reports

Transactions write `cases`, `case_transitions` and `case_tasks`, all rows of one
transaction with one instant; a query sorts by it, so rows that share it come in
any order. One tick stands for three clocks: `submitted_at` and `completed_at` are the
API's, `occurred_at` is the start of PostgreSQL's transaction. What the parts add up to
exactly in the model they add up to within their difference in the code. The aggregate
queries are set comprehensions over these rows, with joins as they are in the SQL.

### Conditions and FormRuntime

A condition is the sequence of its parts, each after those it consists of, so that
the recursion of `evaluateInto` is a recursive function of the position:
`EvaluateCondition` is the evaluator with every operator and its coercions, `Truth` a
three-valued reading written independently of it, in which no two types compare:
there `eq` is unusable without a warning, and `neq` is where the two part
(`Differs`, section 4). `FormRuntime` has pages with answers and files, of several
versions of one form; sending, saving and submitting, with answers to requests that may
be lost. The browser evaluates without the submitter's department and takes a
condition that mentions it to hold (`IsVisible`); the engine evaluates with
`Department`.

`doubt` records the first thing that came between answers being validated and
their case being submitted, for which the properties cannot hold:

| Doubt | What happened |
| --- | --- |
| `overlap` | answers were written while another request was submitting, or after the case they were read for had moved on |
| `republished` | the submission pinned a version newer than the form that was filled in |
| `file` | a file was removed that another page, or a submission under way, counted |
| `hidden` | the answers sent, or sent over those kept, ask for something else than the page did |
| `kept` | a resubmission kept answers that the page no longer asks for |

### ProcessBuilder

Pages that each hold a copy of the document. An edit is any of the builder's
operations with all its consequences: removing a step leaves the rules that lead to
it, changing its type replaces its decisions and leaves their rules, and each decision
can be ticked and unticked whatever the type. `ClickSave`, `SaveDraft`,
`Saved`, `PublishDraft` are the two requests of a publishing click with the edits
that land in between. `Blocking` is the validation that disables the button;
`Reached` is what the engine makes of a document, whichever conditions hold: people
take the decisions a step allows, an automatic step takes `complete`, ticked or not
(`Taken`).

### TemplateLibrary, ShippedTemplates, Simulation

`TemplateLibrary` has processes and templates of several organisations: rows of
PostgreSQL, and documents and blueprints in MongoDB, which stay when the rows they were
written for are rolled back. A desk is a tab with a request under way, and a request is
in as many steps as it has writes others can see:

| Request | Steps |
| --- | --- |
| create a process | `CreateProcess` (`allocateDefinitionKey`: the key, `-2` and so on to `-99`), then as below |
| copy a template | `ReadBlueprint`, `ChooseKey` (`cloneTemplate`: `_2`, `_3`, in the end the time), then as below |
| both | `CreateDefinition` (an insert of a key somebody has inserted waits, or fails), `InsertDefinitionDocument`, `CreateVersion` and commit |
| save as a template | `SaveAsTemplate`, `BeforeSave` (the page's save), `InsertTemplateDocument`, `CreateTemplate` |

The save writes its document over the open draft's, or a new one, and its rows after it:
both are committed, or the document alone stays, or nothing was written. The template
is then read from the document of the highest version number (`Latest`), of which there
may be several (`Orphan`). The steps of one save and its interleaving with a publication
are `DefinitionStore`'s; a save that reaches the API only after the template was read is
left out. Documents keep what cloning looks at: the key, and the assignment and
escalations of each step with the organisation whose people or groups they name.

`ShippedTemplates` are the seven documents as `WorkflowEngine`
takes them; `Simulation` runs them, and clones of them (`AsCloned`), with the
operators of `WorkflowEngine` itself.

## 4. Properties and runs

Every property, with its meaning in words and the code it is about, stands next to
its definition. The first four runs use `MCCaseSystem`. Version 1 of the
instance's definition has a review by the manager (approve, reject with a comment,
return), for large amounts a step of a pool whose only rule stops matching when a
small amount is recorded, and an automatic step; version 2 starts with automatic
steps that loop for large amounts and leads to a step that does not exist.
Directories say whom the strategies find: everybody, the requester as her own
manager, no boss, nobody. `MCOrganisation` and `MCPages` hold several independent
models: a behaviour is about one `part` of them, chosen in its initial state, and
the others stay as they began.

| Run | Instance | Shows |
| --- | --- | --- |
| `requests` | 2 handlers, 2 versions, 3 tasks, `row_version` up to 4 | `WorkMatchesTheCase`, `TerminalIsFinal`, `DecisionMovesItsCase`, `ClaimIsExclusive` |
| `overlap` | 2 mortal ticks, 1 handler, 2 escalation levels, 1 version | `IInv`, `ActiveCaseHasWork`, `LiveTimerHasOpenTask`, `FreshEscalationIsNew`, `ImplementsContract` |
| `sweep` | 1 tick, reminder and 2 levels, 1 handler, 3 tasks; every timer may fail between any two of its transactions and every time, fair | `EscalationLevelsDistinct`: a timer processed again does not duplicate a level; `DueTimerIsTaken` |
| `definitions` | 3 requests that keep their session, 3 versions, 2 cases | `IInv`, `OnlyNewestIsDraft`, `ReferencesAreHandedOutOnce`, `PublishedRowsAreFixed`, `PinnedDocumentsVerify` |
| `requests_end` | 2 requests that may lose their session, 3 versions, fair | `ImplementsLog`, `RequestsEnd`: the two lock orders never leave everyone waiting |
| `notifications` | 2 workers, one without a time limit, 2 people (one without a users row), 5 kinds of payload, fair | `DeliveryInv`, `RepeatsAreExcused`, `NobodyIsPassedOver`, `LinksDecideOnce`, `MessagesLeaveTheQueue` |
| `custody` | 1 file, infected or not and posted any number of times, 1 request, 2 scanners, 2 sweeps, one fault, fair | `CustodyInv`, `RedactionLeavesOnlyStrays`, `ConfirmedFilesAreScanned`, `EligibleCasesGetRedacted` |
| `organisation` | five parts: people, calendar, sign-in, queues, reports | `OrganisationInv`, `SerialChangesKeepAnOwner`; `DeadlineIsTheLastWorkingMinute`; `SignInInv`; `QueueInv`; `ReportsInv` |
| `pages` | four parts: building, templates, filling in, trying out | `PublishedWorkflowsRun`, `CleanMeansSaved`; `LibraryInv`, `TemplatesHoldWhatWasShown`; `SubmissionsAreSound`, `UnusableNeverMatches`; `SimulationsRunTheTemplates` |

Three runs state what a comment or the requirements say and TLC finds violated; each is
a finding in `PROJECT.json` with the line quoted.

| Run | Property | What happens |
| --- | --- | --- |
| `lost_notification` | `NothingIsLostSilently` | the redelivery of a dead worker's message comes before its lease has run out, finds the row in flight and resolves: the email is never sent |
| `offered_tasks` | `OfferedTasksCanBeOpened` | a member of a pool is offered a task in the queue and answered 404 when opening it to claim it |
| `mismatched_neq` | `MismatchesAreFalse` | a rule asks that a number be unlike a text: it matches, without a warning, and the case is routed by it |

### Observations

Other places where the code does not do what a comment, a test or the PRD says, or
what a reader would expect, came up while the modules were written. They have no
run; the modules contain the steps, except where another place is named.

Cases and the sweep:

- A claim that read its task before the case ended reopens the cancelled task: the
  exception of `WorkMatchesTheCase`.
- A refused decision has already written its output values
  (`apps/api/src/routes/tasks.ts:233`), and a draft edit that read the case before
  its submission lands in the values after it (`cases.ts:410`).
- A task left over from an earlier visit to a step decides a later one
  (`tasks.ts:208`).
- A crash before `markTimerFired` lets the next tick escalate again, ahead of its
  deadline (`apps/api/src/sla/sweep.ts:88`). With two sweepers in `sweep.cfg`
  `EscalationLevelsDistinct` fails: of two overlapping ticks one reads the task
  before and the case after the other's commit (`sweep.ts:190`). What holds then is
  `FreshEscalationIsNew`: an escalation whose level is still the stored one is new.
- A timer whose publication failed has been marked fired and is not retried; the
  comment at `sweep.ts:76` says it is.
- The assignee found by an escalation is not checked against self-approval again
  (`advance.ts:246`), and the guard does not look into pools.
- A one-click link is spent although the decision it carries is refused.

Definitions:

- A save that rolls back after replacing the document leaves a draft whose hash
  does not match; published, it does not verify
  (`packages/db/src/repositories/process-definitions.ts:446`).
- With `Fragile = {p, q, r}` in `definitions.cfg`, `PinnedDocumentsVerify` fails: a
  `replaceOne` outlives the lock that made it safe.
- A publication that found its draft long ago still commits, after its successor
  too, and makes the old version current again (`process-definitions.ts:365`).
- Publishing never archives the version before it (PRD section 8.1 says it does).
- A submission that is rolled back returns its reference number; the comment at
  `process-definitions.ts:387` says it leaves a gap.

Builder, templates, simulator:

- An automatic step takes the rules of `complete` whether or not that decision is
  ticked, and the panel looks at ticked ones only: a published document can lead such a
  step to a step that does not exist, or leave it without a rule, without an issue shown
  (`advance.ts:494`, `validation.ts:60`; `Unchecked`).
- The API does not validate a document when it is published, though
  `advance.ts:358` and `evaluate.ts` rely on it: only the page does, and a publishing
  click publishes whatever draft another page saved in between.
- `moveTransitionRule` can put the default rule first; a step without allowed
  decisions passes validation; keys of removed steps are given out again; option
  values may repeat; `computeLayout` gives up looking for reachable steps at a
  bound (not modelled).
- Editing the settings does not mark a page as unsaved; edits made during a save
  are marked as saved.
- Saving as a template after the save of the draft failed templates the old
  version, against `save-as-template.tsx:57`; so may a save that was rolled back before,
  whose document of the same version is still there (`templates.ts:175`); the second template
  of one process fails on the unique key; concurrent copies collide on it; a deleted template
  leaves its document; a copy is named after the blueprint, not the renamed
  template.
- The simulator cannot reject in shipped templates: they require a comment and it
  sends none; the refused task closes all the same.

Filling in:

- `not` over a comparison that cannot be made is TRUE, though PRD section 5.3 and
  `operators.ts` say such a comparison never matches.
- The API never validates answers (`validate.ts:3` says it does). Submitting pins the version
  current at that moment, whichever the page showed; the button is not disabled
  while a save is under way; a resubmission merges, so that hidden answers stay;
  the summary of submitted values ignores the visibility of sections.
- `maxFiles` counts confirmed files only.
- A presigned form can be posted again after the file was confirmed and scanned
  (`s3-store.ts:66`): the row keeps the verdict on the file before, and a file posted
  again after its quarantine is not among those a redaction deletes.

Organisation and sign-in:

- Two concurrent changes of members, or an accepted invitation that replaces a
  role, can take away the last active owner; an organisation is left without one
  if its second transaction fails.
- An acceptance that stops half-way leaves the invitation usable.
- `isAdministrator` ignores the status of a member; a delegation may be to a
  removed member; the key of a deleted group is given out again; a race for a key is
  answered 500.
- A second tab signing in replaces the flow cookie, and the first one's failing
  callback clears it: both fail. A logout that races an answer leaves the browser
  signed in. Concurrent development sign-ins collide on UNIQUE.
- `users.email` is UNIQUE, against the migration's "A user may authenticate via
  several providers"; providers of an organisation cannot complete a sign-in, because
  their secret is empty.
- The settings page shows no holidays to an organisation without a calendar row,
  though they apply; the calendar editor says "Saved" of edits made during the save
  (not modelled). `toInstant` lands, for a wall clock that a change skips, not where
  its comment says.

Reports:

- The query for durations joins each visit with every task of its step
  (`reports.ts:196`): n visits with n tasks count n * n times, so that groups
  smaller than five are reported (PRD section 17.2).
- The transitions of one transaction bear one instant, so the order `lead()` finds is
  arbitrary; an escalation splits a visit in two.
- The load of an approver counts the requester's own amendments;
  `DefinitionReport.volume` counts ended cases only, where the PRD says submitted;
  the return rate counts decisions named `returned`, wherever they led.

### Bounds

`MaxTasks`, `MaxRowVersion`, `MaxVersion`, `MaxLevel` and `MaxAutomaticSteps`
bound the counters; the first two are guards of `PersistEngineOutput` (a new
task needs a free identifier) and `CommitPatch`. Four row versions reach a draft
edit or not, a submission, a return or approval, and a resubmission, escalation
or end; three tasks are the first task, its successor or escalation, and the
amendment task, or in `sweep` a task and its two escalations. Two handlers
and two ticks are the smallest numbers that race; a third would only race with
one of the two at a time, because every interaction goes through the single case
row. Handlers and ticks are symmetric where a run has no temporal property over
them other than box-action properties.

`MaxVersions` bounds the versions of a definition and is a guard of `StartSave`.
Three versions are a published one, its successor, and a draft after it, or a
stale publication with something to go back over. Two requests are enough for
each pair of kinds; `definitions` has three, a submission between a save and a
publication that overlap. Two contents tell an edited document from the
original; two cases are needed for a reference to be handed out twice.
`requests_end` has two requests and one case, because strong fairness is
expensive; a save and a publication of one version already lock rows in both
orders.

`MaxReceives` is 2: a first delivery and a redelivery, which is when workers
overlap; deliveries after that find the same rows. `MaxEdits`, `MaxFaults`,
`MaxMoves`, `MaxRequests`, `MaxAttempts`, `MaxChanges`, `MaxWork`, `MaxClicks`, `MaxFormClicks`, `MaxFormFaults` bound
how often people change something or something fails, and are guards of the actions
concerned. Two constraints cut further, both over counters of independent events:
`Bounds` of `MCPages` leaves, of two edits, two clicks and a lost answer of a
builder, any three, and of the clicks and lost answers of a form two, and does not
go past the first doubt, where no property of the answers speaks; `Bounds` of
`MCOrganisation` lets one of three tasks be over, so that a list loses one row by a
decision.

Deadlock checking is off: a case that has ended, a message that was handled and a
run that has used up its bounds may stop.

### Fairness

`sweep` assumes weak fairness of each tick (`SweepFairness`). The event loop
runs on what is enabled, and `setInterval` starts another tick, so a tick that can
go on does; people, time and crashes are not fair. The process of that run does not
die, because one that dies at every tick makes no progress; that its timers fail
between their transactions leaves the same tables behind. Processes that die are in
`overlap`.

`requests_end` assumes strong fairness of the next step of each request
(`Proceed`): a row lock is released and taken by others again and again, and
PostgreSQL grants it in the order of the queue, so a waiting request is not passed
over for ever. The deadlock detector is weakly fair (`deadlock_timeout` always
expires). Starting requests, rolling back and losing a session are not fair.

`notifications` assumes that a worker with a message goes on or is cut off by its
time limit, and that the queue hands out, makes visible again or dead-letters what
is there (`DeliveryFairness`). Nothing says that a send succeeds.

`custody` assumes that a request that confirmed goes on to publish, and that
scanners and sweeps take their next step (`CustodyFairness`); uploads, failures and
people are not fair. `MaxFaults` makes failures finite, which is what "eventually"
means there.

## 5. Proofs

Eight modules hold theorems; each theorem holds for every value of the constants
that satisfies the named assumptions of the modules it is about (which TLC
evaluates on every run), without symmetry and without the constraints of the runs.
Bounds such as `MaxTasks` are constants too, hence arbitrary.

### The case

The first part of `CaseSystemProofs` shows that every engine operator returns typed outputs:
targets of rules are keys, levels found are within the rules, an entered step has
somebody to do it. The rest of it uses this for the composition.

`TypeOK` is not inductive. That a commit produces typed rows needs that the task
a request names exists, that a timer in hand exists and belongs to a task
(`TimersHaveTasks`, `RequestsAreGrounded`, `TicksAreGrounded`), that values were
read before the engine runs. `SnapshotsAreCoherent` needs in addition that every
write of the row raises `row_version`. Their conjunction `IInv` is inductive; the
`overlap` run checks it first.

The argument: `StoreStep` says what any step does to the tables (typed, no task
or timer disappears, the case row is unchanged or its `row_version` is one
higher). Each action is shown to be a `StoreStep` that leaves its own request or
tick sound (`RequestStepIsSound`, `SweepStepIsSound`); `RequestSoundLater` and
`TickSoundLater` show that what everybody else holds stays sound under any
`StoreStep`. `NextKeepsInvariant` puts the two together.

| Theorem | States |
| --- | --- |
| `Invariance` | `Spec => []IInv` |
| `TypeCorrect` | `Spec => []TypeOK` |
| `SnapshotsCoherent` | `Spec => []SnapshotsAreCoherent` |
| `EndedCasesStay` | `Spec => TerminalIsFinal` |
| `SubmittedCasesArePinned` | `Spec => PinNeverChanges` |

`EndedCasesStay` and `SubmittedCasesArePinned` follow from coherence: a commit
succeeds only when the row read has the stored `row_version`, hence is the
stored row (`CurrentRowIsRead`), and for that row the engine refuses every event
on an ended case and a submission of anything but a draft (`WritersOfTheCase`).

They hold for any number of handlers, ticks, versions, tasks, levels and any
definition documents, under the assumptions of the modules: keys are distinct
from the reserved ones, people and pools are different things, documents are
well-formed (`IsDocument`: rules name keys), a directory only finds people, pools
or nobody.

### The work of a case

`CaseWorkProofs` adds to `IInv` what the other properties of a case need. The
tables: an active case has an open task at its step or waits for its requester,
open tasks are of the step the case is at, only the open have live timers, and
amendment tasks are the requester's and have no deadline. What was read: a claim
whose `row_version` is still the stored one finds a task nobody has claimed since,
because a claim raises it; a decision is for the step that the case was at when
it was read; a tick escalates active cases only. `PersistTables` says once what
`persistEngineOutput` leaves in the tables, `EngineKeepsWork` that this is work
for the case, for any output with a task where the case goes; that each engine
operator returns such an output is the first part of `CaseSystemProofs`.

| Theorem | States |
| --- | --- |
| `WorkInvariance` | `Spec => []WorkIInv` |
| `ActiveCasesHaveWork` | `Spec => []ActiveCaseHasWork` |
| `WorkIsTheCases` | `Spec => []WorkMatchesTheCase` |
| `TimersEndWithTheirTask` | `Spec => []LiveTimerHasOpenTask` |
| `DecisionsMoveTheirCase` | `Spec => DecisionMovesItsCase` |
| `ClaimsAreExclusive` | `Spec => ClaimIsExclusive` |
| `FreshEscalationsAreNew` | `Spec => FreshEscalationIsNew` |
| `CaseIsOneObject` | `Spec => ImplementsContract` |

The refinement takes each commit to one operation of `CaseContract` and every other
step to a stutter: whoever commits has the stored row in hand
(`CurrentRowIsRead`), so the engine answers as it would at this moment.

For escalations, `LevelsIInv` adds to `WorkIInv` that a task made by an escalation sits
no higher than the level stamped on the task it came from, and has no timers of its own
(`EscalatedInOrder`): the next level, being above the stamp, is above all of them. The
theorem is about any number of ticks that overlap and die, and about a tick that has
read the stamp as it still is at the commit: of ticks that read it before another's
commit and the case after it, it does not hold (section 4).

### The definition

`DefinitionStoreProofs` rests on the inductive invariant `IInv`. Its parts are
`OneHolder` (the row lock excludes), `PublishedInOrder` (versions are opened one
after another, each when the one before is published), `CurrentIsPublished`,
`ReferencesAreCounted`, and for every request `Sound`: what it has read is still
so. A save has found a draft under the lock of the definition, which a
publication needs before its mark is seen, so the version is a draft until the
save ends; a publication, however stale, names a version that exists; a
submission has read a published version, which never changes; a reference taken
is the counter's next value while the lock is held. `EntryKeepsInvariant` is the
common case of the steps that only move one request.

| Theorem | States |
| --- | --- |
| `DefinitionInvariance` | `Spec => []IInv` |
| `OneDraftAtATime` | `Spec => []OnlyNewestIsDraft` |
| `ReferencesHandedOutOnce` | `Spec => []ReferencesAreHandedOutOnce` |
| `PublishedRowsStay` | `Spec => PublishedRowsAreFixed` |
| `DefinitionImplementsLog` | `Spec => ImplementsLog` |
| `PinnedDocumentsStay` | `Fragile = {}` implies `Spec => []PinnedDocumentsVerify` |

They hold for any number of requests, contents, cases and versions. All but the
last allow every request to lose its session. The last has that as its
hypothesis, and it is needed (section 4).

### Notifications and links

`NotificationProofs` rests on a ledger, `AttemptsAreBacked`: for every event and
person, emails accepted plus attempts whose outcome is open never exceed the
recorded excuses plus the one claim that the row stands for. A claim books one
attempt, a takeover or a failure that may have been a delivery one excuse; that
is the induction behind `RepeatsAreExcused`, which alone says too little about a
worker about to send. `OwedIsInHand` says that what a handler found it had to
deliver is kept in the table or is what it is about to do, so that nothing is missing
when it resolves. `DecisionsMoveTheVersion` ties the number of decisions on a task
to its version.

| Theorem | States |
| --- | --- |
| `DeliveryInvariance` | `Spec => []DeliveryIInv` |
| `DeliveryIsRecordedTruly` | `Spec => []DeliveryInv` |
| `RepeatsNeedAnExcuse` | `Spec => []RepeatsAreExcused` |
| `EveryRecipientIsServed` | `Spec => []NobodyIsPassedOver` |
| `TasksAreDecidedOnce` | `Spec => []LinksDecideOnce` |

### Custody

`CustodyIInv` has a part for each table and each kind of process. A row is
confirmed for good, and only files of confirmed rows are scanned; a key behind the
quarantine prefix means that the original is gone, unless the form was posted again
(`Stray`); a scanner that has removed an original has left a copy. A case that
is past its window is closed: no form and no request is left that could touch it, so what a sweep lists is all there will be
(`SweepInOrder`), strays apart. `DeliveryInOrder` counts: every receipt of a
message whose file has no verdict is a failure or in a scanner's hands, which
explains each dead letter.

| Theorem | States |
| --- | --- |
| `CustodyInvariance` | `CustodySpec => []CustodyIInv` |
| `FilesStayInCustody` | `CustodySpec => []CustodyInv` |
| `RedactionLeavesStraysOnly` | `CustodySpec => []RedactionLeavesOnlyStrays` |

### The organisation

An invitation's grants are counted against its columns and the request that is
accepting it (`SettledOnce`); a granted membership is there when the session is
opened; and as long as changes of members follow one another, there is an owner
besides the one whom the change in flight would take away
(`AnotherOwnerRemains`), which is what its own check found.

| Theorem | States |
| --- | --- |
| `OrganisationInvariance` | `OrganisationSpec => []OrganisationIInv` |
| `OrganisationStaysInOrder` | `OrganisationSpec => []OrganisationInv` |
| `OwnersRemain` | `OrganisationSpec => []SerialChangesKeepAnOwner` |

### Pages

For the builder, every edit takes a document to a document (one lemma for each
operation of `document-ops.ts`); a page that is clean, on time and not left behind
shows what is saved (`ShowsSaved`), and what a publishing click has sent does not
block (`PublishesWhatRuns`). That a document which does not block takes its cases
only to steps it has needs no induction along the paths: the set of known steps is
closed, and `Reached` is within every closed set; what unchecked automatic steps lead to
is added to it.

For templates, `DocumentsInOrder`, `RowsInOrder` and `TemplatesInOrder` say of the two
stores what holds between any two writes: a document, an orphan too, bears the key of its
process and names its own organisation's people, and a committed row has a document for
each version. `Saves`, `Holds` and `Defines` say what each request knows of the rows it is
about: one that has saved finds among the latest documents its own and orphans only,
unless another tab saved; the row of a definition that is not committed is its request's
alone. Keys are unique by the index, whatever was free when a request looked.

| Theorem | States |
| --- | --- |
| `BuilderInvariance` | `BuilderSpec => []BuilderIInv` |
| `CleanPagesShowWhatIsSaved` | `BuilderSpec => []CleanMeansSaved` |
| `PublishedWorkflowsAreSound` | `BuilderSpec => []PublishedWorkflowsRun` |
| `LibraryInvariance` | `LibrarySpec => []LibraryIInv` |
| `TemplatesAreWhatWasShown` | `LibrarySpec => []TemplatesHoldWhatWasShown` |
| `LibraryIsSound` | `LibrarySpec => []LibraryInv` |

Assumed are: that what a page is first opened on is a document that runs
(`DraftsAssumption`), as the bootstrap document and every published one do; that
organisations name only their own people and groups in what they write, and shipped
templates nobody's (`LibraryAssumption`).

### Signing in

What a session says must stay true while tabs, first visits, invitations and
expiries interleave, so `SignInIInv` says it of claims wherever they are: in a
browser's cookie, in an attempt about to answer, in an accepted invitation about to
(`AreTrue`, `AreEarned`). An attempt between its steps knows the account that was
accepted for its own domain; nothing claims rest on is ever taken back
(`Remembers`), which carries the claims of all others over any step. A development
sign-in at one of its thirteen points has seen to everything before it
(`SeedInOrder`), whoever inserted it.

| Theorem | States |
| --- | --- |
| `SignInInvariance` | `SignInSpec => []SignInIInv` |
| `SessionsSayWhatIsTrue` | `SignInSpec => []SignInInv` |

Assumed is that no account of the platform's provider is one of the two that the
development sign-in makes up (`SignInAssumption`).

### Queues

A cursor of a reading - that of this page, of the pages before it, and of the next
one if there is one - covers the rows up to it: those that have been in the list
since the first page was read have been on a page (`Covered`). Reading a page shows
what follows its cursor up to the next one, or everything; turning back goes to a
cursor that is covered already; tasks that come, go or are claimed meanwhile keep
the keys of all others. The order by due date and UUIDv7 key is total
(`ListsAreOrdered`), and a page is an initial part of what follows its cursor
(`PagesComeFirst`). With no next page, every row that stayed has been seen.

| Theorem | States |
| --- | --- |
| `QueueInvariance` | `QueueSpec => []QueueIInv` |
| `QueuesAreReadWhole` | `QueueSpec => []QueueInv` |

### The calendar

`DeadlinesAreExact` is for any length of days and weeks, any working days and hours,
holidays and zones that change their clock once, and durations of any length.
Along the wall clock, `advanceToWorkingTime` finds the first working minute
(`AdvanceIsTheFirst`), a working day is worked from there to its end and nothing is
until the next one found, so what is worked since the start and what remains always
add up to the duration (`SearchStands`, `OneDayIsWorked`); the day it fits, the count
is exact (`ConsumeIsExact`). The search is a recursive function of the days: that it
exists, and that `SearchStands` holds of each of its values, is proved by the least
number of days of which it would not (`SearchExists`, `SearchKeepsStanding`). From the
wall clock back to UTC, two corrections find the instant of any wall clock that is
neither skipped nor repeated (`InstantOfAWallClock`), and reading the clock is a
bijection between the working minutes of both (`WorkedOnBothClocks`). That clocks
change neither in working hours nor as they end (`ShiftsAtRest`, in the property) is
needed: for a wall clock that is skipped `toInstant` gives an instant after the change
or before it, and working hours that are repeated are worked twice. That a task keeps the
calendar of its creation and the deadline counted on it is the invariant of the
specification, `CalendarIInv`.

| Theorem | States |
| --- | --- |
| `CalendarInvariance` | `CalendarSpec => []CalendarIInv` |
| `DeadlinesAreExact` | `CalendarSpec => []DeadlineIsTheLastWorkingMinute` |

Assumed is what `PUT /working-calendar` accepts of a week, and that instants and
durations are whole minutes (`CalendarAssumption`).

### Reports

`ReportsIInv` says of every case what its three tables tell each other: the trail
starts at the submission, ends at the end and is in the order of time
(`TrailTells`, `TrailInOrder`); and where a case has come to is explained by a task
(`Explained`): a return by a task that was returned, a rejection by one that was
rejected, an end by a task somebody completed at that instant.
`PersistKeepsReports` shows it once for every transaction that calls the engine. The
rest is about the queries, on any such rows. That the times at the steps add up to the
turnaround is proved for trails of any length without an induction theorem: the sum
is a recursive function, so the differences from the first transition are a function
that satisfies its equation (it exists), and the least index at which another one
would differ cannot be there (`DifferencesAddUp`). Groups and samples are compared
by surjections and bijections between finite sets.

| Theorem | States |
| --- | --- |
| `ReportsInvariance` | `ReportsSpec => []ReportsIInv` |
| `ReportsAgree` | `ReportsSpec => []ReportsInv` |

Assumed is that there are finitely many cases, and that what the engine passes is a
sequence that ends at a step people decide, with the requester or at an end
(`ReportsAssumption`).

### Conditions and forms

`UnusableComparisons` is about the evaluator alone: for conditions of any depth, any
answers, roles and department. It is an induction over nested data, done without an
induction theorem: the parts of a condition are numbered, the least part for
which the evaluator and the three-valued reading would differ consists of earlier
parts for which they do not (`MatchedAsRead`), and likewise for the warnings
(`WarningsAreComplete`). Without a negation the induction carries that an unusable
part does not match; with one only that a decided part matches as it is decided. A
condition with a `neq` between values of two types (`Differs`) is left out of the first
part: it matches, which the run `mismatched_neq` shows and calls a divergence.

`PageIInv` has the types of pages and requests. `SoundIInv` says, as long as
`doubt` is `none` or `kept`, of everybody who holds answers on their way: pages are
of the version the case refers to and count only files that are there (`Current`);
what is in a request, or written for one, is valid and was asked for (`Backed`); and
what is stored is valid (`Stored`). It also needs that answers kept beneath a
resubmission are none that their question refuses, asked or not (`Clean`), as they
can be asked for again.

The attempt to prove it found two cases that the instance is too small to reach and
that the model did not count as doubts: answers written after the case had moved on
since they were read (the commit is refused, but MongoDB keeps them), and a
resubmission whose kept answers change what the form asks. They are now part of
`overlap` and `hidden`.

| Theorem | States |
| --- | --- |
| `UnusableComparisons` | `FormSpec => []UnusableNeverMatches` |
| `SubmissionInvariance` | `FormSpec => []SoundIInv` |
| `SubmittedAnswersAreSound` | `FormSpec => []SubmissionsAreSound` |

Assumed is that there is a first version, that files are fields, and that rules are
conditions as `conditionSchema` accepts them (`FormAssumption`, in these theorems a
hypothesis, which `MCPages` checks).

### The shipped processes

The last part of `DefinitionStoreProofs` is about the documents that are shipped, for
every directory, requester, amount and order of decisions. Each of the seven
documents, and each clone of one of the six templates, is a ladder (`IsLadder`): its
steps are for people whom the engine finds (or else the run ends unassigned, for want
of a line manager), each has a button that needs no comment, each list of rules ends
with a default, and every rule leads to a step of a higher `Rank` or to an end. Where
a step has thresholds, the ones that match agree: a rule that comes first leads to a
step from which every way goes through what the later ones ask for (`RulesAgree`,
`Inevitable`). This is shown document by document (`DocumentsAreLadders`); the rest is
about ladders. No step is automatic, so running from a step is arriving there:
`RunFromStepKey`, a recursive function of the hops left, is `Arrive` wherever it is
asked (`RunIsArrival`, by the least counterexample).

`SimulationIInv` has three parts. The run stands where its trail ends, on one open task
(`RunInOrder`); the ranks of the trail climb (`TraceInOrder`), hence no step comes
twice and no run is longer than the ladder; and whatever a rule of a visited step asks
for with the amount entered is visited, or inevitable from where the run stands
(`ApprovalsLieAhead`). At the end nothing is ahead, so all of it is visited. TLC
checked the invariant on the instance before it was proved.

| Theorem | States |
| --- | --- |
| `SimulationInvariance` | `SimulationSpec => []SimulationIInv` |
| `ShippedProcessesRun` | `SimulationSpec => []SimulationsRunTheTemplates` |

Assumed is that the constants have the keys, strategies and users that the documents
name, that the default of a rule is no condition, and that the line manager is not the
requester (`SimulationAssumption`, likewise a hypothesis that `MCPages` checks).

### Only model-checked

- Liveness: `DueTimerIsTaken`, `RequestsEnd`, `MessagesLeaveTheQueue`,
  `ConfirmedFilesAreScanned`, `EligibleCasesGetRedacted`. Fairness and ENABLED are
  out of the prover's reach.
- That `Truth` is the table of the requirements, and that the constants of the `MC`
  modules are what the code has: definitions are read, not proved.
- `EscalationLevelsDistinct`, with one tick at a time: it is not true of ticks that
  overlap, of which `FreshEscalationsAreNew` says what is.

## 6. How to read a mutant

Each property of a passing run has a mutant in `PROJECT.json`: an operator next
to the one it stands for, changed the way a plausible bug would change it (an
`UPDATE` without its version check, a sweep of open tasks forgotten, a
resubmission that pins again). They are not used by the specification.

## 7. Abstractions

- One case in `CaseSystem`. Handlers of different cases share only the definition
  row, which is the subject of `DefinitionStore`.
- `WHERE` and `SET` of one `UPDATE` are one step; so are the writes of one
  transaction, which others see at its commit.
- In `CaseSystem` pinned documents are always readable and intact:
  `PinnedDocumentsStay` without a lost session. When a store fails while a sweep loads one, the timer is left as
  it is, which the case cannot tell from a tick that did not come.
- `DefinitionStore` starts after the definition was created, and leaves out
  metadata, renaming and archiving of definitions.
- Visibility checks, validation of bodies, audit rows, and titles are left out of
  the requests; transitions are the subject of `Reports`, who may see a task of
  `TaskQueue`.
- The reason of a roll back is left out: it may happen at any step.
- What an email says, content types, sizes and signatures of files, and the protocol
  spoken with an identity provider are reduced to their outcome.
- Texts are sequences over a small alphabet of numbers, instants are ticks; medians
  and percentiles are the set they are taken of.
- The layout of a form, its sections and deadlines are left out of the builder.
- What the page of a form announces to a screen reader is left out: counts, a few labels
  and titles, worked out from two lists with nothing concurrent in it.
- The list of templates, and the warnings of a copy, are left out of `TemplateLibrary`:
  they say what the rows and `ResetStep` already do.

## 8. Not modelled

- Tenancy and row level security: PostgreSQL policies set for each transaction; no
  interleaving of the application reaches them.
- Notification preferences and their API, comments: single-row writes and
  append-only rows. Preferences are read, and change, in `NotificationDelivery`.
- Event publication (`packages/events`): a call to SNS. That it can fail is part of
  `SlaSweep` and `NotificationDelivery`.
- Timeline, audit and the CSV export: queries over append-only rows.
- The other pages of the web application show what the API answers; infrastructure
  and build files have no state.
