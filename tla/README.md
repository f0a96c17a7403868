# SupportDesk in TLA+

A verification project for SupportDesk, a multi-tenant service desk: a NestJS
modular monolith over PostgreSQL (`src/apps/api`), a Next.js front end
(`src/apps/web`) and shared packages. Paths below are relative to
`src/apps/api/src/` unless they start with `docs/`, `apps/` or `packages/`.

Everything that makes this program hard happens between two database round
trips. Every API process serves requests and also runs a poll loop over the
transactional outbox; all state lives in PostgreSQL, transactions are READ
COMMITTED unless they say otherwise, and correctness rests on unique keys,
`WHERE version = ...` guards and leases. The modules therefore make one action
of one round trip (one statement outside a transaction, one whole transaction
where no outsider can see its middle), and let every other process run between.

## 1. Inventory

| Component | State | Operations | Interacts with | Hard behaviour | What makes it correct |
|---|---|---|---|---|---|
| **Transactional outbox** `outbox/` | `outbox_events`: state, lease, attempts, dedupe key, automation depth | append, claim a batch by lease, mark processed, record failure, replay, retention | every write appends in its own transaction; the poll loop hands rows to the workflow dispatcher | expired leases, two processes on a row, crash, replay of any row, updates by id | a row is delivered; an event exists iff its write does; keys are unique |
| **Workflow dispatcher, executor** `workflows/runtime/` | `workflow_executions`, `workflow_action_attempts`, `workflows.enabled` | match, find or create an execution, evaluate conditions, run actions in order, finalise, auto-pause | reads outbox rows; actions write tickets, notifications, SLA targets and further outbox rows | resumption after a crash, zombie workers, automation loops | effects at most once, in order, within the recursion budget; the outcome tells what happened |
| **Action executors** `workflows/runtime/action-executors/` | none of their own | change_status, assign, add_internal_comment, create_notification, sla_start, sla_stop, change_asset_status | tickets, comments, notifications, SLA targets, assets | write rows people are editing, by id | version moves with every write; child event with its dedupe key |
| **Tickets** `ticketing/` | `tickets`: status, assignee, timestamps, version, public reference | create, update, transition, assign, unassign | outbox, audit; SLA engine after the commit | optimistic concurrency with executors that do not take part in it; references by count | no lost update; lifecycle; events tell every change; unique references |
| **Comments, attachments** `ticketing/`, `assets/asset-attachments.service.ts` | comments with a version; files and rows | create, edit, delete; upload, download, delete | an agent's public comment completes the response target after the commit; notices after it, too | who is told is decided before the transaction; file before row, hash and limit checked before the insert | comment iff event, changes in order, the engine hears of every answer; a row has its file |
| **SLA engine** `sla/sla-engine.service.ts` | `sla_targets`: state, due, paused time, warning flags | start, pause, resume, complete, evaluate, reopen | called after the commit of a ticket or comment and by reads of SLA status; executors write targets too; no background worker | a target moves between read and update by id, duplicate warnings, crash after the ticket's commit | pauses are consistent and free; the next call repairs what races left; the target follows ticket and clock |
| **SLA policies, schedules** `sla/` | drafts, published versions, priorities, holidays | create, draft, publish | the engine picks policy and schedule, and asks the clock for due dates | publication races with edits and other publications; nights, holidays, closed days | one version in force, and it was validated; business time is kept |
| **Workflow definitions** `workflows/workflows.service.ts` | `workflows`, versions, drafts | create, update draft, publish, pause, resume, clone, delete | dispatcher, condition evaluator and executors interpret what was published | as above; four files that each know what a definition may say; execution keys hold the version | as above; what validates can run |
| **Service requests** `catalog/catalog-requests.service.ts` | requests, approval steps, answers, tickets of fulfilment | submit, decide, answer again, cancel, fulfil, generate a ticket, complete | approval gate and form of the service; tickets | decision and transition in two transactions, answers written by id, a service edited meanwhile | the request follows its approvals; one ticket |
| **Service catalog** `catalog/` | services, their forms, categories, templates | create, publish, retire, delete; replace the form | inputs of the requests; `form-engine.ts` judges forms and answers | a form replaced while it is answered; rules of fields that refer to each other; category trees | answers fit the form they were checked against; every form can be answered |
| **Assets** `assets/` | assets, assignment rows, relationships, links, types, categories, locations | create, transition, assign, return, delete, relate, link, create a ticket from | executor change_asset_status; tickets | references by count, assign against a transition, two edges closing a cycle, a row lock that protects some of it | assignees on record, states follow the table, relations are acyclic |
| **Sessions, tokens, lockout** `auth/` | sessions, refresh token families, failed-login counter | login, refresh, revoke, log out | every request's guard | two refreshes at a time, lost counts | one live token per family; revocation is final |
| **Registration, passwords, reset** `auth/` | users, one-time tokens | register, verify, change, request and use a reset | revokes sessions | a token read before its transaction | a token is used once |
| **Rate limits** `auth/rate-limit/` | buckets by scope and caller in the memory of one process | count, allow, refuse; a restart forgets them | guard of the endpoints of `auth/` | the count is read after an await, when others have counted on or the window is over and another bucket in its place | the limit holds per window, refusals have a cause, windows are apart, a retry when told is not in vain |
| **Knowledge base** `kb/` | articles, numbered snapshots, links, categories | draft, edit, publish, archive, delete, link | outbox, after the commit | event after the transaction, edit during a publication | dense versions, each announced or known to be lost |
| **Notifications** `notifications/` | notices, preferences with versions | create, mark, delete, prefer | every component tells people through it; executors upsert by key | preferences read before the insert, written by id one after another | versions tell content; what is off stays silent |
| **Roles and permissions** `rbac/` | `user_roles`, `role_permissions` | assign a role, grant a permission, `can`, list filter | every handler asks it | a role grows between its check and its assignment; two implementations of a scope | permissions come from holders; a search shows what may be read |
| **Audit, health, common, database** | append-only audit | logging, wiring; `identity/` only looks up what `auth/` keeps | every handler | - | - |
| **Web** `apps/web`, **packages**, schema, docker, scripts | none | render, forward; types, configuration | the API | - | - |

The hazards of `PROJECT.json` list, line by line, where this code can go wrong
in a way a test would hardly reach: 40 of them, all but two covered by a
property of a run (for those two a note says why not).

## 2. Modules

| Module | Contents |
|---|---|
| `AutomationPromise` | abstract: what automation promises about events, depth, causes and effects, without workers, leases or rows |
| `WorkflowRuntime` | the outbox, the poll loop, the dispatcher, the executor and the writes of its actions; its properties; the refinement mapping to `AutomationPromise` |
| `WorkflowRules` | validation of workflow definitions against what evaluator and executors accept |
| `Publication` | numbered versions of workflows, SLA policies and schedules |
| `TicketStatuses` | statuses and the moves between them, shared by other modules |
| `TicketPromise` | abstract: tickets whose commands take one step each, told as it happens |
| `TicketLifecycle` | ticket rows under people's requests and workflow transactions; the refinement mapping to `TicketPromise` |
| `Comments` | comments with their events, notices and effect on SLA targets |
| `Attachments` | files and rows of attachments of tickets, assets and requests |
| `SlaEngine` | the SLA targets of a ticket under overlapping calls of the engine, executors and time |
| `BusinessClock` | the arithmetic of business hours, loop by loop, against a count of open ticks |
| `ServiceRequests` | a request, its approval steps, fulfilment and ticket |
| `ServiceForms` | services, their forms, and the answers of requests |
| `AssetLifecycle`, `AssetGraph`, `AssetLinks` | assets: rows and assignments; relationships; links to tickets |
| `Taxonomy` | types, locations and the three kinds of category tree |
| `Accounts` | registration, lockout, sessions, refresh tokens, passwords |
| `Permissions` | roles, grants, scopes |
| `RateLimits` | windows of the rate limit and their buckets |
| `KbArticles` | articles, snapshots and their announcement |
| `Inbox` | a person's notices and preferences |
| `WorkflowRuntime_proofs`, `WorkflowEffects_proofs`, `WorkflowOrder_proofs` | theorems about the runtime: what workers rely on; effects and the refinement; order, leases, outcomes |
| `Desk_proofs`, `AssetLifecycle_proofs`, `SlaAndReaders_proofs`, `Structures_proofs`, `Processes_proofs` | theorems about the components that `MCDesk`, `MCTicketsAndAssets`, `MCSlaAndReaders`, `MCStructures` and `MCProcesses` put together, and about these |
| `MCWorkflowRuntime`, `MCTicketLifecycle`, `MCSlaEngine` | single components for TLC: definitions of the small instances, symmetry |
| `MCDesk`, `MCTicketsAndAssets`, `MCSlaAndReaders`, `MCStructures`, `MCProcesses` | several components in one model, see "Runs" |

The sections below say how state and actions of each correspond to the code;
`PROJECT.json` has the lines of every definition. Names are the source's where a
method has one. A request is a record with a program counter and the values it
carries over its awaits; a variable or field marked "history" exists for a
property only.

### WorkflowRuntime

| Model | Code |
|---|---|
| `outbox[e]` | a row of `outbox_events`; `lease`: is `lease_expires_at` in the future; `key`: the part of the dedupe key an action contributes, `NoKey` for the random key of a person's event; `depth`: `automation_depth` |
| `exec[<<e, v>>]` | `workflow_executions.state` under its unique key (event, workflow, version) |
| `attempts[<<e, v, i>>]` | the `workflow_action_attempts` row of action `i` |
| `applied` | history: how often the effect of an action for an event committed |
| `pc, batch, cur, plan, run` | the locals of one process between two awaits: claimed rows, the row at hand, the workflows found for it, ordinal, `hasSuccess`, `hasFailure`, and the attempt number read before the transaction |
| `AgentChange` | a ticket command commits status and event |
| `ClaimBatch`, `ExpireLease`, `EndBatch` | `poll`, `claimPendingBatch` (`FOR UPDATE SKIP LOCKED`), 60 s of time, `isProcessing` |
| `TakeEvent`, `FindExecution`, `CreateExecution`, `CreateFails`, `SkipConditions`, `EndWorkflows` | the loop of `dispatchOutboxEvent`, with the catch that takes every error of the insert for a conflict |
| `ReadAttempt`, `RunAction`, `ActionFails`, `RecordAttemptFailure` | the loop of `executeActions`: read outside, effect with attempt and child event in one transaction, failure upsert from the number read before |
| `FinalizeExecution`, `CountFailures`, `AutoPause` | end of an execution, `evaluateAutoPauseThreshold` in two statements |
| `MarkProcessed`, `DispatchError`, `ReadDelivery`, `RecordDeliveryFailure` | the end of a row, with updates by id |
| `Replay`, `SetEnabled`, `Crash` | administrators; a process that dies anywhere |

Left out of it: tenants (no statement crosses one), times other than "the lease
has run out" (`available_at` of a failed row is read by no query; the 10 minute
window of auto-pause is longer than a behaviour), audit rows, wording of
payloads, retention. Every attempt counter saturates at the limit it is compared
with. `add_internal_comment` has the shape of `assign` here: it always writes, with
an event under its key. What `sla_start` and `sla_stop` do to targets is in
`SlaEngine`, what `change_asset_status` does to an asset in `AssetLifecycle`.

### TicketLifecycle

| Model | Code |
|---|---|
| `tickets[t]` | a row: status, assignee, `solved_at`/`closed_at` set or not, version, reference |
| `session[c]` | one request: the row its author saw, the aggregate after the command, the row `updateWithAudit` read |
| `job[j]` | the transaction of a `change_status` or `assign` executor |
| `keys` | dedupe keys built from a correlation id a client sends twice |
| `heard`, `misled` | history: what a consumer of the events, in commit order, believes |
| `BeginCreate`, `CommitCreate` | `createWithAudit`: serializable, count and insert |
| `View`, `Load`, `ReadPrevious`, `CommitUpdate`, `Abandon` | the reader's copy; load and `verifyVersion` and the aggregate's command; the re-read; `updateMany WHERE version`, audit and events; any way of ending without a write |
| `JobRead`, `JobChangeStatus`, `JobAssign`, `JobNoop` | the executors: read, write by id |

`TicketPromise` has neither requests nor executors: a ticket is created, moved, reassigned or
edited in one step, on the row as it is, and what the step changes is told in it. `tickets`, `heard` and
`misled` are mapped to its `row`, `told` and `surprised` (`CommandsAreAtomic`).

Left out: title, description, priority and the like are one write that only
moves the version; groups, which every path of a person rejects. Serializable
isolation is modelled by its consequence: of two overlapping creates that count,
one commits.

### SlaEngine

| Model | Code |
|---|---|
| `clock`, `status` | now; the committed status of the ticket |
| `target[<<type, n>>]` | the `n`-th `sla_targets` row of a type: state, `due_at`, `paused_at`, `completed_at`, is `warning_notified_at` set |
| `request[r]` | one call of the engine: the stages it has left, the updates it decided on in its last read, its `now`, the status it was given; `lone`: history, nobody else has written since it began |
| `job[j]` | the transaction of an `sla_start` or `sla_stop` executor |
| `ChangeStatus`, `Comment`, `ReadSla` | a transition commits and `onTicketStatusChanged` is called; `onPublicAgentComment`; `getTicketSlaStatus` or `listActiveTimers`. `Init`: the ticket has committed and `onTicketCreated` is about to run |
| `Evaluate`, `SyncPauseState`, `CompleteTarget`, `ReadCurrent`, `HandleReopen` | the reads of the methods of these names, and what follows from them |
| `WarnTarget`, `BreachTarget`, `PauseTarget`, `ResumeTarget`, `MeetTarget`, `StartTarget` | the transactions, each `WHERE id = ...` |
| `Refused`, `Fail`, `Return` | the unique index refuses a row and the catch ends the call; any other error or a crash; the end |
| `JobRead`, `JobWrite`, `JobAbort`, `JobChangeStatus` | `SlaActionExecutor`; the `change_status` executor, which calls no engine |

A transition's handler is given the status before and after of its own commit:
that the commit starts from the row its author saw is `NoLostUpdate` of
`TicketLifecycle`, and is used here, where a transition is one action. Here the
schedule is open all the time, so business time is time (`BusinessClock` models
the arithmetic of schedules); targets stay on the
policy version they captured, so one policy is a constant. Left out: audit,
evaluations, notifications and events, `accumulated_pause_ms`, and state
`CANCELLED`, which no code writes.

### Comments

| Model | Code |
|---|---|
| `remark[r]`, `remarkEvents`, `remarkNotices` | a row of `comments`; `comment.added` rows of the outbox; notifications by recipient |
| `handler` | the assignee of the ticket, which people and workflows change at any time (`HandlerChanges`) |
| `poster[p]` | a call: the ticket or comment it read, the recipients left to tell |
| `CreateComment`, `CreateWithAudit`, `TellNext`, `TellSla` | `createComment`: the ticket is read, then read again in the transaction with comment and event, then `createManySafe`, then `onPublicAgentComment` |
| `UpdateComment`, `SoftDeleteComment`, `UpdateWithAudit` | the checks of author, window and version on the row read; `updateMany WHERE version` |
| `WindowEnds`, `PosterDies` | fifteen minutes pass; the process dies between two awaits |

### Attachments

A behaviour is about the attachments of one ticket, asset or service request
(`owner`), whose services differ in what they check, in what order, and in what
they clean up: one action per step and owner (`ReceiveFor...`, `WriteFile`,
`Scan...`, `Insert...Row`, `Delete...Row`, `DropFile`, `DeleteFile`,
`AbandonUpload` for a crash). `disk` and `fileRow` commit separately.

### BusinessClock

| Model | Code |
|---|---|
| `schedule`, `WindowsOf`, `OpenIntervalsForLocalDay` | the published hours by day of the week, and holidays; the open intervals of a day |
| `DaysAhead`, `FirstAhead`, `LeftOf` | `openIntervalsOnAndAfter`: the first of `SearchDays` (400) days with intervals that are still to end |
| `clock` | the locals of a call: `cursor`; `left` to add, or `until` and `total`; `todo`, the intervals of a day not visited yet |
| `AddSearch`, `AddInterval`, `AddNextDay`, `AddReturns` | the two loops of `addBusinessMs`: a round's search, an interval, the step to the next midnight, the result or the error |
| `RemainingSearch`, `RemainingInterval`, `RemainingNext`, `RemainingReturns` | those of `remainingBusinessMs` |
| `StartTarget`, `PauseTarget`, `ResumeTarget` | the order in which the engine uses them for a target |

Ticks stand for milliseconds. The reference is a count, one by one, of the ticks
at which the schedule is open (`BusinessTicks`). The calls are synchronous in the
code; their loops are actions so that what holds in the middle of them can be
stated, which is what the proof needs. The bound of 50,000 rounds is left out: with a
round for each open day it is 136 years.

### Publication

`configs[d]` is a workflow, policy or schedule with its versions (`kind` says
which of the three services the behaviour is about); `edit[e]` a request. Read,
check and write are actions of their own: `Request`, `CreateWorkflow`,
`CreatePolicy`, `CreateSchedule`, `UpdateWorkflowCheck`, `UpdateConfig`, the
`Write...Draft`s, `PublishPolicyCheck`, then the publishing transaction's two
moments, `Retire...` (its first statement) and `PublishVersion`; `CloneDraft`,
`DeleteConfig`. `met` remembers which requests were under way together.

### WorkflowRules

`SaveRules`, `PublishRules`, `CloneRules` move a definition from draft to
published through `DraftErrors` and `PublishErrors` (`workflow-validation.ts`,
`workflow-validation.service.ts`); `UserLeaves` is a user becoming inactive.
`Executable` and `EvaluateCondition` are what the executors and the evaluator
accept; a condition is judged on one of the `Snapshots` of an event, the flat fields
that all producers of the event (services and executors) put in its payload, through
`GetNestedValue`. Enum values have a spelling, because validation ignores it and `in`
does not. The properties compare the two sides. Left out are the limit on a
definition's size in bytes and the refusal of conditions nested in conditions.

### ServiceRequests

| Model | Code |
|---|---|
| `service`, `EditService` | approval mode and steps, editable at any time |
| `request`, `approvals`, `tickets` | the row: status, cycle, form version, ticket; the steps of the present cycle; tickets generated |
| `Load`, `SubmitRead`, `DecideRead`, ... | each operation's first reads and checks |
| `SubmitWrite`, `AnswersWrite`, `ResetApprovalCycle`, `CancelWrite`, `CompleteWrite` | the writes: a change of status `WHERE status`, answers by id |
| `DecideUpdate`, `DecideCommit`, `DecideTransition` | the step, its transaction's end, then the request's move in a second transaction whose count nobody looks at |
| `FulfilGate`, `FulfilWrite`, `TicketGate`, `TicketWrite` | the gate (`approval-gate.ts`), then the write; the serializable creation of the ticket |
| `Refuse`, `Die` | an error answer; a crash anywhere |

### ServiceForms

`WellFormed` is `validateFormSchema`, `ValidAnswers` the validation of answers
(visibility, required, types, options); `CreateService`,
`PublishService`, `ReplaceCheck`/`ReplaceRead`/`ReplaceWrite`,
`DeleteCount`/`DeleteSoftly` and the submission and revision of answers each
read the form in one statement and write in another. `issued` remembers every
version of every form.

### AssetLifecycle, AssetGraph, AssetLinks

`AssetLifecycle`: `assets`, `assignments` and calls that create (by count),
transition, assign, unassign, and the `change_asset_status` executor; each
read is an action and each transaction's writes are another, their WHERE
evaluated at the write. `AssetGraph`: `RelateBegin`, one `Climb` per query of
`assertNoParentCycle`, `InsertEdge`. `AssetLinks`: `createTicketFromAsset`
under its row lock (`LockAsset`, `CountTickets`, `CreateFromAsset`), links with
and without it.

### Taxonomy

One tree or list at a time, of the five kinds: each service's own checks
(`AddAssetCategory`, `MoveServiceCategory`, `RemoveKbCategory`, ...), then the
write with what the foreign keys do (`RemoveFromKb` restricts, `RemoveLocation`
sets null, soft deletion does neither).

### Accounts

`account`, `session`, `refresh` and `oneTime` are the rows of one person;
`LoginRead` to `LoginIssues` the five statements of a login,
`LoginFails`/`LoginCounted` the counter, `RefreshRead`/`RefreshRotates`/
`RefreshIssues` and `ReuseRevokes`/`ReuseEnds` the rotation, `ConfirmRead` with
`VerifyWrite`, `ResetWrite` one-time tokens, `ChangeRead`/`ChangeWrite` a change
of password. Any call may be denied or die between two of them (`Deny`).

### RateLimits

`bucketOf` is the map of the in-memory store, `bucket` its objects, the
replaced ones included: `consume` hands out the object itself. `attempt[a]` is a request,
`time` a clock in seconds. `OpensWindow` and `CountsOn` are `consume` up to its await,
`Allows` and `Refuses` what follows with the count the object has by then
(`RetryAfter` as the guard computes it), `Ends` the refused request's answer,
`Restarts` a new process with an empty store.

### Permissions

`grants` and `userRoles` are the two tables; `AssignRole`, `ReadRoleKeys`,
`CheckRoleKey`, `WriteUserRole` the statements of `assignRole`,
`GrantRolePermission`, `WriteGrant` those of `grantRolePermission`. `CanRead` is
`getTicketById`'s check, `Search` that of `searchTickets` with
`resolveListScopeFilter` and `buildScopeOrClause`. The source has the operations
but no endpoint that calls the two that write, and nothing that takes a role
away.

### KbArticles

`article`, `snapshots` (`kb_article_versions`), `news` (events). Each call looks
first and writes by id; `PublishCommit` is the one READ COMMITTED transaction,
`AnnounceVersion`/`NotAnnounced` the event after it, `PublishRefused` the unique
index.

### Inbox

`notice`, `preference` with versions; `NotifyRead`/`NotifyInsert` a producer,
`ShowNotice`, `MarkRead`, `MarkWrite` a device and its change of a notice,
`ShowPreferences`, `PreferRead`, `PreferWrite` the list of preferences, one
transaction each.

## 3. Runs

| Run | Instance | Shows |
|---|---|---|
| `runtime_safety` | 2 processes, 3 rows, 2 workflows that trigger each other, depth 2, leases that run out under a worker, replay of rows in any state, 1 command, 1 disturbance | effects at most once, effect iff event, budget, order, skipped executions never act; refinement of `AutomationPromise` |
| `runtime_leases` | 2 processes, 3 rows, two workflows on one event, no batch outlasts its lease, replay of failed rows, 2 disturbances, fairness | lease exclusion, attempts and outcomes final and consistent, delivery |
| `ticket_updates` | `MCDesk`: 1 ticket, 2 requests, 1 executor, versions to 3, a correlation id sent twice; comments, taxonomy, forms, rules | no lost update, lifecycle at commit, events converge, in order, and are not misleading; refinement of `TicketPromise`; `TaxonomyConsistent`, `DeskSound` |
| `ticket_people` | `MCTicketsAndAssets`: 2 tickets, 2 requests, no executor, versions to 4; 2 assets, 2 calls, an executor | references unique and dense, closed is terminal, timestamps tell the status as long as only people write; `AssigneeOnRecord`, `AssetRowsSound` |
| `sla_targets` | `MCSlaAndReaders`: 1 ticket, 2 calls at a time, 1 executor, a workflow that solves the ticket, three more pieces of work after the creation, 1 failure, 2 ticks; articles, inbox | a target is paused iff it knows since when; a call that is alone leaves the targets as ticket and clock demand, whatever was left to it; what it resumes keeps its time; `ReadersSound` |
| `structures` | `MCStructures`: 3 assets related and 2 linked, 4 uploads, 822 schedules, 2 users with 2 roles | `NoCheckedCycle`, `WalksEnd`, `RowLockServes`, `ClockKeepsTime`, `StructuresSound` |
| `processes` | `MCProcesses`: a request of 2 steps, an account with 2 sessions and 3 refresh tokens, the rate limits of a scope with its own limit and of the default (2 requests at a time, 2 buckets, windows of 2 s), 2 configurations of 2 versions | `RequestsSound`, `RequestFollowsTable`, `AccountsSound`, `ProcessesSound` |
| `failed_never_retried` | 1 process, fairness | violation, see below |
| `crash_not_resumed` | the instance of `runtime_safety` with smaller actions | violation, see below |
| `closed_reopened` | 1 ticket, 1 request, 1 executor | violation, see below |
| `late_answer_met` | 1 call, 3 ticks | violation, see below |
| `solved_stays_open` | 1 call, a workflow that solves | violation, see below |

**Several components in one run.** Five runs check more than one component.
Those share no state, so exploring their product would only multiply states:
the variable `part` picks in the initial state the component that runs, and the
others keep their initial state. An invariant of a part that rests holds as it
did initially, so the runs check each component exactly as a run of its own
would. `DeskSound`, `ReadersSound`, `StructuresSound` and `ProcessesSound`
gather the invariants of parts:

| Invariant | Part | What it says |
|---|---|---|
| `DeskSound` | comments (`CommentsSound`) | a change replaces the words its author saw and has a version of its own; a comment has one event; nobody is told twice or of what is not for them; the SLA engine hears of every public comment unless its call died |
| | forms (`FormsSound`) | every well-made form can be answered; a version is one form; answers fit the version they record; a service with requests stays - each but for overlaps that are named |
| | rules (`RulesSound`) | actions of a published workflow do not fail for their parameters, its own changes do not fire it, it can be saved again - each but for the gaps listed below; its conditions decide something exactly if they ask an event of an asset for its type or state, by a list or by `contains` (`ConditionsDecide`) |
| `ReadersSound` | articles (`ArticlesSound`) | snapshots are dense, faithful and announced once or known to be lost |
| | inbox (`InboxSound`) | versions tell what a device saw; what is off stays silent; mandatory events stay on |
| `StructuresSound` | attachments (`AttachmentsSound`) | a row has its file; limits are passed by overlapping uploads only |
| | roles (`PermissionsSound`) | no permission that nobody held comes to be held; an assigner holds what the role had when read; a search shows exactly what may be read |
| `ProcessesSound` | rate limits (`RateLimitsSound`) | no window allows more requests than its limit; nobody is refused without as many counted; windows of one caller do not overlap; who comes back when told to does not meet the same window |
| | publication (`PublicationSound`) | the active version is the only published one and was validated; priorities are unique - but for overlaps |

**Where a property excuses an overlap** (`overlapped`, `unchecked`, `met`,
`crossed`, `raced`, `forked`, `late`, ...), the history variable is set by exactly the
interleaving the code leaves open, and TLC finds a violation when the excuse is
taken away: the property says that nothing *else* goes wrong, and the list of
excuses is what a reader of the code should know.

**Bounds.** Two processes are what it takes for a lease to be taken over, an
insert to lose a race or a zombie to write; three rows make a command, its
child and grandchild, so the budget of 2 is reached and passed on; the
workflows are chosen so that one ends in an action nobody executes (partial
failures), one is skipped by its conditions after the ticket has moved on, and
they cause each other's events. "Disturbances" (crash, statement error, replay,
pause, resume) are counted together: one suffices for each of the properties of
`runtime_safety` to be broken by its mutant, and two in `runtime_leases` give a
crash after a crash, or a replay of what failed. For tickets two requests and one executor are
every pair of writers the code has, and versions to 3 leave room for a write
between any two steps of a request. For the SLA engine two calls and
an executor are every pair of writers; three pieces of work (a call, an
executor's transaction, a workflow's change of status) suffice to solve, reopen
and interfere, or to pause, resume and interfere; two ticks make one target
overdue and the other due for a warning, then overdue; the reopened ticket's
second target is refused by the index in the executions where a workflow solved
it.

Workflow definitions are 175, every combination of five lists of triggers, five of
conditions and seven of actions, with limits of 3 each: among them are some for every
error, some that are refused for changes of assets alone, and some that are published
with each of the gaps of validation named below.

All other components run two calls at a time, which is what a check-then-write
race takes, over as many rows as the property relates: three nodes for a tree
(a cycle through a node that is not a neighbour), three assets for a hierarchy,
two steps for an approval gate (`ANY` and `ALL` differ from two on), three
refresh tokens for a rotation of a rotated one, two configurations for a
collision of priorities. `MaxVersion`, `MaxFormVersion`, `MaxRemarkVersion`,
`MaxInboxVersion`, `MaxVersions` and `MaxPublications` bound counters of rows; each
leaves room for one write behind another's back and one after it (2 for a
preference or form that starts at 1, 3 for a comment that is edited and then
deleted). `MaxAssignments`, `MaxFiles`, `MaxEdits`, `MaxCycles`, `MaxRows`,
`MaxFailures`, `MaxPasswords` and `MaxPermissionCalls` count events of one kind.

Constraints cut the rest. `MCStillSaid` and `MCFewHidden` cut what no property is
about: once two requests have overlapped, `TaxonomyConsistent` says nothing more of
a kind whose rows stay (and nothing at all of asset categories, of which two rows
show what requests do); of three assets two deletions leave nothing to relate.
The others are bounds. `MCFewLinks`: at a time one article is linked or has lost its
event. `MCOneMeeting`: requests of a publication meet in one of the ways that
`PublicationSound` excuses, so that the excuses are met one by one.
`MCFewSessions`: while wrong passwords are counted, a user has one session at most.
`MCTwoAtOnce`: two calls of the SLA engine overlap, or one and a workflow's
transaction, and after a failure what is still under way goes on alone.

`BusinessClock` takes every pair of windows of a
four-tick day against three kinds of second day, which may be a holiday, a budget of three ticks, of
which a pause leaves three, two or one, and starts, pauses and resumptions at ticks 0 to 4, the midnight
after the first day: each boundary of the algorithm (before, in, at the end of a
window, midnight, a closed day) is among them. `PROJECT.json` names for
every property a plausible bug in the code that makes its run fail.

**CHECK_DEADLOCK FALSE** everywhere: an instance stops when the bound on rows,
commands or versions is reached; the program merely waits for the next request.

**Fairness.** `FairSpec` assumes weak fairness of each process's next step (the
poll timer fires every 500 ms, no statement blocks for ever, and a process that
dies is started again by its supervisor and polls) and that time passes: the
lease of a row that nobody holds runs out. Nothing is assumed of
administrators, of people, or of a failure ever ending or happening.
`EventuallyDelivered` needs no more, and in the run with its violation the same
fairness shows that no scheduling retries a failed row. `GraphFairness`, for
`WalksEnd`, is weak fairness of the queries of a walk that has started: the
request awaits one after another, and nothing else of the graph is fair.

### Where documents and code disagree

* **Failed deliveries are not retried** (`FailedIsRetried`). The runtime design
  promises backoff and 8 deliveries; `claimPendingBatch` selects PENDING rows and
  CLAIMED rows with an expired lease, and nothing ever selects FAILED.
* **An execution can be left RUNNING** (`CrashedIsResumed`). The design says a
  crash in mid-workflow resumes. When a batch outlasts its lease, the worker
  that loses the insert of the execution marks the row PROCESSED; if the winner
  then dies, no row leads back to the execution.
* **Closed tickets change status** (`ClosedIsTerminal`). The lifecycle document
  calls `closed` terminal; the `change_status` executor writes whatever target
  the workflow names.

* **A late answer is recorded as met** (`LateIsBreached`). `docs/10-sla.md` says
  that a target breaches at its due date while incomplete; a public comment
  completes the response target without evaluating it first.
* **A ticket a workflow solved keeps its resolution target** (`SolvedIsComplete`).
  The document says the target completes when the ticket is first solved; the
  `change_status` executor does not call the engine, and the target breaches later.

What races do to targets is in the model and deliberately outside the
properties: two evaluations at a time warn twice; a target met between the read
and the write of an evaluation becomes breached, or of a resumption runs again;
a call whose `now` is before the pause of another one shortens the due date it
resumes. That is why `LoneCallSettles` and `PauseIsFree` speak of calls nobody
interfered with, and why the first also says that one such call repairs the
rest. One thing no call repairs in its own run: where a workflow solved the
ticket and a person reopens it under `restartResolutionOnReopen`, the index
refuses the second target and the rest of the call is skipped (`Refused`).

Weaker facts were met while modelling and are built into the modules (as an
exception a property names, or as what an action does) rather than reported:

* **Tickets.** A request that reuses its correlation id for a second command of
  the same type on a ticket rolls back (`Insertable`); an update may set the
  assignee of a closed ticket, assignment may not (`Outcomes`); solved_at survives
  an executor's reopening, so `TimestampsTellStatus` is checked for people only.
* **Comments.** Who is told is decided on the ticket read before the
  transaction: the event may name an assignee who never hears of it. An edit
  checked in time may commit after the window. If the process dies after the commit the SLA
  engine never hears of the answer.
* **Workflow definitions.** Published triggers are `[{type}]`; the dispatcher
  looks for strings or an `eventType` and does not compare statuses. The operators
  `eq` and `neq` pass validation and are unknown to the evaluator, which has
  `equals` and `not_equals`. Statuses pass in lower case, which `change_status` refuses;
  an SLA target must be `response` or `resolution` to pass and `RESPONSE` or
  `RESOLUTION` to run. Nothing compares actions with triggers: a change of status in a
  workflow for events of assets finds no ticket in the payload and fails.
* **Conditions.** Validation admits flat field names, the evaluator looks them up in the
  payload of the event (`workflow-condition-evaluator.ts:47`), and payloads have a
  ticket's fields under `ticket` (`tickets.repository.ts:123`), also those of comments
  and SLA events. So conditions on status, priority, type, channel, requester,
  assignee and tags read `undefined`: `in` and `contains` never hold, `not_in`
  always does. (The tests ask for `ticket.priority`, which validation refuses.) Only
  `assetType` and `lifecycleState` of asset events are there; of these `in` and
  `not_in` find the database's own spelling only, where validation admits
  any, and `in` or `not_in` without a list never and always hold.
* **Cycle check.** ADR-0011 has publication check for cycles within one definition. The check returns
  early when a workflow has no trigger or no action of ticket statuses
  (`workflow-validation.ts:481`): a workflow that changes an asset's state on every
  change of an asset's state is published, and is refused only if it
  also has both. Nor does it judge ticket triggers with a from-status only, or asset
  triggers that name any state. `OwnChangesDoNotFire` names these three.
* **Publication.** A schedule's publication retires nothing if there was no
  active version when it was read; overlapping publications can leave two versions published,
  and two policies one priority (`docs/10-sla.md:3` has ties impossible).
* **Business hours.** For a window over midnight, the clock leaves out what the day
  before still covers; after an interval that ends at or after midnight it skips
  the whole next day (`docs/10-sla.md:19` has overnight windows covered).
  `DueIsExact` is therefore about windows within days, `NeverDueEarly` about all.
* **Service requests.** Two decisions at a time can each see the other pending,
  and a crash between decision and transition leaves the request awaiting approval with
  nothing to decide. Without steps, mode ALL passes the gate and ANY never does.
  Revised answers do not update the form version the request records.
* **Forms.** Validation of a form does not look at the limits and patterns of a
  field, although a comment (`catalog/domain/form-engine.ts:273`) says so. Two
  replacements at a time give two forms one version.
* **Taxonomy.** Asset and knowledge-base categories may form cycles one request after another:
  only service categories look at descendants. New assets are given categories
  and locations nobody looked at.
* **Attachments.** A request's upload leaves its file behind when its row cannot
  be inserted.
* **Knowledge base.** An archived article keeps its version number, whose
  snapshot exists: publishing it again always fails. The event of a publication is
  inserted after its commit, under a key with the correlation id and not the number.
* **Notifications.** A preference is compared by version and written by id; a row
  just created has the version a device shows when there is none.
* **Permissions.** The checks of assignment and grant are about keys; scopes are
  compared when tickets are found and read, and nowhere else.

## 4. What is proved

`tlapm` checks all proofs from nothing, for any number of processes, rows,
tickets, workflows, users, schedules and calls and any limits. Every invariant, every action
property and both refinements that the passing runs check are theorems; `ClockKeepsTime` is one under a
hypothesis about schedules that is given below.

**Assumptions** on constants are named in the module that declares them, and
TLC evaluates them on the instances: `RuntimeConstants` (sequences of actions no
longer than `MaxOrdinal`, positive limits, `NoEvent` and `NoKey` outside the sets they
complete), `ReplayConstants`, `LifecycleConstants`, `TargetsAreStatuses`,
`SlaConstants` (a policy that pauses on `PENDING` and `ON_HOLD` at most),
`RuleConstants` and `FormConstants` (what a definition, or the field of a form, can be), and
for each other component that its "none" is no row and its limits are numbers. `FiniteTickets`,
`FiniteAssets` and `FiniteUploads` say that what the code counts is finite.

Four kinds of hypothesis are not about constants being well-formed:

* `LeasesKept`, for the theorems about leases and outcomes (`OutcomesHold`, `LeasesExclude`,
  `OutcomesTell`, `SuccessIsFinal`, `OutcomesAreFinal`): batches end within the
  60 s of their lease, and administrators replay no row that is leased. Without it the
  code does not promise them (updates by id, a replay that looks at no state); all other
  theorems of the runtime hold for leases that overlap, too.
* `Jobs = {}`, for `TimestampsTell` and `ClosedStaysClosed`: no workflow
  action writes tickets. Run `closed_reopened` shows what one does.
* `HorizonReaches(schedule)`, in `ClockKept`: a schedule with hours is open on one of the
  399 days after any given one. The search of `openIntervalsOnAndAfter` looks no further, and
  `remainingBusinessMs` takes a search that finds nothing for the end of what remains; `addBusinessMs` for an
  error. Nothing in the code excludes a schedule closed for longer. `WeeksReach` gives a condition
  that is easier to see: never 57 holidays within 399 days. That a due date is never early
  before a pause (`NeverDueEarly`) is proved without it.
* Histories inside the properties (`unchecked`, `overlapped`, `raced`, ...): see "Where a
  property excuses an overlap".

**`WorkflowRuntime_proofs`.** `IInv` is `TypeOK` and, for every process, what
its locals say about the database: it holds a row at every position but idle and batch,
the rows it holds are not absent, and where it is walking workflows the row at
hand is within the depth limit. `TypeOK` alone is not inductive: `Append1` at a
child's depth stays in `0..MaxDepth` only because the row being dispatched is below the limit.
`InvariantHolds`, `TypeCorrect`.

**`WorkflowEffects_proofs`.** First, `IInv` and a step give one of four kinds of
change (`EffectStep`): nothing, a person's event, an effect with its event, a
notification; and executions come into being only for rows below the limit
(`ExecutionStep`). Then `EffectInv` (at most once, effect iff event,
`ExecutionsBounded`: no execution at the limit, `CausesRecorded`: the cause of a row is on record and one level up) is
preserved by the four kinds, instead of by twenty-three actions. At-most-once needs effect-iff-event to be
inductive: it is the unique key of the event that refuses a second effect.
`EffectsHold`, `AtMostOnce`, `EffectWithEvent`, `Bounded`, and
`RuntimeKeepsPromise`, the refinement: initial states map to initial states,
each of the four kinds to a step of the promise or a stutter.

**`WorkflowOrder_proofs`.** A step again has one of a few forms (`Enters`, `Leaves`, `GoesOn`, `Passes`, ...). `OrderInv`
says where each worker stands: what is behind it in the sequence of actions was
attempted (`PlaceOf`), attempts exist only where the conditions pass (`Conditioned`), and they do not pass
for what is skipped (`SkipsJustified`); they are judged on the payload of the
row, which no step changes. This holds for overlapping leases. Under `LeasesKept`, `HoldingInv`: a row in the
memory of a worker is leased, and with one worker only. Then what a worker
counted of successes and failures is what the attempts say
(`KnowledgeOf`), and with it the outcome it writes (`OutcomeInv`). `OrderHolds`, `ActionsInOrder`,
`SkippedNeverActed`, `OutcomesHold`, `LeasesExclude`, `OutcomesTell`, `SuccessIsFinal`,
`OutcomesAreFinal`.

**`Desk_proofs`.**

* Tickets. `LInv` is `TypeOK`, absent rows are blank
  (`AbsentIsBlank`), every request is `Informed` (as long as the ticket has the version
  its author saw, it *is* the row its author saw) and `Prepared` (what it will
  write follows from that row by an allowed command), and every executor read a
  ticket that exists. `Informed` is inductive only because every write, the
  executors' included, moves the version (`RowsFollow`, `VersionsTell`): it is what optimistic
  concurrency rests on. `EventInv` adds what the row a request re-read says of the ticket
  (`WriterRead`) and that no consumer has heard of a version the ticket does not have (`HeardNoNewer`);
  from these events tell every change, in order, and mislead nobody. References are dense
  because creations are serialized and nothing deletes a ticket.
* `CommandsTakeOneStep`: `TicketLifecycle` implements `TicketPromise`. A command is three reads and a
  write apart; it takes place at the write. What it was computed from is the row
  its author saw (`LoadedSince`, `AtomicInv`), by one of the outcomes the aggregate has (`Chosen`,
  `OutcomeIsPromised`), and the guard makes that the row it
  lands on: so the write is the abstract command, on the row as it is. Every other step
  of a request is a stutter.
* Taxonomy. `TaxInv`: what foreign keys keep (`HomesExist`) they keep whoever overlaps; what a check
  found (`ChecksHold`) lasts as long as the call is alone. That service categories stay
  acyclic is an argument about all sets closed under parents, without recursion.
* Workflow definitions. `RuleInv`: what is published was approved, and whom it names is active or left since.
  What a condition finds is there to be found or named in vain (`FoundIsThere`); where
  there is nothing to read it cannot decide (`NothingToRead`).
* Forms. `FormInv`: a version that was issued is one form; what a call read was issued, and no newer
  version than the service's unless replacements crossed; answers fit the version a request records, or a
  later one after an edit.
* Comments. `RemarkInv`: per comment, who was told and by which call, and whether the SLA engine heard, is
  about to, or never will.
* `DeskIsSound` for `MCSpec`: a step of the composed model is a step of one part and
  leaves the rest.

**`AssetLifecycle_proofs`.** `AInv`: what each call has read (`CallOk`), rows that were
never created are blank, references are dense and unique, assignees on record. `AssigneeIsOnRecord`, and
the three action properties.

**`SlaAndReaders_proofs`.**

* Targets. `IInv` is `TypeOK`, `PausedKnowsSince` and, for every call,
  `PlanFits`: between calls there is nothing to do, and what a call that is still
  alone has planned fits the rows (`FitsRows`: one update for a target at most, and
  a resumption only of a target that knows since when it is paused, with the due date that follows
  from the row). `PauseIsFree` is not about one state, and `PlanFits` is what carries
  the row the call read over to the await where it writes. Steps fall into four
  kinds, each proved once (`QuietStep`, `CallStep`, `WriteStep`, `RowStep`).
* Settling. `LoneCallSettles` speaks of the end of a call, so `SettleInv` says for every point before
  it what is still owed: a target is settled, or one of the planned updates settles it, or a
  stage to come looks at it. The lists of stages a lone call can have left
  are few (`ToSolve`, `ToFollow`, ...), and each has its debts. `OneActive` is the
  unique index: without it a completed target could have a running twin.
* Notices and articles. `InboxInv`: a device shows nothing newer than the row, and
  with the same version it shows the row. `ArtInv`: `PublicationFits` and `AnnouncementFits`, every number given out is
  announced once, about to be, or known to be lost.

**`Structures_proofs`.**

* Relationships. `GInv`: while nobody has inserted an edge since a walk began, the
  assets it has seen contain the parents of all but the one it is at, and the child is not among them. So at the
  end the new edge closes no cycle (`NoCycleGetsIn`): the argument is about sets
  closed under parents, and needs no induction over paths.
* Links (`LinkInv`): whoever holds the lock of an asset finds it alive, and no tickets of it have come since.
  Permissions (`PermInv`): whoever is checking holds what it has passed. Attachments
  (`AttInv`): uploads between count and insert are counted as if they had their row.
* Business clock. `ClockInv` says in the middle of a call what it has counted: `Adds`, that the business time
  from where it began to its cursor is what it was given less what is `left`; `Measures`, that
  it is `total`. Both last because the intervals still to visit cover every open tick from the cursor
  to the end of their day (`Covers`), so that going on to the start of the next one skips none
  (`VisitCounts`), and because the day a search finds is the first with any
  (`FirstDayCovers`). For windows over midnight neither is so, and only "at least" is left. `Promised` says
  what a target has had at each point of its life. `ClockKept`, without
  induction over days: the state machine does the counting.
* `StructuresAreSound` for `MCSpec`, all five parts.

**`Processes_proofs`.**

* Service requests. `RequestInv`: what a call has checked (`CallChecked`), what it still knows while it is alone
  (`CallKnows`), and that a request which waits for approval has a step to decide or a call about to
  move it (`NeverAbandoned`).
* Accounts. `AccountInv`: a session that was not forked has one live token or a call about to issue it one
  (`LiveUnique`), and no two calls open, or refresh, such a session (`Apart`); the counter that locks is not
  behind the failures counted one at a time (`CounterLeads`).
* Rate limits. `RateInv`: a bucket has counted exactly what it allowed, refused and still owes an
  answer (`Tally`), and the one in the map is the last of its key (`Succession`).
* Publication. `PubInv`: two publications of one configuration, a publication and an edit of it, or two
  requests that check priorities are under way together only if `met` says so (`EditsApart`); priorities differ as
  long as it does not (`RanksApart`).

**Only model-checked.** `EventuallyDelivered` and `WalksEnd`: liveness under fairness is
out of the prover's reach. The five properties of the runs that expect
a violation are false; TLC shows it on an instance, which is all it takes.

## 5. Plan

What would come next: promises in the way of `AutomationPromise` and `TicketPromise` for other
components, a service request with its approvals first (there, what two transactions
do apart is visible to readers, so the promise would have to say what they may see in between); the
product of `WorkflowRuntime` and `Publication` on an instance small enough to finish;
a business clock whose days differ in length, as daylight saving time has them;
and, once the engine warns once only, that it does (two evaluations at a time both warn).

## 6. Not modelled, and why

* **Retention of the outbox**: rows processed more than thirty days ago are
  deleted; deliveries take minutes.
* **Versions of workflows under deliveries**: an execution's key holds the
  version, so a row delivered before and after a publication runs both. It takes
  the product of `WorkflowRuntime` and `Publication`, which TLC does not finish.
* **Templates of fulfilment**: a repository without a service; requests read the
  default template.
* **Counters of views and feedback, links of asset types to articles**: single
  statements nothing depends on.
* **Audit, health, wiring**: reads, append-only rows, configuration.
* **The web front end, shared packages, build files**: render and forward; types.
* Within modelled components: permissions of a handler (they guard its start),
  texts and their formatting, audit rows, paging, and daylight saving time.
