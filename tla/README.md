# Leadline in TLA+

Specifications of the Leadline backend (FastAPI, PostgreSQL through async
SQLAlchemy, SQS, one polling worker), the TLC runs that check them on small
instances, and TLAPS proofs about them. Paths below are relative to the
repository; `PROJECT.json` maps every definition to the lines it models and
lists the hazards (hard-to-test behaviours) with the properties that cover them.

## 1. Inventory

| Component | State it keeps | Operations | What makes it hard | What makes it correct |
|---|---|---|---|---|
| Job queue and worker (`app/queue/sqs.py`, `app/workers/main.py`) | SQS messages and their receive counts, the batch in hand, `failed_jobs` | publish, receive, handle, dead-letter, delete | at-least-once delivery, crashes, abandoned batches, early visibility timeouts, two workers | an accepted job is not lost; retries end; duplicates come from faults only |
| Dead-letter replay (`app/api/admin.py`) | status of a `failed_jobs` row | list, replay | send and mark are two systems; repeated and concurrent replays | a dead job is replayed before it is marked |
| Sequences (`app/sequence/pipeline.py`, `app/services/sequence_service.py`, `app/api/sequences.py`) | sequences, ordered steps, enrollments with an index | create/update/delete, enroll, trigger, execute a step | publish before or after commit, retries after a send, edits under a running enrollment | no step skipped, none run twice without cause, every enrollment ends |
| Leads (`app/services/lead_service.py`, `app/repositories/lead_repository.py`) | leads, timeline | create with limit and dedup, update, delete | check-then-insert races, publishes after the commit | overshoot and duplicates only from races; changes announced |
| Plan limits (`app/services/plan_limit_service.py`) | none (reads counts and tenant settings) | enforce for leads, sessions, messages | count is stale when the row is inserted | overshoot bounded by concurrency |
| Usage (`app/services/usage_tracking_service.py`) | one row per tenant and day | increment, summary | read-modify-write, unique first insert | counts what happened, up to known losses |
| Routing (`app/routing/*`, `app/services/routing_service.py`) | rules; owner, team, queue of a lead | CRUD, evaluate and apply | concurrent evaluation writes only changed columns | first matching rule by priority; one assignee |
| Webhooks (`app/api/webhooks.py`, `app/services/webhook_service.py`) | idempotency records | svix, HubSpot batch | check-then-insert, one commit per batch | one event processed once |
| AI pipeline (`app/ai/*`) | message annotations, scores, Redis cache, usage | analyze, score, publish | redelivery, out-of-order messages, cache | score in bounds, usage per message |
| Conversations (`app/services/conversation_service.py`) | sessions, messages | CRUD, attach, create message | limit races, publish after commit | message is analysed once stored |
| Integrations (`app/integrations/*`, `app/services/integration_service.py`) | connections, last sync | sync, notify | provider called before commit, upsert race | one connection per type |
| Provisioning (`app/services/provisioning_service.py`) | tenants, users, keys, settings | provision, enroll design partner, promote | lost update of settings | settings of two admins both kept |
| Rate limit (`app/security/rate_limit.py`) | window per tenant, in memory | allow | window boundary, restart | bounded in any minute; refused only after the limit |
| Authentication (`app/middleware/auth.py`, `app/core/dependencies.py`) | none (reads keys) | resolve, tenant header, role | order of the checks | a tenant acts for itself; writes need a role |
| Audit log (`app/main.py`, `app/services/audit_service.py`) | audit entries | one entry per request | a transaction of its own after the endpoint's | changes have entries |
| Provider clients, configuration, observability | none of their own | | | |

Interaction: the API and the handlers publish jobs after (leads, AI, API
enrollment) or before (sequence pipeline) their commit; the worker takes jobs
from six queues in turn and calls one handler per event (`app/workers/main.py:35`);
handlers publish further jobs: `message.created` -> score -> routing,
integrations, sequence trigger -> enrollment -> step -> step ... A lead creation
or update publishes to the same three queues. All of them share the leads, the
usage row and the tenant in PostgreSQL at its default isolation, READ COMMITTED.

## 2. Plan

Done, in this order: (1) `JobQueue` + `JobContract`, because every other
asynchronous part rests on it; (2) `SequenceExec`; (3) `LeadIntake`; (4)
`LeadRouting`; (5) `WebhookStore`; (6) `MessageScoring` (conversations and AI)
and (7) `IntegrationSync`, composed in `LeadSignals`; (8) `TenantAccess`
(authentication, rate limit, provisioning, audit); then the theorems of section
6, component by component.

The plan is done: every invariant that a run checks is a theorem too, but the
one about ENABLED.

## 3. Modules

| Module | Models |
|---|---|
| `JobContract` | what one publish is promised: new, queued, settled or dead, replay from dead |
| `JobQueue` | publish, SQS, worker loop, `failed_jobs`, replay |
| `SequenceExec` | enrollment and step execution with its own small job layer |
| `LeadIntake` | concurrent calls of create, update, delete lead |
| `LeadRouting` | rule engine, evaluation by workers, edits of rules, writes of a lead |
| `WebhookStore` | idempotency records of Svix and HubSpot deliveries |
| `MessageScoring` | sessions, messages, and the handler that analyses and scores a message |
| `IntegrationSync` | the handler of integration jobs, connections, the API calls that use them |
| `LeadSignals` | the composition of the two: one lead, one set of workers, scores on their way out |
| `TenantAccess` | a request through middleware, admin endpoints and audit log |
| `JobQueueProofs`, `JobQueueRetryProofs` | theorems about `JobQueue`: jobs are kept, the contract is implemented; receives, dead letters and duplicates are bounded |
| `SequenceExecProofs`, `LeadIntakeProofs`, `LeadRoutingProofs`, `WebhookStoreProofs`, `TenantAccessProofs` | theorems about the module they are named after |
| `LeadSignalsProofs` | theorems about the composition, and so about `MessageScoring` and `IntegrationSync` |
| `MC...` | the instances TLC runs |

Operators whose comment says "Mutant" are plausible bugs of the definition that
follows. They take no part in the specification; PROJECT.json pairs each with
the property that must catch it.

### JobQueue

`messages` is every message ever sent; a deleted one stays with state
"deleted", so indices are identities. A delivery is a message and the receive
count it was handed out with (its receipt handle); it is stale once the message
was received again. A worker is at pc "poll" (`receive_message`), "next" (taking
a message of the batch and running its handler), "save" (`_save_failed_job`) or
"delete". `HandlerRaises` leaves the message for redelivery or goes to "save" at
the delivery number `MaxRetries`; `DecodeFails`, `ReceiveFails`, `SaveFails` and
`DeleteFails` leave `poll_queue` by the exception that `main` logs, which drops
the rest of the batch. `Redeliver` is the end of the visibility timeout for a
message no worker holds, `EarlyTimeout` for one that is being worked on.
`ReplayPublish` and `ReplayCommit` are the two halves of `replay_dlq_job`;
nothing keeps two calls from replaying one row.
Fair redelivery stands for SQS; fair workers for `while True`.

Abstracted: payloads (a job is an identity), the one-second sleep and long
polling (stuttering), the SQS redrive policy (none is configured), retention.

### SequenceExec

One tenant. `jobs` is the sequence queue with the essentials of `JobQueue`
(deliveries, dead letters, replay); a job is taken by a second worker only after
an early timeout, which counts as a mishap. A worker record is the transaction
of a handler with what it has read: `StepTxn` (enrollment index, step list,
usage row) or `TriggerTxn` (sequences still to enroll into, rows inserted).
Reads at the start of `process_sequence_step_event` are one step; the call of
the provider, the usage read, the usage insert, the publish and the commit are
steps of their own, in the code's order. An enrollment inserted but not
committed is "pending" and invisible to others; rolled back or deleted it is
"gone". The columns a commit writes are those the handler assigned: the index
always, the status only when it completes.

What `_execute_step` returns of a step, a channel or nothing, is the constant
`Channel` (the code decides by the type of the step and the contact data of the
lead), and `Configured` are the channels whose provider is set up. Over another
channel `DeliveryService` sends nothing and says so; nobody looks at what it
says, and the delivery is counted as usage (`Delivered`, `Counts`). `usage` has a
counter per channel, and a commit writes the one it has changed. The row of the
day may exist from the start: other components insert it too.

`Replay` publishes and marks in one step, or, as a mishap, publishes only: the
commit of the mark failed, or the row had been replayed before, which the
endpoint does not check. `JobQueue` has the two halves apart.

`ran`, `recorded`, `sends`, `orphans`, `edited` and `mishaps` are history, used
by the properties only, except that `edited` and `mishaps` bound edits and
faults.

Abstracted: template contents; `delay_seconds`, which the code does not read;
the day on which usage counts.

### LeadIntake

One tenant. `client` is an API call in progress: count, lookup, usage read,
usage insert, commit, three publishes for a creation; read, commit, three
publishes for an update. Contacts are normalised by `Lowered` and `Digits`,
constants that give `strip().lower()` and the digit filter on the raw values of
the instance, blanks included. The id of a lead is fixed at its commit (the code
uses a random UUID, so only its freshness matters). `changes`, `seen`, `edited`,
`updates` and `lost` are history.

Abstracted: other columns; the plan's limit is a constant. An update writes the
columns that differ from what was read (`NetChange`), as the ORM does.

### LeadRouting

The engine is a set of operators named after its functions: `Compare` for the
comparators, `RuleMatches`, `EvaluateRouting` (sorted by priority and id, first
match), `ApplyDecision`; the sorted list is the one sequence of the rules that is
`InOrder`. What the comparisons see in a value - a number, a
substring, the elements of a list - are constants, so that a lead is a function
from columns and custom fields to abstract values. An evaluation reads the lead
(`ReadLead`), reads the rules (`ReadRules`), and commits the columns of the
assignment that it changed (`CommitRouting`), together with its timeline entry;
a deleted lead, an owner who is no user, or a team or queue longer than its
column (`Admitted` has what each column takes) refuses the commit, and the
refresh after it may find no row. A write of a lead (creation, PATCH,
scoring) commits and then publishes the routing job, or dies in between. Edits of the rules
publish nothing. `torn`, `outdated` and `unannounced` are history: they name the
leads the properties excuse and why.

### WebhookStore

`call` is a request with the item of its delivery it is at and the rows it has
inserted, which others see after `Commit` only. `ensure_idempotent` is
`Duplicate` or `Insert`, `mark_processed` looks the row up a second time
(`MarkProcessed`); `FindsSeveral` is the exception of `scalar_one_or_none` in
either. `mark_failed` starts with the same lookup in the same transaction and
raises again, so the call ends with 500 and nothing is stored; the statuses
"failed" and "retry" are never written. Providers deliver at any time, also what
was answered, and `Retry` is what fairness demands of them. An item is what a
provider sent, a key what it is looked up by: items with an id have keys of
their own, those in `WithoutId` share the one the code makes of "unknown", and a
row remembers its item, which is the payload of the code's row. `Refused` are
items the table cannot hold; their insert fails the whole delivery
(`InsertRefused`).

### MessageScoring, IntegrationSync, LeadSignals

`MessageScoring` has one API call at a time (`caller`) and several workers. The
handler of `message.created` reads the message, finds the analysis in the cache
or asks for one (`CacheHit`, `CacheMiss`, `Analyze`), and then runs the
statements of one transaction: `ReadUsage`, `ReadLead`, `Commit`. Locks matter
here and follow from the ORM's autoflush: each query first writes what has
changed, so the handler holds the row of its message from the usage lookup on
and the usage record of the day from the session lookup on. Two handlers of one
tenant therefore wait for each other before they count messages and write
scores, unless they work for different days; `UsageLocked` and `Writing` are
these locks. A commit writes the columns that differ from what was read
(`Rescored`). `Publish` ends the handler. `calls`, `billed` and `runs` are
history: analyses by a model and counted commits, per message and per day.
Callers write, too: a message may be created with an annotation and be given
another one, or none, by PATCH (`UpdateMessage`; `retouched` is the history of
the messages this happened to), and PATCH of a lead may write any of the three
scores (`PatchScore`, `Patches`).

`IntegrationSync` has an actor per worker and one for the API. A provider may
accept, refuse or raise. After an accepted call the connection is looked up and
updated, or inserted (`Upsert`); two rows make `FindsSeveral` raise from then on.
`known` is the score Svix was last told of a lead, and `alerts` are the leads
that Slack was asked to announce, whatever it answered. What HubSpot has noted
of a lead is not kept: `sync_lead` sends it no score, and only `score_updated`
does, so its note may be older than `known`. The variable `lead` is written by
others only.

`LeadSignals` EXTENDS the first and instantiates the second over the same
leads, workers and budget: a worker that runs a job of one queue runs none of
the other (`Poll`), `PublishScored` and `PublishPatched` append the integration
job in the step of the publisher, everything else interleaves. `unannounced`
is history: the leads whose change is published by nobody. That is a PATCH that
dies after its commit, and a handler that dies between commit and publish while
nobody repeats it (`Repeated`): its job was received again after an early
timeout, and the other handler has acknowledged it or is about to, having found
nothing to score, or another lead.

Abstracted: texts (a content is a model value with the analyses that may be made
of it), entities other than the company size, budgets and topics, request bodies
of the providers; the sequence trigger that a scoring publishes (`SequenceExec`
starts from it) and its routing job (`LeadRouting` starts from it). The
annotation of a message is one value, so that a mixture of patched and analysed
columns counts as the analysis that was written last. Three merged steps are
exact for what the properties say: `ReadLead` makes the queries for the session,
the lead and the count at once (they run behind the lock of the usage record;
a lead deleted between two of them is a lead that is not found, for which the
code still publishes events that no handler does anything about); `Upsert` is
the lookup and the insert of a connection, and the history `contended` remembers
a lookup during another actor's insert; and `Raise` compares the receives the
job has now, where the code has those of the delivery in hand: with a stale
delivery a job is dead-lettered one delivery earlier, which `JobQueue`, where
deliveries carry their count, covers exactly.

### TenantAccess

One API process with requests that interleave at database calls. A request
passes `Arrive...` (excluded path, no token, JWT, API key), `Dispatch` (tenant
header, rate limit, role) and its endpoint, and ends with `AuditAndAnswer`. The
limiter has no await between its reads and writes, so it is one step with the
dispatch of its request. `InsertTenant` waits for an uncommitted insert of the
same slug, as the unique index does, and fails when that has committed.
`WriteSettings` writes the settings that were read with one key changed, unless
nothing changed. Time is a number of ticks; a minute is `Minute` of them.
`audit` is the sequence of the entries; `admitted` is history, the ticks at
which a tenant was let in with the window and the process (era) that did.

Abstracted: decoding of tokens, hashes of keys, cohort and notes; the audit
entries of requests that change nothing are not kept.

## 4. Runs

| Run | Instance | Shows |
|---|---|---|
| `jobqueue_safety` | 2 workers, 1 admin, 3 jobs on 2 queues, 3 messages, 2 retries, batch 2, 1 fault; workers symmetric | `NoJobLost`, `ReceivesBounded`, `DuplicatesAccounted`, `DeadOrQueued`, refinement of `JobContract` |
| `jobqueue_live` | 1 job on the second queue, 2 workers, fair | `QueueDrains`, refinement with fairness |
| `jobqueue_replay` | queue URLs with names of their own, no fault | `NoJobLost` fails: replay publishes nothing (finding) |
| `sequence_two_workers` | 2 workers, 1 sequence of an email and an SMS, SES set up and Twilio not, 1 enrollment request, 1 admin change, 1 replay, 1 fault; workers symmetric | `NoStepSkipped`, `ActiveHasJob`, `EnrolledOncePerEvent`, `UsageMatchesCalls` |
| `sequence_one_worker` | 1 worker, a third step to insert, 2 faults, 1 replay, fair | `StepsRunOnce`, `NoRegress`, `EnrollmentsFinish` |
| `lead_intake` | 2 calls, limit 1, 3 creations, 1 update, 1 dying call; calls symmetric | `OvershootBounded`, `DuplicatesOnlyFromRaces`, `ChangesAnnounced`, `NoCallStuck` |
| `lead_duplicates` | 2 calls, limit 2 | `Deduplicated` fails (finding) |
| `routing` | 2 workers, 1 lead, 2 rules and a third to add or put in place, 2 writes, 1 edit, 1 fault; workers symmetric | `DecisionIsBest`, `OneAssignment`, `RoutedAsRulesSay`, `EvaluatedPerJob` |
| `webhooks` | 2 requests, 1 Svix message, 3 HubSpot batches with an event they share, two items without id, one that is no object and one the table refuses, 2 dying requests, fair | `AnsweredIsRecorded`, `DuplicateRowsOnlyFromRaces`, `BatchAtomic`, `RetriesEnd` |
| `lead_signals` | 2 workers, 1 lead, 1 session, 2 messages (one may get an analysis that cannot be stored), annotations and scores written by callers, 2 days, 1 extra; workers symmetric | `ScoresOfOneMessage`, `LatestCounts`, `BilledPerJob`, `ConnectionsOnlyFromRaces`, `SvixKnowsScore` |
| `high_intent` | 1 worker, 5 messages with the strongest signals, no extras | `HighIntentNotified` fails (finding) |
| `tenants` | 2 requests at a time of 4, of 11 kinds, 3 tenants, limit 2 per minute of 2 ticks, 1 crash; callers symmetric | `TenantsComplete`, `SettingsKept`, `RateBounded`, `EffectsAudited` |

Why the bounds suffice for these questions. Two workers are needed and enough
for an early timeout and for a job received before its publisher commits; the
loop treats workers independently. Two retries instead of three keep the three
cases apart: a delivery below the limit, the last one, and one beyond it after a
fault. Three messages allow an original and two replays, or three jobs. Two
faults with two retries let one job reach `failed_jobs` (`sequence_one_worker`).
Two steps are a first and a last one, and deliveries over two channels: a commit
that wrote the counter of the other one back would be seen. With two calls the
limit is overshot by the largest amount two can reach, and the third creation
lets a mutant that allows one more be seen; the general bound is proved.
`MaxMessages`, `MaxReceives`, `MaxFaults`, `MaxRequests`, `MaxChanges`,
`MaxReplays`, `MaxCreated` and `MaxUpdates` are bounds of the models, not of the
code; each only stops a source of new work, except `MaxReceives`, which stops
deliveries beyond `MaxRetries` + `MaxFaults` + 1, and `MaxMessages`, which stops
sends.

In `routing` the rules are one without conditions, one that compares a number
and a list, and one that reads the assignment itself and names an unknown user,
so that every comparator but `lt`, every action but `assign_team` and a commit
refused for its owner occur; two writes give a lead three jobs, enough for an
evaluation between two others. In `webhooks` two requests can race for a key and a third
delivery meets the two rows; two batches have an item without an id each, and
one of the three can never be stored. In `lead_signals` one budget (`MaxExtras`) is
shared by everything that is not the normal run - edits, midnights, crashes,
failed calls, early timeouts, provider calls of the API - so that each of them
occurs at every point of the run, but no two together; the races the properties
excuse need one at most. `tenants` needs four requests for two windows of a
limit of two.

The runs of `SequenceExec`, `LeadIntake`, `LeadRouting`, `LeadSignals` and
`TenantAccess` do not report deadlocks: when no one
calls the API any more and the queue is empty, the system rests (the worker's
empty polls are stuttering there). `NoCallStuck` is what would be a deadlock of
`LeadIntake`; `EnrollmentsFinish` covers it in `SequenceExec`.

Fairness: weak fairness of each worker's own steps, since `main` loops for ever
and catches every exception (`app/workers/main.py:201-211`). After a crash this
assumes that something starts the process again: docker-compose.yml:19-32 declares
one worker and no restart policy, so that is the operator's part. Further weak
fairness of redelivery by SQS, and of
the publish that follows a committed enrollment, which a request goes on to
unless it dies. In `WebhookStore` a request that is being handled goes on (weak
fairness), and a provider delivers again what was not answered with 200, which
must reach the API however often other deliveries occupy it (strong fairness).
No fairness is assumed of users, admins or faults.

## 5. Findings

- Replay loses jobs when queue URLs do not end in the logical names
  (`jobqueue_replay`; docs/api-reference.md:898).
- Concurrent creations store duplicates (`lead_duplicates`;
  docs/api-reference.md:210).
- The Slack alert for high-intent leads (README.md:23) is never sent for a score
  that the AI pipeline computes: the largest is 76, the threshold 80
  (`high_intent`; `NobodyIsAlerted` proves it of every analysis). Only a score
  that a PATCH wrote while a scoring event was under way can pass it, as the
  branch does in `lead_signals`.

What the models show besides, without contradicting a text: with two workers,
the first job of an event's enrollment can be dropped because it is received
before the commit, and a call that dies after its commit leaves an enrollment
that nothing executes (the orphans of `ActiveHasJob`); editing a sequence shifts
the indices of running enrollments (hence `edited` in `NoStepSkipped`); the
first usage row of a day makes a concurrent second transaction fail. Two
concurrent evaluations can leave a lead with an owner and a queue until the next
one (`torn`); edits of the rules route no lead until its next event
(`outdated`). Two rows of one webhook event make every later delivery of it fail
(`Poisoned` in `RetriesEnd`), as two rows of a connection do with every
synchronisation; HubSpot items without an id share the key "unknown", and all
but the first are passed over as duplicates in a batch that is answered with
success (`WithoutId` in `AnsweredIsRecorded`); a delivery with an item that the
table refuses fails as a whole each time it is retried (`Unstorable`). Usage
counts emails and text messages that nobody sent when SES or Twilio is not set
up, and misses one when two deliveries over a channel overlap
(`UsageMatchesCalls`). An analysis that the database refuses is cached and
dead-letters its message. A PATCH that nulls an annotation between the handler's
read and its commit can leave a billed message without one (`retouched`), and
one that writes a score does not reach the note in HubSpot. Around midnight two
handlers do not wait for each other and can mix the scores of two messages
(`straddled`). An admin's enrolment and promotion of one tenant at a time can
undo each other (`overlapped`).

Texts that differ from the code and were met on the way, without a run:
docs/api-reference.md:543 has a sequence with the trigger "lead.created" (the
code publishes "lead_created", `app/services/lead_service.py:67`);
docs/api-reference.md:474 writes a condition's comparator as "operator" (the
engine reads "op", and takes "eq" without it, `app/routing/engine.py:76`);
docs/api-reference.md:1763 has the HubSpot webhook store its state "per incoming
event" (items without an id share one, `app/api/webhooks.py:108`);
docs/api-reference.md:715 says that a webhook event whose handling raised is
marked `failed` (`mark_failed` writes "retry" as long as the attempts are below
`integration_max_retries`, `app/services/webhook_service.py:86`).

## 6. Proofs

Every theorem holds for all values of the constants: any number of workers,
callers, leads, messages, faults, any limits. Each module proves its theorems in
one way: what each action does to the parts of the state, one lemma per action
or kind of action, and an invariant that every action keeps.

`JobQueueProofs`:

- `TypeCorrect` (`TypeOK`). Inductive as it stands: it says that deliveries,
  rows and replays refer to sent messages and that the delivery being saved or
  deleted is one of the batch, and messages only grow.
- `JobsAreKept` (`NoJobLost`), under `NamesMatch`. `NoJobLost` alone is not
  inductive: a deletion destroys the only carrier of a job unless the handler
  has returned or a row was written. `IInv` therefore speaks of every message,
  not only of the newest: a deleted message's job has completed, has no handler,
  or has a `failed_jobs` row for that message (`DeletedResolved`); the same holds
  of the message a worker is about to delete (`DeletingResolved`); a row that is
  replayed or being replayed has a younger message of its job (`ReplayedSent`,
  `ReplayingSent`); jobs are sent to configured queues (`QueueConfigured`); and
  `latest` is a message of its job (`LatestRight`). `NoJobLost` follows for the
  newest message of a job, whose row cannot have been replayed (`IInvSafe`).
- `ContractKept` (`ImplementsContract`), under `NamesMatch`: `JobQueue` refines
  `JobContract`, initial states to initial states and every step to a step of
  one job or to a stutter. Under `CInv` the status of a job is a matter of its
  newest message and of its completions alone (`StatusRight`), so each action is
  examined for the one job whose newest message it touches.

`JobQueueRetryProofs`:

- `RetriesBounded` (`ReceivesBounded`): a message that can be delivered again
  has been received less than `MaxRetries` + `faults` times (`BoundInv`); a
  receive that uses the last of these leaves a delivery in a worker's batch,
  which ends in a deletion or in a fault.
- `DeadAreOffQueue` (`DeadOrQueued`): as long as there were no faults, what a
  worker has in hand is the newest delivery of an inflight message, and a row
  whose message is still live belongs to the worker that deletes it (`CalmInv`).
- `RerunsAccounted` (`DuplicatesAccounted`): completions of a job and its open
  deliveries - those whose handler may still return - are together no more than
  its messages and the faults (`DupInv`).

`LeadIntakeProofs`:

- `LimitOvershoot` (`OvershootBounded`): `Booked` counts the committed leads
  together with the calls that have passed the limit check: the check raises the
  sum only from below the limit, a commit moves one unit from the calls to the
  leads, every other step lowers it or leaves it.
- `TypeCorrect`, `DuplicatesAreRaces` (`DuplicatesOnlyFromRaces`) and
  `LifecycleAnnounced` (`ChangesAnnounced`) from `IntakeInv`: the calls past the
  limit check find an id (`RoomLeft`); a call past its lookup knows that the
  rows it could see, unless edited since, have no key of its contact (`Checked`);
  each event of a lead was published, is still to be sent by a call
  (`StillToSend`) or was lost with one.

`SequenceExecProofs`:

- `TypeCorrect`, and `StepsInOrder` (`NoStepSkipped`): a worker may have read an
  old index, but the steps before it were recorded when it was read, and
  records stay (`SkipInv`).
- `NothingForgotten` (`ActiveHasJob`): every open enrollment has a job that
  nobody is done with (`Covered`), where a worker that has published the next
  job and is about to commit is done with its own; uncommitted rows belong to
  one transaction (`MadeApart`) and are executed by nobody (`ReadCommitted`).
- `EventsEnrollOnce` (`EnrolledOncePerEvent`): rows made by events, rows about to
  be made, and events that wait are no more than the events and the mishaps
  (`Tally`).
- `CallsAreCounted` (`UsageMatchesCalls`): of each channel, deliveries counted and
  under way are at most those tried, and those tried at most these, the mishaps
  and the overlaps (`RowBalanced`). The same holds of the counter that a
  transaction under way has read, which may be older than the stored one
  (`ReadsBalanced`), because whatever was counted since was counted beside its
  delivery, and is an overlap.
- `IndexAdvances` (`NoRegress`) and `StepsOnceEach` (`StepsRunOnce`), under
  `OneWorker`: what the worker has read is what is stored (`Abreast`); a step
  that ran is committed, in flight, or was lost by a mishap (`RunsOnce`).

`LeadRoutingProofs`:

- `BestRuleWins` (`DecisionIsBest`): a finite set of rules can be sorted in one
  way, and the first match of the sorted list has the best priority.
- `TypeCorrect`, and `AssignedOnce` (`OneAssignment`): a worker about to commit
  writes the decision applied to the row it read (`Decided`), and unless another
  evaluation was committed in between that row's assignment is still there.
- `EvaluatedOncePerJob` (`EvaluatedPerJob`): the jobs evaluated are at most the
  evaluations (`LowerOK`), and evaluations together with the workers that have a
  job are at most the jobs done, finishing or held and the mishaps (`UpperOK`).
- `RoutedCorrectly` (`RoutedAsRulesSay`): a lead that is not routed as the rules
  say has an event on its way (`Pending`), and a worker that read something else
  than the lead is now is either behind an evaluation committed since or has
  such an event behind it (`StaleOK`).

`WebhookStoreProofs`: `TypeCorrect`, `AnswersAreRecorded` (`AnsweredIsRecorded`),
`DuplicatesAreRaces` (`DuplicateRowsOnlyFromRaces`) and `BatchesAreAtomic`
(`BatchAtomic`) from `StoreInv`: the rows of a request in progress are finished
but the one it marks, have different keys, and are younger than their lookup
saw (`Finished`, `OwnDistinct`); what it has passed by is recorded or among
them (`Passed`). That a key is recorded says of an item with an id that it is
stored itself, because its key is its own (`KeysRecorded`).

`TenantAccessProofs`:

- `ProvisionedWhole` (`TenantsComplete`), `ChangesStay` (`SettingsKept`) and
  `ChangesAudited` (`EffectsAudited`) from `TenantInv`: of the calls about to
  commit a slug there is one per slug, and the slug is not taken (`SlugInv`); a
  call that is about to write settings has those of the tenant, unless calls
  about it overlapped (`KeptInv`); the changes are the entries and the calls that
  have not written theirs, up to one per caller and crash (`AuditInv`).
- `RateIsBounded` (`RateBounded`): every admission carries its window. Two
  admissions n apart, with windows that started within a minute, have n places
  filled between them (`Apart`), so a minute, which meets two windows of a
  process, has less than two limits; a restart starts one more.

`LeadSignalsProofs`, about the composition:

- `ScoringTypes`: rows, jobs and handlers refer to what exists.
- `OneHandlerWrites` (`OneWriterPerDay`): two handlers of one day are never both
  between their look at the lead and their commit; the usage record is the lock.
- `ScoresBelongTogether` (`ScoresOfOneMessage`): hence a handler about to commit
  has the scores of the lead as they are, unless patched or `straddled`
  (`SawScores`), and the columns it leaves out need no change.
- `BilledOnce` (`BilledPerJob`): a question to a model is matched by a cache
  entry, a worker asking, or a mishap (`CallsInv`); a bill by a job that is held
  or deleted, or by a mishap (`BillInv`); what a handler passes by without
  writing has a note, and the message of a deleted job is billed and has one,
  unless it is `retouched` (`NoteInv`); the usage record never counts more than the
  commits of its day (`RunsInv`).
- `LastScoreCounts` (`LatestCounts`): a message that the last score of a lead, or
  the count a handler holds, does not include is owed (`Owed`): its event is
  about to be published, or its job is unacknowledged and no handler has scored
  it already for that lead (`LatestInv`).
- `ConnectionsRace` (`ConnectionsOnlyFromRaces`): as long as no lookup ran during
  an insert, at most one actor inserts, and only while there is no row
  (`OneInsert`).
- `KnownScores` (`SvixKnowsScore`): events carry no score and a report sends
  the one its worker read, so it is not enough that no event is lost. `KeptInv`
  says of each lead that is not excepted where its score is: `Announcing`, a
  PATCH or a handler that has changed it is about to publish, or a scoring job
  is left that will; or `Reporting`, an integration job is left, and the workers
  that have it, if any, have read the present score; or `UpToDate`, Svix knows
  the present score and so does every worker about to tell Svix. Two more parts
  make it inductive. `HomeInv`: while nothing was removed or moved, every message
  exists and a handler about to commit or publish scores the lead of its
  message's session, hence the job that is redelivered after its death announces
  the same lead. `ActorsInv`: a worker reports the lead of its job, and at most
  one worker reports a lead that is not `behind`, hence no old report overtakes
  a new one. The steps of the API enter by one lemma (`CalmCalls`), which needs
  `LatestInv`; `LatestAlways` and `SyncAlways` are the invariants of the two
  theorems above, stated apart.
- `NobodyIsAlerted`: no analysis and no number of messages gives a score above 76
  (`ScoresAreLow`), a commit keeps the score or takes that of an analysis
  (`RowsAreLow`), and a report has the score of a row (`ReportsAreLow`). Under
  `PatchesAreLow`, that the threshold is above 76 and that no PATCH writes a
  score from it on, Slack is asked to announce nobody.

Assumptions. `ConstantsOK` of each module (finite sets, positive limits, `None`
and `"anonymous"` no tenants, ids of webhook events that are the provider's own,
and the like), `RequestsOK` of `TenantAccess` (which
requests the routes allow) and `ApiOK` of `LeadSignals` (the API is no worker)
are evaluated by TLC in the runs. Three hypotheses stand in the theorems
themselves: `NamesMatch`, that the URL of each configured queue ends in its
logical name, without which a replay loses jobs (section 5); `OneWorker`, the
deployment of docker-compose.yml, without which an index can fall and a step run
twice after an early timeout; and `PatchesAreLow` of `NobodyIsAlerted`, which
holds of the constants of `high_intent`, and without which a score written by
hand can be announced.

Only model-checked: what holds under fairness (`QueueDrains`,
`ImplementsFairContract`, `EnrollmentsFinish`, `RetriesEnd`) and `NoCallStuck`,
which is about ENABLED: both are out of the prover's reach.

## 7. Not modelled

- Schemas, configuration, logging, metrics, tracing and health checks: no
  protocol state.
- The requests that the provider clients send and how they read the answers;
  their outcome is open in the models.
- Editing and deleting timeline entries, and all reads that change nothing
  (lists, usage summary, calendar availability).
- Signature checks of webhooks, decoding of tokens and hashing of keys; the
  models start where these have succeeded or failed. `last_used_at` of a key.
- Several tenants in one database outside `TenantAccess`: every query of the
  code names the tenant, so the other models have one.
- `asyncio.run` per job over a global connection pool (`app/db/session.py:11`):
  its effect depends on the driver; the models cover its consequence, a handler
  that raises.
- One lead through all queues at once (intake, routing, sequences,
  integrations): the modules share its events, and the product is too large for
  TLC. `LeadSignals` is the composition that was worth its size.
