# Eventloom: specifications, model checking and proofs

Eventloom (the repository under `src/`) is an event-management platform: a Cloudflare Worker API
(`apps/api`), a Next.js front end (`apps/web`), a command-line client and shared contracts. D1 (SQLite) is
the business authority; Cloudflare Queue, R2 and Durable Objects are around it. This directory holds TLA+
modules of the parts where that arrangement is hard: state that several isolates write with conditional
updates, wake-ups that may be lost or doubled, leases that may run out.

## 1. Inventory

Paths are relative to `src/apps/api/src`.

| Component | State | Operations | Interacts with | Hard behaviour | Correct when |
|---|---|---|---|---|---|
| Outbox consumer (`infrastructure/cloudflare/outbox-consumer.ts`) | `outbox_jobs` rows: state, attempts, schedule, lease | claim, markDelivered, markRetry, markFailed, process, consumeOutboxQueue | Queue, D1, providers, the status recorder | leases that expire under a running isolate; at-least-once queue with bounded retries; lost isolates | a claim has its own number, a row ends once, its end was reported, no row loses its wake-up |
| Publisher (`runtime/airtable.ts`, `enqueueCommunicationDeliveryOutbox`) | the same rows | insert, read, send, mark | Queue, consumer | three calls, no transaction; the message may be processed before the mark | the mark never reopens a row |
| Evaluation result exports (`features/evaluations/export-job-coordinator.ts`, `infrastructure/cloudflare/evaluation-export-*.ts`) | `evaluation_export_runs`, `outbox_jobs`, R2 objects | request, claim, process, complete, fail, sweep, download | Queue, R2, cron, consumer | run and row are fenced separately; R2 is in no transaction; a sweep overtaken by a consumer | a ready run has its file, a run ends once, every requested run ends |
| Communication sends (`features/communications/service.ts`, `repositories/communications.ts`) | `communication_sends`, `communication_deliveries`, `communication_delivery_history` | sendGroup, sendTransactional, retryFailed, deliverSend, recordDeliveryStatus, getSend, saveSend | publisher, consumer | read a whole send, change one delivery, write all of it | history only grows, no status without a history entry, a row that has ended was reported |
| Evaluation decisions (`repositories/evaluations.ts`, `features/evaluations/service.ts`, `evaluation-decision-outbox.ts`) | `evaluation_decisions`, their work and mail rows, audiences, sessions | putDecision, publish, sweep, replay of the work | outbox, communications, sessions | the work of an earlier decision is replayed late and meets that of the amendment | what the work wrote is what the current decision says, and the latest decision takes effect unless its job was given up or its message dead-lettered |
| Agenda coordinator (`infrastructure/cloudflare/agenda-coordinator.ts`, `runtime/airtable.ts`) | revision, receipts, lease in a Durable Object | admit, renew, release, wait | agenda engine, D1 | a lease that expires under its holder; waiters | mutations of an event are serial, everybody is admitted at last |
| Agenda engine (`features/agenda/engine.ts`, `repositories/agenda.ts`, `afterPublish` in `runtime/airtable.ts`) | draft, revisions in D1 | mutate, publish, refresh, rollback | coordinator, program publication | compare-and-swap, work after the commit | nothing committed is overwritten, what was published is what its caller saw |
| Program publication (`features/events/service.ts`, `repositories/publication.ts`) | releases, the served and the pending one | reserve, complete, fail, rollback, manual rebuild | agenda engine, organizers, caches | a reservation that expires or whose owner is lost; a rollback outside the lease | one pending release, the public never falls back, a call that succeeds is served |
| Private files (`private-assets.ts`, `private-object-cleanup.ts`) | the asset's row, `private_uploads`, R2 objects, cleanup rows of the outbox | authorize, reauthorize, upload, finalize, reject, clean up | consumer, cron | a cleanup armed for an earlier capability against the upload of a later one; a PUT in no transaction | a finalization finds its object, a ready file keeps it, an abandoned one is removed |
| Airtable projection and inbound (`integrations/airtable`, `d1-outbox.ts`) | `airtable_sync_jobs`, cursors, conflicts | claim, complete, retry, release, import | Airtable API | leases and rate limits; not composed into the exported Worker | a projection is never older than one already sent |
| Idempotency leases (`features/public-api/idempotency.ts`, `D1IdempotencyStore` in `runtime/airtable.ts`) | `idempotency_records` | begin, complete, release, wait | public API, organizations, decisions | an expired lease taken over while its holder runs | one effect and one answer per key |
| Event role invitations | invitations | issue, accept, revoke, expire | members | accept against revoke | one membership per accepted invitation |
| Calendar (`repositories/calendar-invitations.ts`, `reconcilePublishedAgendaCalendarInvitations` in `runtime/airtable.ts`) | `calendar_invitations`, their publications and outbox rows | hand-off of a revision, publish, delivery | agenda engine, outbox | a hand-off that stops half-way and is repeated, or outlives its lease; mails out of order | sequences have no gap, and what an operation published arrives unless its job was given up or its message dead-lettered |
| Reminders (`features/communications/service.ts`, `reminder-repository.ts`) | `reminder_runs`, `reminder_dispatches`, outbox rows | executeReminderRun, enqueue, requeuePending, recordReminderDispatchStatus | outbox, cron, organizers | rows without a fence, written whole by a run and by the consumer | one reminder per candidate and window, and the dispatch says what became of it |
| Customer webhooks | deliveries | enqueue, deliver, replay | outbox, cron | duplicate reports | one delivery per event and endpoint |
| CFP, sessions, speaker, CRM, members, events, reports, remix | D1 aggregates | CRUD with version checks | D1 | optimistic concurrency | no lost update |
| Auth, access, AI advisory, web, CLI, scripts | per request | - | - | little concurrency | not modelled |

The hazards of this code, each at its line, are in `PROJECT.json`.

## 2. Plan

Done:

1. `OutboxJobs`, `OutboxConsumer` against the abstract `AtLeastOnce`: every side effect goes through it.
2. `EvaluationExport`: the same rows with a second fence, R2 and a sweep.
3. `CommunicationDelivery`: what the users see of a job, for group and transactional sends.
4. `AgendaCoordinator` against the abstract `AgendaLease`; `AgendaPublication` on the same lease: the engine's
   compare-and-swap and the hand-off to the program.
5. `DecisionDelivery`: putDecision, the work and mail it starts, its sweep and the fences.
6. `PrivateFiles`: capabilities, uploads, finalization and the cleanup job, which is armed again after it ended.
7. `IdempotencyLeases`, `CalendarInvitations`, `ReminderDispatch`.
8. Proofs about every module above (section 5): all the safety and action properties that the passing runs check,
   and both refinements.

Left, in this order:

1. The rebuild of the program that an organizer requests by hand; the run's own row of the reminders and its
   counters; downloads of private files.
2. Customer webhooks, event role invitations, and `SyncJobs` (`d1-outbox.ts`).

## 3. Modules

`EXTENDS` and `INSTANCE`:

    OutboxJobs <- OutboxConsumer <- MCOutboxConsumer
                  OutboxConsumer <- OutboxConsumerProofs
                  OutboxConsumer -> AtLeastOnce   (INSTANCE, refinement)
    OutboxJobs <- EvaluationExport <- MCEvaluationExport
                  EvaluationExport <- EvaluationExportProofs
    CommunicationDelivery <- MCCommunicationDelivery, CommunicationDeliveryProofs
    AgendaCoordinator <- MCAgendaCoordinator
    AgendaCoordinator <- AgendaCoordinatorProofs
    AgendaCoordinator -> AgendaLease   (INSTANCE, refinement)
    AgendaLease <- AgendaPublication <- MCAgendaPublication
                   AgendaPublication <- AgendaPublicationProofs
    DecisionDelivery <- MCDecisionDelivery, DecisionDeliveryProofs
    PrivateFiles <- MCPrivateFiles, PrivateFilesProofs
    IdempotencyLeases <- MCIdempotencyLeases
    AgendaCoordinatorProofs -> IdempotencyLeases        (INSTANCE Leases)
    CalendarInvitations <- MCCalendarInvitations, CalendarInvitationsProofs
    ReminderDispatch <- MCReminderDispatch
    CommunicationDeliveryProofs -> ReminderDispatch     (INSTANCE Reminders)

An operator whose comment begins with "Mutant:" belongs to no behaviour: it is the form that a plausible mistake
would give the definition after it, and each property has one that breaks it (`PROJECT.json`, "mutants").

**OutboxJobs** has no variables. It is the row of `outbox_jobs` as a value and the conditional UPDATEs as
operators: `Claimable` is the WHERE clause of the claim, `Claimed` its SET clause, `HeldBy` the fence that
`markDelivered`, `markRetry` and `markFailed` share, `ReadOutcome` what `claim` answers from its SELECT alone,
`Backoff` is `retryDelayMs`.

**OutboxConsumer** has one step per D1 statement, queue call or provider call. `publisher[j]` is the position of
the API call that publishes job `j`, `worker[w]` the position of isolate `w` in `process` with the values that
`process` holds across its awaits: the time it read, the attempt it computed from the SELECT (not from the
UPDATE), whether the failure in hand may be retried, the verdict on the message. `queue` is a set of messages
with the count of their deliveries; `GiveBack` redelivers one, or moves it to `dlq` after `max_retries`
(`wrangler.toml`). `status` is the delivery status the communication service keeps; here it is one cell per job,
written with the rule of `recordDeliveryStatus` that a delivered status is not left. `effects` counts provider
calls that took effect and exists only for the properties. A dispatch is two steps: `ReadFence` reads the decision
that a mail tells of, `Dispatch` calls the provider. `superseded` are the jobs whose decision was amended
(`Supersede`, at any time): if the fence is found stale, `dispatch` returns with nothing sent and `process` goes on as
after a delivery, so the row ends delivered. Not every job has a communication to report to; `status` is "none" for one
that has not, decision mails among them (their payload names no target); `Init` chooses which have one. `markDelivered`,
`markFailed` and `markRetry` may also throw because D1 fails. Not modelled here: a message that does not match
its row (`MESSAGE_MISMATCH`: messages are built from rows), rows of an unknown topic, batches (an isolate
handles the messages of a batch one after the other, and each is settled on its own).

**AtLeastOnce** is what the publisher may rely on: claims are numbered, an effect is spent under a claim, a job
is delivered only after an effect or once its reason has lapsed (`Lapse`), and ends once. It
deliberately allows an effect after the end: an isolate
whose lease ran out may still be talking to the provider.

**EvaluationExport** has the run, its outbox row (operators of `OutboxJobs`) and the files in R2. A request and a
sweep share `CloudflareEvaluationExportQueue.enqueue` and so share the actions `ReadPending`, `SendWake`,
`MarkQueued`. `Recoverable` is the WHERE clause of the sweep, `Snapshot` what it remembers of a row and a run,
`Recover` its batch, in which the run is compared in both parts and the row in one. `ProcessFails` throws from
any D1 or R2 call, before or after the call was applied. The queue is reduced to the set of runs that have a
message, which may be delivered early, twice, or dropped.

**CommunicationDelivery** has one send with its recipients. A writer (API call or isolate) holds a copy of the
statuses and histories, read in two parts because `getSend` reads them in a `Promise.all`; `ReadVersion` and the
save are the two round trips of `saveSend`. The job of a recipient is reduced to whether it has a message,
is claimed, or has ended. Statuses `bounced` and `complained`, which only a provider callback reports, are not
modelled. `updated_at` is a counter: two saves in one millisecond, which its guard would not tell apart, are
left out.

**AgendaLease** is what the coordinator of one event promises: operations are admitted once each, one after the
other; whoever holds the lease keeps it until it yields it or it runs out; a lease that ran out is given back, at
most, to the operation admitted last (`Regain`: a request that was repeated).

**AgendaCoordinator** is the Durable Object and its callers. `call[o]` is the position of one `runExclusive`: in the
tail of its isolate (`tails`, one queue per isolate, `IsolateOf`), waiting for the revision, for admission, at work,
releasing. A storage transaction of the object is one action, so `Admit`, `Resume`, `Block` and `Refuse` are the
branches of the POST, and `Register`, `Check`, `TimerFires`, `Wake` the steps of `#waitForLease`. Instead of a
clock, what remains of each lease is lowered by `Tick`, for the lease and for the timers together. `FetchFails`,
`LoseIsolate` and `RestartObject` are the losses: of one request, of an isolate with its tail and calls, of the
object's memory (its waiters). `Replay` is a POST that arrives twice: the object has a contract for it
(`agenda-coordinator.test.ts`), though no caller in the repository repeats one. A call's DELETE succeeds also when
there is no lease, so a call may end well after its lease ran out; what then protects the agenda is not the lease
but the compare-and-swap of the next module. Requests that do not parse change nothing and are left out.

**AgendaPublication** is what an operation does under such a lease. `agenda` is the aggregate: a version, the
operations that edited the draft, the revisions; the current revision is always the last. `program` is the program
publication state. `job[o]` is the position of one call of `mutate` with what it holds across its awaits: the
draft version its caller saw, the copy it loaded, the served revision and the program version it read in
`afterPublish`, the release it reserved. Every `renew` of the code is a position of its own (`NextPC`), since a
lease may be found lost at each. A compare-and-swap with the read it depends on is one action where the version
makes every interleaving fail, and a failed swap is a disjunct of its own where failing matters. `getState` and
`load` read the root row, with its version, before the rows below it, so that a torn read only leads to a failed
swap. Whether a draft has conflicts, was validated or has warnings is data: `Load` may find an operation blocked.
Left out: suggestion runs, the catalog, the validation marker and the alignment of time zones, which change the
state's version and nothing a property speaks of; the speaker projection and the calendar invitations written
around the hand-off; requests for a rebuild by hand; an invalidation recorded for a release whose save then fails.

**DecisionDelivery** is one submission. `decision` is the sequence of statuses decided so far; its length is the
version that every fence compares. `row` holds the two jobs that a decision starts: `work`, committed with the
decision in one batch, and `mail`, which the work stages. `worker[w]` goes through `replayPersistedDecisionWork`
and the handlers it calls: the audience of the participants, the staged mail, the session (read, then written in a
batch fenced by the decision and compared by version), and for a mail the fence and then the provider. The sweep
sends first and marks afterwards, as the code does, and `SweepMark` compares the row it selected. A waitlisted
decision is treated like a rejected one. `Throw` is a failure of any statement, queue call or of the provider, before
its effect or after it, that may be retried or not; `Outcome` is the catch of `process` (deliver, queue again, fail,
dead-letter after `MaxAttempts`) and `Settle` writes it under the fence of the row's owner. `DeadLetter` moves a message
whose retries are used up to `dlq`; how the queue counts them is the subject of `OutboxConsumer`, so that here it may
happen whenever a fault is left, and always for a row that is itself dead-lettered.

**PrivateFiles** is one file: the asset, the row of `private_uploads`, the object and the cleanup jobs, one named by
the asset and the others by the expiry of the upload they clean. A capability is a number, `grant`; the object
remembers whose PUT wrote it. A read that a conditional write repeats is one action with it; where the code reads
and goes on, as `invalidateUploadCapability` and the deletion of the object do, read and write are apart. A request
or a delivery lasts at most `MaxRunTime`. Cron arms the expired uploads (`ArmExpired`), the consumer claims,
checks, quarantines, deletes, and marks.

**IdempotencyLeases** is one key with its row. The calls differ in their payload (`PrintOf`). `begin` is the steps
`Select`, `Delete` and `Insert`, each of which may be overtaken; `waitForCompletion` gives up after its polls. Besides
faults that change nothing there are *doubts*: a completion that was applied and is reported to have failed.

**CalendarInvitations** is the hand-off of a published revision to the invitations. A call takes the agenda's lease,
commits a revision or finds the current one, renews, lists the invitations, and publishes session by session:
`lookup` (the key was used: replay or refuse), `load`, the `batch` that compares the sequence it has read, `enqueue`,
`mark`. The cancellations come last and repeat what was listed. `client` is what an attendee's calendar shows: the
highest sequence among the mails it was sent. `DeliveryFails` is a mail service that throws, with or without the mail
gone, and leaves the row queued, failed or dead-lettered; which attempt is the last is left open. `DeadLetter` is a
message whose retries are used up.

**ReminderDispatch** is one cadence window of one event's reminders. `executor[e]` is a call of `executeReminderRun`
with the candidates it has still to visit and the dispatch it holds a copy of; `row` and `message` are the outbox
and its wake-up, `sweep` is `requeuePending`, `worker[c]` the isolate with a candidate's job. No UPDATE of a
dispatch compares anything, so `WriteQueued` writes whatever became of it; what makes the consumer wait is
`ValidTransition`, the table of transitions, which refuses a report about a dispatch that is not marked queued. The
key of a dispatch names the trigger, so an instance is about one kind of run. A failed statement is one that was not
applied. Isolates that outlive their lease, and messages that are dead-lettered early, are the subject of
`OutboxConsumer`.

## 4. Runs

| Run | Question | Instance | Distinct states |
|---|---|---|---|
| `publication` | safety when leases and reservations run out, and needless refusals when they do not | 3 operations, 3 lapses, 1 fault, 1 rollback | 3 036 597 |
| `publication_rollback` | what is served was invalidated | 3 operations, 1 rollback | violated |
| `coordinator` | exclusion, the lease's promise, progress | 3 calls in 2 isolates, two punctual, two sent twice, a lease of 2 ticks | 122 605 |
| `outbox` | rows, statuses and wake-ups; the refinement; progress | 1 job, 2 isolates, 2 attempts, 1 queue retry, 1 fault, claims outlived | 1 429 069 |
| `export_slow` | run, row and file agree | 1 run, 2 isolates, 1 sweep, 1 request, 2 attempts, 1 fault, a lease of 3 ticks | 5 227 244 |
| `export_progress` | a requested run ends | 1 run, 1 isolate, 1 sweep, 2 faults | 180 185 |
| `delivery` | history, statuses and settlement under concurrent saves | 2 recipients, 2 calls, 1 isolate, 1 fault | 1 077 525 |
| `files` | object and asset agree; what is abandoned goes | 1 authorizer, 2 uploads, 1 finalization, 2 cleaners, 2 capabilities, 1 fault | 292 654 |
| `decisions` | late work never overwrites, the latest decision takes effect | 2 isolates, 2 decisions, 2 attempts, 1 edit, 1 fault | 1 649 888 |
| `idempotency` | one effect, one answer, an answer at last | 3 calls, 2 payloads, 2 lapses, 2 faults, 1 doubt | 268 376 |
| `calendar` | sequences, success and arrival | 2 calls, 1 session, 2 revisions, 2 troubles | 327 960 |
| `reminders` | records agree, reminders are sent | 2 runs, 2 candidates, 2 attempts, 2 faults | 1 497 022 |

What they show:

Outbox

- `ClaimsNumbered`: the attempt that `claim` returns is computed from a SELECT other isolates may overtake, yet
  no two running isolates carry one number and the owner always knows the row's: the WHERE clause lets the
  UPDATE through only if no claim came in between. This needs the time between reading the clock and the UPDATE
  to be shorter than the lease (`MaxClaimTime < Lease`): five minutes in the code.
- `LeaseExclusion`: of two isolates at work on a job, one has outlived its lease.
- `EndIsReported`: the status is recorded before the row is settled and a delivered status is refused to later
  failures, so even an overtaken isolate cannot leave a row and its communication in contradiction. A communication
  says delivered only if the provider acted; a row without one also if the decision its mail tells of was amended.
- `NoLostWakeup`: a row that is queued or processing has a message somewhere, the dead-letter queue included. A
  row that is still *pending* may have none: the publisher may stop before its send, and nothing but a repeated
  publication sends it again.
- `PromiseSpec`: the refinement of `AtLeastOnce`, whose `Lapse` is a decision that is amended. `QueuedJobsEnd`: with fair isolates, queue and clock a queued job
  ends or its message is in the dead-letter queue.

Exports

- `DeliveredHasEnded`: an export whose row says delivered has ended, although `process` ignores whether
  `completeReady` matched.
- `ReadyFileIsFinal`: the file named by a ready run exists and nobody still writes it; the attempt in the key is
  what makes this so. This needs two claims to take less than a lease (`2 * MaxClaimTime < Lease`, see the limits
  below).
- `EndedForever`: the sweep never reopens an ended run. `RequestedRunsEnd`: it selects every state in which a run
  can be stranded.

Sends

- `HistoryKept`: with whole-record saves, an entry is never lost, because a history entry owns its ordinal.
- `StatusIsRecorded`: a status other than "queued" is one the history tells of, although statuses and histories are
  read apart and written from copies that may be old.
- `SettledIsReported`: a row that has ended has its report in the history.

Agenda and program

- `OneAtATime`: two operations of an event run together only if one of them has lost its lease and is not among the
  calls that renew in time (`Punctual`), whatever request, isolate or object is lost. `CallsEnd`: every call ends.
- `LeaseEndsByHolder`, `LeasePromise`: only the holder or time ends a lease; a release or a repeated request that
  comes late never takes the lease of the next operation.
- `SleepersWillWake`: the re-read after a waiter registers closes the gap between its refusal and its registration:
  nobody sleeps on a lease that is gone without a timer that is due.
- `ReceiptsNumberAdmissions`: the receipts are exactly 1 .. revision, although callers bring revisions they read
  earlier.
- `HistoryOnlyGrows`, `PublishesWhatWasSeen`: an operation that lost its lease, while others went on, neither
  overwrites a commit nor publishes a draft its caller had not seen, and no release that ended is written again.
- `ServedNeverOlder`: no order of checks, expired reservations and overtaken hand-offs gives the public an older
  agenda; only an organizer's rollback does. No single guard carries this: renewals, the parent compared, the
  version and the owner each refuse some overtaking.
- `SuccessIsServed`: whoever is told that a publication succeeded finds it served, unless a later one took over.
- `OnePending`: reservations taken over or superseded never leave two pending releases.
- `SerialOperationsConfirm`: while no lease lapses, the guards refuse nothing needlessly. A lost isolate or a failed
  call strands a reservation for its lifetime of five minutes; this is why the property admits that refusal after a
  fault.

Files

- `ReadyHasObject`: a finalization that makes the asset ready under the capability it verified finds its object.
- `ReadyIsNotRemoved`: no cleanup removes the object of a ready file, neither one armed for an earlier capability nor
  one that is repeated: `deleteIfAuthorized` looks the ready reference up in the statement that quarantines.
- `OneWriter`: the state `scanning` keeps a second PUT and the deletion of an expired upload away from a PUT that is
  out. It is restricted to files that were not rejected: a rejection deletes while a PUT may be out.
- `AbandonedIsRemoved`: without a lost request, the object of a file nobody finalizes is removed at last, because a
  job that ended too early is armed again.

Decisions

- `DeliveredIsProjected`, `AudienceNeverOlder`: whatever isolates overlap, the work of an earlier decision changes
  neither audience nor session once the later one's was delivered.
- `LatestTakesEffect`: the request, the isolate or the lease of any step may be lost, and any step may fail; the sweep,
  the leases and the retries bring the latest decision through. The exceptions are those of the code: a row that was
  given up, and a message in the dead-letter queue whose row no sweep selects. The sweep selects work rows that are
  pending or whose claim expired, so a queued work row is such a row, and nothing recovers a mail.

Idempotency

- `ActsOnce`: the operation takes effect at most once more than leases are outlived and faults happen; the race for
  a free or an expired row never adds an effect of its own.
- `AnswersAreStored`: whoever was answered was given what the row stores. `RequestsEnd`: whoever repeats a failed
  request is answered.

Calendar

- `SequencesAreGapless`: the publications of a session are numbered 0, 1, 2, ..., each once, and the invitation is
  the last of them, although overlapping calls read one sequence.
- `SuccessAgrees`: an operation that succeeds for the latest revision, under its lease and with an unchanged list,
  leaves exactly the invitations of that revision, at whatever point earlier attempts stopped.
- `InvitationsArrive`: what a successful operation published reaches the attendees, although the mails travel in any
  order and deliveries fail, unless the row was given up or its message was dead-lettered.

Reminders

- `EndIsRecorded`: a row of the outbox that has ended and its dispatch tell the same. The run writes its copy *after*
  the queue was woken; the table of transitions makes the consumer retry until it has. Both exclusions (a dispatch
  taken up after a failed enqueue, a dispatch two runs hold) are needed: without either TLC finds a violation.
- `RemindersAreSent`: wherever runs, sweeps and isolates are lost, the next run or sweep finds the place, so that a
  candidate who is fit to be reminded is, unless the row failed or its attempts are used up. An attempt is used up by
  the isolate that was lost with it as by a failure of the provider.

### Findings

`ServedIsInvalidated` is violated. `rollback` saves a release that is served at once and then asks for its cache
invalidation; the port composed in `runtime/airtable.ts` looks for a *pending* release and throws. The program is
rolled back, the call fails, and no invalidation is recorded. `completeRebuild` asks before it saves and is right.

### Limits of the code that the properties go around

These are behaviours of the code that the models have and that the properties exclude or do not speak of. They are
not runs: no document decides about most of them.

- A terminal delivery status can be overwritten. `saveSend` writes the status of every delivery of its copy, and
  its guard is the `updated_at` it has read itself a moment before, not that of the copy. `deliverSend` holds its
  copy over all recipients: the first may be reported delivered while the second is enqueued, and the next save
  writes "queued" over it. The history survives (`HistoryKept`), the status and the counters do not.
- `retryFailed` uses the idempotency key of the first attempt. The row of that key has ended, so nothing is inserted
  and no message is sent, and the adapter still answers "queued". Recipients left queued by a `deliverSend` that was
  lost half-way are taken up by nothing.
- A finalization whose capability expires after it was verified commits under a capability that was issued in the
  meantime, and makes the asset ready without an object (`private-assets.ts:475`); the tests ask that this not
  happen (`private-asset-lifecycle.test.ts:877`, `:913`) but do not let the capability expire in between. A
  reauthorization makes a ready file's object replaceable, and a PUT lost half-way leaves a row in `scanning`.
- A decision's mail that is under way when the decision is amended goes out: the fence is read before the provider is
  called. One whose fence is found stale is not sent, and its row says "delivered" (`outbox-consumer.ts:1505`).
- A queued decision work row whose message was dead-lettered is taken up by nothing: the sweep selects pending rows and
  expired claims (`evaluation-decision-outbox.ts:116`). No sweep selects the mail of a decision or of a calendar at all.
  A row that was given up is final (`outbox-consumer.ts:1346`). A decision may then stand while session, audience or
  mail do not follow, and an invitation may be published that nobody receives.
- A completion of an idempotency record that was applied but reported to have failed is released, and a repetition
  performs the operation again (counted by `ActsOnce`, excluded by `AnswersAreStored`). `begin` recurses without a
  bound while its INSERT fails.
- A calendar's attendee list that changes while the revision does not is refused as an idempotency conflict, although
  `docs/calendar-semantics.md:107` asks for a new key; an address that is removed and added again replays the first
  publication, with success, while the row stays CANCEL. A CANCEL that was committed but not queued when the isolate
  was lost is never sent if another revision is published. A call that outlives its lease may write over a newer
  revision's invitation.
- A reminder's `provider_accepted`, with the provider's message id, may be overwritten by a run's late "queued" in
  the two excluded cases. A dispatch stays "queued" if its run was lost between the wake-up and the mark and the
  attempts were used up meanwhile.

- The attempt number of a claim comes from a SELECT of its own (`outbox-consumer.ts:145`-`219`), so two isolates may
  hold one number until one of them claims. If a claim takes half a lease or more, both can: the first claims, outlives
  its lease, is overtaken by a third isolate that dead-letters the row, a sweep that looked in time takes it back, and
  the second claims with its old number. Then two isolates write one artifact key, and a ready run's file is written
  again. The proof of `ReadyFileIsFinal` failed on this, and TLC confirmed it with three isolates and a lease of two
  ticks. A claim is two statements and a lease is five minutes (`outbox-consumer.ts:29`), so the model is run, and the
  theorem stated, with two claims shorter than a lease.

### Bounds

One job, run, send, file, key or session is enough for the properties of rows, since rows of different jobs share
nothing but isolates, and an isolate handles one message at a time. Two isolates overtake each other at every position; that a third adds
something only where claims are slow is what the theorems of section 5, which have any number, and the last limit
above say. Two attempts distinguish a first, a last and an overtaken attempt. Time is bounded so that a lease can
expire and be taken once, and so that the backoff of every attempt fits where progress is checked. Faults are one or
two because each is a loss at an arbitrary point. Three operations on one agenda give a lost lease, an overtaking and
an overtaking of that one; agendas of different events share nothing. A lease of two ticks can be renewed half-way and
run out. In `idempotency`, two calls with one payload and one with another give the taker, the overtaken and the
refused. In `calendar`, two revisions of which each schedules the session or not give invitation, update,
cancellation and revival, and `MaxTroubles` bounds changed lists, lapses and faults together, so that every pair of
them meets. In `decisions`, two attempts make the first one retryable and the second the last. In `reminders` one candidate is fit and one is not, and two runs overlap. Larger instances than these
are beyond the few minutes a run may take; the theorems of section 5 have no bounds. In `export_slow` a lease takes three ticks and a claim one. Every bound is a
constant whose name begins with `Max` and each module's comment says which are bounds and which are the code's own
limits (`MaxAttempts`, `MaxDelay`, `MaxRetries`, `MaxClaims`, `ProcessAttempts`).

`CHECK_DEADLOCK FALSE` in every configuration: a system whose jobs have ended, or whose clock is at its bound, stops.

### Fairness

The runtime runs an isolate that is not lost, Cloudflare Queue delivers what is due, cron fires, time passes. Nothing
is assumed of faults, of arrivals, or of what users may do.

- `OutboxConsumer`: weak fairness of receiving, of each isolate's next step and of the clock; none of the publisher.
- `EvaluationExport`: the same, with cron and each sweep's next step, and the clock strongly fair: messages that come
  and go must not stop time.
- `AgendaCoordinator`: each caller's and each request's next step and the clock; none of arrivals, renewals, losses.
- `PrivateFiles`: the clock, each begun request's next step, cron's arming, the publication and delivery of each job.
- `DecisionDelivery` (none of failures or of the dead-letter queue): the publication, the sweep, each isolate's step, the claim and the acknowledgement of some
  message, the end of an abandoned lease.
- `IdempotencyLeases`: each call's step, the repetition of a request that failed, the end of an abandoned lease.
  The repetition is the client's part of the contract, and `RequestsEnd` is about clients that keep it.
- `CalendarInvitations`: each call's step and the consumer's success; none of failing deliveries or the dead-letter queue.
- `ReminderDispatch`: that some run starts again (cron does so hourly), each run's, the sweep's and each isolate's step.
- `AgendaPublication` and `CommunicationDelivery` state no liveness.

## 5. Proofs

The theorems hold for every value of the constants that satisfies the assumptions stated beside them: any number of
jobs, isolates, calls, candidates and faults.

`OutboxConsumerProofs`:

- `TypeCorrect`: `Spec => []TypeOK`, by one lemma per group of actions.
- `EndReported`: `EndIsReported` is not inductive. `ReportInv` adds what an isolate that is about to settle knows: at
  `recordDelivered` and `markDelivered` an effect happened or the job is superseded, at `markDelivered` its communication,
  if it has one, says so, at `markFailed` it is not queued.
  Lemma `ReportOthers` says why the other isolates' knowledge lasts: effects only grow, and a status that was recorded
  is never "queued" again and never leaves "delivered".
- `SettledRowsStay`: no step writes a row that has ended. Lemma `RowWritten` collects, from the effect of each action,
  that a row is written only from an open state.
- `WakeupNotLost`: `WakeInv` adds that a message that will be acknowledged belongs to an ended row, and that a
  publisher that has sent still has its wake-up unless the row ended. `WakeupKept` is the heart: only an
  acknowledgement removes a wake-up.

- `LeaseExcludes`: `LeaseExclusion` from `LeaseInv`: an isolate at work has the lease its claim took, or the clock has
  passed that lease's end. It needs nothing of the time a claim takes, since the claim compares with the clock it read.
- `NumbersAgree`: `ClaimsNumbered`, with the hypothesis `MaxClaimTime < Lease`. `NumberInv` adds what the number in the
  hands of an isolate that is about to claim is worth: it is the next one *if* the UPDATE can still match
  (`NotClaimable` says when it cannot).
- `KeepsPromise`: `Spec => PromiseSpec`, the refinement of `AtLeastOnce`. `SpendInv` counts: effects, and claims that
  are about to spend one, are at most the attempts granted.

`EvaluationExportProofs`, from the bounds' types and a nonempty set of runs:

- `TypeCorrect`, by the shape of an isolate's step (`WorkShape`) and of a publisher's or sweep's (`PublishShape`),
  which later proofs use instead of the actions.
- `DeliveredEnded` and `EndsOnce` from `FenceInv`. The outbox row and the run are fenced by one number that is drawn
  before either is taken. `Fenced(w)` is an isolate that the row still knows; then its number is the last one
  (`NumberedLast`) and the run is where its position says (`RunFollows`), so that marking the row delivered finds the
  run ended though `process` ignores whether `completeReady` matched. `SawOpen` is what a sweep remembers.
- `FileIsFinal`: `ReadyFileIsFinal`, with the hypothesis `2 * MaxClaimTime < Lease`, from `LeaseInv` (an isolate
  within its lease has the row; who else drew its number did so at nearly the same time, `Apart`; a sweep takes only
  what it saw expired, `SawLate`) and `FileInv` (the file is written before the run is completed).

`AgendaPublicationProofs`, from `PublicationAssumption`:

- `TypeCorrect` from `TypeInv`, which adds that a commit under way changes something and that the served and the
  pending release exist.
- `PublishesSeen` from `CopyFits` (a copy with the aggregate's version is the aggregate: the compare-and-swap compares
  the version alone) and `SeenInv` (a call at its swap holds the draft its caller saw).
- `HistoryGrows`: a release that ended is neither the pending one nor written by any step; edits and revisions are
  only appended.
- `NeverOlder`, `SuccessServed`, `OnePendingRelease` from `HandOffInv`: releases are ordered as they were reserved
  (`Order`), the pending one builds on the served one and is not older than any before it (`PendingBuilds`), the served
  one is the youngest ever served or a rollback (`ServedTops`), and each call knows, at each of its positions, a parent
  that was served and is not younger than its own revision (`HandsOff`).
- `SerialConfirm` from `SerialInv`: without a lapse the call at work is alone (`Alone`), nothing it has read has
  changed (`Serial`), and, without a fault, a live reservation is its own (`Reserving`) and what is not yet served is
  in its hands (`FirstHandOff`).

`AgendaCoordinatorProofs`, from `CoordinatorAssumption` and for any lease:

- `Exclusion`: `Spec => []OneAtATime`. `WorkersHold` says that a punctual call at work holds a lease in force;
  since there is one lease, two such calls are one. It rests on `AlwaysTyped`, the part of the type invariant the
  argument needs.
- `WakeupsKept`: `SleepInv` adds to `SleepersWillWake` what a waiter between its refusal and its second look at the
  lease has seen (`SeenIsLease`).
- `ReceiptsNumber`: `Numbered` adds that a call that was not admitted has no receipt and that no two receipts agree.
- `KeepsLeasePromise`: `Spec => LeasePromise`, the refinement of `AgendaLease`. `HolderStep` sorts the steps by what
  they do to the lease, `PromiseStep` maps each to `Grant`, `Regain`, `Yield` or a stutter.
- `LeaseEndsItself`: `LeaseEndsByHolder`, by cases on who may write the lease.
- `TypeCorrect` from `TailInv`: a tail has the calls of its isolate, each once; whatever has started and was not left
  by its caller is at the head (`TailFits`, `CallFits`). `TailsSerialise` draws the consequence, for which no lease is
  needed: of two calls of one isolate that have started, one is a request its caller has given up.

`DecisionDeliveryProofs`: `TypeCorrect`; `Projected` and `AudienceAdvances` from `ProjectionInv`, which adds what an
isolate at each position of its work may rely on (`OnTrack`: if its decision is still the current one, what it has
passed is done) and that nobody knows of a decision that was not made (`Known`).

`IdempotencyLeases`, in the second part of `AgendaCoordinatorProofs` (the other lease of the code), through the
instance `Leases` and from `LeaseBounds`: `LeasesTypeCorrect`; `AnswersStored` with `Settled` (a completed row is in nobody's way: only a
completion in doubt leaves its holder something to release); `EffectsBounded`, by counting: an effect, and every call
about to have one, is paid for by the key that was free, a lapse, a fault or a doubt, and the row of a key that is
taken (`Taken`) lets nobody else in.

`CalendarInvitationsProofs`: `TypeCorrect`, whose strengthening says that what is listed or replayed exists and is
typed; `SequencesGapless`, per session (`Gapless`), where the batch is the only action that numbers and it compares
the sequence it read with that of the invitation; `SuccessIsAgreed` from `AgreeInv`, which holds while no lease lapsed
and no list changed: what a call has listed and publishes suits the agenda (`Suits`), an invitation has the latest of
its session's keys (`Latest`), and what is no longer among a call's sessions to do agrees with its revision
(`Progress`), wherever an earlier call stopped.

`CommunicationDeliveryProofs`, from a nonempty audience (`RecipientsAssumption`: `sendGroup` and `sendTransactional`
refuse an empty one) and calls that are no isolates:

- `TypeCorrect`, `SettledReported`, `StatusRecorded` from `IInv`, whose part `Sound` is about the copies. A call or an
  isolate reads the statuses and the histories apart, and saves long after. `CopySound` says what such a copy is good
  for: what it has of each recipient is traced to the stored history (`Traced`), and of the recipient it is about to
  change it is one entry ahead of a part of that history (`OneEntryAhead`), so that the save appends or, if the
  ordinal was taken meanwhile, is turned away. `ReportSound` is what an isolate that is about to mark
  a row knows, and `JobsSound` what the rows then say. `StatusSound` is the part `StatusRecorded`
  reads off: the send itself obeys what its copies are traced to.
- `HistoryIsKept`: every step either leaves a history or appends to it (`NextGrows`), from `IInv`.

`PrivateFilesProofs`, from `BoundsAssumption`:

- `TypeCorrect` and `WritesAlone` from `FileInv`: unless the asset was rejected, a PUT whose claim is out holds the row in `scanning` under the
  capability it was claimed with (`UploadersHold`), a cleanup job that may delete holds it in `quarantined`
  (`CleanersHold`), two isolates never work on one job (`KeysApart`), and capabilities are counted as they are drawn.
- `ReadyWithObject`: `ReadyHasObject`, from `FinalizersFit`, which follows a finalization from `verify` to `commit`: no
  statement in between takes the object from the capability it has verified.
- `ReadyStays`: `ReadyIsNotRemoved`, with the hypothesis `2 * MaxRunTime < GrantLife`, from `TimedInv`. A request under
  way is no older than `MaxRunTime`, so that the capability it began with expires after it ends (`AuthorizersTimely`,
  `FinalizersTimely`, `CommitsOutlived`), while a cleanup job works only on what has expired (`CleanersLate`);
  therefore none is about to delete the object of a ready asset (`ReadySpared`). Half of `GrantLife` is two and a
  half minutes (`uploadGrantLifetimeMs`); the hypothesis matters for the authorization and the finalization, which are
  a few D1 statements each, and not for the transfer of the file.

`ReminderDispatch`, in the second part of `CommunicationDeliveryProofs` (the other sender of mail), through the
instance `Reminders` and from `ReminderBounds`: `RemindersTypeCorrect` and `RemindersEndRecorded` from `EndInv`. Of a dispatch that is not contended one run
holds a copy (`OneHolder`), the copy is what the table has (`Copies`), and its status is one about which no report is
accepted; so what an isolate has recorded (`Reported`) is never overwritten, and it is at work on a row that is being
processed (`AtWork`). `TakeUpKeeps` and `WriteKeeps` are the two lemmas where this is decided.

The type invariants are theorems and belong to no listed run. `LeaseBounds` and `ReminderBounds` repeat the
assumptions of the instantiated modules as hypotheses; they are satisfied by the constants of the runs `idempotency`
and `reminders`, where TLC evaluates the assumptions themselves.

Assumed beyond the types of the constants: that a claim is shorter than a lease (`NumbersAgree`), that two are
(`FileIsFinal`), that two requests are shorter than the life of a capability (`ReadyStays`), that a send has a
recipient, and nothing else. The bounds of faults, lapses and clocks are constants like the others, so the
theorems hold for any.

Model-checked only: all liveness properties, which are out of the prover's reach, as is `ENABLED`. `ServedIsInvalidated` is violated by the
code (section 4).

## 6. Not modelled

- In modelled parts: the text of invitations and mails, previews, listings, templates and audiences; the end of an
  idempotency answer's 24 hours; downloads, multi-version files and the binding checks of a capability; deliveries of
  cleanup jobs that outlive their lease; the rebuild requested by hand; statuses that only a provider's callback reports (`bounced`, `complained`).
- Of the reminders, the row of the run. `refreshReminderRun` recomputes it from counters read apart, so it may
  complete a run early, after which a repeated manual key returns without reminding the rest, or write "running" over a
  completed one; a failed automatic run also ends the hour's loop over the other events. No property of the dispatches
  depends on it.
- Customer webhooks and event role invitations are planned. Their consumers are outcomes of a dispatch in
  `OutboxConsumer`.
- The Airtable projection, inbound sync and control plane: described in ARCHITECTURE.md as not composed into the
  exported Worker.
- CFP, sessions, speaker, CRM, members, events, reports, remix: request/response services over D1 with version checks;
  where they meet one of the protocols above (sessions, audiences, profiles), the module of that protocol has them as
  the environment.
- The front end, the command-line client, the AI advisory, authentication, the operator scripts and migrations have no
  protocol of their own. They are most of the repository's lines, which is why the modules cover a small share of it.
