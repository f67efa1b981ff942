# Verification of the exception-investigation platform

The repository is a collection of engineering notes (Markdown) around one real
system, which lives under `temp/`: two Python services and three libraries that
investigate reconciliation exceptions with an LLM. This directory holds TLA+
modules of that system, TLC configurations that check them on small instances,
and TLAPS proofs about them for every size.

Paths below are relative to `temp/services` unless they start with `temp/`.
`W/` is `worker/src/worker`, `O/` is `orchestrator/src/orchestrator`.

## 1. The system

A client asks the **orchestrator** to investigate exceptions. The orchestrator
writes, in one transaction, an API request, an investigation row for each
exception that has none under way, and an outbox event for each new row. A
publisher loop moves outbox events to a JetStream work queue. **Workers** fetch
deliveries, claim the row, run the analyst, write codes and a comment back to
CTC (the system the exceptions come from), and record every step in the row. A
**reconciler** in each worker deals with messages JetStream has given up on and
deletes old rows.

| Component | State it keeps | Operations | Talks to |
|---|---|---|---|
| Acceptance (`O/application/request_*.py`, `O/db/repositories/`) | `api_requests`, `investigations`, membership rows; the partial unique index "one active row per exception" | accept a list, accept a filtered selection | platform DB, CTC DB (candidates) |
| Outbox publisher (`O/application/publish_outbox.py`, `O/bootstrap/supervisor.py`) | `outbox_events` (published_at, attempt_count, next_attempt_at) | claim a batch with SKIP LOCKED, publish, mark, commit | platform DB, JetStream |
| Delivery and investigation (`W/adapters/nats`, `W/application/investigate_exception.py`, `record_investigation_failure.py`, `W/db/platform`) | the investigation row: status, owner, lease, attempts, checkpoints, outcomes | claim, heartbeat, load, analyse, persist, write back, complete, record failure, ack/nak/term | JetStream, platform DB, CTC, S3, LLM |
| Reconciler (`W/application/reconcile.py`, `W/adapters/nats/max_delivery_advisories.py`) | pending stream sequences, in memory | receive, decide under FOR UPDATE, apply, retention, delete message | JetStream, platform DB |
| Worker runtime and admission (`W/bootstrap`, `W/domain/admission.py`) | in-flight tasks, AIMD target, window counters, shared cooldown key | admit, complete, adjust target, cool down, drain | JetStream, Redis |
| Control context (`W/application/resolve_control_context.py`, `W/adapters/redis`, `O/application/reset_configuration.py`) | generation (DB), context and rebuild lock (Redis), manuals (S3) | resolve, rebuild, publish, reset | DB, Redis, S3, CTC, LLM |
| CTC client (`W/adapters/ctc/client.py`) | one cached OAuth token | request, refresh, replay after 401 | CTC |
| Token verifier (`O/adapters/cognito_jwks_verifier.py`) | signing keys and their expiry | verify, refresh, forced refresh | Cognito |
| Status and report queries (`O/application/query_status.py`, `fetch_reports.py`) | none | read-only | platform DB |
| CTC database reads (`temp/libs/ctc_database`) | none | read-only | CTC DB |
| Migrations, observability, HTTP layer, settings | schema, exporters, wiring | start-up | |

### What is hard here

* **Concurrency on one row.** A delivery that is late, redelivered or
  republished races a newer one. Mutual exclusion is a lease in a row and a
  worker_id comparison in every statement; nothing is locked across statements.
* **Work between awaits.** `InvestigateException.execute` loads a snapshot once
  and relies on it through six network calls, while a heartbeat task, a
  cancellation or another worker can change the row.
* **Two systems, no common transaction.** CTC may apply an update whose answer
  is lost, or apply it after its sender has given up.
* **The queue's own failures.** Acks are lost, ack waits expire, deliveries run
  out, and the advisory that says so is an unacknowledged publication kept in
  one process's memory.
* **Crash, drain, restart** at every step.

### What makes each component correct

* Delivery: no work is lost (`NoWorkLost`), an owner's view is the row
  (`OwnerSeesTheRow`), recorded steps are neither undone nor repeated and
  finished rows stay finished (`LifecycleImplemented`), codes are applied once,
  from evidence the analysis has seen (`CodesWrittenOnce`,
  `CodesFollowTheEvidence`), the outcome is decided (`EventuallyDecided`) and the
  queue drains (`StreamDrains`).
* Acceptance and queries: one active investigation per exception, one outbox
  event per new row and none without, a filtered request never starts a second
  investigation of an exception already completed, no request waits for ever, and
  what a poll or a report has shown as finished stays so.
* Outbox: an event marked published was accepted by the stream, none is
  published by two publishers at once, duplicates reach the stream only outside
  the duplicate window, every event is published eventually.
* Control context: the calls of one release and generation share one context, it
  is newer than the reset its generation began with, and waiters outlast a dead
  rebuilder.
* Admission and the worker's process: what runs stays within limits and cooldown,
  nothing fetched is left without an answer, connections outlive their users, a
  stop is obeyed, and the target recovers after an outage of the provider.
* CTC client: one token for each reason to fetch one, and no write applied twice.
* Agents: one budget for all that an analysis asks of the CTC database, and no
  analysis from evidence that could not be read.
* Orchestrator's process: withdrawn keys are refused and new ones found in time;
  connections outlive calls and passes; the publisher's loop survives failures.

## 2. Modules

| Module | Models |
|---|---|
| `InvestigationRow` | the row of one investigation; one operator for each SQL statement or decision on it |
| `InvestigationProgress` | abstract specification: what an investigation is to the client that polls it, whatever becomes of its workers |
| `InvestigationLifecycle` | extends it to the promise where no two runs of one identity meet: every step once, by the attempt under way |
| `InvestigationDelivery` | queue, claim, stages, heartbeat, failure recorder, drain, crash, reconciler around that row |
| `AcceptanceLedger` | abstract specification: requests accepted or refused in one step each, as if there were no transactions |
| `Acceptance` | the orchestrator's accepting transactions |
| `ReadApi` | extends `Acceptance` by what clients read meanwhile: statuses, reports, polls |
| `EventRelay` | abstract specification: events between the transactions that write them and the stream, without publishers |
| `Outbox` | the outbox table, its publishers, the stream's deduplication |
| `ContextAgreement` | abstract specification: one context for each release and generation, without leases |
| `ControlContext` | control contexts: generation, cache, rebuild lock, stored manuals, resets |
| `Admission` | the worker's admission loop, AIMD supervisor, cooldown, the provider's retry loop, drain |
| `WorkerProcess` | extends `Admission` by the process around it: telemetry, resources, supervisors, exit |
| `CtcClient` | the shared access token, the replay after a rejection, what callers make of an answer |
| `Analyst` | one analysis: the agent, its tool calls, the SQL fixer, their limits and budget |
| `SigningKeys` | verification of bearer tokens and the cache of signing keys |
| `Orchestrator` | extends `SigningKeys` by the process around it: resources, server, publisher's loop and its stop |
| `...Proofs` | theorems about the module of that name; `WorkerProcessProofs` is about `Admission` too, `OrchestratorProofs` about `SigningKeys` |
| `MC...` | the functions and sequences TLC's instances need |

`InvestigationDelivery` EXTENDS `InvestigationRow` and is shown to implement
`InvestigationProgress`, and where no two runs of one identity meet
`InvestigationLifecycle`, through an INSTANCE with the row's columns.
`Acceptance` is shown to implement `AcceptanceLedger`, whose `Accept` is its
`Commit` and whose `Decide` is what the workers do. In the same way `Outbox`
implements `EventRelay` and `ControlContext` implements `ContextAgreement`, with the
stages of a call mapped to asked, waiting, returned and failed (`Outcome`).
`WorkerProcess` composes the process with the whole of `Admission`, whose steps
it permits in its phase "running" only, and is proved to implement it
(`ProcessImplementsAdmission`). `Orchestrator` composes the process, the calls
(`SigningKeys`) and the publisher's loop.

The state machines meet at their borders. `SigningKeys` admits a call, which
goes on in `Acceptance` or `ReadApi`. `Acceptance` ends with a committed row and
its event, `Outbox` starts with that event (`Append`) and ends with stored
messages, possibly more than one, and `InvestigationDelivery` starts with those
messages and a queued row. `Admission` decides whether a handler fetches;
`ControlContext`, `Analyst` and `CtcClient` are the inside of the stages that
`InvestigationDelivery` takes in one step each, ending as they end: with a
result, a transient or a permanent error, or a loss. The workers are `Decide` in
`Acceptance`; retention is `Retain` in `Outbox` and part of `ReconcileCommits` in
`InvestigationDelivery`.

Definitions whose comment begins with "Fault:" are plausible bugs. No
specification uses them; they stand in for the definition after them to show
that a property notices the bug.

### InvestigationDelivery

One investigation, since investigations share neither rows nor messages. A
*handler* is a slot for a running delivery; `WorkerOf` says in which process it
runs, and with it which `worker_id` its statements carry.

| State | In the code |
|---|---|
| `row` | the `investigations` row. A lease is `live` or `expired`: statements only compare `lease_expires_at` with `now()` |
| `ctc`, `patches` | the exception in CTC (`If-Match` version, codes, comments); code updates on the wire, which may outlive their senders |
| `message`, `delivered` | JetStream's view: pending, outstanding until ack wait, exhausted after `max_deliver`, gone |
| `pc`, `task` | where each delivery is between two awaits of `handle_delivery.py` / `investigate_exception.py`, and the locals it carries over them |
| `life`, `restarts` | `WorkerSupervisor`: up, draining, down |
| `notices`, `batch`, `cleanup` | `max_delivery_advisories.py`: pending sequences in memory, those the current pass decides, those it still has to delete |

Each action runs from one await to the next. `Claim*` and `Unclaimed` are
`handle_delivery.py`'s claim and the lookup after a refused one. `Load` ...
`Complete` are the stages of `execute`; `Store` is a repository update guarded by
`_owned_update` with its three ends (committed, no row matched, connection
broken with or without effect). `Heartbeat` runs beside every stage.
`ReadFailure` and `ApplyFailure` are the two statements of
`RecordInvestigationFailure`. `Remove`, `Nak` and `AnswerLost` answer the
delivery: by stream sequence, so an answer may hit a later delivery of the same
message. `Drain`, `Crash`, `Exit` and `Restart` are the process; `Receive`,
`ReconcileCommits`, `ReconcileFails`, `DeleteMessage` and `DeleteFails` are one
reconciler pass.

Abstracted: an analysis is the pair (attempt, exception version) it was made
from, so a property can tell a restored one from a new one; errors are
transient, permanent or an interruption.

### Acceptance

| State | In the code |
|---|---|
| `status`, `events`, `members` | committed rows, outbox events and memberships. A row is named by the request that inserted it and its exception |
| `tx` | what each transaction has written: rows, index entries (`keys`, kept by a row that was deleted again), events, memberships |
| `pc`, `scan`, `item` | where a request is; its selection (`_select`); the exception it is at, with the tries of `insert_or_attach` |
| `answer` | what the client was told |

`ReadPage`, `Examine` and `PageDone` are the selection of a filtered request and,
without pages, `_validate_and_deduplicate` of a plain one. `Begin` ... `Commit`
are one action for each statement, READ COMMITTED: `Completed` and `ActiveFor`
read what is committed when the statement runs. `Insert` waits while another
transaction holds an index entry for the exception (the partial unique index
with ON CONFLICT DO NOTHING). `Lookup` is the second half of `insert_or_attach`:
the row in the way may be finished by then; after two tries its RuntimeError
fails the request (TLC reaches this). `Recheck` is `insert_or_attach_filtered`'s
second look at the history, with its DELETE. `Fails` is any failure of a
statement, the commit or the process; `Commit`'s answer may be lost.

### Outbox

| State | In the code |
|---|---|
| `store`, `due`, `lock` | `published_at`, `next_attempt_at <= now()`, the row lock of FOR UPDATE SKIP LOCKED |
| `batch`, `todo`, `marked`, `lost` | one pass of `PublishOutbox.execute`: selected, not yet published, noted as published (uncommitted); sessions that ended unnoticed |
| `copies`, `remembered`, `late` | JetStream: messages stored, ids in the duplicate window, publications whose sender gave up |
| `up` | `OutboxPublisherSupervisor` |

`Claim`, `Accepted`, `Refused` and `Commit` are the pass; `PassFails`,
`SessionLost` and `Stop` end it early. The selection takes every available row
in id order up to the publisher's `BatchSize`. `Doubtful` are events the broker
may reject for ever, `Timely` those whose repetitions fall into the duplicate
window.

### ReadApi

No state of its own: each query is one statement on committed rows, so an answer
is an operator. `External`, `Report` and `Aggregate` are the three mappings of
`O/application/query_status.py` and `fetch_reports.py`; `Unreadable` are
exceptions whose persisted analysis lacks a field that a report requires.
Lookups in the order of exceptions and retention (after which a poll answers
"not found") are left out.

### ControlContext

| State | In the code |
|---|---|
| `edits`, `fetched` | CTC's configuration as a number, and what each request of a build returned |
| `generation`, `reset`, `manuals`, `stray` | `config_state`, `ResetConfiguration`, the manuals in S3, and uploads whose thread outlives its cancelled call |
| `cache`, `lease` | Redis: contexts and rebuild locks by release and generation, with the lock's remaining time |
| `pc`, `gen`, `left`, `drafts`, `result` | a call of `ResolveControlContext.resolve` between two awaits and its locals |
| `nap` | how long a call still sleeps, or a refusal may still be on its way to it |

`Acquire` is SET NX EX with the expiry rounded up to whole seconds (`LeaseTtl`).
Where it is refused there are two steps: `Refused` when Redis finds the lock, and
`LooksAtDeadline` when the answer is there and the call compares the clock, up to
`AnswerTime` later. Locks and deadlines run on meanwhile, so the lock may be gone
by then. A Redis client may repeat a command whose answer is lost (`AsksAgain`),
and the second SET NX then finds the call's own lock. `Publish` and `Release` are
the two Lua scripts that compare the owner, each with its lost answer. The actions
of `Trouble` are the ways a call ends early, and `Dies` the end of its process. A
reset purges page by page what it listed, then advances the generation. `Tick`
lets all locks, deadlines and sleeps run at one speed, and waits for nothing but a
refusal that is `AnswerTime` old.

### Admission and WorkerProcess

| State | In the code |
|---|---|
| `target`, `inflight`, `window` | `AdmissionState`, `WindowCounters` |
| `loop`, `seen`, `task` | `_admission_loop` between its awaits, its last look at the cooldown, the delivery tasks |
| `call` | the attempt of a task's model call, with the retries of `RetryingLLMClient` |
| `aimd`, `cooldown` | the AIMD supervisor, the shared Redis key |
| `phase`, `provider`, `telemetry`, `held`, `advisories`, `reconciler` | `W/bootstrap/runtime.py` and `W/main.py`: providers of `platform_observability`, the exit stack, the advisory subscription, the reconciler's loop |

`held` counts the resources of the exit stack, which are acquired in one order
and closed in the opposite one. A cancelled delivery is `Live` until its clean-up
has run (`IsCut`). Two ends the code has and the properties except by name: if
the admission loop fails on its own nothing is drained, so tasks outlive the
resources; if `advisories.start()` raises, the process ends without closing
anything (phase "crashed").

### CtcClient

Tokens are numbered. `at`, `token`, `replay` and `reply` are a call of
`CtcClient.request` between two awaits; `cached`, `due` and `lock` are `_token`,
its refresh time and `_token_lock`; `applied` is what CTC did. Answers may be
lost after CTC has acted; a caller may be cancelled anywhere. `ReadOutcome` and
`WriteOutcome` are how the configuration reader and the write-back adapter sort
the statuses.

### Analyst

`used` is the run's `ToolCallBudget`, shared with every fixer; `modelCalls`,
`fixerCalls` and `fixerTools` are the counters the limits look at; `read` and
`told` say which call's repair read the rows that a call answers with (the
`ContextVar` of the fixer's tools). LangChain's graph is external: the tool calls
of a message run side by side, an exception ends the run and cancels the others.
`W/genai/exception_analysis/middleware.py` says that every physical retry
consumes the run limits; `ModelCallLimitMiddleware` counts answers, so a retried
call counts once, and so it does here. Likewise `sent` counts statements: one whose
connection is lost is executed up to three times (`Reconnects`) on one unit of the
budget. Prompts, the history's summarisation, the
per-generation cache of agents and the manuals' text are not modelled.

### SigningKeys and Orchestrator

| State | In the code |
|---|---|
| `cached`, `ttl`, `pause`, `discovered`, `lock` | `_keys`, `_expires_at`, `_forced_refresh_after`, `_jwks_url`, `_refresh_lock` |
| `at`, `kid`, `forced`, `reply` | a call of `verify` between two awaits, the key its token names, the document on its way to it |
| `listed`, `turned`, `waited` | the issuer's document; history: ticks since a key was listed or withdrawn, ticks of the current fetch |
| `phase`, `depth` | the process and its exit stack (`O/bootstrap/runtime.py`) |
| `loop`, `failures`, `stopping` | `run_outbox_publisher`, its consecutive failures, its stop event |

The stack's `depth` is 0 until telemetry's shutdown is pushed; a failure to get
settings or secrets before that ends the process with telemetry as it was.
Signature and claims are a choice (`Verified`); what matters is which document
decided. The passes of the publisher are `Outbox`.

## 3. What is checked

| Run | Instance | Shows |
|---|---|---|
| `delivery` | two workers, one message, one attempt, two deliveries, an edit in CTC; either worker goes down (drain or crash) and comes back once | two deliveries of one message by different workers: the lifecycle is implemented, an owner's snapshot is the row, codes are applied once and are those the row reports, no work is lost, ownership is consistent, recorded outcomes are true |
| `retry` | one worker with two slots, two attempts, three deliveries | runs of one identity hold the row together: verdicts match attempts, restored analyses keep their version, progress is implemented |
| `delivery_liveness` | two workers, one of which may go down for good | decided eventually, queue drained |
| `acceptance` | two plain requests in opposite orders, one with a repeated id, a selection over two pages, polls and reports | the ledger is implemented (rows with their events, all or none of a request), no history, attached once, complete answers; every request ends; what was shown as finished stays |
| `outbox` | two publishers, batches of one and of two, two events, the first of which may be rejected for ever; one process may stop | the relay is implemented (committed before sent, stored before published, never back); no stale pass; once within the window; the other event is published |
| `control_context` | two calls of one release, one control, one reset, one edit | the agreement is implemented (one context per generation, never replaced); it is newer than its reset; nobody gives up on a lease from before, however late its refusal is within the bound |
| `rounded_lease` | the lengths 1.25 s and 1.5 s in quarters of a second, answers at once | **violated**: see below |
| `worker_process` | two slots, limit two, windows of two attempts, one unanswered look at the cooldown | limits, cooldown, nothing abandoned, resources outlast, the stop is obeyed, the target recovers |
| `ctc_client` | one read, one comment, one write of codes, three tokens | one token per reason, writes at most once |
| `analyst` | two tool calls per message, three model calls, a budget of five, two attempts of the fixer | one budget, own rows, no analysis with something missing |
| `orchestrator` | two calls, two keys, a cache of two ticks, a pause and a latency of one | closed after use, withdrawn keys expire, new keys are seen |
| `publisher_backoff` | no calls, 1025 failures | **violated**: see below |

### The two disagreements

* `rounded_lease`. `ControlContextCachePolicy` demands a wait longer than the
  lease, so that a waiter outlives a dead rebuilder, and its test's name says so.
  Redis gets the lease rounded up to whole seconds. With a lease of 1.25 s and a
  wait of 1.5 s the lock lives 2 s, and a call gives up on the lock of a worker
  that died before it began. A slow Redis has the same effect without any
  rounding: the lock is found, expires while the refusal is on its way, and the
  call looks at a deadline that has passed. The two together are all there is:
  `WaitOutlivesLeaseCorrect` proves that with `LeaseTtl + AnswerTime <=
  RebuildWait` nobody gives up on a lock from before. The settings demand neither
  part of it. They compare the wait with the lease before it is rounded, and leave
  no room for an answer; and how long one takes is not bounded in the code, which
  builds its Redis client with the library's defaults
  (`W/adapters/redis/iam_credentials.py:70`). The run has answers at once, so that
  rounding alone is to blame in it.
* `publisher_backoff`. The publisher's backoff multiplies a float by
  `2 ** (failures - 1)` before it caps the product. With the 1025th failure in a
  row (some 17 hours at one a minute) Python raises OverflowError in the except
  clause, the task ends, and the process goes on accepting requests whose events
  nobody publishes. The readiness probe fails from then on (`publisher_ready`), but
  the loop is not started again.

### Bounds

* `MaxRestarts`, `MaxEdits`: how often a worker goes down and how often others
  edit the exception. One of each, in `delivery`, puts the event before, between
  and after any two steps of a handler; with them at 0 the run is about something
  else.
* `MaxAttempts` and `MaxDeliver`: one attempt and two deliveries make the first
  failure the last, and the second delivery the one that exhausts; two attempts
  and three deliveries add the requeue in between. Settings validation demands
  `max_deliver > max_attempts` (`W/config/settings.py`), an assumption of the
  module.
* Two handlers: every property relates at most two actors to the row (or a
  handler to the reconcilers). The theorems carry the most important ones to any
  number. In `delivery` they have a process each; in `retry` they share one, which
  neither goes down nor sees an edit by others: its own late code update moves the
  version, and with an edit or a restart on top the instance is out of TLC's
  reach. A second message of one event is in the module and in the theorems, not
  in an instance.
* `MaxLate`, `MaxCopies` (Outbox): one publication under way late and a window
  that is forgotten until two copies are stored; duplicates beyond the second
  behave as the second.
* Acceptance needs no counter: inputs are finite and a request has two tries.
  Three requests and two exceptions are the least that have a cycle of waits
  beside a third transaction, and a row in the way that finishes twice.
* ControlContext: `AnswerTime` is the longest a refusal of the lock may be on its
  way; one tick, with a lock of two and a wait of three, is exactly what
  `WaitOutlivesLease` allows (with two ticks TLC finds it violated). A builder and
  a waiter; one purge and one generation after the first, so that a build of
  either generation meets the reset at each of its steps; a second of two ticks,
  so that the lock is rounded up.
* Admission: `MaxSamples` bounds the attempts of one window (each of the three
  rates is met with two), `MaxBlind` the looks at one cooldown that fail.
* CtcClient: `MaxTokens` and `MaxAged` leave one token that becomes due and one
  that is rejected after it, late or not, for each of three kinds of request.
* Analyst: a budget of five is met by a tool call, its repair and the other's;
  each limit is reached before and after the others. It is finite by itself.
* Orchestrator: `Latency` bounds a fetch as the client's timeouts do; `LongAgo`
  is where ticks since a change are no longer told apart; `MaxFailures`.

CHECK_DEADLOCK is FALSE where an instance really stops: the row is finished and
the messages gone or exhausted without a listener; all requests are answered and
all rows decided; all calls and resets have ended; the process has exited. The
outbox and analyst runs check deadlock.

### Fairness

* Delivery: a stage ends, since each call over the network has a timeout, except
  the statements on the platform database, where it is an assumption on the
  database (see WorkerProcess); ack wait and lease expire; an up worker with a
  free slot fetches; the reconciler's interval elapses; a commit or message
  deletion that is retried on each pass succeeds some time. Nothing obliges a
  worker to come back, or a call to succeed. For `delivery_liveness` (and `retry`,
  to be smaller) advisories reach each up worker (`ReliableAdvisories`).
  Advisories are plain publications; if one is lost on every worker the
  investigation stays undecided, which section 7 of
  `architecture/hexagonal_architecture/12_trace_an_investigation_across_services.md`
  acknowledges.
* Acceptance: a request that need not wait goes on, and the deadlock check of
  the database breaks cycles.
* Outbox: passes and backoffs end; a process that is never stopped keeps
  passing; and, strongly fair over all publishers together, an event that is
  tried again and again is accepted and committed some time unless the broker
  rejects it for ever. This leaves out two things. An error other than
  `EventPublishError` that hit the first due event on each pass would roll back
  the whole batch, without a backoff, and hold up all later events. And a rejected
  event's backoff counts from the beginning of the transaction (`now()` in
  `O/db/repositories/outbox.py:91`): a pass that takes longer than the backoff
  finds the event due again, and selects it before later ones.
* WorkerProcess: start, end, admission loop, AIMD supervisor and reconciler take
  their next step, and a cancelled task ends. For the queue and the clock the code
  has timeouts. For Redis and the platform database it has none of its own: the
  Redis client is built with the library's defaults, and the platform engine
  bounds the wait for a connection (`pool_timeout`, `W/db/platform/engine.py:12`)
  but no statement, such as those of a reconciler pass or of
  `release_interrupted`. That both answer or drop the connection some time is an
  assumption about them, on which `StopIsObeyed` rests. An investigation need not
  end, and nobody need send a stop. `TargetRecovers` is conditional: the provider
  stops failing and is asked again and again; then the target is at the limit from
  some point on, whatever it did before. (With a `stable_threshold` of 0 and
  enough samples the target would never grow; the settings allow it, the instance
  has 10.)
* No liveness is stated for the other modules. In `Analyst` every loop is bounded
  twice, by the models' limits and by the budget; `CtcClient` is too large for it
  with three requests; a waiter of `ControlContext` ends at its deadline; the
  publisher's loop is `publisher_backoff`'s subject.

### Facts the runs make visible

* `OwnerSeesTheRow`, `CodesWrittenOnce`, `WrittenCodesAreReported` and
  `CompletedIsWritten` fail, and with them the lifecycle, when two deliveries of
  one investigation run in the same process: `worker_id` is not a token of the
  claim. A row may then be completed with a failed comment, and codes applied
  twice. Section 5 of the same document says as much, so this is no finding. What
  remains of the lifecycle then is `InvestigationProgress`: an outcome may be
  replaced, but each is recorded in its turn and none is lost. The theorems about
  the properties above have the premise `[]RunsAlone`; all others of the delivery
  hold for any `WorkerOf`.
* A comment may be posted twice for one investigation, once for each attempt;
  section 6 documents it. `OneCommentPerAttempt` is the bound.
* A code update whose answer is lost is recorded as a version conflict by the
  next attempt: `RecordedWritesHappened` has no converse.

## 4. What is proved

The theorems hold for any number of handlers, workers, messages, attempts,
events, publishers, requests, exceptions, calls, controls, resets, slots, tokens
and keys, for the specifications without fairness, from the named ASSUMEs of the
modules and, where a theorem states one, a premise of its own. Each module's type
theorem carries the facts the others need.

**Delivery.** `TypeCorrect` needs, beyond `TypeOK`, that a handler past its
fetch has a message (`HandlersTyped`). Every step of the row is one of a few
statements of the owner or of anybody (`RowMove`, lemma `RowMoves`);
`OwnershipCorrect`, `TerminalCorrect` and `VerdictCorrect` follow from the form
of those statements alone, whatever the handlers do, and so hold for shared
identities as well. `NoWorkLostCorrect` needs `WorkInv`: whoever is about to ack
or term a message, and each reconciler with a message to delete, has seen the
row closed, and closed rows stay closed (`ClosedStays`). This is why an answer
may hit any later delivery and why a deletion may be late.
`RunMoves` is the counterpart of `RowMoves` for a handler: its run goes forward
along its stages or is over. From what a run knows without looking at the row
(`LocalRun`: which version its analysis was made from, which outcome is recorded
only after which call) follow `EvidenceCorrect` and `RecordedCorrect`, with shared
identities too. `OneCommentCorrect` counts the runs that have yet to comment with
the comments posted (`CommentInv`), for a finite number of handlers.
`ProgressCorrect` is the refinement for every assignment of handlers to workers.
A run that shares its identity knows nothing of what the row holds now, only that
the steps before its own have been recorded by somebody (`ProgressRun`), and a
record is replaced but never emptied (`RecordKept`). Every statement that is no
checkpoint is a step of the abstract specification by its form
(`UnrecordedSimulates`), a checkpoint by that invariant (`CheckpointProgresses`).
Under the premise `[]RunsAlone`, that no second run of a process can begin while
the first is under way, a run also knows the row while it owns it (`KnownRun`):
nobody else can have recorded anything between a claim and the loss of it
(`OwnedRowKept`). The premise is about behaviours, not an assumption on the
constants, and two theorems say when it holds: if every handler is a process of
its own (`DistinctAloneCorrect`, the `delivery` run's instance), and in processes
with many slots if no lease runs out under a run (`HeldAloneCorrect`), which is
what the heartbeat is for. That gives `OwnerSeesCorrect`,
and it is what each step of the refinement needs: `StepSimulates` maps each
statement on the row to a step of the lifecycle or a stutter (`LifecycleCorrect`),
and the lifecycle's own order gives `CompletedCorrect`. `CodesOnceCorrect` and
`ReportedCorrect` need one more fact, `OneAnalysis`: row, runs, updates under way
and CTC all carry the same analysis, and once its codes are applied the version
that an update must name is gone for good.

**Outbox.** `PublishedCorrect`: notes of uncommitted passes are right too
(`NotedIsStored`), and a remembered id has a copy (`RememberedIsStored`), without
which an acknowledgement for a repetition would prove nothing. `BatchCorrect`:
a pass with a live session holds the locks of its batch, and a locked row is
pending (`LockInv`). `StoredOnceCorrect`: if nothing is forgotten, an id not
remembered has no copy (`OnceInv`). `RelayCorrect` maps every step to the relay's:
publications to `Send`, for which `Written` says that whatever a pass has selected,
or has sent and given up, is in the table; and a commit to `Publish`, whose events
are pending by `LockInv` and stored by `NotedIsStored`. It needs the commit to
fail for a session that has lost its locks: another one may have published since.

**Acceptance.** The inductive invariant `Inv` says of each request that its
transaction's rows lie under keys it holds, that the only row without an event
is the one it is at, and for a filtered request that no event's exception is in
the history (`LocalInv`); and of all of them that keys are disjoint and no
committed active row lies under a held key (`KeysDisjoint`, `KeysFree`). The last
part carries `HistoryCorrect`: an exception can only become completed through a
committed active row, so none can while a transaction holds its key
(`HistoryFrozen`). It is also why the second look is needed: before the insert
nothing is held.
`AttachedOnceCorrect`, `AcceptedCorrect` and `AnswersSettleCorrect` use a second
invariant, `AttachInv`: a selection has no id twice and, of a plain request, leaves
none out (`Selects`); what a request has attached so far is one row of each id before
its position (`Attached`), which are there or its own; none of its own rows is
committed before it ends (`Fresh`), and so a commit never resets a finished row
(`StatusKept`); and what it has been told is so (`Told`). Completeness needs the
removal of repeated ids: without it `AttachesOne` has no premise. An ended request
answers alike for ever because `AllFinal` reads its rows' ends off the counts, for
which the set of its rows has to be finite.
`LedgerCorrect` shows that every step is a ledger's step or none. Only the ends of a
transaction are seen there, and the work is at the commit (`CommitAccepts`): of the
rows attached, those nobody has committed are exactly the transaction's own, by
`Fresh`; each has its event, as nothing is pending any more; their exceptions are free
by `KeysFree` and out of the history by `HistoryOut`. The third invariant, `Enclosed`,
adds what neither of the others says: an event is written only for a row the request
is attached to, and a selection never grows past `max_exceptions`, which `AttachesCount`
(one row for each place of the selection, by the pigeonhole principle) turns into a
bound on the rows.

**Control context.** `Counted` (generations and purges are counted by the resets
that have begun them) and `Drafted` (only a build holds anything) make the types
inductive (`Base`). `SharedContextCorrect` rests on `Shared`: a call that builds
and still has the lock finds nothing published, since the second look came after
the lock; as only the lock's holder publishes, a context that somebody has
returned is never replaced by another. `AgreementCorrect` is the same argument
step by step: the steps of the lease are not seen in `ContextAgreement`, a
publication is its `Choose` (`PublicationAgrees`: nothing was there), and all
others only move the call they belong to (`CallAgrees`).
`WaitOutlivesLeaseCorrect` has a premise of its own, `LeaseTtl + AnswerTime <=
RebuildWait`, and the invariant `Waits`: a lock taken before the call began ends
at least `AnswerTime` before the call's deadline. Redis refuses only while the
lock has time left, so the deadline is then further away than the longest answer;
a tick takes as much from the one as from the other, and an answer in time is
looked at before the deadline. The premise cannot be weakened: with one tick less
of a wait TLC finds a call that gives up on a lock from before.
`FreshContextCorrect` follows each manual through store, draft and context
(`FreshBuild`, `FreshStore`, `FreshPublished`); the middle one says that a purge
under way has still to visit what is older than it, which is why purging before
the generation advances is the right order.

**Worker process.** `ProcessImplementsAdmission` maps each step of the process
to a step of `Admission` or a stutter; what is proved of `Admission` holds for
the process. `BoundedCorrect` needs that a message is fetched only below the
limit, also when the target shrinks meanwhile (`Counted`); `CooldownHoldsCorrect`
that a decision still open is one of those the bound allows (`CooldownCovered`);
`NothingAbandonedCorrect` what may have become of a delivery at each place of the
loop (`InStep`). `ResourcesOutlastCorrect` relates the phase to what is held, to
the loop and to the providers (`Phases`, `Providers`).

**CTC client.** `TokensSharedCorrect`: all tokens but the cached one are used up
(`OthersUsedUp`), and whoever fetches has the lock and found no token to use
(`FetchedInTurn`). `WrittenOnceCorrect` relates what CTC has done for a request
to the answer on its way: a request still to be sent, again or not, has had no
effect (`Progress`).

**Analyst.** Statements are paid for before they are sent (`Budget`); the list of
a repair and the answer of its call hold rows of their own (`OwnRows`); what cuts
a run short ends it with an error (`EndsCleanly`).

**Orchestrator.** Whoever fetches holds the lock (`Locked`), so that the age of
the one fetch under way bounds how far a document on its way may differ from what
is listed (`ReplyRecent`); from there time passes for the age of a change and for
the document's life, or the pause, alike (`CacheRecent`). `WithdrawnKeysCorrect`
and `NewKeysCorrect` read the bound off where a call is answered
(`AdmittedBy`, `UnknownBy`). `ClosedAfterUseCorrect` needs that calls exist only
while everything is open, and that the publisher's task ends first (`Opened`).
`PublisherSurvivesCorrect` is the other half of the `publisher_backoff` finding: up
to `FloatExponent` failures in a row the task survives whatever fails, so the
overflow is the only way to lose it.

**Only model-checked:** liveness (TLAPS proves neither fairness arguments nor
ENABLED): `EventuallyDecided`, `StreamDrains`, `EventuallyPublished`,
`RequestsEnd`, `StopIsObeyed`, `TargetRecovers`. Every safety property that a run
checks is the subject of a theorem.

## 5. Not modelled

* The SQL of the CTC database reads: single read-only statements. What they
  answer is a free choice of the modules that call them.
* Migrations and the connectivity probe: run once, by hand or by one process,
  with no state to interleave with.
* Metrics, spans and log formats; of observability only the providers' lives.
* Settings: the relations their validators enforce are assumptions of the modules.
* The Markdown notes with their snippets, which are no program.
* Of modelled components: the operational snapshot, audit columns, retention of
  requests and its effect on polls, retention of a row while a request attaches
  to it (it takes a row that was finished days before), lookups in the order of
  exceptions; of the GenAI part, what its list in section 2 leaves out.

What a continuation would take up first: a composition of `ControlContext` with
several releases.
