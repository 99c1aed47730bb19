# Executor: a TLA+ verification project

Executor runs the Python *Steps* of an *Execution* on Jupyter kernels. An API
process accepts commands, any number of Worker processes claim Executions from
PostgreSQL under a fenced lease, each Worker drives a kernel on a Runtime
Target (a Jupyter server with its own extension), and background passes repair
what a lost Worker, a lost kernel or an impatient caller leaves behind.
PostgreSQL is the only authority; Redis only wakes Workers up and carries
published events.

This directory models the part of that design where it can really go wrong:
who may write what, in which order, while processes stall, die and are
replaced.

## 1. Inventory

| Component | State | Operations | Correct when |
|---|---|---|---|
| Execution state (`domain/`) | status, Attempts, Operations, Steps | `transition`, the transition table, retry preparation | only legal transitions; nothing open on an ended Execution; retries start where all predecessors stand |
| Leases and fencing (`execution_leases.py`) | owner, token and expiry on the row and on the Attempt, cancellation lease | grant, renew, require, release | one job per token; row and Attempt agree; a fenced-out job writes nothing |
| Claiming, admission (`claiming.py`, `target_selector.py`) | the queue, target capacity | claim new, waiting, retained, released and cancelled work | Attempts are sequential, a released Step is taken |
| Run orchestration (`single_runner.py`, `multi_runner.py`, `step_flow.py`, `step_executor.py`) | a local job | prepare, run Steps, publish, complete | every Step finds its predecessors' variables; success means every Step succeeded |
| Abort, finalization, handover (`run_finalizer.py`) | abort and cleanup columns, handover rows | abort a Step, finalize, release, hand over | no abort left pending; a session is kept only when idle |
| Cancellation (`cancellation.py`) | cancellation lease | claim, stop, finalize | a request always ends the Execution |
| Recovery and audit passes (`lease_recovery.py`, `session_recovery.py`, `retained_session_cleanup.py`, `multi_lifecycle.py`) | a RuntimeObservation | fence expired leases, hand over, clean sessions, enforce deadlines | no status is a trap; no kernel in use is deleted; no kernel is forgotten |
| Worker process (`execution_worker/worker.py`) | the set of local jobs | dispatch, drain, shut down | a job that stops releases or loses its lease |
| Execution journal (`deploy/jupyter/extension/.../executions.py`, `jupyter/execution.py`) | a numbered JSONL file per request | start, record, follow, release, retention | code is sent at most once; a follower applies every line once, in order |
| Step result storage (`result_storage/`) | a directory per (attempt, token): log, output files, manifest | begin, append, seal, read | what a row refers to can be read for good; complete means whole |
| Commands and receipts (`application/services/`) | idempotency receipts, versions | submit, append, finalize, cancel, retry | once per key; a repeat is answered with the first call's effect |
| Event contract (`event_writer/`, `events.py`) | event sequence, payloads | events of every transaction, validation | a consumer of the events knows the state |
| Outbox, event streams (`outbox.py`, `event_retention.py`) | outbox rows, event history, Redis streams | publish, retry, retain, trim | per-Execution order, at least once, nothing forgotten |
| Runtime Targets (`runtime_registry/`, `runtime_admission.py`, `target_selector.py`) | targets, versions, tombstones, slots | register, update, drain, disable, purge, probe, select | no slot given twice; only verified endpoints; no kernel behind a purged target |
| Maintenance (`maintenance.py`, `maintenance_runs/`) | the admission switch, Runs and their targets, a Run's lease | drain, activate, create a Run, reconcile, report | quiet when done; the report is true; every Run finishes |
| Cluster passes (`cluster_passes.py`) | last start per pass | claim a pass | only a throttle |
| Workspace (`notebook_projector.py`, `artifacts/`, `materialized_artifacts/`) | notebook, files, Artifact rows, report receipts | project, discover, register, append a report | the notebook shows the committed result; every file is registered; a report is there once |
| Downloads (`artifact_content.py`, `runtime_storage.py`, extension `file_download.py`) | an opened file | open, hash, send a range | a completed response is what its checksum announced; a visible change breaks it (the detection is best-effort) |
| Queries (`execution_queries/`, `pagination.py`, `diagnostic_store.py`) | cursors | pages, results | nothing missed or repeated; a result agrees with itself |
| Schema (`migrations/`, `db/models/`) | the schema and its rows | upgrade, downgrade | a revision means one schema, the head is the models, upgrades lose no evidence |
| HTTP, MCP, settings, scripts | none of their own | parse, answer, configure | not stateful |

**Interactions.** A command writes the execution row and an outbox row in one
transaction. Workers poll (a Redis message shortens the wait), claim, and from
then on alternate a database transaction that demands the exact lease
(`require_active_lease`) with a call to the Jupyter server that demands
nothing. A heartbeat renews the lease beside the job. The passes take an
observation of a row, act on the Jupyter server, and record the result only if
the row's version, status, token and session are still the observed ones.

**What is hard.** All of it happens between two round trips: a lease that
expires between a check and a delete; a cancellation that waits for a lease
whose owner is dead; a Step released while its abort is pending; a caller's
command beside a deadline; a pass whose observation is stale. `PROJECT.json`
lists every such hazard at its line, with the property that would catch it.

## 2. Modules

| Module | Models |
|---|---|
| `ExecutionStore` | the rows of one Execution as records, the transition table, and the pure part of the transactions (grant, release, end, settle) |
| `ExecutionLifecycle` | commands, claims, the runner, abort, finalization, handover, cancellation, passes, deadlines and faults; the properties |
| `ExecutionContract` | the abstract specification: what the caller of one Execution is promised |
| `MCExecutionLifecycle` | model values and symmetry for TLC |
| `StepJournal` | one Step below `execute`: submission, recording, following, storing and committing its output |
| `ExecutionEvents`, `MCExecutionEvents` | the events each transaction of `ExecutionLifecycle` writes, and what a consumer knows from them |
| `Commands`, `MCCommands` | the API's command handlers, with the requests TLC sends them |
| `Outbox` | event rows, publishers, Redis stream, retention, an Agent |
| `EventStream` | the abstract specification of event delivery |
| `RuntimeFleet`, `MCRuntimeFleet` | Runtime Targets, probes, placement, sessions, purge |
| `Maintenance` | admission, Maintenance Runs, reconcilers, the shutdown report |
| `Schema`, `SchemaBaseline`, `SchemaModels`, `SchemaMigrations` | statements of a revision; revision 0001; the ORM models; revisions 0001 to 0015 as a state machine |
| `ResultStore`, `Workspace`, `FileDownload`, `Queries` | what remains of an Execution, and how it is read |
| `Evidence` | the composition of those four, for TLC |
| `ExecutionLifecycle_proofs`, `StepJournal_proofs`, `Commands_proofs`, `Outbox_proofs`, `Maintenance_proofs`, `RuntimeFleet_proofs`, `Evidence_proofs`, `ExecutionEvents_proofs` | the theorems about each of them, with the inductive invariants |

### ExecutionLifecycle

One Execution, any number of Workers and Cleaners (a Cleaner is one pass that
may hold an observation). The state is the database (`row`, `lease`,
`attempt`, `op`, `steps`, `handover`), the Jupyter side (`kernels`, `started`)
and the processes (`job` per Worker, `cleaner` per pass).

* **One transaction, one action; one Jupyter call, one action.** A transaction
  locks the execution row (`SELECT ... FOR UPDATE`), so it is atomic; between
  two of them everything may happen. A job's `pc` names the next transaction
  or call of the runner. `HandlerPc` are the phases inside an `except` block,
  where a second interruption ends the job.
* **Fencing.** `Holds` is `require_active_lease`: status, owner, token, expiry,
  and the same three on the Attempt. Every fenced write has it as guard, and
  `LoseLease` is the `LeaseLost` exception that discards the run.
* **Version column.** Only compared for equality with an earlier copy, so it is
  the set `seen` of passes whose copy is current. Transactions that do not
  raise the version in the code (`ClaimCancellation`, `RecordRuntimeSession`,
  Step writes) leave `seen` alone.
* **Time** is nondeterministic. A lease is live or not; `LeaseExpires` needs a
  heartbeat that stopped, `LeaseStalls` is a Worker or its database stalling
  for longer than the lease. Deadlines may pass at any moment.
* **Refusals** (no capacity, paused admission, target OFFLINE) change nothing
  and are steps not taken. A target with open work cannot be purged, so a
  missing target shows up only in `AuditTargetGone` and `ClaimUnavailable`.
* **Workers.** Worker ids are unique per process, so a crashed or stopped
  Worker is dead for good; one Worker stays alive. `DispatchCancellation`
  stands for both places that interrupt a local run: admission, when the
  leases are free or its own, and the runtime audit, in any case.
* **Kernels** are numbered in the order they start. `done` is a history
  variable: which code ran to its end on which kernel, for the property about
  a Step's context.
* **Jupyter's kernel restarter** (`KernelRestarts`, external) replaces a dead
  kernel process under the same id, which is what Jupyter does by default and
  what `kernel_state.py` detects while a Step runs. It happens in every passing
  run of the lifecycle (`AutoRestart`; only `TakeoverLeak` does without). A
  kernel restarted between two Steps has lost its variables and no check tells,
  so it is the one exception of `StepHasItsContext`.
* **Abstracted:** failure types and messages, notebooks, artifacts, events,
  the StepRun row (RUNNING together with its Step), Step timeouts (an
  `execute` that hits a limit), the journal protocol below `execute` (that is
  `StepJournal`).

### ExecutionContract

Two variables, a status and the Steps' statuses, and what looks like a single
process: a Step starts only after all earlier ones succeeded, only while
RUNNING, only alone; a result stays until a retry or a new Operation; an
Execution ends with no Step left open. `ImplementsContract` says the detailed
system refines it, with `status <- row.status` and the Steps as they are.

### StepJournal

One Step, one kernel, one request id; a *job* is a Worker's attempt to bring
the Step to its end, named by its fencing token (unique by `TokensUnique`).

| Variable | In the code |
|---|---|
| `path`, `lines` | the journal file at the request's path, and the lines of every file that ever was there |
| `rec`, `conn` | the `_record` task; the `follow` generator behind each WebSocket, with its own open file and read position |
| `kernel`, `out`, `sent` | the kernel process, what each run of the code printed, which journals' code reached it |
| `strays` | POSTs whose client gave up: still on their way, or waiting in `wait_for_ready` |
| `job`, `result` | the Worker's coroutine with its `_JournalState`, and the result directory of its token |
| `db` | the Step's status, `submitted_at` of its run, the newest token, the token whose result was committed |
| `harmed` | history: a kernel, a server, a recorder or a journal was lost |

* The extension runs on one event loop, so `start` is two actions (up to the
  first await, and once the kernel is ready), an append is one, and `follow`
  is one action per line, one for the catch-up marker and one for ending an
  orphaned journal, with an await before it. The reply and the output come on
  two channels and are recorded in any order.
* A lost answer, a limit and a crash leave a POST behind that the server may
  handle at any later time, next to the repeated one.
* A takeover may happen while the old Worker only stalls: it goes on reading,
  storing and sealing under its own token and is stopped at its next fenced
  write. `begin_handover` and `claim_handover` are one step here.
* A restart of the server ends the kernel and every connection; the recorder
  may still write its last line, and the disk may survive or not.
* `RemoveExpired` assumes that no request, connection or job lasts as long as
  the retention (a day by default).
* Left out: the text of outputs; the files of the result directory, which are
  `ResultStore`; a write error of the recorder itself.

### ExecutionEvents

Repeats the next-state relation of `ExecutionLifecycle`, each action with the
events its transaction writes in the code (`AfterCancellation`,
`ExecutionCompletedPayload`, ...), and keeps in `view` what a consumer that
applies them one after the other knows. What a transaction writes for several
Steps is one entry, since these events do not depend on each other.
`view.valid` is the conjunction of the
checks that building an event makes, and of the order the contract promises
(`dev_docs/executor-events.md`); a failed check would roll the transaction
back. Whether a start event was written before is decided from the rows that
are left (`starts.py`). Retention deletes published outbox rows at any time, so
`StartEvents` may not find `execution.started`; it empties the event history of
an ended Execution, so after a retry the `operation_started` of the Operations
in `deleted` is not found (`RetryEvents`). In both cases the start is announced
again. The end of an Operation that
a cancellation announces a second time has a name of its own
(`operation_repeated`), so that an `operation_completed` is accepted only once
in its cycle.

### Commands

One action per transaction of a handler: authorization and validation, lookup
of the key, the write under the row's lock, recovery of a conflict. The order
of the checks before the first transaction is that of the routes (`SubmitRoute`,
`CommandRoute`; the REST routes and the MCP tools agree on it): the sources are
resolved, and a PATH file hashed, before the key is looked up, for a repeat as
for a new request. Callers send every request of `Requests` any number of times
and may edit the PATH file; Workers move Executions between the steps.
Fingerprints are the fields the code hashes. Limits and offerings (`Profiles`,
and which of them are `Stateful`) are constants: a deployment that changes them
may also refuse a repeat of a request it accepted before.

### Outbox and EventStream

Writers append events with the next sequence number under the Execution's
lock. A publisher takes the heads of a batch, sends them with XADD and marks
them in one transaction; an XADD may be lost, be carried out without an answer,
or be carried out later, and a publisher may die at any point. Retention
deletes published rows, then events, and trims the stream. The Agent reads the
stream and closes gaps from the history as `scripts/agent_event_consumer_example.py`
does. `EventStream` has only the committed and the delivered number of each
Execution: delivery goes up by one.

### RuntimeFleet

Targets with endpoint, status, capacity and tombstones; the operator's
commands with their receipts; probes that observe in one step and apply in a
later one if the identity is still the observed one; placement that chooses by
an unlocked read and confirms under the row's lock; sessions and Attempts as
far as slots and purge read them.

* A session starts in one step and is recorded in another (`StartSession`,
  `RecordSession`); a Worker lost or fenced between them leaves a kernel that no
  row names.
* A cancellation is requested in one step and carried out in another (`Cancel`,
  then `CancelStopped` or `CancelUnstopped`). CANCEL_REQUESTED does not count as
  a slot unless an Attempt runs, so a cancelled QUEUED retry gives its slot up
  while its retained kernel lives, and takes it back when the delete fails. The
  same happens when a retention lapses before a pass reserves its cleanup.
  `gaveUp` is the history of both.
* An update that changes the endpoint leaves the kernels of the old server
  behind (`stray`); one that only changes the pool does not.
* Takeovers and the deferred claim of a retained retry are in
  `ExecutionLifecycle`, not here.

### Maintenance

The admission row, read by claims under a share lock; Runs with the targets
they found; reconcilers that claim a Run, list, renew, cancel, mark and
finalize in separate transactions; the report whose counts are separate
statements. An Execution is the columns maintenance looks at.

### Schema, SchemaBaseline, SchemaModels, SchemaMigrations

A revision is a sequence of statements applied to a schema and its rows, and a
statement that fails rolls all of it back. Names are kept, types are not.
`SchemaModels` is written from `db/models/`, the revisions from
`migrations/versions/`: the two are independent, which is what makes
`HeadIsTheModels` worth checking. The schema has all tables; rows are kept of
those a revision rewrites, drops or takes a column of the evidence from
(`Watched`: Executions, Attempts, Operations, Step runs, handovers, diagnostics, events,
outbox rows, Targets, receipts, purge records), with the columns of it that
tell an outcome, an owner, a Target or a cause (`Evidence`). Assumed: no writes
while a migration runs (every destructive revision asks for drained Pods).

### ResultStore, Workspace, FileDownload, Queries, Evidence

* `ResultStore`: the directory of one token file by file, the caller's calls
  as threads that go on when the caller is cancelled, failed writes, a torn
  log line, the rename that seals.
* `Workspace`: one Step, up to `NumRuns` takeovers and retries, a notebook
  and a file on the volume, the rows about them, and callers that add the same
  report under one key. `late` remembers a write of a replaced Worker.
* `FileDownload`: a file as a sequence of chunks of few values, so that
  overwritten bytes may come back; writers replace it or change it in place,
  with or without a visible modification time. `opened` is the history of the
  content at the open and of a hidden change since.
* `Queries`: a collection by time (newest or oldest first) or by number, rows
  that are inserted with a time and committed later, change and go away; and
  the three statements of a result beside the lifecycle: a MULTI Operation that
  fails leaves its Execution waiting, another one may correct it, and only
  SINGLE Executions are retried.
* The four share no state, so `Evidence` explores one of them in each
  behaviour.

## 3. Properties

| Property | Statement |
|---|---|
| `TypeOK` | the type invariant |
| `TokensUnique` | two jobs never carry one token, none is newer than the row's, and a claimed cancellation owns the newest alone |
| `LeaseMatchesAttempt` | the row's lease and the Attempt's never disagree; Attempts run and wait exactly when the Execution does |
| `EndedIsClosed` | an ended Execution leaves nothing open on any row, and SUCCEEDED means every part succeeded |
| `StepHasItsContext` | a Worker that may commit runs a Step only where all its predecessors ran, unless Jupyter restarted the kernel by itself |
| `MultiSessionIsAccountedFor` | a session that outlives its MULTI Execution is retained on purpose or on the cleanup list (`SessionIsAccountedFor`, the same for SINGLE, is violated, see below) |
| `ForgetsOnlyGoneKernels` | the row of a MULTI Execution forgets only kernels that are gone |
| `PassSparesHeldKernel` | a pass never deletes the kernel of a Worker that holds the run |
| `ImplementsContract` | refinement of `ExecutionContract` |
| `RunEnds`, `HandoverIsTaken`, `CancellationEnds` | progress without deadlines |
| `EveryExecutionEnds`, `SessionsAreReclaimed` | progress with deadlines |
| `EventsFollowContract`, `ConsumerKnowsState` | every event is valid and in its place, but for starts announced again after retention and an Operation's end repeated by a cancellation; who applies them knows the running Steps, handovers, endings and retries |
| `SuccessIsOneWholeRun` | a Step succeeds only with the whole output of one run of its code, in order, sealed by the token that commits it |
| `UndecidedIsSentOnce` | while a Step is undecided, its code was sent at most once and its journal is there |
| `NothingIsLost` | the Worker that holds a Step never finds it lost while nothing was harmed |
| `StepIsDecided` | every Step is decided, without a limit passing |
| `OneEffectPerKey`, `RepeatGetsItsEffect` | a command takes effect once per key and version; a repeat is answered with that effect, unless the PATH file it names was edited, and no answer names another request's |
| `NothingIsForgotten`, `ImplementsEventStream` | nothing is marked or deleted that the stream never held, an Agent has no hole, and delivery refines `EventStream`, liveness included |
| `SlotsAreRespected`, `PurgedLeavesNoKernel` | work is placed only where it fits and on a verified endpoint; a purge leaves no kernel behind that an Attempt recorded at the Target's present endpoint |
| `QuietWhenDone`, `SafeReportIsTrue`, `RunFinishes` | a finished Run has stopped everything, the shutdown report is true, every Run finishes |
| `RevisionMeansSchema`, `HeadIsTheModels`, `EvidenceSurvives` | one schema per revision, the models' at the head; an upgrade loses no evidence (but the wake-ups 0010 deletes), a downgrade only what its revision had introduced |
| `ReferenceIsReadable`, `CompleteIsWhole` | the result a row refers to stays readable; a complete one is whole |
| `NotebookShowsResult`, `FilesAreRegistered`, `ReportIsAppendedOnce` | notebook, Artifacts and report agree with the rows |
| `DownloadIsAsAnnounced` | a completed download is the range of what its checksum announced, and both are of the file as it was opened unless it was changed in place without a trace |
| `PagesMissNothing`, `BundleAgrees` | pages miss and repeat nothing that was there throughout; an Operation shown as SUCCEEDED has its Steps, an Execution shown as SUCCEEDED a last Operation that did |

## 4. Runs

The runs of `ExecutionLifecycle` start from a SINGLE and from a MULTI Execution
(`operation_mode` is chosen in `Init`), with two Workers and one Cleaner. Two
Workers give every race between an old and a new owner; a third could only
repeat the role of one of them, and the proofs cover any number for the
properties they prove. Deadlock is not checked: an ended Execution, or a Step
that was decided, really stops. Symmetry (the Workers) is used only
in runs without temporal eventualities.

| Run | Instance | Shows |
|---|---|---|
| `Safety` | 1 Step, 1 retry (SINGLE), 2 Operations (MULTI), 2 faults | the safety properties |
| `Events` | 2 Steps, 1 retry, 2 Operations, 1 fault, retention of the outbox | Step context across retries, takeovers and Operations, the events, and the refinement |
| `RunProgress` | 1 Step, 1 retry, 1 Operation, 1 fault | progress of runs, released Steps and cancellations |
| `Deadlines` | 1 Step, 1 retry, 2 Operations, 1 fault, deadlines pass | every Execution ends for good, sessions are given back |
| `Journal` | 2 tokens, 1 output, 2 faults | code is sent once, nothing is lost, what is committed is one whole run, every Step is decided |
| `Commands` | 2 handlers, 24 requests of 2 users, 2 contents of the PATH file, 2 Executions, 5 versions | idempotency under races, reused keys and stale versions |
| `Outbox` | 2 publishers, 3 events, batches of 2, 2 faults | order, completeness and delivery |
| `Fleet` | 2 Targets of 2 pools, 2 servers, 2 Executions (one is retried), 2 operator commands, 1 prober, 1 fault | slots, verification and purge |
| `Maintenance` | 1 Execution with 1 retry, 2 reconcilers, 2 Runs, 1 fault | drain, report and completion |
| `Migrations` | all 15 revisions, 2 rows | schema drift, and what each command may lose |
| `Evidence` | 2 outputs and 2 storage faults; 3 runs, 2 callers and 2 faults; 3 chunks of 2 values and 2 writes; 4 rows of 2 times in pages of 2 | results, workspace, downloads and queries |
| `TakeoverLeak` | small | the finding below |

**Bounds.** `NumSteps` 2 is the least with a predecessor and a rest to skip.
`MaxRetries` 1 and `MaxOperations` 2 give every transition of the retry and
Operation loops once. `MaxFaults` counts crashes, shutdowns, stalls, kernel
deaths and failed calls: two are needed for, say, a stall followed by a failed
delete; the fault-free steps (cancellation, expiry, deadlines, passes) are
unbounded. In `StepJournal` two tokens give every race between a Worker and its
successor; its `MaxFaults` also counts limits that pass. One output already
makes a journal of three lines (output, reply, end) that a broken stream can cut
anywhere, and a lost or repeated output shows. Two handlers, two publishers, two
reconcilers and two callers give every race of two; three events are a batch and
a rest; two capacity claims on a Target of one slot compete. `Fleet` has one
prober because an answer is only ever compared with the row. A second Attempt
of one of the Executions is a retry on a retained session beside the other's
claim. Two values and two writes let a chunk change and come back. The capacity
of `Migrations` is two rows: the least with two Targets behind one endpoint.
Four rows in pages of two make a second page with a rest, two times make ties.

**Fairness.** `Progress` is weak fairness of each job's next step (an asyncio
task that has an answer goes on), of the polls every Worker makes for
cancellations and released Steps, of the periodic passes, and of the expiry of
a lease nobody renews. `DeadlinesPass` adds that deadlines pass and that the
audit that looks at them acts; strong fairness is assumed only for the audit of
a WAITING Execution past its maximum runtime, because each poll takes a new
observation and probes the kernel in between, and once the deadline has passed
every poll meets it. Nothing is assumed of callers, of new claims (they wait
for capacity) or of faults. `StepJournal` assumes that each Worker's coroutine,
the recorder and the kernel's code go on, and that a Step without a Worker is
taken over; it assumes neither that a limit passes nor that a stray POST is
handled.

In `Outbox`, publishers poll for ever and a back-off ends. In `Maintenance`,
Workers poll for ever, the lease of a dead owner expires, and an Execution that
is asked to stop ends (`CancellationEnds` above); strong fairness is for the
reconcilers and the endings, which compete for row locks with work that goes on
and repeat until they get them.

### Findings

* `TakeoverLeak`: a SINGLE takeover learns its session only after reading its
  sources. Interrupted before, it finalizes with no session to stop: the row
  keeps the session with cleanup NOT_REQUIRED and no pass looks at it again,
  although `docs/execution-recovery.md` says the session is cleaned up.

### Observed while modelling

The models contain these behaviours. Those that a property would exclude are
named as its exceptions, where it is defined; each is reached in the runs.

*Exceptions of a property:*

* A kernel process that Jupyter replaced under its id between two Steps answers
  the preflight like the old one, and a retry, a takeover or the next Step goes
  on without its predecessors' memory (`jupyter/sessions.py:90`;
  `StepHasItsContext`).
* `dev_docs/executor-events.md:330-341` promises start events once per
  Execution or Operation and `operation_completed` once per Operation cycle.
  `starts.py:28` recognises an earlier start by its outbox row or its entry in
  the history, which `event_retention.py` deletes, so that a later claim
  announces it again; and
  cancelling a MULTI Execution while it waits announces the end of its closed
  Operation again (`cancellation.py:318`; `EventsFollowContract`).
* `dev_docs/executor-api.md:68-69` says that a repeat of a request returns the
  first call's result. The resolver runs before the key is looked up (HTTP
  `commands.py:54`, `mcp/server.py:160`) and refuses a PATH source whose file no
  longer has the sha256 of the request (`execution_specs.py:260`;
  `RepeatGetsItsEffect`).
* `docs/runtime-targets.md:157` and `:183` count a retained session as a used
  slot. While a QUEUED retry is being cancelled (`runtime_admission.py:36-54`
  does not count CANCEL_REQUESTED) or after its retention lapsed, it does not
  count; when the delete then fails (`cancellation.py:229`) it counts again
  beside whoever took the slot, and the capacity is exceeded
  (`SlotsAreRespected`).
* A Worker lost or fenced between `start_session` and `record_runtime_session`
  (`single_runner.py:176-196`) leaves a kernel that no row names and that
  survives a purge; so does a kernel on a server its Target was moved away from
  (`docs/runtime-targets.md:218-219`; `PurgedLeavesNoKernel`).
* A download is not a snapshot, as `file_download.py:57-59`,
  `docs/rest-api.md:240` and `dev_docs/get-artifact-content.md:111-114` say: a
  file changed in place within the resolution of its modification time may be
  hashed in two contents (`DownloadIsAsAnnounced`).
* A SUCCEEDED MULTI Execution may have a FAILED Operation that a later one
  corrected (`docs/required-result-completion.md:49`), so its result may show a
  FAILED Step (`BundleAgrees`).
* A downgrade drops what its revision introduced together with its rows:
  `execution_diagnostics` (0002), `execution_step_runs` and
  `execution_handovers` (0006), `tenant_id` (0007), `finalized_by` and the
  `failure_type` of Operations (0013), everything (0001). Outside what
  `EvidenceSurvives` calls evidence, upgrades drop the trace columns (0004), the
  task context, the keys of purges and the actor's type, and the downgrade of
  0015 calls every actor a USER.

*Others:*

* A caller's cancellation of a FINALIZING Execution that the runtime audit
  began ends FAILED: the cancellation path reads `finalized_by = MAX_RUNTIME`
  (`cancellation.py:192`), although `domain/transitions.py:26` reserves FAILED
  for cancellations the audit asked for.
* `stop_session` (`step_flow.py:275`) checks ownership and deletes the kernel
  in two round trips; a Worker that stalls between them deletes the kernel of
  its successor.
* A POST whose handler outlives its answer, the Step's commit and the release
  of the journal finds no file and sends the code again (`executions.py:205`).
  The Step's result is not affected, the kernel's memory is.
* Two followers of an orphaned journal each append a terminal line
  (`executions.py:197`); every follower stops at the first.
* A submission that loses the race for its key gets an internal error: the
  flush of `add_operation` raises before the recovery in `submission.py:176`
  can catch a PersistenceConflictError. A repeat is answered correctly.
* A resumed retry that ends before it recorded its session leaves an Attempt
  without a session id, and the proof of cleanup `purge.py` looks for is never
  found: the Target cannot be purged.
* A selected FAILED target of a Maintenance Run that retains a session is only
  marked STOP_REQUESTED (`reconciler.py:79`): its retention has to pass first.
* `execution.completed` offers a retry that is refused until the abandoned
  session is cleaned up.
* A baseline database with Executions cannot go to the head in one step: 0012
  refuses rows without a tenant, while `docs/database-operations.md` says
  `upgrade head` preserves rows.
* The counters of an ABORTED result may disagree with its outputs when a thread
  of an interrupted append runs beside the seal; two sealing threads share the
  name of a temporary file and may both fail.
* A replaced Worker's late write may overwrite its successor's notebook
  (`late`), and a retry blanks the notebook while its row still says SUCCEEDED
  until the next projection.
* A list by time, oldest first, can miss a row that is committed later with an
  earlier time; `PagesMissNothing` promises only what was there from the first
  page on.

## 5. Proofs

Every theorem holds for all values of the constants: any number of Workers,
Executions, requests, rows, messages, retries and faults, within the named
assumptions. The inductive invariants are definitions of the `_proofs` modules;
each was checked by TLC on the bounds of the component's run before it was
proved.

**`ExecutionLifecycle_proofs`**

* `TypeCorrect`: `Spec => []TypeOK`. One lemma per group of actions (commands,
  claims, job steps, faults, passes, environment), on lemmas for the operators
  that build the records.
* `LeaseAgreement`: `Spec => []LeaseMatchesAttempt`. Inductive together with
  `TypeOK`. The argument: each transaction that touches the row's lease
  touches the Attempt's in the same step (grant, release, hand over, end), and
  the others leave both alone (`JobLeavesLease`).
* `TokenUniqueness`: `Spec => []TokensUnique`. A token enters a job only
  through a claim, which raises the row's token (`TokenGiven`), everything else
  can only drop tokens (`NoTokenGiven`). The one claim that does not raise it
  is a cancellation claimed again by its own owner; the third conjunct of
  `TokensUnique` is the strengthening that covers it.
* `EndLeavesNothingOpen`: `Spec => []EndedIsClosed`. Not inductive: that an end
  leaves nothing open depends on what the job that writes it has decided
  before. `LifecycleIsGood` has four parts. `RowIsGood` says for each status
  what the Operation, the Attempt, the Steps, the session and a pending abort
  may be; `JobsAreGood` what a job in each phase has decided about its ending
  (it keeps the session only for a retry from the failed Step, it succeeds only
  after the session is released); `HoldersAreGood` where the one job that may
  commit stands (`Position`: the Steps before its own succeeded, those after it
  were not started, and its own is PENDING, RUNNING or ended as its phase
  says); `PassesAreGood` that a pass whose copy of the row is current cleans up
  a session that waits for it. `TokensUnique` is what makes the holder unique,
  so that another job's write cannot move it (`OneHolder`, `NoHolder`).
* `ContractIsKept`: `Spec => ImplementsContract`, the refinement of
  `ExecutionContract`. From the same invariant: each action that writes the
  status or the Steps is one of the contract's (`SeenStep`, `SeenMove`,
  `SeenEnd`, `SeenRestart`), and all others change nothing a caller sees
  (`Unseen`).
* `NoSessionIsForgotten`: `Spec => []MultiSessionIsAccountedFor`,
  `HeldKernelIsSpared`: `Spec => PassSparesHeldKernel`, and
  `RowForgetsOnlyGone`: `Spec => ForgetsOnlyGoneKernels`. They relate the rows
  to the kernels, and need `SessionsAreGood` on top of `LifecycleIsGood`. What
  a job or a pass reports as deleted or missing is gone (`ReportsAreTrue`), and
  stays gone, because session ids only grow (`SessionsWereStarted`) and no step
  brings a kernel back (`RuntimeStep`). A session that a pass is about to delete
  is on no run, and the row that still names it has ended and waits for the
  deletion (`DoomedAreFree`): this is what holds between the check of a pass
  and its delete, when Workers claim and retries are requested. A job or a
  cancellation that may commit is on the session of the row, as far as its
  phase says (`HoldersOnSession`, `CancellersOnSession`), so what it writes
  about its session is true of the row's.
* `StepsFindTheirContext`: `Spec => []StepHasItsContext`, with or without
  Jupyter's restarter (a restarted kernel is the exception the property names).
  `ContextIsGood` says that as
  long as the Steps that succeeded will not run again, each of them ran to its
  end on the kernel the row names (`StepsHaveRun`, and `StoredHaveRun` for the
  one about to be committed), and that a MULTI Execution has one kernel from
  its first Step to its end (`OneKernel`).

**`StepJournal_proofs`**

* `TypeCorrect`, `SuccessIsWhole` (`SuccessIsOneWholeRun`), `SentOnce`
  (`UndecidedIsSentOnce`), `LosesNothing` (`NothingIsLost`).
* None of the three is inductive. `Inv` says what holds while the Step is
  undecided: the journal at the request's path numbers its lines up to its
  first end (`Numbered`; behind that end a late reader may write a number a
  second time), `COMPLETED` is written only under the whole output and its
  reply (`CompletedIsWhole`, from what the recorder has seen,
  `RecorderKnows`), a connection reads that journal from where its Worker
  stands (`ConnectionIsGood`), and what a Worker has stored is what the lines
  it has applied say (`StoredIsApplied`). So `OK` is earned before it is sealed
  (`OutcomeIsEarned`), and `SuccessStays` carries it over the end, when files
  are deleted and journals of late POSTs begin. `FilesExist` is needed because a reader
  ends an abandoned journal through a file whose name may be gone.
* `Unharmed` is inductive relative to `Inv`: as long as nothing was lost, the one
  journal is recorded or ended, and so no reader ever finds it orphaned
  (`WellFollows`).

**`Commands_proofs`**

* `OneEffect` (`OneEffectPerKey`) and `RepeatIsAnswered`
  (`RepeatGetsItsEffect`, an action property). The invariant relates three
  places: the rows (`RowOK`: Operations have different keys, receipts agree
  with the effects, finalization and cancellation are final), the handlers
  between their transactions, and the answers. Rows only ever grow
  (`TableGrows`), so what a handler has looked up stays true while another one
  commits. That a repeat is refused at its route for no other reason than its
  PATH file needs that a request whose effect was committed passed the same
  checks then (`AppliedIsAdmissible`, `RepeatIsAdmitted`).

**`Outbox_proofs`**

* `EventsAreNotForgotten` (`NothingIsForgotten`), and `DeliversInOrder`:
  `Spec => Stream!Safety`, the initial states and the steps of the refinement
  of `EventStream`. The invariant says that the published rows of an Execution
  are the first ones, that a publisher between sending and marking has sent
  what it will mark, and that retention and trimming remove only what was
  marked or read. The fairness part of `ImplementsEventStream` is checked by
  TLC.

**`Maintenance_proofs`**

* `RunStopsEverything` (`QuietWhenDone`) and `ReportIsTrue`
  (`SafeReportIsTrue`). Claims commit under the share lock of the admission
  row, so while admission is closed an Execution can only move towards its end
  (`MayFollow`, proved once for all steps of Executions): what was counted as stopped stays
  stopped, in a Run and between the statements of one report.

**`RuntimeFleet_proofs`**

* `TypeCorrect`, `PurgeIsSafe` (`PurgedLeavesNoKernel`) and `SlotsAreGivenOnce`
  (`SlotsAreRespected`, an action property).
* What a purge sees are rows, what it must not leave behind are kernels, so the
  invariant ties the two: the row names each recorded kernel of its Execution
  that did not stray, as a session not yet cleaned up on the server of its
  Target (`KernelsAreKnown`, `ExecIsGood`), and the Attempts that recorded a
  session are on the Target of the row that still names it
  (`AttemptsAreGood`). A purge refuses while a row of the Target names a session
  or runs; so a row that names one is always on a live Target. A kernel that
  was started and not recorded is known to the claim alone (`ClaimIsGood`), and
  only on the server of its Target can its recording bind it
  (`SessionIsRecorded`).
* A claim keeps its row locked between choosing and reserving (`ClaimIsGood`).
  `InvStep` shows that every step either adds nobody that has not given up its
  slot, or is a claim that counted the reservations under the Target's lock and
  adds one Execution (`Adds`). A cancellation adds nobody, because the Attempt
  of a resting Execution does not run (`Cancels`, `RestingIsInactive`).

**`Evidence_proofs`** (of `EvidenceSpec`, the composition)

* `ResultIsReadable` and `CompleteResultIsWhole`: threads of interrupted calls
  go on in the directory of their token; the invariant says for each call what
  it may still do and that a manifest, once renamed, is never written again.
* `NotebookIsFaithful`, `FilesAreArtifacts`, `ReportIsThereOnce`: the invariant
  follows the Worker of the current token from its projection over discovery
  to its commit; `late` is the history of a replaced Worker that writes after
  its successor.
* `DownloadIsSound` (`DownloadIsAsAnnounced`): as long as no change was hidden
  and the modification time is the one at the open, the open file is what it was
  then, and so is what was hashed; what was sent is compared with it at the end.
* `BundleIsConsistent` (`BundleAgrees`): what a statement has read is what the
  rows were when it ran. A SUCCEEDED Operation stays so, with its Step, because
  only a FAILED Execution is retried; an Execution succeeds only while its last
  Operation has.
* `PagesAreComplete` (`PagesMissNothing`): a page is what `ORDER BY key LIMIT
  limit + 1` may return (`Selects`), for any page size. `PagesInv` says that the
  key of a row is fixed before a page can hold it, so what was given stays in
  strict order (`GivenIsSorted`, hence nothing twice), that the cursor is the
  last row given (`CursorIsLast`), and that whatever was there throughout is
  given or comes after the cursor (`SteadyIsGiven`). For lists by number,
  numbers are committed in order (`NumbersAreInOrder`), so nothing appears
  before the cursor later (`NumbersHaveNoGap`).

**`ExecutionEvents_proofs`** (of `EventSpec`, the lifecycle with its events)

* `EventsKeepContract`: `EventSpec => ImplementsContract`. Every step with its
  events is a step of `ExecutionLifecycle` or changes only the view
  (`EventsKeepLifecycle`: `EventSpec => Spec`), so all theorems about `Spec`
  hold here too; the proofs below use its invariants.
* `EventsAreContractual` (`EventsFollowContract`) and `ConsumerIsInformed`
  (`ConsumerKnowsState`). Neither is inductive alone: an event is valid and in
  its place because the consumer knows the state the transaction starts from,
  and it knows that state because every event before was written, except for
  starts that retention lets come again. `ViewIsGood`
  has both, and that a session was announced (`SessionIsAnnounced`) and a Step
  runs only in an open Operation (`RunsInOperation`). The rest comes from
  `LifecycleIsGood`: which Step is RUNNING where a job commits its end, that an
  Operation that ends has none that runs, that a status is terminal only once.
  The counts of a payload are bounded by the cardinality of disjoint sets of
  Steps.

Assumptions: `WorkersAssumption`, `StepsAssumption`, `BoundsAssumption`,
`AutoRestartAssumption` of `ExecutionStore`; the bounds of each module are
natural numbers; the requests of `Commands` are requests
(`RequestsAssumption`: the fields of the command classes) and an Operation's
limit of Steps is not above the Execution's (`StepLimitsAssumption`); nobody is a caller
in `Workspace` (`CallersAssumption`); a chunk has at least one value
(`ValuesAssumption`); in `RuntimeFleet` there are finitely many
Executions, capacities are positive, a probe counts sessions or has no count,
and no session is the same as none (`ExecutionsAssumption`,
`CapacityAssumption`, `ObservedAssumption`, `NoneAssumption`). TLC evaluates all of them in each run.

Only model-checked, and why:

* liveness (`RunEnds`, `StepIsDecided`, `RunFinishes`, ...) and the fairness
  part of `ImplementsEventStream`: fairness and ENABLED are outside the
  prover's reach;
* `RevisionMeansSchema`, `HeadIsTheModels` and `EvidenceSurvives` of
  `SchemaMigrations`: they evaluate fifteen concrete programs of statements with
  a RECURSIVE operator. There is nothing to generalise but the rows: the
  revisions are fixed data, which TLC evaluates completely.

Every other invariant, action property and refinement that a passing run checks is also
a theorem.

## 6. Not modelled

Not modelled: HTTP and MCP interfaces (but for the order of the command routes'
checks, in `Commands`), contracts and authentication, settings,
logging and wiring (no state of their own), scripts and the test harness
(callers from outside), rendering of notebooks and views (content, no control),
the polling loops of the Worker (fairness), the order of the queue (a
nondeterministic choice), metrics and resource samples, a recorder that cannot
write its journal.
