# Verification of the predictive-maintenance decision workspace

This directory holds TLA+ models, TLC configurations and TLAPS proofs for the
runtime of the repository: the Generator that turns sensor windows into
prediction results, the delivery of those results to the Backend, and the
Backend's maintenance loop whose events are delivered back to the runtime
overlay. Paths below are relative to the repository root (`src/`).

## 1. Inventory

The program is two Python services and a web client.

```
gen_data --> Extraction --> runtime queue --> pipeline run --> prediction outbox
                                                                    | HTTP
  runtime overlay <-- maintenance delivery <-- transactional        v
     (gen_data)        (HTTP or JSONL)         outbox <-- Backend inbox, Product
         |                                       ^        Result, Evidence
         +--> replay snapshots --> Extraction    +-- maintenance closed loop
```

### Generator (`systems/generator/app`)

| Component | State it keeps | Operations | Interacts with | What makes it correct |
|---|---|---|---|---|
| Runtime queue (`runtime_pipeline/pipeline_queue.py`, `pipeline_worker.py`, `pipeline_manager.py`) | SQLite table `queue_items`; the worker thread's current job | enqueue, retry a failed job, claim, mark, recover at start, stop | handlers and the extraction handoff enqueue; the worker runs the pipeline | one consumer; a source is registered once; FIFO with one promoted replay per maintenance event; every job settles |
| Pipeline run (`pipeline_service.py`, `pipeline_state.py`, `pipeline_repository.py`) | run state and checkpoint JSON files, stage artifacts | five stages, resume, invalidation, completion | called by the worker; writes the prediction outbox | a resumed run never uses an artifact of another model set; a completed run has registered every result |
| Prediction delivery (`prediction_delivery_service.py`, `prediction_delivery_worker.py`) | one JSON file per outbox item, wake-up signals | register, send, retry with backoff, recover interrupted sends | Backend inbox over HTTP; run state | a registered result is sent at least once; replays are promoted once; run state agrees with the outbox |
| Batch building, prediction, runtime features (`prediction_batch_service.py`, `prediction_service.py`, `runtime_feature_service.py`) | immutable artifacts | pure computation with fail-closed validation | called by the pipeline run | label-free features, deterministic event ids |
| Active model set (`active_model_set_service.py`, `model/publisher.py`) | the pointer file `active-model-set.json`, its lock file, model artifacts | update the pointer under the lock, load it | read once by each execution | an execution sees one model set, and a later one recalculates what another set made |
| Extraction (`extraction/`) | per source a checkpoint and fragments; consumption records; published datasets; the source status in memory | poll, request, read increment, recover, assemble, publish, clean up, create a handoff | gen_data upstream, extraction handoff | committed batches tile the stream; a dataset is complete and never changes; no record is lost over crashes |
| Extraction handoff (`extraction_runtime_handoff_service.py`, `extraction_handoff_repository.py`, `extraction_handoff_worker.py`) | one JSON file per handoff, in a directory per status | create, enqueue, retry, heal | extraction, runtime queue | a published dataset is enqueued, once |
| Preprocessing, feature, training | plan and dataset artifacts | batch computations started by requests | model publisher | determinism |

### Backend (`systems/backend/app`)

| Component | State it keeps | Operations | Interacts with | What makes it correct |
|---|---|---|---|---|
| Transactional outbox (`infra/messaging/outbox.py`) | table `transactional_outbox` with status, attempts, lease; `outbox_delivery_log` | claim with a lease, deliver, settle, dead-letter, replay | any number of workers; handlers | a stream is delivered in state-version order, at least once; nobody settles a message it no longer holds |
| Maintenance delivery (`maintenance_delivery.py`, `maintenance_replay_jsonl.py`) | receipts, JSONL index | send, record | outbox worker, gen_data overlay | a re-sent message carries the same idempotency key |
| Maintenance closed loop (`maintenance/`, `infra/db/maintenance_repository.py`) | risk events, recommendations, work orders, actions, events, command executions | human decisions and work-order transitions, each with an idempotency key | transactional outbox | terminal states are final; an action follows an accepted recommendation and an approved order; events are emitted in version order |
| Diagnosis runtime (`diagnosis/`, `infra/db/diagnosis_runtime_repository.py`, `prediction_result_repository.py`) | inbox rows of batches and results, receipts, prediction results (Product Results) | receive (classify and store), promote, submit, dispatch a promotion | Generator deliveries, the dataset's current version | one content per batch is promoted; what is answered as delivered is promoted; requests never wait in a circle |
| Role workflow, planner, reports, operations, identity, governance, ontology, knowledge, dataset, storage, dashboard | their tables | CRUD and queries | web client | authorisation and scope |

`frontend`, `contracts`, `ml`, `experiments`, `scripts` and `infra` hold the web
client, JSON schemas, offline experiments and deployment files.

## 2. Behaviours that are hard

* **Interleaving.** The pipeline thread, the delivery thread, the extraction
  worker and the HTTP handlers share files and one SQLite database. A run state
  is read, changed and saved by two threads without a lock. Several outbox
  workers hold copies of one message once a lease has run out.
* **Crashes.** Nothing spans two files: a process can die between a fragment
  and its checkpoint, between a checkpoint and the run state, between a POST and
  the record of its answer, between a claim and its settlement.
* **Partial failure.** A save that raises is not a crash: the process lives on
  with a row or an item in a status that only the next start looks at.
* **Delivery is at least once everywhere.** A lost answer, a crash or an expired
  lease sends the same message again; it must not overtake or lose another.
* **Ordering.** State versions of one maintenance action, the FIFO of the queue
  with its one promoted replay per maintenance event, the backlog of predictions
  with its promoted maintenance results, and the watermark of UTC windows.
* **Retries and bounds.** Attempts are counted at different moments (claim,
  failure, recovery), and the last permitted attempt meets crashes and leases.
* **Locks of two kinds.** The inbox takes advisory locks per batch and per event
  and row locks in the order of its scans; two requests for overlapping batches
  must not wait for each other. The closed loop drops `BEGIN IMMEDIATE` on
  PostgreSQL, so its transactions interleave row by row.
* **Change during a resumption.** The active model set may change between two
  executions of one run, whose checkpoint and run state are two files that a
  crash leaves at different stages.
* **Stale memory.** The extraction worker compares the file with an offset in
  memory, the pipeline saves a run state it read before the worker changed it,
  a handler indexes a file before it appends to it.

`PROJECT.json` lists each hazard at its line with the properties that guard it.

## 3. Modules

| Module | Models | Uses |
|---|---|---|
| `RuntimeQueue` | `pipeline_queue.py`, `pipeline_worker.py`, `pipeline_manager.py` | |
| `ProjectOutbox` | `infra/messaging/outbox.py`: repository and worker, any handler | refines `OrderedDelivery` |
| `OrderedDelivery` | abstract: events of a lifecycle are delivered in version order, once, or wait for an operator | |
| `MaintenanceDelivery` | the dispatcher: the outbox with the JSONL or HTTP handler, gen_data | extends `ProjectOutbox` |
| `Extraction` | `extraction/`: increment, checkpoint, fragments, windows, publication, cleanup | |
| `ExtractionHandoff` | `extraction_runtime_handoff_service.py`, the status directories, the handoff worker, the retry endpoint | |
| `BatchDelivery` | abstract: a prediction batch is taken for delivered only when the Backend is done with it, and for good | |
| `PredictionDelivery` | delivery stage of `pipeline_service.py`, run states, `prediction_delivery_worker.py` | refines `BatchDelivery` |
| `PipelineRun` | the stages of `execute_queue_item`, checkpoints, resumption under a changing model set | |
| `MaintenanceRecords` | the rows of a maintenance case and what each command writes | |
| `MaintenanceLifecycle` | abstract: each command takes effect at one instant, where the transition tables allow it | extends `MaintenanceRecords` |
| `MaintenanceLoop` | `maintenance/service.py` and `maintenance_repository.py`: requests, idempotency keys, transactions on SQLite and PostgreSQL | extends `MaintenanceRecords`, refines `MaintenanceLifecycle` |
| `DiagnosisInbox` | reception and promotion of prediction batches on PostgreSQL, with every lock | refines `BatchDelivery` |
| `*Proofs` | theorems about the module of that name; `MaintenanceDeliveryProofs` about `ProjectOutbox` too | |
| `MC*` | constants of the model-checking instances | |

### RuntimeQueue
A row of `queue_items` is a job id with `status`, `input`, `seq`, `attempt` and
`retryOf`; the string prefixes `archived:<job>:` its keys collect are the
sequence `path`. Every method of `PipelineQueue` runs under one lock and in one
transaction and is one action: `Enqueue`, `RetryFailed`, `ReadUnreadable`
(`_row_to_item` dead-letters a row it cannot read, even on a GET), `Claim`,
`ClaimUnreadable`, `MarkSucceeded`, `MarkRetryWait`, `MarkFailed`, and the
recovery in `Start`. `Execute` is `execute_queue_item`, which succeeds or raises.
`MarkSucceededRaises` and `SettleRaises` are the settling writes that raise.
`Exit` is a crash or the end of `stop`. `Legacy` rows are what an earlier release
left in the table, in any status.

### ProjectOutbox and OrderedDelivery
`Claim` is the whole of `claim_one`: recovery of the expired leases, the choice
of the oldest eligible stream head, the claim. `MarkDelivered`, `MarkFailed` and
`SettleLost` are the settlements, the last being the one whose `WHERE
lease_token` finds no row and rolls back. Time is abstract: a lease runs out
(`LeaseExpires`) and a delay passes (`DelayPasses`) at any moment. A worker
carries one message at a time, so the worker stands for its token. `Insert` is
the domain transaction that adds the row; versions of one lifecycle are added in
order, as the repository of the closed loop does. The refinement hides leases,
attempts and retries: to `OrderedDelivery` an event is absent, waiting, delivered
or dead. `NoStreamBlocksAnother` says what `Claim` may overlook: nothing. The head
of every stream with an undelivered event is leased, delayed, out of attempts or a
dead letter, or it can be claimed, and then the statement finds a row to claim
(`FirstClaimable`), whatever other streams wait for.

### MaintenanceDelivery
`stage` says how far a handler call is: it looks for the event (`check`), sends
it (`send`), and over HTTP looks for and inserts a receipt (`record`, `insert`).
`transport` is chosen when the dispatchers start and never changes. `inbox` is
what gen_data can read: the lines of the file that hold one whole event, or the
POSTs it accepted. `Write` is the open-write-flush-fsync of
`MaintenanceReplayJsonlHandler`: it brings nothing, part, all but the newline or
the whole of the line into the file (`Extents`), and `AppendFails` is any of these
followed by the exception. `tail` is what the file ends with (a terminated line, a
whole event without newline, a cut off one) and `joined` the events on a line that
holds more than them. gen_data's answers are external: accepted and answered, accepted and the
answer lost, refused.

### Extraction
A record is its position in the stream, a batch the interval it covers (the
interval determines its `batch_id`), a dataset the set of records it has. One
source is modelled: sources share nothing. `pc` is the write a cycle is at, so a
crash or an error can fall between any two of them: `MarkProcessing`,
`SaveFragment`, `StageCheckpoint`, `CommitCheckpoint` are the three checkpoint
saves and the fragment of `process_available_records`; `RecoverPending` is the
recovery of a staged batch; `Assemble`, `PublishWindow`, `RecordPublication`,
`CleanupFragment` and `CreateHandoff` are `publish_available_windows` and what
follows it. A checkpoint save that raises after its `os.replace` has the effect
of a crash right after the step, which is there. `Limits` stands for the
configured and the requested `max_records`. Left out: records that do not map and
their provenance, changes of the mapping, truncated or replaced files and a
partial last line (all stop the source before anything is written), and two
processes on one directory.

### BatchDelivery
The delivery of prediction batches has two ends, and each is modelled with the
other one external: `PredictionDelivery` with any answers, `DiagnosisInbox` with
any POST of a batch that is not settled. `BatchDelivery` is what they have in
common, a receipt per batch and what the generator has been told. The receipt goes
from none to accepted to promoted, or to refused (`Becomes`); the generator settles
a batch once, and takes it for delivered only when the receipt is promoted or
refused (`Closed`). To `DiagnosisInbox` the receipt is read off the rows and
results (`Receipt`) and the generator's knowledge is a history of its replies; to
`PredictionDelivery` the receipt is a variable that a POST moves and the knowledge
is the status of the outbox file (`Told`). So the answers one module assumes are
those the other proves: an answer "ok" leaves a closed receipt.

### PredictionDelivery
The pipeline thread: stages 1 to 4 of a run are one step that succeeds
(`SaveBuilt`) or fails (`StageFails`); then one `Register` per batch, the
completed checkpoint, the save before the cleanup, the final save, the mark in the
queue, each a step of its own. `ResumeRun` is `find_resumable_run`. The delivery
thread: `ConsumeSignals` before `ListItems`, `MarkSending`, the POST, and every
update of a run state as a read and a write (`ReadRunState`, `WriteRunState`)
between which the pipeline may save. `created` is the position in which items were
registered; `due` says that a retry time has passed. `Post` moves the backend's
receipt as `BatchDelivery` allows and answers; a retryable or final answer leaves
open what became of the batch, and what the backend does after such an answer is
seen at the next POST. `Receipts` bounds the receipts of an instance. Left out: unreadable outbox files (quarantined and never read again)
and the skip of the status "published", which nothing writes. A recovery whose
save raises counts as a start that failed.

### ExtractionHandoff
A handoff is a file `<status>/<handoff_id>.json`; `files` is the set of records,
so that one handoff may have several. A save is two file operations: the record
is removed under its old status, then the new file is put in place. `pc` is the
operation a thread is at. The worker and the extraction manager share the event
loop (`Loop`), the retry endpoint runs in a thread beside it (`Requests`). `Poll`
is `run_once`, `Deliver` one handoff of its list, `Process` every step of
`process_handoff`, `Raises` a file operation or an SQLite call that fails,
`Crash` and `Start` the process, which may come back with predictions switched
off. The queue is what `get_item` and `enqueue` tell: `job` is the row under the
handoff's own job id, `rival` one with the same source. `cut` remembers the
handoffs of which a delivery was cut short, which the properties except by name.

### PipelineRun
The six stages of one source executed again and again; `at` is how far a stage
is: its work, the staged files, the save of the checkpoint, the save of the run
state. A run state embeds a copy of the checkpoint, and `record_checkpoint`
(`Recorded`) starts each record from that copy, not from the checkpoint file the
execution resumes from (`exec.resume`): where the two differ the properties bite.
What a stage computes is named by what it was computed from, features by the
schema of their model and results by model set and features, so "stale" is
visible in the value. `split` remembers the runs that died between the two saves
of preprocessing, which the properties except by name. `Adapted` is the rewinding under another model set,
`ResumeStage` the first stage whose output is missing, `Reusable` the features
that are loaded and not extracted. `StageFails` is an error inside a stage's
handler, which saves the run as failed; `Interrupt` is a crash, or an error
outside the handlers, which saves nothing. Left out: checkpoints of another
source context or without mandatory fields (the search by source identity and
the schema do not let them through), artifacts removed from outside, the delivery
worker's update of the run state (in `PredictionDelivery`).

### MaintenanceRecords, MaintenanceLifecycle, MaintenanceLoop
A case is an operational event with its inspection, recommendation, work order
and action, whose ids are hashes of what they come from. `MaintenanceRecords` has
the effect of each command alone, including the version of the action, its row in
`transactional_outbox` and the patch of the machine's state. In
`MaintenanceLifecycle` a command is its guard and that effect. In
`MaintenanceLoop` it is a request: `Accept` is the service, which reads the rows
and refuses what it can; `Reserve` and `KeyDecided` are the idempotency key;
`UpdateRow`, `UpdateFails` and `ReadEquipment` are the guarded updates, in the
code's order and under row locks; the effect appears with `Commit*`. On SQLite
`Reserve` waits for the running transaction; on PostgreSQL transactions
interleave. `Dies` rolls back. A new key may take the place of one that no
request holds, so the number of keys bounds only how many are in circulation.

### DiagnosisInbox
A request is `Post` (the generator), `Submit` or `Promote` (an operator or the
dispatch job). Reception takes the advisory lock of the batch (`LockBatch`) and of
each event in the order of their ids (`LockEvent`), classifies the batch and then
each result against the stored rows, locking the rows it reads (`ReceiveBatch`,
`ReceiveItem`), and commits with `StoreReceipt`, which fails on the unique index
if the batch lists an accepted event twice; promotion reads the dataset's
current version, locks the accepted row, and marks and inserts result by result
(`ReadContext`, `LockAccepted`, `PromoteItem`, `SavePromotions`). `owner` says who
holds a lock and `Awaited` what a request waits for. `Reply` is what the client
learns, `delivery` what the generator has made of its answers (`Told`), `Dies` a request that ends before, with its transaction rolled back.
A payload is what its digest sees, and the digest sorts the results: so a payload
may be sent in several orders (`Listings`). `listing` is the order a request goes
through, `listed` the one stored in `raw_payload`, which the promotion reads. The
generator posts what its own validation lets through (`InOrder`: sorted, no event
twice); an operator may submit any listing. Locks are re-entrant for their
transaction (`Free`). Whether an item passes the checksum, scope and lineage checks
is a constant of the payload, the same for every occurrence of it. Two requests in
a circle stay there until one of them `Dies`, which is what PostgreSQL's deadlock
detection does to one.

## 4. Runs

| Run | Instance | What it shows |
|---|---|---|
| `queue_fair` | three jobs and one legacy row of any status; a live source, two replays of one maintenance event, a third snapshot of it in the legacy row and the same at another uri; 2 attempts, 2 starts, 1 failed write | unique identities, bounded attempts, final statuses, a waiting job is overtaken by replays only and by one snapshot per event, and every job settles |
| `outbox_fair` | two versions of one action and an event of another machine, two workers, 2 attempts, 1 replay of a dead letter | version order, no stream blocks another, `OrderedDelivery` is implemented, every event arrives |
| `outbox_last_lease` | two versions, two workers | violation, finding 1 |
| `delivery_two` | three versions of one action, two dispatchers on either transport, or one on JSONL whose disk fails twice; 2 attempts, 1 replay | what is processed has arrived, but behind a failed write for at most one event more than there are dispatchers; it arrives in order, and at most once per dispatcher |
| `extraction_cycle` | five records in three windows (2, 2, 1), batches of 1 to 3 records, 2 attempts, 1 crash, 1 failed write, any flush | batches tile the stream, first windows are kept, the watermark is sound, datasets never change, and ordinary operation is never blocked and publishes every closed window |
| `extraction_loss` | the same stream without faults | violation, finding 2 |
| `handoff_cycle` | one dataset, the event loop and a request thread, 2 retries, 2 starts, 2 faults, a rival row, predictions switched off and on | the record tells the truth about the queue, is lost or left behind only where a delivery was cut short, and is decided otherwise |
| `maintenance_race` | PostgreSQL, two threads, two keys; one new case (beside a rejected one), or two cases of one machine with accepted recommendations | the rows of a case agree, no completed maintenance is lost from the machine's state, stored answers are true, `MaintenanceLifecycle` is implemented, and the transactions never deadlock (TLC's deadlock check is on) |
| `prediction_backlog` | a source with two live results and one with a replayed result, no faults | a maintenance result preempts the backlog |
| `prediction_faults` | one source with one replayed result, executed up to twice; 3 attempts, 2 restarts, 2 saves that raise | POSTs are bounded, run states never run ahead, nothing is left unregistered, `BatchDelivery` is implemented, and every batch settles unless a save raised |
| `pipeline_resume` | two models; `setB` changes the schema of one of `setA`, `setC` only a model's version, `setD` lacks one; 4 executions, 2 updates of the set, one run id | the execution that meets a change recalculates; what is delivered was predicted from features of its set, but for a model whose extraction failed or a run that died between the two saves of preprocessing; a run is refused only after a late resumption |
| `inbox_cycle` | two requests at once and three ever, 1 death, 2 dataset versions, five payloads over two batches, one of them sent in either order and one listing a result twice, two events and three results whose id order is the opposite of their result order | requests in the generator's order never wait in a circle, one content is promoted per batch, no unique index is hit but across versions or by an event listed twice, `BatchDelivery` is implemented |

Why the bounds are enough to meet the interesting cases: two versions of one
action and a second stream are the least in which order and independence can
break; two workers are the least in which a lease can be taken over; two
attempts are the least with a retry that is not the last; one crash falls at
every step, and a second one only adds counters. A failed write and the two
appends after it (joined with it, refused) take three versions; two failed writes
allow a bare line and a cut off one. A job that waits and two snapshots that would
pass it take three rows. In `queue_fair` new job ids are taken in one order (the
action constraint `IdsInOrder`): ids are random, nothing compares them, and only
requests take them, which no fairness speaks of. Five records in three windows
allow a batch inside a window, one that ends at its boundary, one that crosses
it and one that covers a whole window between two others. Four executions are
the least in which a run dies between the two saves of preprocessing, extracts
its features and stops, is adapted to another set and stops, and is resumed; a
second run id adds nothing: a new run starts only when none can be resumed, and
runs share no file. `PipelineRunProofs` has any number of both. In
`prediction_backlog` the backend only promotes (`Receipts`), which does not change
what is next; in `prediction_faults` it also accepts and refuses. Two batches that share two events, which are locked in the
opposite order of their results, are the least in which two requests could hold
what the other wants. Longer chains (retries of retries, more requests, more
cases) are covered by the theorems of section 6, which do not depend on the
bounds. In `maintenance_race` one operator is enough because a second person
changes only who may begin and record; `MaintenanceLoopProofs` has any number,
and both engines.

Deadlock is checked in `maintenance_race`, where a thread can always accept a
request. Elsewhere it is not: each system may rest when there is nothing to do,
and bounded counters stop it.

### Fairness
* `RuntimeQueue`: the worker thread keeps polling (`WorkerStep`), a process told
  to stop ends, and its supervisor starts it. Handlers and crashes may happen or
  not.
* `ProjectOutbox`: each worker keeps polling and its handler returns, leases and
  delays run out. Operators, crashes and the handler's verdict are not fair; what
  waits for an operator is excluded from the promise by name.
* `Extraction`: the polling loop runs every interval and a cycle that started goes
  on. Requests, restarts and failures are not fair, nor does gen_data have to
  write.
* `PredictionDelivery`: the delivery thread polls and the clock goes on. Nothing
  is assumed of the pipeline thread or of the backend's answers.
* `ExtractionHandoff`: the event loop polls and delivers its list, a supervisor
  starts the process, and a call that has begun goes on. Retries by an operator,
  failures and crashes are not fair.
* `PipelineRun`, `MaintenanceLoop` and `DiagnosisInbox` state safety only and
  assume no fairness.

All are weak fairness of threads that loop with a sleep, which is what the code
does.

## 5. Findings

1. **A lease that runs out during the last attempt is never recovered**
   (`outbox.py:211-223`, `102`). The row becomes `retry` with its attempts used
   up: nobody claims it, it is no dead letter, so it cannot be replayed, and it
   holds back its machine's stream.
2. **Records are lost where a batch crosses a window boundary**
   (`window_publish_service.py:136-143`). The publish service names the window
   it has just published as the only one a fragment refers to, so the fragment
   counts as fully consumed and is deleted; the records of the window that is
   still open are never published. No fault is needed. What survives is
   `FirstWindowKept`.

### Observations
Behaviour of the code that the models contain and that a reader of it should
know. No run of its own shows these; the properties are stated so that they hold
beside them, and say where.

Runtime queue
* A failed job can be retried twice (`pipeline_queue.py:452`): the retry archives
  the row's keys and leaves its status `failed`, a second retry is accepted under
  the archived keys, and two jobs for one source are queued, contrary to
  `docs/operations/generator-architecture-and-file-pipeline-target.md:285`.

Maintenance delivery
* An append whose error leaves everything but the newline in the file
  (`maintenance_replay_jsonl.py:94-97`): `_index` accepts an unterminated last line, so
  the retry finds the event known and it is processed; the next append continues
  the line, both events are lost to gen_data, and every later delivery is refused
  with an unreadable file. One dispatcher and one failed write suffice.
  `ProcessedReached` bounds what is lost this way.

Extraction
* After a crash between the fragment and the staged checkpoint, a stream that has
  grown yields a batch that overlaps the orphan fragment, and the source is
  blocked for good; so it is when only some fragments of a window have their
  consumption recorded. `NeverBlockedInOrdinaryOperation` excludes crashes and
  failed writes.

Extraction handoff
* `save_handoff` removes the record under its old status before the new file is
  in place (`extraction_handoff_repository.py:157`); a crash in between loses it.
* A record left in `enqueueing` by a crash is never polled
  (`extraction_runtime_handoff_service.py:380`): only the retry endpoint moves it.
* The retry endpoint accepts `retry_exhausted` records, but `process_handoff`
  returns at once on them (lines 352-353).
* A transient SQLite error of the lookup blocks the handoff for good; a source
  that another thread has just enqueued marks a delivered handoff as blocked; a
  failed save of "enqueued" counts as a failed attempt; `next_retry_at` is stored
  and not consulted.

Pipeline run
* The update of a run state is not atomic (`pipeline_repository.py:140-198`,
  whose docstring says it is): the delivery thread's read-change-save interleaves
  with the pipeline's saves, so a finished run is put back to `running`, or a
  recorded delivery back to pending.
* A run resumed at prediction or later leaves its feature stage `running` in its
  file (`pipeline_service.py:970`). If it stops again, `start_stage` (line 874,
  outside the handler) refuses every further resumption, and the source can never
  be processed. `RefusedOnlyAfterLateResume` says that this is the only way there.
* After a change of the model set, an execution that stops before its batches
  saves a checkpoint that names the new set and has the batches of the old one,
  merged from the copy in the run state (`pipeline_state.py:216`); the next
  execution delivers them. The docstring of
  `test_snapshot_pinning_and_model_set_change_invalidates_checkpoint`
  (`tests/test_generator_runtime_pipeline.py:2975`) says that predictions are
  recalculated; the test resumes once, to the end. `ChangeRecalculated` allows
  exactly this way.
* A model whose extraction fails under a new schema keeps its features of the old
  one in the checkpoint (`pipeline_state.py:206`), under a snapshot that names the
  new schema, and they are reused. `FeaturesFit` excepts that model.
* A run that dies between the two saves of preprocessing (`pipeline_service.py:825-827`)
  has a checkpoint with that stage and a run state whose copy lacks it. The next
  records start from the copy (`pipeline_state.py:196`), so once features are
  extracted the checkpoint has them without preprocessing. If the schema then
  changes, preprocessing is repeated, and its record puts the copy's features of
  the old schema under the new snapshot; an execution that resumes from there
  reuses them. The docstring at `tests/test_generator_runtime_pipeline.py:2082`
  says that features are extracted again when the schema differs. `FeaturesFit`
  excepts runs that died there (`split`). It takes four executions; the proof of
  `FeaturesFit` met it first, as a step that does not preserve the invariant.
* A change of the set's members strands an interrupted run: each execution is
  refused before its run is touched, and no new run is started.
* A lock file left by a crash refuses every later update of the model set
  (`active_model_set_service.py:176`).

Maintenance closed loop
* The identical retry of a command that succeeded is refused as an invalid
  transition before the key is looked up (`service.py:499`, `1170`), contrary to
  `docs/closed-loop-domain-contract.md:80`; the approval avoids it deliberately
  (lines 1284-1287).
* On PostgreSQL `BEGIN IMMEDIATE` is dropped (`postgresql_compat.py:199-202`) and
  transactions run at READ COMMITTED: a duplicate that races its first attempt
  gets a unique violation and not the documented `action_in_progress`.

Diagnosis inbox
* One result sent in two accepted batches is promoted twice, contrary to
  `docs/plans/2026-08-26-001-runtime-simulation-closed-loop-plan.md:269`.
* A result first stored as conflicting or rejected counts as a duplicate in a
  later batch, which is accepted, and is promoted with it.
* A batch that was rejected or conflicting and is sent again unchanged is
  answered "duplicate" with 200 and never promoted. If the first answer was lost,
  the generator records as sent a batch that the Backend refused; this is why
  `BatchDelivery` lets a refused batch be delivered.
* A newer dataset version between the promotion and a repeated request makes that
  request violate the primary key of `prediction_results`: it fails until the
  generator's attempts run out.
* A submitted batch that lists one event twice passes the schema, model and
  classification checks and violates the index of accepted events whenever it is
  sent. The generator refuses such a batch (`prediction_batch_service.py:421`), the
  Backend does not look. `OnlyExplainedClashes` says that these two are all.
* Reception and promotion lock the rows of results in the order the payload lists
  them, and no check fixes that order for submitted batches. A promotion of
  `<<i1, i2>>` that has marked `i1` and a reception of `<<i2, i1>>` that has read
  `i2` wait for each other until PostgreSQL aborts one, which is answered with 500.
  `NoCircularWait` is therefore about requests in the generator's order.

## 6. Theorems

TLAPS proves for every value of the constants that satisfies the named
assumptions:

| Module | Theorems | Inductive invariant |
|---|---|---|
| `RuntimeQueueProofs` | `TypeCorrect`, `SingleConsumer`, `IdentityUnique`, `AttemptsBounded`, `RetryTraceable`, `SettledForGood`, `Overtaking` | `TypeOK`, what the worker holds, attempts counted from 1, while a job is held that is later than a waiting one no snapshot of its event has succeeded, absent rows carry nothing, a row whose keys `j` archived has fewer prefixes than `j`, the attempt in memory is the one in the table, and the properties themselves |
| `MaintenanceDeliveryProofs` | of `ProjectOutbox`: `TypeCorrect`, `LeaseExclusive`, `VersionOrder`, `DeliveryLogged`, `HolderSettles`, `OrderedDeliveryImplemented`, `NoStreamOverlooked` | `TypeOK`, leases, what a worker carries, and: an event that was ever claimed has its earlier versions delivered |
| | of `MaintenanceDelivery`: `NothingProcessedIsLost`, `GenDataSeesOrder`, `RedeliveryAddsNoLine` | what is processed or about to be is in the inbox or spoilt; spoilt events, a line without newline and the dispatchers about to write are at most one more than the dispatchers; the inbox is ordered (`GenDataSeesOrder` alone is under `Untorn`: HTTP only, no disk errors, or one dispatcher); the lines of an event and the dispatchers about to write it are no more than there are dispatchers |
| `ExtractionProofs` | `TypeCorrect`, `BatchesAlwaysTile`, `StagedIsRecoverable`, `FirstWindowNeverLost`, `WatermarkIsSound`, `PublishedNeverChanges`, `OrdinaryNeverBlocks` | see below |
| `ExtractionHandoffProofs` | `TypeCorrect`, `EnqueuedHasRow`, `RecordSurvives`, `HandoffAttended` | `TypeOK`, a thread about to write "enqueued" has seen the row or made it, no calls without a process, and the three properties themselves |
| `MaintenanceLoopProofs` | `TypeCorrect`, `RowsAgree`, `NoMaintenanceLost`, `AnswersStay`, `LifecycleImplemented` | see below |
| `DiagnosisInboxProofs` | `TypeCorrect`, `NeverDeadlocked`, `OneContentPromoted`, `ClashesExplained`, `DeliveredIsPromoted`, `DeliveryImplemented` | see below |
| `PredictionDeliveryProofs` | `TypeCorrect`, `SentClosed`, `RunStateBehind`, `CompletedIsRegistered`, `BoundedPosts`, `SettledStays`, `MaintenanceGoesFirst`, `DeliveryImplemented` | types of both threads, the item in the worker's hand agrees with its file, run states and copies of them never ahead of the outbox, what is still to register; for the last one see below |
| `PipelineRunProofs` | `TypeCorrect`, `RegisteredFeaturesFit`, `ChangedSetIsRecalculated`, `OnlyLateResumeIsRefused` | see below |

Each is proved the same way: `Init => IInv`, one lemma per action for
`IInv /\ [Next]_vars => IInv'`, and the property from `IInv`.

The strengthening is needed because the properties speak of the disk and are
kept by what a thread has in memory. For `Extraction`, `BatchesTile` needs the
checkpoint's own protocol (`CheckpointInv`: what is staged is on disk and starts
at the committed offset). `FirstWindowKept` needs `KeptInv` (a batch that has a
consumption record has its first window published) and `PublishInv`: windows are
published in ascending order and closed windows are closed downwards, so when a
batch gets its first record, the window it starts in has been published.
`PublishedWhenClosed` needs `WatermarkInv`: an orphan fragment that reaches
beyond the committed offset overlaps the batch just committed, so assembly
refuses them; hence whatever is assembled lies within the committed offset.
`OrdinaryNeverBlocks` needs `OrdinaryInv`, which holds while no crash, failed
write or flush has happened: every fragment is a committed batch (so nothing
overlaps), and a fragment that holds a published window has its consumption
recorded in full, so assembly never finds it again and no window is published
twice with other records.

`MaintenanceGoesFirst` speaks of the moment before a POST, but the worker works
through a list it made earlier. `ListInv` says that a maintenance event with a
pending result and no delivered one is attended to: its signal is up, so the next
check rebuilds the list, or a promoted result of it is still in the list or in
the worker's hand. The signal of an outcome other than a delivery is raised
before the item leaves the hand (`OutcomeInv`).

For `PipelineRun` the invariant says of each file, and of the copy in memory at
each of the two saves, that its features fit its model set (`FilesInv`,
`CopyInv`). The copy that the run state embeds may be of an older set, and what
keeps its features from coming back is that they are only merged by
preprocessing: a copy with features has a checkpoint that is preprocessed and is
so itself, unless the run is in `split`. This is the part that failed without
`split`. `ResumeInv` and `ComputedInv` follow the checkpoint that is resumed from
and the results to the registration, `ExtractingInv` the feature stage left
running.

`NoStreamOverlooked` needs that a pending row is due and has no attempt behind it
(`FreshInv`): among the undelivered
events of a stream one has the least version (`HeadExists`), and if neither a
lease, a delay, used-up attempts nor an operator holds it, it is eligible, so one
row comes first (`LeastEvent`).

The two theorems `DeliveryImplemented` meet in `BatchDelivery`. In
`PredictionDelivery` the worker saves "sent" only after an answer "ok", and a
closed receipt stays closed until the file is saved, over restarts too. In
`DiagnosisInbox` rows and results are never taken back (`TablesGrow`), so a receipt
only advances; `AnswerOK` says that a reply of acceptance finds the batch promoted
or refused, and `RefusalInv` that a reply of refusal tells the verdict that was
stored.

`GenDataSeesOrder` and `VersionOrder` compose: the order the outbox guarantees
its handlers is the order in which gen_data first meets the events. The lemma
`DispatcherIsOutbox` carries the outbox's invariant over to the dispatcher, whose
steps are the outbox's own or stutters of it.

For `MaintenanceLoop` the invariant is `TypeOK`, `RecordsInv` (the rows of a case
agree, and with the machine's), `AnswersHold`, and `ThreadOK(t)` for every thread:
which rows its transaction has locked, and that what it has read of a locked row
is still so. An update waits, evaluates its condition on the row as it is then,
and locks it; from there to the commit nobody changes it, so at the commit the
guard of the abstract command holds: this is the step of `LifecycleImplemented`,
the refinement to `MaintenanceLifecycle`, and every other step stutters.

For `DiagnosisInbox` it is `TypeOK`, `TablesOK` (what the stored rows have to do
with each other), `DeliveredMeansPromoted`, and for every request what its phase
implies of its batch, of what it has classified, of what it has promoted and of
the locks it holds (`HoldsOK`). `NeverDeadlocked` gives every lock a level that
falls along the order in which requests take them (`IsLevel`): the batch, the
events by id, the rows of batches, the results in the generator's order. A request
that goes through its results in this order waits only for locks below those it
holds (`LocksInOrder`). In a circle each lock waited for
would be held by a request that waits for a lower one, but the levels of the
locks waited for are naturals and have a least one.

Assumptions are those named in the modules: finite sets of jobs, events
and dispatchers, bounds that are naturals, streams whose windows do not go back (gen_data appends in time
order), legacy rows with distinct keys and sequence numbers, and for the inbox that
the listings of a payload have the same results.

### Only model-checked
Liveness (`EveryJobSettles`, `EventuallyDelivered`, `ClosedWindowsPublished`,
`EverySettles`, `EveryHandoffDecided`) is beyond the prover, as is the liveness of
the refined modules. Every other property of a passing run is proved.

### Only proved
`ProcessedReached` and `CopiesBounded` of several dispatchers whose disks fail are in
no run, but `NothingProcessedIsLost` and `RedeliveryAddsNoLine` have them.
Type correctness of each module with proofs, `SingleConsumer`, `RetryTraceable`,
`LeaseExclusive`, `DeliveryLogged`, `HolderSettles`, `StagedIsRecoverable`,
`SentWasClosed`, `SettledIsFinal` and `DeliveredMeansPromoted` hold for every value
of the constants and are in no run (the last two follow from `BatchDelivery`, which
the runs check).

## 7. Not modelled

`PROJECT.json` gives the reason for each component. What is left of the backend
and of the generator's offline part is queries, formatting, one-row writes in one
transaction, and numerical code; it has no state machine of its own.

Within the modelled components: the two commits of a claim that meets an
unreadable row; `stop` followed by `start` in one process while the old worker
thread still runs; a line torn by a power loss inside a write; actions of one machine
overtaking each other in its stream (the head is the least state version, so
version 1 of a new action goes before version 2 of an older one); cost analyses,
value realization and recommendations materialised from Product Results in the
closed loop; the validation and the lock file of a model-set update.

Liveness is not stated for the closed loop (nothing there runs by itself), for
the inbox (the generator's retries are bounded, `PredictionDelivery` has them) and
for a pipeline run (its observations say why it need not end).

## 8. Plan

1. The superseding step of the graph projection worker on top of `ProjectOutbox`.
2. What is behind liveness and safe to prove: that each pass of a worker lowers a
   bound.

Instances stay small: one source or two events, two workers, one crash and one
failed write; a question that an instance already answers is added to that run.
