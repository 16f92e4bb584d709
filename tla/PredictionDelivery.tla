-------------------------- MODULE PredictionDelivery --------------------------
(***************************************************************************)
(* The last stage of the generator's runtime pipeline.  The pipeline       *)
(* thread (PipelineService.execute_queue_item) turns each source file into *)
(* prediction batches, registers one outbox record per batch and saves the *)
(* state of the run; the delivery thread (PredictionDeliveryWorker) posts  *)
(* the records to the backend and writes what became of them both to the   *)
(* outbox and, by reading, changing and saving it, to the same run state.  *)
(* The two threads share the outbox directory, the run state files and the *)
(* in-process set of maintenance events that have something new to send.   *)
(***************************************************************************)
EXTENDS Naturals, Sequences, FiniteSets

CONSTANTS
  Source,         \* source files, one queue item each
  Event,          \* prediction batches, by their deterministic event_id
  Batches,        \* Batches[s]: the events of source s, in delivery order
  Key,            \* maintenance events that a replay answers
  KeyOf,          \* KeyOf[e]: the maintenance event of e, or NoKey
  NoKey,
  NoSource,
  NoEvent,
  Receipts,       \* bound: the receipts the backend may come to give
  MaxAttempts,    \* max_attempts of an outbox item (5 in the code)
  MaxRuns,        \* bound: pipeline runs ever created
  MaxRestarts,    \* bound: generator restarts
  MaxDiskErrors   \* bound: saves that raise

ASSUME EventAssumption ==
  /\ NoKey \notin Key
  /\ NoSource \notin Source
  /\ NoEvent \notin Event
  /\ IsFiniteSet(Event)
  /\ KeyOf \in [Event -> Key \cup {NoKey}]
  /\ Batches \in [Source -> Seq(Event)]
  /\ \A s \in Source : Batches[s] # <<>>
  /\ Receipts \subseteq {"accepted", "promoted", "refused"}

ASSUME BoundAssumption ==
  /\ MaxAttempts \in Nat \ {0}
  /\ MaxRuns \in Nat \ {0}
  /\ MaxRestarts \in Nat
  /\ MaxDiskErrors \in Nat

VARIABLES
  outbox,      \* outbox[e]: the file <event_id>.json
  due,         \* items in retry_wait whose next_retry_at has passed
  signals,     \* _pending_maintenance_event_ids
  runs,        \* runs[r]: the file pipeline_runs/<run_id>.json
  checkpoint,  \* checkpoint[r]: the file pipeline_checkpoints/<run_id>.json
  done,        \* sources whose queue item is marked succeeded
  pipeline,    \* the pipeline thread
  worker,      \* the delivery thread
  receipt,     \* receipt[e]: how far the backend is with e
  posts,       \* posts[e]: POSTs made of e
  restarts,
  diskErrors

outboxVars   == <<outbox, due, signals>>
pipelineVars == <<checkpoint, done, pipeline>>
receiverVars == <<receipt, posts>>
vars == <<outboxVars, runs, pipelineVars, worker, receiverVars, restarts, diskErrors>>

Run == 1 .. MaxRuns

ItemStatus  == {"pending", "sending", "sent", "retry_wait", "failed"}
EventStatus == ItemStatus \cup {"absent"}

Item ==
  [status: EventStatus, attempt: Nat, run: Run \cup {0}, created: Nat]

RunState ==
  [status: {"absent", "running", "failed", "succeeded"},
   ids: SUBSET Event,
   events: [Event -> EventStatus],
   overall: {"none", "pending", "sent", "failed"}]

Checkpoint ==
  [source: Source \cup {NoSource},
   status: {"none", "resumable", "completed"}]

PipelineThread ==
  [pc: {"idle", "built", "register", "cleanup", "finish", "mark"},
   source: Source \cup {NoSource},
   run: Run \cup {0},
   state: RunState,               \* manager.state
   todo: Seq(Event)]              \* batches not registered yet

WorkerThread ==
  [pc: {"idle", "list", "next", "read", "write", "post", "settle", "check", "recover"},
   batch: SUBSET Event,           \* the rest of the list being processed
   promoted: SUBSET Event,
   delivered: SUBSET Key,         \* delivered_maintenance_events
   event: Event \cup {NoEvent},   \* the item in hand, with the status and
   status: EventStatus \cup {"recovered"},  \* attempt it has in memory
   attempt: Nat,
   copy: RunState]                \* the state update_prediction_event has read

NoItem == [status |-> "absent", attempt |-> 0, run |-> 0, created |-> 0]

FreshRunState ==
  [status |-> "running", ids |-> {}, events |-> [e \in Event |-> "absent"],
   overall |-> "none"]

NoRunState == [FreshRunState EXCEPT !.status = "absent"]

IdlePipeline ==
  [pc |-> "idle", source |-> NoSource, run |-> 0, state |-> NoRunState, todo |-> <<>>]

IdleWorker ==
  [pc |-> "idle", batch |-> {}, promoted |-> {}, delivered |-> {},
   event |-> NoEvent, status |-> "absent", attempt |-> 0, copy |-> NoRunState]

Registered == {e \in Event : outbox[e].status # "absent"}
Settled(e) == outbox[e].status \in {"sent", "failed"}

(* What the outbox says of a batch, and what the two ends of its delivery    *)
(* keep to: DiagnosisInbox shows that the backend does.                      *)
Told ==
  [e \in Event |->
     CASE outbox[e].status = "sent"   -> "delivered"
       [] outbox[e].status = "failed" -> "abandoned"
       [] OTHER                       -> "open"]

Delivery == INSTANCE BatchDelivery WITH Payload <- Event, told <- Told

Init ==
  /\ outbox = [e \in Event |-> NoItem]
  /\ due = {}
  /\ signals = {}
  /\ runs = [r \in Run |-> NoRunState]
  /\ checkpoint = [r \in Run |-> [source |-> NoSource, status |-> "none"]]
  /\ done = {}
  /\ pipeline = IdlePipeline
  /\ worker = IdleWorker
  /\ receipt = [e \in Event |-> "none"]
  /\ posts = [e \in Event |-> 0]
  /\ restarts = 0
  /\ diskErrors = 0

-----------------------------------------------------------------------------
(* The pipeline thread.                                                    *)

Elements(s) == {s[i] : i \in 1 .. Len(s)}

(* save_outbox_item raises the in-process signal of a maintenance event    *)
(* for the three statuses that leave something to send or to reorder.      *)
Signalled(e, status) ==
  IF status \in {"pending", "retry_wait", "failed"} /\ KeyOf[e] # NoKey
  THEN signals \cup {KeyOf[e]}
  ELSE signals

(* find_resumable_run: a run of the same source identity that is not       *)
(* finished and whose checkpoint is resumable.                             *)
Resumable(s, r) ==
  /\ runs[r].status \in {"running", "failed"}
  /\ checkpoint[r] = [source |-> s, status |-> "resumable"]

(* execute_queue_item without a resumable run: a fresh run, whose          *)
(* checkpoint and state are saved before any stage.                        *)
StartRun(s, r) ==
  /\ pipeline.pc = "idle"
  /\ s \notin done
  /\ \A q \in Run : ~ Resumable(s, q)
  /\ checkpoint[r].status = "none"
  /\ \A q \in Run : q < r => checkpoint[q].status # "none"
  /\ checkpoint' = [checkpoint EXCEPT ![r] = [source |-> s, status |-> "resumable"]]
  /\ runs' = [runs EXCEPT ![r] = FreshRunState]
  /\ pipeline' = [pc |-> "built", source |-> s, run |-> r,
                  state |-> FreshRunState, todo |-> <<>>]
  /\ UNCHANGED <<outboxVars, done, worker, receiverVars, restarts, diskErrors>>

(* execute_queue_item with one: the state of the run is read from disk and *)
(* kept in memory from here on.                                            *)
ResumeRun(s, r) ==
  /\ pipeline.pc = "idle"
  /\ s \notin done
  /\ Resumable(s, r)
  /\ pipeline' = [pc |-> "built", source |-> s, run |-> r,
                  state |-> [runs[r] EXCEPT !.status = "running"], todo |-> <<>>]
  /\ UNCHANGED <<outboxVars, runs, checkpoint, done, worker, receiverVars,
                 restarts, diskErrors>>

(* The batches are built: the state of the run is saved and the delivery   *)
(* stage starts.                                                           *)
SaveBuilt ==
  /\ pipeline.pc = "built"
  /\ runs' = [runs EXCEPT ![pipeline.run] = pipeline.state]
  /\ pipeline' = [pipeline EXCEPT !.pc = "register",
                                  !.state.overall = "pending",
                                  !.todo = Batches[pipeline.source]]
  /\ UNCHANGED <<outboxVars, checkpoint, done, worker, receiverVars, restarts, diskErrors>>

(* Some stage up to batch building raised: the run is saved as failed.     *)
StageFails ==
  /\ pipeline.pc = "built"
  /\ runs' = [runs EXCEPT ![pipeline.run] = [pipeline.state EXCEPT !.status = "failed"]]
  /\ pipeline' = IdlePipeline
  /\ UNCHANGED <<outboxVars, checkpoint, done, worker, receiverVars, restarts, diskErrors>>

(* The source file changed while the pipeline ran: the delivery stage      *)
(* raises before it registers anything, and saves nothing.                 *)
SourceChanged ==
  /\ pipeline.pc = "register"
  /\ pipeline.todo = Batches[pipeline.source]
  /\ pipeline' = IdlePipeline
  /\ UNCHANGED <<outboxVars, runs, checkpoint, done, worker, receiverVars,
                 restarts, diskErrors>>

(* Mutants of the definitions below.                                       *)
RegisterAnew(e) ==
  /\ pipeline.pc = "register"
  /\ pipeline.todo # <<>>
  /\ e = Head(pipeline.todo)
  /\ outbox' = [outbox EXCEPT ![e] =
                  [status |-> "pending", attempt |-> 0, run |-> pipeline.run,
                   created |-> Cardinality(Registered \cup {e})]]
  /\ signals' = Signalled(e, "pending")
  /\ pipeline' = [pipeline EXCEPT !.todo = Tail(@)]
  /\ UNCHANGED <<due, runs, checkpoint, done, worker, receiverVars, restarts, diskErrors>>

CompleteEarly ==
  LET events == Elements(Batches[pipeline.source]) IN
  /\ pipeline.pc = "register"
  /\ Len(pipeline.todo) <= 1
  /\ checkpoint' = [checkpoint EXCEPT ![pipeline.run].status = "completed"]
  /\ pipeline' =
       [pipeline EXCEPT
          !.pc = "cleanup",
          !.state.ids = events,
          !.state.events = [e \in Event |-> IF e \in events THEN "pending" ELSE "absent"]]
  /\ UNCHANGED <<outboxVars, runs, done, worker, receiverVars, restarts, diskErrors>>

(* register_idempotent_outbox_record for the next batch: an existing       *)
(* record is returned as it is, whatever its status and run.               *)
Register(e) ==
  /\ pipeline.pc = "register"
  /\ pipeline.todo # <<>>
  /\ e = Head(pipeline.todo)
  /\ IF outbox[e].status = "absent"
     THEN /\ outbox' = [outbox EXCEPT ![e] =
                          [status |-> "pending", attempt |-> 0, run |-> pipeline.run,
                           created |-> Cardinality(Registered) + 1]]
          /\ signals' = Signalled(e, "pending")
     ELSE UNCHANGED <<outbox, signals>>
  /\ pipeline' = [pipeline EXCEPT !.todo = Tail(@)]
  /\ UNCHANGED <<due, runs, checkpoint, done, worker, receiverVars, restarts, diskErrors>>

(* Every batch is registered: the checkpoint is saved as completed.  The   *)
(* events of the run are pending in memory, whatever the worker has done.  *)
CompleteCheckpoint ==
  LET events == Elements(Batches[pipeline.source]) IN
  /\ pipeline.pc = "register"
  /\ pipeline.todo = <<>>
  /\ checkpoint' = [checkpoint EXCEPT ![pipeline.run].status = "completed"]
  /\ pipeline' =
       [pipeline EXCEPT
          !.pc = "cleanup",
          !.state.ids = events,
          !.state.events = [e \in Event |-> IF e \in events THEN "pending" ELSE "absent"]]
  /\ UNCHANGED <<outboxVars, runs, done, worker, receiverVars, restarts, diskErrors>>

(* The state is saved before the intermediate files are removed ...        *)
SaveBeforeCleanup ==
  /\ pipeline.pc = "cleanup"
  /\ runs' = [runs EXCEPT ![pipeline.run] = pipeline.state]
  /\ pipeline' = [pipeline EXCEPT !.pc = "finish"]
  /\ UNCHANGED <<outboxVars, checkpoint, done, worker, receiverVars, restarts, diskErrors>>

(* ... and once more, from the same memory, when the run is finished.      *)
FinishRun ==
  LET state == [pipeline.state EXCEPT !.status = "succeeded"] IN
  /\ pipeline.pc = "finish"
  /\ runs' = [runs EXCEPT ![pipeline.run] = state]
  /\ pipeline' = [pipeline EXCEPT !.pc = "mark", !.state = state]
  /\ UNCHANGED <<outboxVars, checkpoint, done, worker, receiverVars, restarts, diskErrors>>

(* The queue marks the item succeeded (RuntimeQueue!MarkSucceeded).        *)
MarkSucceeded ==
  /\ pipeline.pc = "mark"
  /\ done' = done \cup {pipeline.source}
  /\ pipeline' = IdlePipeline
  /\ UNCHANGED <<outboxVars, runs, checkpoint, worker, receiverVars, restarts, diskErrors>>

(* A save of the delivery stage or after it raises out of                  *)
(* execute_queue_item; the item can be executed again.                     *)
PipelineSaveFails ==
  /\ diskErrors < MaxDiskErrors
  /\ pipeline.pc \in {"register", "cleanup", "finish"}
  /\ pipeline' = IdlePipeline
  /\ diskErrors' = diskErrors + 1
  /\ UNCHANGED <<outboxVars, runs, checkpoint, done, worker, receiverVars, restarts>>

-----------------------------------------------------------------------------
(* The delivery thread: process_pending.                                   *)

Ready == {e \in Event : \/ outbox[e].status = "pending"
                        \/ outbox[e].status = "retry_wait" /\ e \in due}

Delivered == {KeyOf[e] : e \in {f \in Event : outbox[f].status = "sent"}} \ {NoKey}

(* The first ready result of each maintenance event not yet delivered.     *)
Promoted ==
  {e \in Ready :
     /\ KeyOf[e] \in Key \ Delivered
     /\ \A f \in Ready : KeyOf[f] = KeyOf[e] => outbox[e].created <= outbox[f].created}

(* promoted + regular, each in the order of creation.                      *)
Goes(e, f) ==
  \/ e \in worker.promoted /\ f \notin worker.promoted
  \/ /\ e \in worker.promoted <=> f \in worker.promoted
     /\ outbox[e].created <= outbox[f].created

(* process_pending forgets the signals first ...                           *)
ConsumeSignals ==
  /\ worker.pc = "idle"
  /\ signals' = {}
  /\ worker' = [worker EXCEPT !.pc = "list"]
  /\ UNCHANGED <<outbox, due, runs, pipelineVars, receiverVars, restarts, diskErrors>>

(* ... and then lists the outbox, so that a record registered in between   *)
(* is in the list, and its signal still up.                                *)
ListItems ==
  /\ worker.pc = "list"
  /\ worker' = [worker EXCEPT !.pc = IF Ready = {} THEN "idle" ELSE "next",
                              !.batch = Ready,
                              !.promoted = Promoted,
                              !.delivered = Delivered]
  /\ UNCHANGED <<outboxVars, runs, pipelineVars, receiverVars, restarts, diskErrors>>

(* process_item, first save: the item is being sent.                       *)
MarkSending(e) ==
  /\ worker.pc = "next"
  /\ e \in worker.batch
  /\ \A f \in worker.batch : Goes(e, f)
  /\ outbox' = [outbox EXCEPT ![e].status = "sending"]
  /\ due' = due \ {e}
  /\ worker' = [worker EXCEPT !.pc = "read", !.event = e, !.status = "sending",
                              !.attempt = outbox[e].attempt,
                              !.batch = @ \ {e}]
  /\ UNCHANGED <<signals, runs, pipelineVars, receiverVars, restarts, diskErrors>>

(* update_prediction_event, first half: the state of the run is read.      *)
ReadRunState ==
  /\ worker.pc = "read"
  /\ worker' = [worker EXCEPT !.pc = "write", !.copy = runs[outbox[worker.event].run]]
  /\ UNCHANGED <<outboxVars, runs, pipelineVars, receiverVars, restarts, diskErrors>>

(* The aggregate status of a run over the events it knows of.              *)
Overall(ids, events) ==
  LET known == {e \in Event : events[e] # "absent"} IN
  IF Cardinality(known) < Cardinality(ids) THEN "pending"
  ELSE IF \E e \in known : events[e] = "failed" THEN "failed"
  ELSE IF \A e \in known : events[e] = "sent" THEN "sent"
  ELSE "pending"

(* What comes after the run state is written: the POST, the next item, or  *)
(* the rest of the startup recovery.                                       *)
AfterSync == CASE worker.status = "sending"   -> "post"
               [] worker.status = "recovered" -> "recover"
               [] OTHER                       -> "check"

(* update_prediction_event, second half: the copy, changed, replaces the   *)
(* file, whatever was saved since it was read.                             *)
WriteRunState ==
  LET status == IF worker.status = "recovered" THEN "retry_wait" ELSE worker.status
      events == [worker.copy.events EXCEPT ![worker.event] = status] IN
  /\ worker.pc = "write"
  /\ runs' = [runs EXCEPT ![outbox[worker.event].run] =
                [worker.copy EXCEPT !.events = events,
                                    !.overall = Overall(worker.copy.ids, events)]]
  /\ worker' = [worker EXCEPT !.pc = AfterSync, !.copy = NoRunState]
  /\ UNCHANGED <<outboxVars, pipelineVars, receiverVars, restarts, diskErrors>>

(* The save raises; the worker logs a warning and goes on.                 *)
WriteRunStateFails ==
  /\ worker.pc = "write"
  /\ diskErrors < MaxDiskErrors
  /\ worker' = [worker EXCEPT !.pc = AfterSync, !.copy = NoRunState]
  /\ diskErrors' = diskErrors + 1
  /\ UNCHANGED <<outboxVars, runs, pipelineVars, receiverVars, restarts>>

(* Mutants of the definitions below.                                       *)
OneMoreAttempt(attempt, retryable) ==
  [status  |-> IF retryable /\ attempt < MaxAttempts THEN "retry_wait" ELSE "failed",
   attempt |-> attempt + 1]

SyncBeforeSave(becomes, answer) ==
  LET after == IF answer = "ok"
               THEN [status |-> "sent", attempt |-> worker.attempt + 1]
               ELSE [status |-> "failed", attempt |-> worker.attempt + 1] IN
  /\ worker.pc = "post"
  /\ becomes \in Delivery!Becomes(receipt[worker.event])
  /\ answer = "ok" => becomes \in Delivery!Closed
  /\ posts' = [posts EXCEPT ![worker.event] = @ + 1]
  /\ receipt' = [receipt EXCEPT ![worker.event] = becomes]
  /\ worker' = [worker EXCEPT !.pc = "read", !.status = after.status,
                              !.attempt = after.attempt]
  /\ UNCHANGED <<outboxVars, runs, pipelineVars, restarts, diskErrors>>

(* process_item after an error that is, or is not, retryable.              *)
AfterError(attempt, retryable) ==
  [status  |-> IF retryable /\ attempt + 1 < MaxAttempts THEN "retry_wait" ELSE "failed",
   attempt |-> attempt + 1]

(* send_once.  The backend is done with the batch and answers 200 or 202;  *)
(* the answer is lost, comes too late or is 5xx; or it is 4xx, which is    *)
(* final.  Meanwhile the batch has become what the backend made of it, by  *)
(* this request, an earlier one that outlived its answer, or an operator.  *)
Post(becomes, answer) ==
  LET e == worker.event
      after == IF answer = "ok"
               THEN [status |-> "sent", attempt |-> worker.attempt + 1]
               ELSE AfterError(worker.attempt, answer = "retryable") IN
  /\ worker.pc = "post"
  /\ becomes \in Delivery!Becomes(receipt[e])
  /\ answer = "ok" => becomes \in Delivery!Closed
  /\ posts' = [posts EXCEPT ![e] = @ + 1]
  /\ receipt' = [receipt EXCEPT ![e] = becomes]
  /\ worker' = [worker EXCEPT !.pc = "settle", !.status = after.status,
                              !.attempt = after.attempt]
  /\ UNCHANGED <<outboxVars, runs, pipelineVars, restarts, diskErrors>>

(* The outcome is saved.                                                   *)
SettleItem ==
  LET e == worker.event IN
  /\ worker.pc = "settle"
  /\ outbox' = [outbox EXCEPT ![e].status = worker.status,
                              ![e].attempt = worker.attempt]
  /\ signals' = Signalled(e, worker.status)
  /\ worker' = [worker EXCEPT !.pc = "read"]
  /\ UNCHANGED <<due, runs, pipelineVars, receiverVars, restarts, diskErrors>>

(* Saving "sent" raises inside the try block: the handler takes it for a   *)
(* failed POST that is not retryable, counts a second attempt and saves    *)
(* the item as failed.                                                     *)
SaveSentFails ==
  LET after == AfterError(worker.attempt, FALSE) IN
  /\ worker.pc = "settle"
  /\ worker.status = "sent"
  /\ diskErrors < MaxDiskErrors
  /\ worker' = [worker EXCEPT !.status = after.status, !.attempt = after.attempt]
  /\ diskErrors' = diskErrors + 1
  /\ UNCHANGED <<outboxVars, runs, pipelineVars, receiverVars, restarts>>

(* Any other save of the worker raises out of process_pending; the loop    *)
(* logs it and starts over.  An item already marked stays "sending".       *)
WorkerSaveFails ==
  /\ \/ worker.pc = "next" /\ worker.batch # {}
     \/ worker.pc = "settle" /\ worker.status # "sent"
  /\ diskErrors < MaxDiskErrors
  /\ worker' = IdleWorker
  /\ diskErrors' = diskErrors + 1
  /\ UNCHANGED <<outboxVars, runs, pipelineVars, receiverVars, restarts>>

(* Mutant of the definition below.                                         *)
ForgetSignals ==
  /\ worker.pc = "check"
  /\ signals' = {}
  /\ worker' = IF worker.batch = {}
               THEN IdleWorker
               ELSE [worker EXCEPT !.pc = "next", !.event = NoEvent,
                                   !.status = "absent", !.attempt = 0]
  /\ UNCHANGED <<outbox, due, runs, pipelineVars, receiverVars, restarts, diskErrors>>

(* After each item: the signals are consumed, and if a maintenance event   *)
(* not delivered yet has something new, the rest of the list is dropped.   *)
CheckSignals ==
  LET key == KeyOf[worker.event]
      delivered == IF worker.status = "sent" /\ key # NoKey
                   THEN worker.delivered \cup {key} ELSE worker.delivered IN
  /\ worker.pc = "check"
  /\ signals' = {}
  /\ worker' = IF signals \ delivered # {} \/ worker.batch = {}
               THEN IdleWorker
               ELSE [worker EXCEPT !.pc = "next", !.delivered = delivered,
                                   !.event = NoEvent, !.status = "absent", !.attempt = 0]
  /\ UNCHANGED <<outbox, due, runs, pipelineVars, receiverVars, restarts, diskErrors>>

(* The backoff of 1, 2, 4 or 8 seconds passes.                             *)
BackoffPasses(e) ==
  /\ outbox[e].status = "retry_wait"
  /\ e \notin due
  /\ due' = due \cup {e}
  /\ UNCHANGED <<outbox, signals, runs, pipelineVars, worker, receiverVars,
                 restarts, diskErrors>>

-----------------------------------------------------------------------------
(* Mutant of the definition below.                                         *)
RestartWithoutRecovery ==
  /\ restarts < MaxRestarts
  /\ restarts' = restarts + 1
  /\ signals' = {}
  /\ pipeline' = IdlePipeline
  /\ worker' = IdleWorker
  /\ UNCHANGED <<outbox, due, runs, checkpoint, done, receiverVars, diskErrors>>

(* The generator process stops between any two steps and starts again; the *)
(* delivery worker first recovers what it left in "sending".               *)
Restart ==
  /\ restarts < MaxRestarts
  /\ restarts' = restarts + 1
  /\ signals' = {}
  /\ pipeline' = IdlePipeline
  /\ worker' = [IdleWorker EXCEPT !.pc = "recover",
                                  !.batch = {e \in Event : outbox[e].status = "sending"}]
  /\ UNCHANGED <<outbox, due, runs, checkpoint, done, receiverVars, diskErrors>>

(* recover_interrupted_items, one item: due at once, attempt unchanged.    *)
RecoverItem(e) ==
  /\ worker.pc = "recover"
  /\ e \in worker.batch
  /\ outbox' = [outbox EXCEPT ![e].status = "retry_wait"]
  /\ due' = due \cup {e}
  /\ signals' = Signalled(e, "retry_wait")
  /\ worker' = [worker EXCEPT !.pc = "read", !.event = e, !.status = "recovered",
                              !.batch = @ \ {e}]
  /\ UNCHANGED <<runs, pipelineVars, receiverVars, restarts, diskErrors>>

RecoveryDone ==
  /\ worker.pc = "recover"
  /\ worker.batch = {}
  /\ worker' = IdleWorker
  /\ UNCHANGED <<outboxVars, runs, pipelineVars, receiverVars, restarts, diskErrors>>

-----------------------------------------------------------------------------
PipelineStep ==
  \/ \E s \in Source, r \in Run : StartRun(s, r) \/ ResumeRun(s, r)
  \/ SaveBuilt
  \/ StageFails
  \/ SourceChanged
  \/ \E e \in Event : Register(e)
  \/ CompleteCheckpoint
  \/ SaveBeforeCleanup
  \/ FinishRun
  \/ MarkSucceeded

WorkerStep ==
  \/ ConsumeSignals
  \/ ListItems
  \/ \E e \in Event : MarkSending(e)
  \/ ReadRunState
  \/ WriteRunState
  \/ \E becomes \in {"none"} \cup Receipts, answer \in {"ok", "retryable", "final"} :
       Post(becomes, answer)
  \/ SettleItem
  \/ CheckSignals
  \/ \E e \in Event : RecoverItem(e)
  \/ RecoveryDone

DiskError ==
  \/ PipelineSaveFails
  \/ WriteRunStateFails
  \/ SaveSentFails
  \/ WorkerSaveFails

Next ==
  \/ PipelineStep
  \/ WorkerStep
  \/ DiskError
  \/ \E e \in Event : BackoffPasses(e)
  \/ Restart

(* The delivery thread never stops polling and the clock goes on.  Nothing *)
(* is assumed of the pipeline thread, of the backend's answers or of the   *)
(* absence of restarts.                                                    *)
Fairness ==
  /\ WF_vars(WorkerStep)
  /\ \A e \in Event : WF_vars(BackoffPasses(e))

Spec == Init /\ [][Next]_vars /\ Fairness
-----------------------------------------------------------------------------
(* Properties.                                                             *)

TypeOK ==
  /\ outbox \in [Event -> Item]
  /\ due \subseteq Event
  /\ signals \subseteq Key
  /\ runs \in [Run -> RunState]
  /\ checkpoint \in [Run -> Checkpoint]
  /\ done \subseteq Source
  /\ pipeline \in PipelineThread
  /\ worker \in WorkerThread
  /\ receipt \in [Event -> Delivery!Receipt]
  /\ posts \in [Event -> Nat]
  /\ restarts \in Nat
  /\ diskErrors \in Nat

(* An outbox item that says "sent" is one the backend is done with: no     *)
(* order of errors, restarts and retries writes "sent" for a batch whose   *)
(* predictions are neither promoted nor refused (process_item, send_once). *)
SentWasClosed ==
  \A e \in Event : outbox[e].status = "sent" => receipt[e] \in Delivery!Closed

(* A run state lags behind the outbox but never runs ahead of it: an event *)
(* a saved run state shows as sent is sent in the outbox, although the two *)
(* threads overwrite each other's saves (update_prediction_event).         *)
RunStateNeverAhead ==
  \A r \in Run, e \in Event :
    runs[r].events[e] = "sent" => outbox[e].status = "sent"

(* An event that is sent or has failed is never opened again, by a second  *)
(* execution of its source, a stale list of the worker or a recovery       *)
(* (register_idempotent_outbox_record, recover_interrupted_items).         *)
SettledIsFinal ==
  [][\A e \in Event : Settled(e) => outbox'[e] = outbox[e]]_vars

(* The outbox, its worker and its restarts keep the generator's side of    *)
(* the delivery: a batch is taken for delivered only when the backend is   *)
(* done with it, and what is settled is never opened again.                *)
ImplementsDelivery == Delivery!Spec

(* A batch is posted at most max_attempts times, and once more for each    *)
(* restart that interrupted a POST: an interrupted POST is not counted.    *)
PostsBounded ==
  \A e \in Event : posts[e] <= MaxAttempts + restarts

(* When the worker turns to the live backlog, every maintenance event that *)
(* has a pending result and no delivered one was signalled since the last  *)
(* check, so it preempts the backlog after one more item at the latest     *)
(* (process_pending).                                                      *)
MaintenancePreempts ==
  \A e, f \in Event :
    /\ worker.pc = "next"
    /\ e \in worker.batch
    /\ \A g \in worker.batch : Goes(e, g)
    /\ KeyOf[e] = NoKey
    /\ outbox[f].status = "pending"
    /\ KeyOf[f] \in Key \ Delivered
    => KeyOf[f] \in signals

(* A run whose checkpoint is completed has a record for every batch of its *)
(* source: a run that is never resumed again has left nothing unregistered *)
(* (execute_queue_item, checkpoint 5).                                     *)
NothingUnregistered ==
  \A r \in Run : checkpoint[r].status = "completed" =>
    Elements(Batches[checkpoint[r].source]) \subseteq Registered

(* Every registered batch is eventually sent or given up, whatever the     *)
(* backend answers, wherever the process restarts and however often the    *)
(* source is executed again, as long as saves succeed: a save that raises  *)
(* can leave an item in "sending" until the next start.                    *)
EverySettles ==
  \A e \in Event : outbox[e].status # "absent" ~> Settled(e) \/ diskErrors > 0
=============================================================================
