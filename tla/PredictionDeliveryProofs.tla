----------------------- MODULE PredictionDeliveryProofs -----------------------
(* Proofs about PredictionDelivery, for any sources, batches and bounds. *)
EXTENDS PredictionDelivery, SequenceTheorems, FiniteSetTheorems, WellFoundedInduction, TLAPS

-----------------------------------------------------------------------------
(* The inductive invariant. *)

(* The worker is in startup recovery. *)
Recovering ==
  \/ worker.pc = "recover"
  \/ worker.pc \in {"read", "write"} /\ worker.status = "recovered"

(* The worker has an item in hand. *)
Handling == worker.pc \in {"read", "write", "post", "settle", "check"}

(* What the worker holds agrees with the outbox, which only it changes for *)
(* a registered item.                                                      *)
WorkerInv ==
  /\ Handling => worker.event \in Event /\ worker.event \notin worker.batch
  /\ worker.pc \in {"read", "write"} =>
       /\ worker.status \in {"sending", "sent", "retry_wait", "failed", "recovered"}
       /\ outbox[worker.event].status =
            IF worker.status = "recovered" THEN "retry_wait" ELSE worker.status
  /\ worker.pc \in {"post", "settle"} => outbox[worker.event].status = "sending"
  /\ worker.pc = "post" => worker.status = "sending"
  /\ worker.pc = "settle" =>
       /\ worker.status \in {"sent", "retry_wait", "failed"}
       /\ worker.status = "sent" => receipt[worker.event] \in Delivery!Closed
  /\ Recovering => worker.batch = {e \in Event : outbox[e].status = "sending"}
  /\ (worker.pc = "next" \/ Handling) /\ ~ Recovering =>
       \A e \in worker.batch : outbox[e].status \in {"pending", "retry_wait"}

(* A registered item names the run that registered it; a busy pipeline has *)
(* a run of its own source.                                                *)
RunInv ==
  /\ \A e \in Registered : outbox[e].run \in Run
  /\ pipeline.pc # "idle" =>
       /\ pipeline.run \in Run
       /\ pipeline.source \in Source
       /\ checkpoint[pipeline.run].source = pipeline.source

(* Neither a saved run state nor a copy in memory runs ahead of the outbox. *)
AheadInv ==
  /\ RunStateNeverAhead
  /\ \A e \in Event : pipeline.state.events[e] = "sent" => outbox[e].status = "sent"
  /\ \A e \in Event : worker.copy.events[e] = "sent" => outbox[e].status = "sent"

RegisterInv ==
  /\ pipeline.pc = "register" =>
       Elements(Batches[pipeline.source]) \subseteq Registered \cup Elements(pipeline.todo)
  /\ \A r \in Run : checkpoint[r].status = "completed" => checkpoint[r].source \in Source
  /\ NothingUnregistered

(* An item may have been posted once more than its attempts say: it is in   *)
(* "sending", its POST was made, and no restart has recovered it yet.       *)
Uncounted(e) ==
  /\ outbox[e].status = "sending"
  /\ ~ Recovering
  /\ ~ (worker.event = e /\ worker.pc \in {"read", "write", "post"})

AttemptInv ==
  /\ \A e \in Event : outbox[e].status = "absent" => outbox[e].attempt = 0
  /\ \A e \in Event : Settled(e) => posts[e] <= MaxAttempts + restarts
  /\ \A e \in Event : ~ Settled(e) =>
       /\ outbox[e].attempt < MaxAttempts
       /\ posts[e] <= outbox[e].attempt + restarts + (IF Uncounted(e) THEN 1 ELSE 0)
  /\ worker.pc \in {"read", "write", "post"} /\ worker.status = "sending" =>
       worker.attempt = outbox[worker.event].attempt
  /\ worker.pc = "settle" /\ worker.status = "retry_wait" =>
       worker.attempt = outbox[worker.event].attempt + 1 /\ worker.attempt < MaxAttempts

IInv ==
  /\ TypeOK
  /\ WorkerInv
  /\ RunInv
  /\ SentWasClosed
  /\ AheadInv
  /\ RegisterInv
  /\ AttemptInv

-----------------------------------------------------------------------------
(* Types. *)

LEMMA ConstantTypes ==
  /\ NoItem \in Item
  /\ NoRunState \in RunState
  /\ FreshRunState \in RunState
  /\ IdlePipeline \in PipelineThread
  /\ IdleWorker \in WorkerThread
  <1>1. NoRunState \in RunState /\ FreshRunState \in RunState
    BY DEF NoRunState, FreshRunState, RunState, EventStatus, ItemStatus
  <1>2. NoItem \in Item
    BY DEF NoItem, Item, EventStatus
  <1>3. QED
    BY <1>1, <1>2 DEF IdlePipeline, IdleWorker, PipelineThread, WorkerThread, EventStatus

LEMMA InitialTypes == Init => TypeOK
  BY ConstantTypes DEF Init, TypeOK, Checkpoint, Delivery!Receipt

(* What the pipeline thread does to the state of its run. *)
LEMMA RunStateEdits ==
  ASSUME NEW state \in RunState
  PROVE  /\ \A s \in {"running", "failed", "succeeded"} :
              [state EXCEPT !.status = s] \in RunState
         /\ [state EXCEPT !.overall = "pending"] \in RunState
         /\ \A ids \in SUBSET Event, events \in [Event -> EventStatus] :
              [state EXCEPT !.ids = ids, !.events = events] \in RunState
         /\ \A events \in [Event -> EventStatus],
               overall \in {"none", "pending", "sent", "failed"} :
              [state EXCEPT !.events = events, !.overall = overall] \in RunState
  BY DEF RunState

LEMMA SignalledType ==
  ASSUME TypeOK, NEW e \in Event, NEW status
  PROVE  Signalled(e, status) \subseteq Key
  BY EventAssumption DEF TypeOK, Signalled

LEMMA PipelineTypes ==
  ASSUME TypeOK, RunInv, PipelineStep
  PROVE  TypeOK'
  <1> pipeline.state \in RunState /\ pipeline \in PipelineThread
    BY DEF TypeOK, PipelineThread
  <1>1. ASSUME NEW s \in Source, NEW r \in Run, StartRun(s, r) PROVE TypeOK'
    <2>1. pipeline' \in PipelineThread
      BY <1>1, ConstantTypes DEF StartRun, PipelineThread
    <2>2. checkpoint' \in [Run -> Checkpoint]
      BY <1>1 DEF StartRun, TypeOK, Checkpoint
    <2>3. QED
      BY <1>1, <2>1, <2>2, ConstantTypes DEF TypeOK, StartRun, outboxVars, receiverVars
  <1>2. ASSUME NEW s \in Source, NEW r \in Run, ResumeRun(s, r) PROVE TypeOK'
    <2>1. [runs[r] EXCEPT !.status = "running"] \in RunState
      BY RunStateEdits DEF TypeOK
    <2>2. pipeline' \in PipelineThread
      BY <1>2, <2>1 DEF ResumeRun, PipelineThread
    <2>3. QED
      BY <1>2, <2>2 DEF TypeOK, ResumeRun, outboxVars, receiverVars
  <1>3. CASE SaveBuilt
    <2> DEFINE state == [pipeline.state EXCEPT !.overall = "pending"]
    <2>1. state \in RunState
      BY RunStateEdits
    <2>2. Batches[pipeline.source] \in Seq(Event)
      BY <1>3, EventAssumption DEF SaveBuilt, RunInv
    <2>3. pipeline' = [pipeline EXCEPT !.pc = "register", !.state = state,
                                       !.todo = Batches[pipeline.source]]
      BY <1>3 DEF SaveBuilt, PipelineThread
    <2> HIDE DEF state
    <2>4. pipeline' \in PipelineThread
      BY <2>1, <2>2, <2>3 DEF PipelineThread
    <2>5. QED
      BY <1>3, <2>4 DEF TypeOK, SaveBuilt, outboxVars, receiverVars
  <1>4. CASE StageFails
    <2>1. [pipeline.state EXCEPT !.status = "failed"] \in RunState
      BY RunStateEdits
    <2>2. QED
      BY <1>4, <2>1, ConstantTypes DEF TypeOK, StageFails, outboxVars, receiverVars
  <1>5. CASE SourceChanged
    BY <1>5, ConstantTypes DEF TypeOK, SourceChanged, outboxVars, receiverVars
  <1>6. ASSUME NEW e \in Event, Register(e) PROVE TypeOK'
    <2>1. Tail(pipeline.todo) \in Seq(Event)
      BY <1>6 DEF Register, PipelineThread
    <2>2. pipeline' \in PipelineThread
      BY <1>6, <2>1 DEF Register, PipelineThread
    <2>3. signals' \subseteq Key
      BY <1>6, SignalledType DEF Register, TypeOK
    <2>4. Cardinality(Registered) + 1 \in Nat
      <3>1. Registered \subseteq Event
        BY DEF Registered
      <3>2. QED
        BY <3>1, EventAssumption, FS_Subset, FS_CardinalityType
    <2>5. pipeline.run \in Run
      BY <1>6 DEF Register, RunInv
    <2>6. [status |-> "pending", attempt |-> 0, run |-> pipeline.run,
           created |-> Cardinality(Registered) + 1] \in Item
      BY <2>4, <2>5 DEF Item, EventStatus, ItemStatus
    <2>7. outbox' \in [Event -> Item]
      BY <1>6, <2>6 DEF Register, TypeOK
    <2>8. QED
      BY <1>6, <2>2, <2>3, <2>7 DEF TypeOK, Register, receiverVars
  <1>7. CASE CompleteCheckpoint
    <2> DEFINE events == Elements(Batches[pipeline.source])
    <2> DEFINE pending == [e \in Event |-> IF e \in events THEN "pending" ELSE "absent"]
    <2> DEFINE state == [pipeline.state EXCEPT !.ids = events, !.events = pending]
    <2>1. events \subseteq Event
      BY <1>7, EventAssumption DEF CompleteCheckpoint, RunInv, Elements
    <2>2. pending \in [Event -> EventStatus]
      BY DEF EventStatus, ItemStatus
    <2>3. pipeline' = [pipeline EXCEPT !.pc = "cleanup", !.state = state]
      BY <1>7 DEF CompleteCheckpoint, PipelineThread
    <2>4. checkpoint' \in [Run -> Checkpoint]
      BY <1>7 DEF CompleteCheckpoint, RunInv, TypeOK, Checkpoint
    <2> HIDE DEF events, pending
    <2>5. state \in RunState
      BY <2>1, <2>2, RunStateEdits
    <2> HIDE DEF state
    <2>6. pipeline' \in PipelineThread
      BY <2>3, <2>5 DEF PipelineThread
    <2>7. QED
      BY <1>7, <2>4, <2>6 DEF TypeOK, CompleteCheckpoint, outboxVars, receiverVars
  <1>8. CASE SaveBeforeCleanup
    <2>1. pipeline' \in PipelineThread
      BY <1>8 DEF SaveBeforeCleanup, PipelineThread
    <2>2. QED
      BY <1>8, <2>1 DEF TypeOK, SaveBeforeCleanup, outboxVars, receiverVars
  <1>9. CASE FinishRun
    <2>1. [pipeline.state EXCEPT !.status = "succeeded"] \in RunState
      BY RunStateEdits
    <2>2. pipeline' \in PipelineThread
      BY <1>9, <2>1 DEF FinishRun, PipelineThread
    <2>3. QED
      BY <1>9, <2>1, <2>2 DEF TypeOK, FinishRun, outboxVars, receiverVars
  <1>10. CASE MarkSucceeded
    BY <1>10, ConstantTypes DEF TypeOK, MarkSucceeded, RunInv, outboxVars, receiverVars
  <1>11. QED
    BY <1>1, <1>2, <1>3, <1>4, <1>5, <1>6, <1>7, <1>8, <1>9, <1>10 DEF PipelineStep

(* A POST takes the receipt of its batch further, and a good answer to the end. *)
LEMMA PostedReceipt ==
  ASSUME TypeOK, NEW becomes, NEW answer, Post(becomes, answer), worker.event \in Event
  PROVE  /\ receipt' \in [Event -> Delivery!Receipt]
         /\ \A e \in Event : receipt'[e] \in Delivery!Becomes(receipt[e])
         /\ \A e \in Event : receipt[e] \in Delivery!Closed => receipt'[e] \in Delivery!Closed
         /\ answer = "ok" => receipt'[worker.event] \in Delivery!Closed
  <1>1. /\ receipt \in [Event -> Delivery!Receipt]
        /\ receipt' = [receipt EXCEPT ![worker.event] = becomes]
        /\ becomes \in Delivery!Becomes(receipt[worker.event])
        /\ answer = "ok" => becomes \in Delivery!Closed
    BY DEF TypeOK, Post
  <1>2. \A r \in Delivery!Receipt :
          /\ r \in Delivery!Becomes(r) /\ Delivery!Becomes(r) \subseteq Delivery!Receipt
          /\ r \in Delivery!Closed => Delivery!Becomes(r) = {r}
    BY DEF Delivery!Receipt, Delivery!Becomes, Delivery!Closed
  <1>3. QED
    BY <1>1, <1>2

(* What the worker writes into an outbox item. *)
LEMMA ItemEdits ==
  ASSUME TypeOK, NEW e \in Event, NEW status \in ItemStatus, NEW attempt \in Nat
  PROVE  /\ [outbox EXCEPT ![e].status = status] \in [Event -> Item]
         /\ [outbox EXCEPT ![e].status = status, ![e].attempt = attempt] \in [Event -> Item]
         /\ outbox[e].attempt \in Nat
  BY DEF TypeOK, Item, EventStatus

LEMMA WorkerTypes ==
  ASSUME TypeOK, WorkerInv, RunInv, WorkerStep
  PROVE  TypeOK'
  <1> worker \in WorkerThread
    BY DEF TypeOK
  <1>1. CASE ConsumeSignals
    <2>1. worker' \in WorkerThread
      BY <1>1 DEF ConsumeSignals, WorkerThread
    <2>2. QED
      BY <1>1, <2>1 DEF TypeOK, ConsumeSignals, pipelineVars, receiverVars
  <1>2. CASE ListItems
    <2>1. Ready \subseteq Event /\ Promoted \subseteq Event
      BY DEF Ready, Promoted
    <2>2. Delivered \subseteq Key
      BY EventAssumption DEF Delivered
    <2>3. worker' \in WorkerThread
      BY <1>2, <2>1, <2>2 DEF ListItems, WorkerThread
    <2>4. QED
      BY <1>2, <2>3 DEF TypeOK, ListItems, outboxVars, pipelineVars, receiverVars
  <1>3. ASSUME NEW e \in Event, MarkSending(e) PROVE TypeOK'
    <2>1. outbox' \in [Event -> Item] /\ outbox[e].attempt \in Nat
      BY <1>3, ItemEdits DEF MarkSending, ItemStatus
    <2>2. worker' \in WorkerThread
      BY <1>3, <2>1 DEF MarkSending, WorkerThread, EventStatus, ItemStatus
    <2>3. QED
      BY <1>3, <2>1, <2>2 DEF TypeOK, MarkSending, pipelineVars, receiverVars
  <1>4. CASE ReadRunState
    <2>1. worker.event \in Event /\ outbox[worker.event].status # "absent"
      BY <1>4 DEF ReadRunState, WorkerInv, Handling
    <2>2. runs[outbox[worker.event].run] \in RunState
      BY <2>1 DEF TypeOK, RunInv, Registered
    <2>3. worker' \in WorkerThread
      BY <1>4, <2>2 DEF ReadRunState, WorkerThread
    <2>4. QED
      BY <1>4, <2>3 DEF TypeOK, ReadRunState, outboxVars, pipelineVars, receiverVars
  <1>5. CASE WriteRunState
    <2> DEFINE status == IF worker.status = "recovered" THEN "retry_wait" ELSE worker.status
    <2> DEFINE events == [worker.copy.events EXCEPT ![worker.event] = status]
    <2> DEFINE overall == Overall(worker.copy.ids, events)
    <2> DEFINE state == [worker.copy EXCEPT !.events = events, !.overall = overall]
    <2>1. worker.event \in Event /\ status \in EventStatus
      BY <1>5 DEF WriteRunState, WorkerInv, Handling, EventStatus, ItemStatus
    <2>2. worker.copy \in RunState /\ worker.copy.events \in [Event -> EventStatus]
      BY DEF WorkerThread, RunState
    <2>3. runs' = [runs EXCEPT ![outbox[worker.event].run] = state]
      BY <1>5 DEF WriteRunState
    <2> HIDE DEF status
    <2>4. events \in [Event -> EventStatus]
      BY <2>1, <2>2
    <2> HIDE DEF events
    <2>5. overall \in {"none", "pending", "sent", "failed"}
      BY DEF Overall
    <2> HIDE DEF overall
    <2>6. state \in RunState
      BY <2>2, <2>4, <2>5, RunStateEdits
    <2> HIDE DEF state
    <2>7. runs' \in [Run -> RunState]
      BY <2>3, <2>6 DEF TypeOK
    <2>8. AfterSync \in {"post", "recover", "check"}
      BY DEF AfterSync
    <2>9. worker' \in WorkerThread
      BY <1>5, <2>8, ConstantTypes DEF WriteRunState, WorkerThread
    <2>10. QED
      BY <1>5, <2>7, <2>9 DEF TypeOK, WriteRunState, outboxVars, pipelineVars, receiverVars
  <1>6. ASSUME NEW becomes, NEW answer \in {"ok", "retryable", "final"}, Post(becomes, answer)
        PROVE  TypeOK'
    <2>1. worker.event \in Event /\ worker.attempt \in Nat
      BY <1>6 DEF Post, WorkerInv, Handling, WorkerThread
    <2> DEFINE after == IF answer = "ok"
                        THEN [status |-> "sent", attempt |-> worker.attempt + 1]
                        ELSE AfterError(worker.attempt, answer = "retryable")
    <2>2. after.status \in EventStatus /\ after.attempt \in Nat
      BY <2>1 DEF AfterError, EventStatus, ItemStatus
    <2>3. worker' = [worker EXCEPT !.pc = "settle", !.status = after.status,
                                   !.attempt = after.attempt]
      BY <1>6 DEF Post
    <2> HIDE DEF after
    <2>4. worker' \in WorkerThread
      BY <2>2, <2>3 DEF WorkerThread
    <2>5. posts' \in [Event -> Nat]
      BY <1>6, <2>1 DEF Post, TypeOK
    <2>6. receipt' \in [Event -> Delivery!Receipt]
      BY <1>6, <2>1, PostedReceipt
    <2>7. QED
      BY <1>6, <2>4, <2>5, <2>6 DEF TypeOK, Post, outboxVars, pipelineVars
  <1>7. CASE SettleItem
    <2>1. worker.event \in Event /\ worker.status \in ItemStatus /\ worker.attempt \in Nat
      BY <1>7 DEF SettleItem, WorkerInv, Handling, ItemStatus, WorkerThread
    <2>2. outbox' \in [Event -> Item]
      BY <1>7, <2>1, ItemEdits DEF SettleItem
    <2>3. signals' \subseteq Key
      BY <1>7, <2>1, SignalledType DEF SettleItem
    <2>4. worker' \in WorkerThread
      BY <1>7 DEF SettleItem, WorkerThread
    <2>5. QED
      BY <1>7, <2>2, <2>3, <2>4 DEF TypeOK, SettleItem, pipelineVars, receiverVars
  <1>8. CASE CheckSignals
    <2>1. worker.event \in Event /\ worker.delivered \subseteq Key
      BY <1>8 DEF CheckSignals, WorkerInv, Handling, WorkerThread
    <2> DEFINE key == KeyOf[worker.event]
    <2> DEFINE delivered == IF worker.status = "sent" /\ key # NoKey
                            THEN worker.delivered \cup {key} ELSE worker.delivered
    <2>2. delivered \subseteq Key
      BY <2>1, EventAssumption
    <2>3. worker' = IdleWorker \/
          worker' = [worker EXCEPT !.pc = "next", !.delivered = delivered,
                                   !.event = NoEvent, !.status = "absent", !.attempt = 0]
      BY <1>8 DEF CheckSignals
    <2> HIDE DEF delivered
    <2>4. [worker EXCEPT !.pc = "next", !.delivered = delivered, !.event = NoEvent,
                         !.status = "absent", !.attempt = 0] \in WorkerThread
      BY <2>2 DEF WorkerThread, EventStatus
    <2>5. worker' \in WorkerThread
      BY <2>3, <2>4, ConstantTypes
    <2>6. QED
      BY <1>8, <2>5 DEF TypeOK, CheckSignals, pipelineVars, receiverVars
  <1>9. ASSUME NEW e \in Event, RecoverItem(e) PROVE TypeOK'
    <2>1. outbox' \in [Event -> Item]
      BY <1>9, ItemEdits DEF RecoverItem, ItemStatus
    <2>2. signals' \subseteq Key
      BY <1>9, SignalledType DEF RecoverItem
    <2>3. worker' \in WorkerThread
      BY <1>9 DEF RecoverItem, WorkerThread
    <2>4. QED
      BY <1>9, <2>1, <2>2, <2>3 DEF TypeOK, RecoverItem, pipelineVars, receiverVars
  <1>10. CASE RecoveryDone
    BY <1>10, ConstantTypes DEF TypeOK, RecoveryDone, outboxVars, pipelineVars, receiverVars
  <1>11. QED
    BY <1>1, <1>2, <1>3, <1>4, <1>5, <1>6, <1>7, <1>8, <1>9, <1>10 DEF WorkerStep

LEMMA OtherTypes ==
  ASSUME TypeOK, DiskError \/ (\E e \in Event : BackoffPasses(e)) \/ Restart \/ UNCHANGED vars
  PROVE  TypeOK'
  <1> worker \in WorkerThread
    BY DEF TypeOK
  <1>1. CASE PipelineSaveFails
    BY <1>1, ConstantTypes DEF TypeOK, PipelineSaveFails, outboxVars, receiverVars
  <1>2. CASE WriteRunStateFails
    <2>1. AfterSync \in {"post", "recover", "check"}
      BY DEF AfterSync
    <2>2. worker' \in WorkerThread
      BY <1>2, <2>1, ConstantTypes DEF WriteRunStateFails, WorkerThread
    <2>3. QED
      BY <1>2, <2>2 DEF TypeOK, WriteRunStateFails, outboxVars, pipelineVars, receiverVars
  <1>3. CASE SaveSentFails
    <2>1. worker' = [worker EXCEPT !.status = "failed", !.attempt = worker.attempt + 1]
      BY <1>3 DEF SaveSentFails, AfterError
    <2>2. worker.attempt + 1 \in Nat
      BY DEF WorkerThread
    <2>3. "failed" \in EventStatus \cup {"recovered"}
      BY DEF EventStatus, ItemStatus
    <2>4. worker' \in WorkerThread
      BY <2>1, <2>2, <2>3 DEF WorkerThread
    <2>5. QED
      BY <1>3, <2>4 DEF TypeOK, SaveSentFails, outboxVars, pipelineVars, receiverVars
  <1>4. CASE WorkerSaveFails
    BY <1>4, ConstantTypes DEF TypeOK, WorkerSaveFails, outboxVars, pipelineVars, receiverVars
  <1>5. ASSUME NEW e \in Event, BackoffPasses(e) PROVE TypeOK'
    BY <1>5 DEF TypeOK, BackoffPasses, pipelineVars, receiverVars
  <1>6. CASE Restart
    <2>1. worker' \in WorkerThread
      BY <1>6, ConstantTypes DEF Restart, WorkerThread
    <2>2. QED
      BY <1>6, <2>1, ConstantTypes DEF TypeOK, Restart, receiverVars
  <1>7. CASE UNCHANGED vars
    BY <1>7 DEF TypeOK, vars, outboxVars, pipelineVars, receiverVars
  <1>8. QED
    BY <1>1, <1>2, <1>3, <1>4, <1>5, <1>6, <1>7 DEF DiskError
-----------------------------------------------------------------------------
(* Steps of the invariant.                                                 *)

(* The steps of the pipeline thread leave the worker alone, and the outbox *)
(* but for new items.                                                      *)
LEMMA PipelineLeavesWorker ==
  ASSUME TypeOK, PipelineStep
  PROVE  /\ UNCHANGED <<worker, due, receipt, posts, restarts>>
         /\ \A e \in Event : outbox[e].status # "absent" => outbox'[e] = outbox[e]
         /\ \A e \in Event : outbox[e].status = "absent" =>
              \/ outbox'[e] = outbox[e]
              \/ /\ outbox'[e].status = "pending" /\ outbox'[e].attempt = 0
                 /\ outbox'[e].run = pipeline.run /\ pipeline.pc = "register"
  <1>1. ASSUME NEW e \in Event, Register(e)
        PROVE  /\ UNCHANGED <<worker, due, receipt, posts, restarts>>
               /\ outbox' = outbox \/
                    /\ outbox[e].status = "absent" /\ pipeline.pc = "register"
                    /\ outbox' = [outbox EXCEPT ![e] =
                          [status |-> "pending", attempt |-> 0, run |-> pipeline.run,
                           created |-> Cardinality(Registered) + 1]]
    BY <1>1 DEF Register, receiverVars
  <1>2. CASE \E e \in Event : Register(e)
    BY <1>1, <1>2 DEF TypeOK
  <1>3. CASE ~ \E e \in Event : Register(e)
    BY <1>3 DEF PipelineStep, StartRun, ResumeRun, SaveBuilt, StageFails, SourceChanged,
                CompleteCheckpoint, SaveBeforeCleanup, FinishRun, MarkSucceeded,
                outboxVars, receiverVars
  <1>4. QED
    BY <1>2, <1>3

LEMMA WorkerInvStep ==
  ASSUME TypeOK, WorkerInv, SentWasClosed, [Next]_vars
  PROVE  WorkerInv' /\ SentWasClosed'
  <1> USE DEF Handling, Recovering
  <1> worker \in WorkerThread /\ outbox \in [Event -> Item]
    BY DEF TypeOK
  <1>1. CASE PipelineStep
    <2>1. /\ worker' = worker /\ receipt' = receipt
          /\ \A e \in Event : outbox[e].status # "absent" => outbox'[e].status = outbox[e].status
          /\ \A e \in Event : outbox[e].status = "absent" =>
               outbox'[e].status \in {"absent", "pending"}
      BY <1>1, PipelineLeavesWorker
    <2>2. /\ {e \in Event : outbox'[e].status = "sending"} = {e \in Event : outbox[e].status = "sending"}
          /\ \A e \in Event : outbox'[e].status = "sent" => outbox[e].status = "sent"
      BY <2>1
    <2>3. worker.batch \subseteq Event
      BY DEF WorkerThread
    <2>4. WorkerInv'
      BY <2>1, <2>2, <2>3 DEF WorkerInv
    <2>5. QED
      BY <2>1, <2>2, <2>4 DEF SentWasClosed
  <1>2. CASE ConsumeSignals
    BY <1>2 DEF WorkerInv, SentWasClosed, ConsumeSignals, receiverVars, WorkerThread
  <1>3. CASE ListItems
    BY <1>3 DEF WorkerInv, SentWasClosed, ListItems, outboxVars, receiverVars, WorkerThread, Ready
  <1>4. ASSUME NEW e \in Event, MarkSending(e) PROVE WorkerInv' /\ SentWasClosed'
    BY <1>4 DEF WorkerInv, SentWasClosed, MarkSending, receiverVars, WorkerThread, Item
  <1>5. CASE ReadRunState
    BY <1>5 DEF WorkerInv, SentWasClosed, ReadRunState, outboxVars, receiverVars, WorkerThread
  <1>6. CASE WriteRunState \/ WriteRunStateFails
    <2>1. worker' = [worker EXCEPT !.pc = AfterSync, !.copy = NoRunState]
          /\ worker.pc = "write" /\ UNCHANGED <<outbox, receipt>>
      BY <1>6 DEF WriteRunState, WriteRunStateFails, outboxVars, receiverVars
    <2>2. QED
      BY <2>1 DEF WorkerInv, SentWasClosed, AfterSync, WorkerThread
  <1>7. ASSUME NEW becomes, NEW answer \in {"ok", "retryable", "final"}, Post(becomes, answer)
        PROVE  WorkerInv' /\ SentWasClosed'
    <2> DEFINE after == IF answer = "ok"
                        THEN [status |-> "sent", attempt |-> worker.attempt + 1]
                        ELSE AfterError(worker.attempt, answer = "retryable")
    <2>1. after.status \in {"sent", "retry_wait", "failed"}
          /\ (after.status = "sent" => answer = "ok")
      BY DEF AfterError
    <2>2. worker' = [worker EXCEPT !.pc = "settle", !.status = after.status,
                                   !.attempt = after.attempt]
      BY <1>7 DEF Post
    <2>3. /\ \A e \in Event : receipt[e] \in Delivery!Closed => receipt'[e] \in Delivery!Closed
          /\ answer = "ok" => receipt'[worker.event] \in Delivery!Closed
      BY <1>7, PostedReceipt DEF Post, WorkerInv
    <2> HIDE DEF after
    <2>4. QED
      BY <1>7, <2>1, <2>2, <2>3
      DEF WorkerInv, SentWasClosed, Post, outboxVars, WorkerThread
  <1>8. CASE SettleItem
    BY <1>8 DEF WorkerInv, SentWasClosed, SettleItem, receiverVars, WorkerThread, Item
  <1>9. CASE SaveSentFails
    BY <1>9 DEF WorkerInv, SentWasClosed, SaveSentFails, AfterError, outboxVars,
                receiverVars, WorkerThread
  <1>10. CASE WorkerSaveFails
    BY <1>10 DEF WorkerInv, SentWasClosed, WorkerSaveFails, IdleWorker, outboxVars, receiverVars
  <1>11. CASE CheckSignals
    BY <1>11 DEF WorkerInv, SentWasClosed, CheckSignals, IdleWorker, receiverVars, WorkerThread
  <1>12. ASSUME NEW e \in Event, RecoverItem(e) PROVE WorkerInv' /\ SentWasClosed'
    BY <1>12 DEF WorkerInv, SentWasClosed, RecoverItem, receiverVars, WorkerThread, Item
  <1>13. CASE RecoveryDone
    BY <1>13 DEF WorkerInv, SentWasClosed, RecoveryDone, IdleWorker, outboxVars, receiverVars
  <1>14. CASE Restart
    BY <1>14 DEF WorkerInv, SentWasClosed, Restart, IdleWorker, receiverVars
  <1>15. CASE PipelineSaveFails \/ UNCHANGED vars \/ \E e \in Event : BackoffPasses(e)
    BY <1>15 DEF WorkerInv, SentWasClosed, PipelineSaveFails, BackoffPasses, vars,
                 outboxVars, receiverVars
  <1>16. QED
    BY <1>1, <1>2, <1>3, <1>4, <1>5, <1>6, <1>7, <1>8, <1>9, <1>10, <1>11, <1>12,
       <1>13, <1>14, <1>15
    DEF Next, WorkerStep, DiskError

(* An item changes only as the worker settles, marks or recovers it. *)
LEMMA OutboxSteps ==
  ASSUME TypeOK, WorkerInv, [Next]_vars, NEW e \in Event
  PROVE  /\ Settled(e) => outbox'[e] = outbox[e]
         /\ outbox[e].status # "absent" =>
              outbox'[e].run = outbox[e].run /\ outbox'[e].status # "absent"
  <1> worker \in WorkerThread /\ outbox \in [Event -> Item]
    BY DEF TypeOK
  <1> USE DEF Handling, Settled
  <1>1. CASE PipelineStep
    BY <1>1, PipelineLeavesWorker
  <1>2. ASSUME NEW f \in Event, MarkSending(f)
        PROVE  outbox[f].status \in {"pending", "retry_wait"}
               /\ outbox' = [outbox EXCEPT ![f].status = "sending"]
    BY <1>2 DEF MarkSending, WorkerInv, Recovering
  <1>3. CASE \E f \in Event : MarkSending(f)
    BY <1>2, <1>3 DEF Item
  <1>4. CASE SettleItem
    BY <1>4 DEF SettleItem, WorkerInv, Item
  <1>5. ASSUME NEW f \in Event, RecoverItem(f)
        PROVE  outbox[f].status = "sending" /\ outbox' = [outbox EXCEPT ![f].status = "retry_wait"]
    BY <1>5 DEF RecoverItem, WorkerInv, Recovering
  <1>6. CASE \E f \in Event : RecoverItem(f)
    BY <1>5, <1>6 DEF Item
  <1>7. CASE UNCHANGED outbox
    BY <1>7
  <1>8. CASE WorkerStep \/ DiskError \/ (\E f \in Event : BackoffPasses(f)) \/ Restart
    BY <1>3, <1>4, <1>6, <1>7, <1>8
    DEF WorkerStep, DiskError, ConsumeSignals, ListItems, ReadRunState, WriteRunState, Post,
        CheckSignals, RecoveryDone, PipelineSaveFails, WriteRunStateFails, SaveSentFails,
        WorkerSaveFails, BackoffPasses, Restart, outboxVars
  <1>9. QED
    BY <1>1, <1>7, <1>8 DEF Next, vars, outboxVars

LEMMA RunInvStep ==
  ASSUME TypeOK, WorkerInv, RunInv, [Next]_vars
  PROVE  RunInv'
  <1> pipeline \in PipelineThread /\ checkpoint \in [Run -> Checkpoint]
    BY DEF TypeOK
  <1>1. \A e \in Registered' : outbox'[e].run \in Run
    <2>1. ASSUME NEW e \in Event, outbox'[e].status # "absent" PROVE outbox'[e].run \in Run
      <3>1. CASE outbox[e].status # "absent"
        BY <3>1, OutboxSteps DEF RunInv, Registered
      <3>2. CASE outbox[e].status = "absent"
        <4>1. CASE PipelineStep
          BY <2>1, <3>2, <4>1, PipelineLeavesWorker DEF RunInv
        <4>2. CASE ~ PipelineStep
          <5>1. ASSUME NEW f \in Event, MarkSending(f) PROVE f # e
            BY <5>1, <3>2 DEF MarkSending, WorkerInv, Recovering, Handling
          <5>2. ASSUME NEW f \in Event, RecoverItem(f) PROVE f # e
            BY <5>2, <3>2 DEF RecoverItem, WorkerInv, Recovering
          <5>3. CASE SettleItem
            BY <2>1, <3>2, <5>3 DEF SettleItem, WorkerInv, Handling, TypeOK
          <5>4. outbox'[e] = outbox[e] \/ SettleItem
            BY <4>2, <5>1, <5>2
            DEF Next, WorkerStep, DiskError, ConsumeSignals, ListItems, MarkSending, ReadRunState,
                WriteRunState, Post, CheckSignals, RecoverItem, RecoveryDone, PipelineSaveFails,
                WriteRunStateFails, SaveSentFails, WorkerSaveFails, BackoffPasses, Restart,
                outboxVars, vars, TypeOK
          <5>5. QED
            BY <2>1, <3>2, <5>3, <5>4
        <4>3. QED
          BY <4>1, <4>2
      <3>3. QED
        BY <3>1, <3>2
    <2>2. QED
      BY <2>1 DEF Registered
  <1> DEFINE Busy == pipeline.pc # "idle" =>
               /\ pipeline.run \in Run
               /\ pipeline.source \in Source
               /\ checkpoint[pipeline.run].source = pipeline.source
  <1>2. Busy'
    <2>1. ASSUME NEW s \in Source, NEW r \in Run, StartRun(s, r) \/ ResumeRun(s, r) PROVE Busy'
      BY <2>1 DEF StartRun, ResumeRun, Resumable
    <2>2. CASE SaveBuilt \/ SaveBeforeCleanup \/ FinishRun \/ \E e \in Event : Register(e)
      BY <2>2 DEF RunInv, SaveBuilt, SaveBeforeCleanup, FinishRun, Register, PipelineThread
    <2>3. CASE CompleteCheckpoint
      BY <2>3 DEF RunInv, CompleteCheckpoint, PipelineThread, Checkpoint
    <2>4. CASE pipeline' = IdlePipeline
      BY <2>4 DEF IdlePipeline
    <2>5. CASE UNCHANGED <<pipeline, checkpoint>>
      BY <2>5 DEF RunInv
    <2>6. QED
      BY <2>1, <2>2, <2>3, <2>4, <2>5
      DEF Next, PipelineStep, WorkerStep, DiskError, StageFails, SourceChanged, MarkSucceeded,
          ConsumeSignals, ListItems, MarkSending, ReadRunState, WriteRunState, Post, SettleItem,
          CheckSignals, RecoverItem, RecoveryDone, PipelineSaveFails, WriteRunStateFails,
          SaveSentFails, WorkerSaveFails, BackoffPasses, Restart, pipelineVars, vars
  <1>3. QED
    BY <1>1, <1>2 DEF RunInv

LEMMA AheadStep ==
  ASSUME TypeOK, WorkerInv, RunInv, AheadInv, [Next]_vars
  PROVE  AheadInv'
  <1> /\ worker \in WorkerThread /\ pipeline \in PipelineThread
      /\ runs \in [Run -> RunState] /\ pipeline.state \in RunState /\ worker.copy \in RunState
    BY DEF TypeOK, PipelineThread, WorkerThread
  <1>1. \A e \in Event : outbox[e].status = "sent" => outbox'[e].status = "sent"
    BY OutboxSteps DEF Settled
  <1> DEFINE Behind(state) == \A e \in Event : state.events[e] = "sent" => outbox[e].status = "sent"
  <1> DEFINE Behind2(state) == \A e \in Event : state.events[e] = "sent" => outbox'[e].status = "sent"
  <1>2. Behind(pipeline.state) /\ Behind(worker.copy) /\ \A r \in Run : Behind(runs[r])
    BY DEF AheadInv, RunStateNeverAhead
  <1>3. /\ \A r \in Run : Behind2(runs[r])
        /\ Behind2(pipeline.state) /\ Behind2(worker.copy)
        /\ Behind2(NoRunState) /\ Behind2(FreshRunState)
    BY <1>1, <1>2 DEF NoRunState, FreshRunState
  <1>4. Behind2(pipeline'.state)
    <2>1. ASSUME NEW s \in Source, NEW r \in Run, StartRun(s, r) \/ ResumeRun(s, r)
          PROVE  Behind2(pipeline'.state)
      <3>1. CASE StartRun(s, r)
        BY <3>1, <1>3 DEF StartRun
      <3>2. CASE ResumeRun(s, r)
        <4>1. pipeline'.state.events = runs[r].events
          BY <3>2 DEF ResumeRun, RunState
        <4>2. QED
          BY <4>1, <1>3
      <3>3. QED
        BY <2>1, <3>1, <3>2
    <2>2. CASE SaveBuilt \/ FinishRun
      <3>1. Behind2([pipeline.state EXCEPT !.overall = "pending"])
            /\ Behind2([pipeline.state EXCEPT !.status = "succeeded"])
        BY <1>3 DEF RunState
      <3>2. \/ pipeline'.state = [pipeline.state EXCEPT !.overall = "pending"]
            \/ pipeline'.state = [pipeline.state EXCEPT !.status = "succeeded"]
        BY <2>2 DEF SaveBuilt, FinishRun, PipelineThread
      <3>3. QED
        BY <3>1, <3>2
    <2>3. CASE SaveBeforeCleanup \/ \E e \in Event : Register(e)
      BY <2>3, <1>3 DEF SaveBeforeCleanup, Register, PipelineThread
    <2>4. CASE CompleteCheckpoint
      BY <2>4 DEF CompleteCheckpoint, PipelineThread, RunState
    <2>5. CASE pipeline' = IdlePipeline
      BY <2>5, <1>3 DEF IdlePipeline
    <2>6. CASE UNCHANGED pipeline
      BY <2>6, <1>3
    <2>7. QED
      BY <2>1, <2>2, <2>3, <2>4, <2>5, <2>6
      DEF Next, PipelineStep, WorkerStep, DiskError, StageFails, SourceChanged, MarkSucceeded,
          ConsumeSignals, ListItems, MarkSending, ReadRunState, WriteRunState, Post, SettleItem,
          CheckSignals, RecoverItem, RecoveryDone, PipelineSaveFails, WriteRunStateFails,
          SaveSentFails, WorkerSaveFails, BackoffPasses, Restart, pipelineVars, vars
  <1>5. Behind2(worker'.copy)
    <2>1. CASE ReadRunState
      <3>1. outbox[worker.event].run \in Run
        BY <2>1 DEF ReadRunState, WorkerInv, RunInv, Registered, Handling
      <3>2. worker'.copy = runs[outbox[worker.event].run]
        BY <2>1 DEF ReadRunState, WorkerThread
      <3>3. QED
        BY <3>1, <3>2, <1>3
    <2>2. CASE PipelineStep
      BY <2>2, <1>3, PipelineLeavesWorker
    <2>3. CASE worker'.copy \in {worker.copy, NoRunState}
      BY <2>3, <1>3
    <2>4. CASE ~ ReadRunState /\ ~ PipelineStep
      <3>1. CASE ConsumeSignals \/ ListItems \/ SettleItem \/ SaveSentFails
        BY <3>1, <2>3 DEF ConsumeSignals, ListItems, SettleItem, SaveSentFails, WorkerThread
      <3>2. CASE \E e \in Event : MarkSending(e) \/ RecoverItem(e)
        BY <3>2, <2>3 DEF MarkSending, RecoverItem, WorkerThread
      <3>3. CASE WriteRunState \/ WriteRunStateFails
        BY <3>3, <2>3 DEF WriteRunState, WriteRunStateFails, WorkerThread
      <3>4. CASE \E becomes \in {"none"} \cup Receipts,
                     answer \in {"ok", "retryable", "final"} : Post(becomes, answer)
        BY <3>4, <2>3 DEF Post, WorkerThread
      <3>5. CASE CheckSignals \/ RecoveryDone \/ WorkerSaveFails \/ Restart
        <4>1. IdleWorker.copy = NoRunState
              /\ \A b : [IdleWorker EXCEPT !.pc = "recover", !.batch = b].copy = NoRunState
          BY DEF IdleWorker
        <4>2. CASE CheckSignals
          BY <4>1, <4>2, <2>3 DEF CheckSignals, WorkerThread
        <4>3. CASE RecoveryDone \/ WorkerSaveFails \/ Restart
          BY <4>1, <4>3, <2>3 DEF RecoveryDone, WorkerSaveFails, Restart
        <4>4. QED
          BY <3>5, <4>2, <4>3
      <3>6. CASE UNCHANGED worker
        BY <3>6, <2>3
      <3>7. QED
        BY <2>4, <3>1, <3>2, <3>3, <3>4, <3>5, <3>6
        DEF Next, WorkerStep, DiskError, PipelineSaveFails, BackoffPasses, vars
    <2>5. QED
      BY <2>1, <2>2, <2>4
  <1>6. \A r \in Run : Behind2(runs'[r])
    <2>1. ASSUME NEW s \in Source, NEW q \in Run, StartRun(s, q)
          PROVE  \A r \in Run : Behind2(runs'[r])
      BY <2>1, <1>3 DEF StartRun
    <2>2. CASE SaveBuilt \/ SaveBeforeCleanup
      BY <2>2, <1>3 DEF SaveBuilt, SaveBeforeCleanup
    <2>3. CASE StageFails \/ FinishRun
      <3>1. Behind2([pipeline.state EXCEPT !.status = "failed"])
            /\ Behind2([pipeline.state EXCEPT !.status = "succeeded"])
        BY <1>3 DEF RunState
      <3>2. QED
        BY <2>3, <3>1, <1>3 DEF StageFails, FinishRun
    <2>4. CASE WriteRunState
      <3> DEFINE status == IF worker.status = "recovered" THEN "retry_wait" ELSE worker.status
      <3> DEFINE events == [worker.copy.events EXCEPT ![worker.event] = status]
      <3> DEFINE state == [worker.copy EXCEPT !.events = events,
                                              !.overall = Overall(worker.copy.ids, events)]
      <3>1. runs' = [runs EXCEPT ![outbox[worker.event].run] = state]
        BY <2>4 DEF WriteRunState
      <3>2. state.events = events
        BY DEF RunState
      <3>3. status = "sent" => outbox[worker.event].status = "sent"
        BY <2>4 DEF WriteRunState, WorkerInv
      <3>4. worker.event \in Event /\ worker.copy.events \in [Event -> EventStatus]
        BY <2>4 DEF WriteRunState, WorkerInv, Handling, RunState
      <3>5. outbox' = outbox
        BY <2>4 DEF WriteRunState, outboxVars
      <3> HIDE DEF status
      <3>6. \A e \in Event : events[e] = "sent" => outbox[e].status = "sent"
        BY <3>3, <3>4, <1>2
      <3> HIDE DEF events
      <3>7. Behind2(state)
        BY <3>2, <3>5, <3>6
      <3> HIDE DEF state
      <3>8. QED
        BY <3>1, <3>7, <1>3
    <2>5. CASE UNCHANGED runs
      BY <2>5, <1>3
    <2>6. QED
      BY <2>1, <2>2, <2>3, <2>4, <2>5
      DEF Next, PipelineStep, WorkerStep, DiskError, ResumeRun, SourceChanged, Register,
          CompleteCheckpoint, MarkSucceeded,
          ConsumeSignals, ListItems, MarkSending, ReadRunState, Post, SettleItem,
          CheckSignals, RecoverItem, RecoveryDone, PipelineSaveFails, WriteRunStateFails,
          SaveSentFails, WorkerSaveFails, BackoffPasses, Restart, vars
  <1>7. QED
    BY <1>4, <1>5, <1>6 DEF AheadInv, RunStateNeverAhead

LEMMA RegisterStep ==
  ASSUME TypeOK, WorkerInv, RunInv, RegisterInv, [Next]_vars
  PROVE  RegisterInv'
  <1> /\ pipeline \in PipelineThread /\ checkpoint \in [Run -> Checkpoint]
      /\ outbox \in [Event -> Item]
    BY DEF TypeOK
  <1>1. Registered \subseteq Registered'
    BY OutboxSteps DEF Registered
  <1> DEFINE Listed == pipeline.pc = "register" =>
       Elements(Batches[pipeline.source]) \subseteq Registered \cup Elements(pipeline.todo)
  <1> DEFINE Complete(c) == \A r \in Run : c[r].status = "completed" =>
       c[r].source \in Source /\ Elements(Batches[c[r].source]) \subseteq Registered
  <1>2. Listed /\ Complete(checkpoint)
    BY DEF RegisterInv, NothingUnregistered
  <1>3. ASSUME pipeline' # pipeline, pipeline'.pc = "register" PROVE Listed'
    <2>1. CASE SaveBuilt
      BY <2>1 DEF SaveBuilt, PipelineThread
    <2>2. ASSUME NEW e \in Event, Register(e) PROVE Listed'
      <3>1. e \in Registered'
        BY <2>2 DEF Register, Registered, Item
      <3>2. Elements(pipeline.todo) \subseteq {e} \cup Elements(Tail(pipeline.todo))
        <4> DEFINE s == pipeline.todo
        <4>1. s \in Seq(Event) /\ s # <<>> /\ e = s[1]
          BY <2>2 DEF Register, PipelineThread
        <4>2. ASSUME NEW i \in 1 .. Len(s), i # 1 PROVE s[i] \in Elements(Tail(s))
          <5>1. Len(Tail(s)) = Len(s) - 1 /\ \A j \in 1 .. Len(Tail(s)) : Tail(s)[j] = s[j + 1]
            BY <4>1
          <5>2. i - 1 \in 1 .. Len(Tail(s)) /\ Tail(s)[i - 1] = s[i]
            BY <4>1, <4>2, <5>1
          <5>3. QED
            BY <5>2 DEF Elements
        <4>3. QED
          BY <4>1, <4>2 DEF Elements
      <3>3. pipeline' = [pipeline EXCEPT !.todo = Tail(pipeline.todo)]
            /\ pipeline.pc = "register"
        BY <2>2 DEF Register
      <3>4. QED
        BY <1>1, <1>2, <3>1, <3>2, <3>3 DEF PipelineThread
    <2>3. CASE PipelineStep
      <3>1. ASSUME NEW s \in Source, NEW r \in Run, StartRun(s, r) \/ ResumeRun(s, r)
            PROVE  pipeline'.pc = "built"
        BY <3>1 DEF StartRun, ResumeRun
      <3>2. CASE StageFails \/ SourceChanged \/ MarkSucceeded
        BY <1>3, <3>2 DEF StageFails, SourceChanged, MarkSucceeded, IdlePipeline
      <3>3. CASE CompleteCheckpoint \/ SaveBeforeCleanup \/ FinishRun
        BY <1>3, <3>3 DEF CompleteCheckpoint, SaveBeforeCleanup, FinishRun, PipelineThread
      <3>4. QED
        BY <1>3, <2>1, <2>2, <2>3, <3>1, <3>2, <3>3 DEF PipelineStep
    <2>4. CASE ~ PipelineStep
      <3>1. pipeline' \in {pipeline, IdlePipeline}
        BY <2>4
        DEF Next, WorkerStep, DiskError, ConsumeSignals, ListItems, MarkSending, ReadRunState,
            WriteRunState, Post, SettleItem, CheckSignals, RecoverItem, RecoveryDone,
            PipelineSaveFails, WriteRunStateFails, SaveSentFails, WorkerSaveFails,
            BackoffPasses, Restart, pipelineVars, vars
      <3>2. QED
        BY <1>3, <3>1 DEF IdlePipeline
    <2>5. QED
      BY <2>3, <2>4
  <1>4. Listed'
    BY <1>1, <1>2, <1>3
  <1>5. Complete(checkpoint)'
    <2>1. ASSUME NEW s \in Source, NEW q \in Run, StartRun(s, q) PROVE Complete(checkpoint)'
      BY <2>1, <1>1, <1>2 DEF StartRun, Checkpoint
    <2>2. CASE CompleteCheckpoint
      <3>1. Elements(Batches[pipeline.source]) \subseteq Registered
        BY <1>2, <2>2 DEF CompleteCheckpoint, Elements
      <3>2. /\ pipeline.run \in Run /\ pipeline.source \in Source
            /\ checkpoint[pipeline.run].source = pipeline.source
        BY <2>2 DEF CompleteCheckpoint, RunInv
      <3>3. checkpoint' = [checkpoint EXCEPT ![pipeline.run].status = "completed"]
        BY <2>2 DEF CompleteCheckpoint
      <3>4. QED
        BY <1>1, <1>2, <3>1, <3>2, <3>3 DEF Checkpoint
    <2>3. CASE UNCHANGED checkpoint
      BY <2>3, <1>1, <1>2
    <2>4. QED
      BY <2>1, <2>2, <2>3
      DEF Next, PipelineStep, WorkerStep, DiskError, ResumeRun, SaveBuilt, StageFails,
          SourceChanged, Register, SaveBeforeCleanup, FinishRun, MarkSucceeded,
          ConsumeSignals, ListItems, MarkSending, ReadRunState, WriteRunState, Post, SettleItem,
          CheckSignals, RecoverItem, RecoveryDone, PipelineSaveFails, WriteRunStateFails,
          SaveSentFails, WorkerSaveFails, BackoffPasses, Restart, pipelineVars, vars
  <1>6. QED
    BY <1>4, <1>5 DEF RegisterInv, NothingUnregistered

LEMMA AttemptStep ==
  ASSUME TypeOK, WorkerInv, AttemptInv, [Next]_vars
  PROVE  AttemptInv'
  <1> /\ worker \in WorkerThread /\ outbox \in [Event -> Item] /\ posts \in [Event -> Nat]
      /\ restarts \in Nat /\ worker.attempt \in Nat
      /\ \A e \in Event : outbox[e].attempt \in Nat /\ posts[e] \in Nat
    BY DEF TypeOK, WorkerThread, Item
  <1> USE BoundAssumption DEF Handling, Recovering, Settled, Uncounted
  <1>1. CASE PipelineStep
    <2>1. UNCHANGED <<worker, posts, restarts>>
      BY <1>1, PipelineLeavesWorker
    <2>2. ASSUME NEW e \in Event, outbox[e].status # "absent" PROVE outbox'[e] = outbox[e]
      BY <1>1, <2>2, PipelineLeavesWorker
    <2>3. ASSUME NEW e \in Event, outbox[e].status = "absent", outbox'[e] # outbox[e]
          PROVE  outbox'[e].status = "pending" /\ outbox'[e].attempt = 0
      BY <1>1, <2>3, PipelineLeavesWorker
    <2>4. ASSUME NEW e \in Event PROVE Uncounted(e)' <=> Uncounted(e)
      BY <2>1, <2>2, <2>3
    <2>5. ASSUME NEW e \in Event
          PROVE  /\ outbox'[e].status = "absent" => outbox'[e].attempt = 0
                 /\ Settled(e)' => posts'[e] <= MaxAttempts + restarts'
                 /\ ~ Settled(e)' =>
                      /\ outbox'[e].attempt < MaxAttempts
                      /\ posts'[e] <= outbox'[e].attempt + restarts'
                                        + (IF Uncounted(e)' THEN 1 ELSE 0)
      <3>1. CASE outbox'[e] = outbox[e]
        BY <2>1, <2>4, <3>1 DEF AttemptInv
      <3>2. CASE outbox'[e] # outbox[e]
        <4>1. outbox[e].status = "absent"
          BY <2>2, <3>2
        <4>2. outbox'[e].status = "pending" /\ outbox'[e].attempt = 0
          BY <2>3, <3>2, <4>1
        <4>3. posts[e] <= restarts
          BY <4>1 DEF AttemptInv
        <4>4. QED
          BY <2>1, <4>2, <4>3
      <3>3. QED
        BY <3>1, <3>2
    <2>6. worker.pc \in {"read", "write", "post", "settle"} =>
            outbox'[worker.event] = outbox[worker.event]
      BY <2>2 DEF WorkerInv
    <2>7. QED
      BY <2>1, <2>5, <2>6 DEF AttemptInv
  <1>2. CASE ConsumeSignals
    BY <1>2 DEF AttemptInv, ConsumeSignals, receiverVars, WorkerThread
  <1>3. CASE ListItems
    BY <1>3 DEF AttemptInv, ListItems, outboxVars, receiverVars, WorkerThread
  <1>4. ASSUME NEW e \in Event, MarkSending(e) PROVE AttemptInv'
    BY <1>4 DEF AttemptInv, WorkerInv, MarkSending, receiverVars, WorkerThread, Item
  <1>5. CASE ReadRunState
    BY <1>5 DEF AttemptInv, WorkerInv, ReadRunState, outboxVars, receiverVars, WorkerThread
  <1>6. CASE WriteRunState \/ WriteRunStateFails
    <2>1. worker' = [worker EXCEPT !.pc = AfterSync, !.copy = NoRunState]
          /\ worker.pc = "write" /\ UNCHANGED <<outbox, posts, restarts>>
      BY <1>6 DEF WriteRunState, WriteRunStateFails, outboxVars, receiverVars
    <2>2. QED
      BY <2>1 DEF AttemptInv, WorkerInv, AfterSync, WorkerThread
  <1>7. ASSUME NEW becomes, NEW answer \in {"ok", "retryable", "final"}, Post(becomes, answer)
        PROVE  AttemptInv'
    <2> DEFINE after == IF answer = "ok"
                        THEN [status |-> "sent", attempt |-> worker.attempt + 1]
                        ELSE AfterError(worker.attempt, answer = "retryable")
    <2>1. after.status = "retry_wait" =>
            after.attempt = worker.attempt + 1 /\ after.attempt < MaxAttempts
      BY DEF AfterError
    <2>2. worker' = [worker EXCEPT !.pc = "settle", !.status = after.status,
                                   !.attempt = after.attempt]
      BY <1>7 DEF Post
    <2>3. /\ worker.pc = "post" /\ UNCHANGED <<outbox, restarts>>
          /\ posts' = [posts EXCEPT ![worker.event] = @ + 1]
      BY <1>7 DEF Post, outboxVars
    <2> HIDE DEF after
    <2>4. QED
      BY <2>1, <2>2, <2>3 DEF AttemptInv, WorkerInv, WorkerThread
  <1>8. CASE SettleItem
    BY <1>8 DEF AttemptInv, WorkerInv, SettleItem, receiverVars, WorkerThread, Item
  <1>9. CASE SaveSentFails
    BY <1>9 DEF AttemptInv, WorkerInv, SaveSentFails, AfterError, outboxVars, receiverVars,
                WorkerThread
  <1>10. CASE WorkerSaveFails
    BY <1>10 DEF AttemptInv, WorkerInv, WorkerSaveFails, IdleWorker, outboxVars, receiverVars
  <1>11. CASE CheckSignals
    BY <1>11 DEF AttemptInv, CheckSignals, IdleWorker, receiverVars, WorkerThread
  <1>12. ASSUME NEW e \in Event, RecoverItem(e) PROVE AttemptInv'
    BY <1>12 DEF AttemptInv, WorkerInv, RecoverItem, receiverVars, WorkerThread, Item
  <1>13. CASE RecoveryDone
    BY <1>13 DEF AttemptInv, WorkerInv, RecoveryDone, IdleWorker, outboxVars, receiverVars
  <1>14. CASE Restart
    BY <1>14 DEF AttemptInv, Restart, IdleWorker, receiverVars
  <1>15. CASE PipelineSaveFails \/ UNCHANGED vars \/ \E e \in Event : BackoffPasses(e)
    BY <1>15 DEF AttemptInv, PipelineSaveFails, BackoffPasses, vars, outboxVars, receiverVars
  <1>16. QED
    BY <1>1, <1>2, <1>3, <1>4, <1>5, <1>6, <1>7, <1>8, <1>9, <1>10, <1>11, <1>12,
       <1>13, <1>14, <1>15
    DEF Next, WorkerStep, DiskError

-----------------------------------------------------------------------------
(* The theorems. *)

LEMMA InitialInvariant == Init => IInv
  <1> SUFFICES ASSUME Init PROVE IInv
    OBVIOUS
  <1>1. TypeOK
    BY InitialTypes
  <1>2. WorkerInv /\ RunInv /\ SentWasClosed /\ RegisterInv
    BY DEF Init, WorkerInv, Handling, Recovering, RunInv, Registered, SentWasClosed, RegisterInv,
           NothingUnregistered, NoItem, IdleWorker, IdlePipeline
  <1>3. AheadInv
    BY DEF Init, AheadInv, RunStateNeverAhead, NoRunState, FreshRunState, IdleWorker, IdlePipeline
  <1>4. AttemptInv
    BY BoundAssumption DEF Init, AttemptInv, Settled, NoItem, Uncounted, IdleWorker
  <1>5. QED
    BY <1>1, <1>2, <1>3, <1>4 DEF IInv

LEMMA InvariantStep == IInv /\ [Next]_vars => IInv'
  <1> SUFFICES ASSUME IInv, [Next]_vars PROVE IInv'
    OBVIOUS
  <1>1. TypeOK'
    BY PipelineTypes, WorkerTypes, OtherTypes DEF IInv, Next
  <1>2. QED
    BY <1>1, WorkerInvStep, RunInvStep, AheadStep, RegisterStep, AttemptStep DEF IInv

LEMMA Invariance == Spec => []IInv
  BY InitialInvariant, InvariantStep, PTL DEF Spec

(* Every variable keeps its type: the pipeline and the delivery thread hold *)
(* only what the files they read and write can contain.                     *)
THEOREM TypeCorrect == Spec => []TypeOK
  BY Invariance, PTL DEF IInv

(* What the outbox calls sent, the backend is done with: whatever is lost,  *)
(* refused or interrupted, and whichever save raises.                       *)
THEOREM SentClosed == Spec => []SentWasClosed
  BY Invariance, PTL DEF IInv

(* Although the threads overwrite each other's saves, no run state ever     *)
(* shows an event as sent that is not.                                      *)
THEOREM RunStateBehind == Spec => []RunStateNeverAhead
  <1>1. IInv => RunStateNeverAhead
    BY DEF IInv, AheadInv
  <1>2. QED
    BY <1>1, Invariance, PTL

(* A run whose checkpoint is completed, and which is therefore never        *)
(* resumed, has registered every batch of its source.                       *)
THEOREM CompletedIsRegistered == Spec => []NothingUnregistered
  <1>1. IInv => NothingUnregistered
    BY DEF IInv, RegisterInv
  <1>2. QED
    BY <1>1, Invariance, PTL

(* No batch is posted more than max_attempts times, and once more for each  *)
(* restart of the generator.                                                *)
THEOREM BoundedPosts == Spec => []PostsBounded
  <1>1. IInv => PostsBounded
    <2> SUFFICES ASSUME IInv, NEW e \in Event PROVE posts[e] <= MaxAttempts + restarts
      BY DEF PostsBounded
    <2>1. /\ outbox[e].attempt \in Nat /\ restarts \in Nat /\ posts[e] \in Nat
          /\ MaxAttempts \in Nat
      BY BoundAssumption DEF IInv, TypeOK, Item
    <2>2. CASE Settled(e)
      BY <2>2 DEF IInv, AttemptInv
    <2>3. CASE ~ Settled(e)
      BY <2>1, <2>3 DEF IInv, AttemptInv
    <2>4. QED
      BY <2>2, <2>3
  <1>2. QED
    BY <1>1, Invariance, PTL

(* An item that is sent or has failed is never opened again.                *)
THEOREM SettledStays == Spec => SettledIsFinal
  <1>1. IInv /\ [Next]_vars => [\A e \in Event : Settled(e) => outbox'[e] = outbox[e]]_vars
    BY OutboxSteps DEF IInv
  <1>2. QED
    BY <1>1, Invariance, PTL DEF Spec, SettledIsFinal

-----------------------------------------------------------------------------
(* Preemption of the live backlog.                                          *)

(* The worker is going through a list.                                      *)
Working == (worker.pc = "next" \/ Handling) /\ ~ Recovering

(* The worker has h in hand and its outcome is not saved yet.               *)
InHand(h) == Handling /\ h = worker.event /\ outbox[h].status = "sending"

(* The rest of the list holds a promoted result of the maintenance event,   *)
(* or the next check of the signals will find it.                           *)
Attended(key) ==
  \/ key \in signals
  \/ \E h \in worker.promoted : KeyOf[h] = key /\ (h \in worker.batch \/ InHand(h))

(* The outcome of an item the worker has settled is in the outbox, and one   *)
(* that was not delivered has raised its signal.                             *)
OutcomeInv ==
  /\ worker.pc = "check" => /\ worker.status \in {"sent", "retry_wait", "failed"}
                            /\ outbox[worker.event].status = worker.status
  /\ worker.pc \in {"read", "write", "check"} /\ worker.status \in {"retry_wait", "failed"} =>
       KeyOf[worker.event] \in signals \cup {NoKey}

(* A maintenance event with a pending result and no delivered one is         *)
(* attended to.                                                              *)
ListInv ==
  Working =>
    /\ worker.delivered \subseteq Delivered
    /\ \A h \in worker.promoted : KeyOf[h] \in Key
    /\ \A f \in Event :
         outbox[f].status = "pending" /\ KeyOf[f] \in Key \ Delivered => Attended(KeyOf[f])

Less == {s \in Nat \X Nat : s[1] < s[2]}

(* Every nonempty set of numbers has a least one. *)
LEMMA LeastNumber ==
  ASSUME NEW T \in SUBSET Nat, T # {}
  PROVE  \E n \in T : \A m \in T : n <= m
  <1>1. OpToRel(<, Nat) = Less
    BY DEF OpToRel, Less
  <1>2. IsWellFoundedOn(Less, Nat)
    BY <1>1, NatLessThanWellFounded, Zenon
  <1>3. PICK n \in T : \A m \in T : ~ (<<m, n>> \in Less)
    BY <1>2, WFMin
  <1>4. \A m \in T : m < n => <<m, n>> \in Less
    BY DEF Less
  <1>5. ASSUME NEW m \in T PROVE n <= m
    <2>1. ~ (m < n)
      BY <1>3, <1>4
    <2>2. QED
      BY <2>1
  <1>6. QED
    BY <1>5

(* A list promotes a result of every maintenance event that has one ready    *)
(* and none delivered.                                                       *)
LEMMA SomePromoted ==
  ASSUME TypeOK, NEW f \in Ready, KeyOf[f] \in Key \ Delivered
  PROVE  \E h \in Promoted : KeyOf[h] = KeyOf[f]
  <1> DEFINE Same == {e \in Ready : KeyOf[e] = KeyOf[f]}
             Times == {outbox[e].created : e \in Same}
  <1>1. \A e \in Ready : outbox[e].created \in Nat
    BY DEF Ready, TypeOK, Item
  <1>2. Times \in SUBSET Nat /\ Times # {}
    BY <1>1
  <1>3. PICK n \in Times : \A m \in Times : n <= m
    BY <1>2, LeastNumber
  <1>4. PICK h \in Same : outbox[h].created = n
    BY <1>3
  <1>5. h \in Promoted
    BY <1>3, <1>4 DEF Promoted
  <1>6. QED
    BY <1>4, <1>5

LEMMA DeliveredGrows ==
  ASSUME TypeOK, WorkerInv, [Next]_vars
  PROVE  Delivered \subseteq Delivered'
  <1>1. \A e \in Event : outbox[e].status = "sent" => outbox'[e].status = "sent"
    BY OutboxSteps DEF Settled
  <1>2. QED
    BY <1>1 DEF Delivered

(* A step within a list keeps ListInv if it clears no signal, if a result    *)
(* that becomes pending raises its own, and if a promoted result leaves the  *)
(* list and the hand of the worker only when it is delivered or signalled.   *)
LEMMA ListKept ==
  ASSUME ListInv, Working, Delivered \subseteq Delivered', signals \subseteq signals',
         worker'.delivered = worker.delivered, worker'.promoted = worker.promoted,
         \A f \in Event : outbox'[f].status = "pending" =>
           outbox[f].status = "pending" \/ KeyOf[f] \in signals' \cup {NoKey},
         \A h \in worker.promoted : h \in worker.batch \/ InHand(h) =>
           \/ h \in worker'.batch \/ InHand(h)'
           \/ KeyOf[h] \in signals' \cup Delivered'
  PROVE  ListInv'
  <1>1. ASSUME NEW f \in Event, outbox'[f].status = "pending", KeyOf[f] \in Key \ Delivered'
        PROVE  Attended(KeyOf[f])'
    <2>1. CASE KeyOf[f] \in signals'
      BY <2>1 DEF Attended
    <2>2. CASE KeyOf[f] \notin signals'
      <3>1. outbox[f].status = "pending" /\ KeyOf[f] \in Key \ Delivered
        BY <1>1, <2>2, EventAssumption
      <3>2. KeyOf[f] \notin signals
        BY <2>2
      <3>3. PICK h \in worker.promoted :
              KeyOf[h] = KeyOf[f] /\ (h \in worker.batch \/ InHand(h))
        BY <3>1, <3>2 DEF ListInv, Attended
      <3>4. h \in worker'.batch \/ InHand(h)'
        BY <1>1, <2>2, <3>3
      <3>5. QED
        BY <3>3, <3>4 DEF Attended
    <2>3. QED
      BY <2>1, <2>2
  <1>2. QED
    BY <1>1 DEF ListInv

LEMMA PipelineSignals ==
  ASSUME TypeOK, PipelineStep
  PROVE  /\ signals \subseteq signals'
         /\ \A f \in Event : outbox'[f].status = "pending" =>
              outbox[f].status = "pending" \/ KeyOf[f] \in signals' \cup {NoKey}
  <1>1. ASSUME NEW e \in Event, Register(e)
        PROVE  /\ signals \subseteq signals'
               /\ \A f \in Event : outbox'[f].status = "pending" =>
                    outbox[f].status = "pending" \/ KeyOf[f] \in signals' \cup {NoKey}
    <2>1. CASE outbox[e].status = "absent"
      <3>1. signals' = Signalled(e, "pending")
        BY <1>1, <2>1 DEF Register
      <3>2. signals \subseteq signals' /\ KeyOf[e] \in signals' \cup {NoKey}
        BY <3>1 DEF Signalled
      <3>3. \A f \in Event : f # e => outbox'[f] = outbox[f]
        BY <1>1, <2>1 DEF Register, TypeOK
      <3>4. QED
        BY <3>2, <3>3
    <2>2. CASE outbox[e].status # "absent"
      BY <1>1, <2>2 DEF Register
    <2>3. QED
      BY <2>1, <2>2
  <1>2. CASE \E e \in Event : Register(e)
    BY <1>1, <1>2
  <1>3. CASE ~ \E e \in Event : Register(e)
    BY <1>3 DEF PipelineStep, StartRun, ResumeRun, SaveBuilt, StageFails, SourceChanged,
                CompleteCheckpoint, SaveBeforeCleanup, FinishRun, MarkSucceeded, outboxVars
  <1>4. QED
    BY <1>2, <1>3

LEMMA OutcomeStep ==
  ASSUME TypeOK, WorkerInv, OutcomeInv, [Next]_vars
  PROVE  OutcomeInv'
  <1> worker \in WorkerThread /\ outbox \in [Event -> Item]
    BY DEF TypeOK
  <1> USE DEF Handling, Recovering
  <1>1. CASE PipelineStep
    <2>1. worker' = worker /\ signals \subseteq signals'
      BY <1>1, PipelineLeavesWorker, PipelineSignals
    <2>2. worker.pc = "check" => outbox'[worker.event] = outbox[worker.event]
      BY <1>1, PipelineLeavesWorker DEF WorkerInv, OutcomeInv
    <2>3. QED
      BY <2>1, <2>2 DEF OutcomeInv
  <1>2. CASE ConsumeSignals \/ ListItems
    BY <1>2 DEF ConsumeSignals, ListItems, OutcomeInv, WorkerThread
  <1>3. ASSUME NEW e \in Event, MarkSending(e) PROVE OutcomeInv'
    BY <1>3 DEF MarkSending, OutcomeInv, WorkerThread
  <1>4. CASE ReadRunState
    BY <1>4 DEF ReadRunState, outboxVars, OutcomeInv, WorkerThread
  <1>5. CASE WriteRunState \/ WriteRunStateFails
    <2>1. /\ worker' = [worker EXCEPT !.pc = AfterSync, !.copy = NoRunState]
          /\ worker.pc = "write" /\ UNCHANGED <<outbox, signals>>
      BY <1>5 DEF WriteRunState, WriteRunStateFails, outboxVars
    <2>2. QED
      BY <2>1 DEF AfterSync, WorkerInv, OutcomeInv, WorkerThread
  <1>6. ASSUME NEW becomes, NEW answer \in {"ok", "retryable", "final"}, Post(becomes, answer)
        PROVE  OutcomeInv'
    BY <1>6 DEF Post, OutcomeInv, WorkerThread
  <1>7. CASE SettleItem
    <2>1. worker' = [worker EXCEPT !.pc = "read"] /\ worker.pc = "settle"
          /\ signals' = Signalled(worker.event, worker.status)
      BY <1>7 DEF SettleItem
    <2>2. worker.status \in {"retry_wait", "failed"} => KeyOf[worker.event] \in signals' \cup {NoKey}
      BY <2>1 DEF Signalled
    <2>3. QED
      BY <2>1, <2>2 DEF OutcomeInv, WorkerThread
  <1>8. CASE SaveSentFails \/ WorkerSaveFails \/ CheckSignals \/ RecoveryDone \/ Restart
    <2>1. CASE Restart
      <3>1. worker' = [IdleWorker EXCEPT !.pc = "recover",
                                         !.batch = {e \in Event : outbox[e].status = "sending"}]
        BY <2>1 DEF Restart
      <3>2. worker'.pc = "recover"
        BY <3>1 DEF IdleWorker
      <3>3. QED
        BY <3>2 DEF OutcomeInv
    <2>2. CASE SaveSentFails
      BY <2>2 DEF SaveSentFails, OutcomeInv, WorkerThread
    <2>3. CASE CheckSignals
      BY <2>3 DEF CheckSignals, IdleWorker, OutcomeInv, WorkerThread
    <2>4. CASE WorkerSaveFails \/ RecoveryDone
      BY <2>4 DEF WorkerSaveFails, RecoveryDone, IdleWorker, OutcomeInv
    <2>5. QED
      BY <1>8, <2>1, <2>2, <2>3, <2>4
  <1>9. ASSUME NEW e \in Event, RecoverItem(e) PROVE OutcomeInv'
    BY <1>9 DEF RecoverItem, OutcomeInv, WorkerThread
  <1>10. CASE PipelineSaveFails \/ UNCHANGED vars \/ \E e \in Event : BackoffPasses(e)
    BY <1>10 DEF PipelineSaveFails, BackoffPasses, vars, outboxVars, OutcomeInv
  <1>11. QED
    BY <1>1, <1>2, <1>3, <1>4, <1>5, <1>6, <1>7, <1>8, <1>9, <1>10
    DEF Next, WorkerStep, DiskError

(* When the signals are checked, what is attended to is what is still in the *)
(* list, or what has just been settled: delivered, or signalled again.       *)
LEMMA CheckKeeps ==
  ASSUME TypeOK, WorkerInv, OutcomeInv, ListInv, CheckSignals
  PROVE  ListInv'
  <1> USE DEF Handling, Recovering
  <1> worker \in WorkerThread
    BY DEF TypeOK
  <1> DEFINE key == KeyOf[worker.event]
             delivered == IF worker.status = "sent" /\ key # NoKey
                          THEN worker.delivered \cup {key} ELSE worker.delivered
  <1>1. Working /\ worker.pc = "check" /\ worker.event \in Event /\ outbox' = outbox
    BY DEF Working, CheckSignals, WorkerInv
  <1>2. CASE worker' = IdleWorker
    BY <1>2 DEF ListInv, Working, IdleWorker
  <1>3. CASE worker' # IdleWorker
    <2>1. /\ signals \subseteq delivered
          /\ worker' = [worker EXCEPT !.pc = "next", !.delivered = delivered,
                                      !.event = NoEvent, !.status = "absent", !.attempt = 0]
      BY <1>3 DEF CheckSignals
    <2>2. key \in Key \cup {NoKey}
      BY <1>1, EventAssumption
    <2>3. worker.status = "sent" /\ key # NoKey => key \in Delivered
      BY <1>1 DEF OutcomeInv, Delivered
    <2>4. delivered \subseteq Delivered /\ Delivered' = Delivered
      BY <1>1, <2>3 DEF ListInv, Delivered
    <2>5. key \in Delivered \cup signals \cup {NoKey}
      BY <1>1, <2>3 DEF OutcomeInv
    <2> HIDE DEF delivered, key
    <2>6. /\ worker'.pc = "next" /\ worker'.batch = worker.batch
          /\ worker'.promoted = worker.promoted /\ worker'.delivered = delivered
      BY <2>1 DEF WorkerThread
    <2>7. ASSUME NEW f \in Event, outbox[f].status = "pending", KeyOf[f] \in Key \ Delivered
          PROVE  \E h \in worker.promoted : KeyOf[h] = KeyOf[f] /\ h \in worker.batch
      <3>1. KeyOf[f] \notin signals
        BY <2>1, <2>4, <2>7
      <3>2. PICK h \in worker.promoted :
              KeyOf[h] = KeyOf[f] /\ (h \in worker.batch \/ InHand(h))
        BY <1>1, <2>7, <3>1 DEF ListInv, Attended
      <3>3. h # worker.event
        BY <2>5, <2>7, <3>1, <3>2, EventAssumption DEF key
      <3>4. QED
        BY <3>2, <3>3 DEF InHand
    <2>8. QED
      BY <1>1, <2>4, <2>6, <2>7 DEF ListInv, Attended
  <1>4. QED
    BY <1>2, <1>3

LEMMA ListStep ==
  ASSUME TypeOK, WorkerInv, OutcomeInv, ListInv, [Next]_vars
  PROVE  ListInv'
  <1> worker \in WorkerThread /\ outbox \in [Event -> Item]
    BY DEF TypeOK
  <1>0. Delivered \subseteq Delivered'
    BY DeliveredGrows
  <1> USE DEF Handling, Recovering
  <1>1. CASE PipelineStep
    <2>1. /\ worker' = worker
          /\ signals \subseteq signals'
          /\ \A f \in Event : outbox'[f].status = "pending" =>
               outbox[f].status = "pending" \/ KeyOf[f] \in signals' \cup {NoKey}
      BY <1>1, PipelineLeavesWorker, PipelineSignals
    <2>2. \A h : InHand(h) => InHand(h)'
      BY <1>1, <2>1, PipelineLeavesWorker DEF InHand, WorkerInv
    <2>3. CASE Working
      BY <1>0, <2>1, <2>2, <2>3, ListKept
    <2>4. CASE ~ Working
      BY <2>1, <2>4 DEF ListInv, Working
    <2>5. QED
      BY <2>3, <2>4
  <1>2. CASE ConsumeSignals
    BY <1>2 DEF ConsumeSignals, ListInv, Working, WorkerThread
  <1>3. CASE ListItems
    <2>1. CASE Ready = {}
      BY <1>3, <2>1 DEF ListItems, ListInv, Working, WorkerThread
    <2>2. CASE Ready # {}
      <3>1. /\ worker'.pc = "next" /\ worker'.batch = Ready /\ worker'.promoted = Promoted
            /\ worker'.delivered = Delivered /\ outbox' = outbox
        BY <1>3, <2>2 DEF ListItems, outboxVars, WorkerThread
      <3>2. Delivered' = Delivered /\ Promoted \subseteq Ready
        BY <3>1 DEF Delivered, Promoted
      <3>3. ASSUME NEW f \in Event, outbox[f].status = "pending", KeyOf[f] \in Key \ Delivered
            PROVE  \E h \in Promoted : KeyOf[h] = KeyOf[f] /\ h \in Ready
        <4>1. f \in Ready
          BY <3>3 DEF Ready
        <4>2. QED
          BY <3>2, <3>3, <4>1, SomePromoted
      <3>4. \A h \in Promoted : KeyOf[h] \in Key
        BY DEF Promoted
      <3>5. QED
        BY <3>1, <3>2, <3>3, <3>4 DEF ListInv, Attended
    <2>3. QED
      BY <2>1, <2>2
  <1>4. ASSUME NEW e \in Event, MarkSending(e) PROVE ListInv'
    <2>1. /\ worker.pc = "next" /\ signals' = signals
          /\ worker'.pc = "read" /\ worker'.event = e /\ worker'.batch = worker.batch \ {e}
          /\ worker'.delivered = worker.delivered /\ worker'.promoted = worker.promoted
      BY <1>4 DEF MarkSending, WorkerThread
    <2>2. /\ outbox'[e].status = "sending"
          /\ \A f \in Event : f # e => outbox'[f] = outbox[f]
      BY <1>4 DEF MarkSending, Item
    <2>3. Working /\ InHand(e)' /\ \A h : ~ InHand(h)
      BY <2>1, <2>2 DEF Working, InHand
    <2>4. QED
      BY <1>0, <2>1, <2>2, <2>3, ListKept
  <1>5. CASE ReadRunState
    <2>1. /\ worker.pc = "read" /\ worker'.pc = "write" /\ UNCHANGED <<outbox, signals>>
          /\ worker'.event = worker.event /\ worker'.batch = worker.batch
          /\ worker'.status = worker.status
          /\ worker'.delivered = worker.delivered /\ worker'.promoted = worker.promoted
      BY <1>5 DEF ReadRunState, outboxVars, WorkerThread
    <2>2. \A h : InHand(h) => InHand(h)'
      BY <2>1 DEF InHand
    <2>3. Working' => Working
      BY <2>1 DEF Working
    <2>4. QED
      BY <1>0, <2>1, <2>2, <2>3, ListKept DEF ListInv
  <1>6. CASE WriteRunState \/ WriteRunStateFails
    <2>1. /\ worker.pc = "write" /\ worker'.pc = AfterSync /\ UNCHANGED <<outbox, signals>>
          /\ worker'.event = worker.event /\ worker'.batch = worker.batch
          /\ worker'.delivered = worker.delivered /\ worker'.promoted = worker.promoted
      BY <1>6 DEF WriteRunState, WriteRunStateFails, outboxVars, WorkerThread
    <2>2. Working' => Working
      BY <2>1 DEF Working, AfterSync
    <2>3. Working => \A h : InHand(h) => InHand(h)'
      BY <2>1 DEF Working, AfterSync, InHand
    <2>4. QED
      BY <1>0, <2>1, <2>2, <2>3, ListKept DEF ListInv
  <1>7. CASE SaveSentFails \/ \E becomes \in {"none"} \cup Receipts,
                                    answer \in {"ok", "retryable", "final"} : Post(becomes, answer)
    <2>1. /\ worker.pc \in {"post", "settle"} /\ worker'.pc = "settle"
          /\ UNCHANGED <<outbox, signals>>
          /\ worker'.event = worker.event /\ worker'.batch = worker.batch
          /\ worker'.delivered = worker.delivered /\ worker'.promoted = worker.promoted
      BY <1>7 DEF SaveSentFails, Post, outboxVars, WorkerThread
    <2>2. Working /\ \A h : InHand(h) => InHand(h)'
      BY <2>1 DEF Working, InHand
    <2>3. QED
      BY <1>0, <2>1, <2>2, ListKept
  <1>8. CASE SettleItem
    <2>1. /\ worker.pc = "settle" /\ worker'.pc = "read" /\ worker.event \in Event
          /\ signals' = Signalled(worker.event, worker.status)
          /\ worker'.event = worker.event /\ worker'.batch = worker.batch
          /\ worker'.delivered = worker.delivered /\ worker'.promoted = worker.promoted
          /\ worker.status \in {"sent", "retry_wait", "failed"}
      BY <1>8 DEF SettleItem, WorkerInv, WorkerThread
    <2>2. /\ outbox'[worker.event].status = worker.status
          /\ \A f \in Event : f # worker.event => outbox'[f] = outbox[f]
      BY <1>8, <2>1 DEF SettleItem, Item
    <2>3. KeyOf[worker.event] \in signals' \cup Delivered' \cup {NoKey}
      BY <2>1, <2>2 DEF Signalled, Delivered
    <2>4. Working /\ \A h \in worker.promoted : KeyOf[h] # NoKey
      BY <2>1, EventAssumption DEF ListInv, Working
    <2>5. \A h \in worker.promoted : InHand(h) => KeyOf[h] \in signals' \cup Delivered'
      BY <2>3, <2>4 DEF InHand
    <2>6. signals \subseteq signals'
      BY <2>1 DEF Signalled
    <2>7. \A f \in Event : outbox'[f].status = "pending" => outbox[f].status = "pending"
      BY <2>1, <2>2
    <2>8. QED
      BY <1>0, <2>1, <2>4, <2>5, <2>6, <2>7, ListKept
  <1>9. CASE CheckSignals
    BY <1>9, CheckKeeps
  <1>10. CASE WorkerSaveFails \/ RecoveryDone \/ Restart
    <2>1. CASE Restart
      <3>1. worker' = [IdleWorker EXCEPT !.pc = "recover",
                                         !.batch = {e \in Event : outbox[e].status = "sending"}]
        BY <2>1 DEF Restart
      <3>2. worker'.pc = "recover"
        BY <3>1 DEF IdleWorker
      <3>3. QED
        BY <3>2 DEF ListInv, Working
    <2>2. CASE WorkerSaveFails \/ RecoveryDone
      BY <2>2 DEF WorkerSaveFails, RecoveryDone, IdleWorker, ListInv, Working
    <2>3. QED
      BY <1>10, <2>1, <2>2
  <1>11. ASSUME NEW e \in Event, RecoverItem(e) PROVE ListInv'
    BY <1>11 DEF RecoverItem, ListInv, Working, WorkerThread
  <1>12. CASE PipelineSaveFails \/ UNCHANGED vars \/ \E e \in Event : BackoffPasses(e)
    <2>1. UNCHANGED <<outbox, signals, worker>>
      BY <1>12 DEF PipelineSaveFails, BackoffPasses, vars, outboxVars
    <2>2. QED
      BY <2>1 DEF ListInv, Working, Attended, InHand, Delivered
  <1>13. QED
    BY <1>1, <1>2, <1>3, <1>4, <1>5, <1>6, <1>7, <1>8, <1>9, <1>10, <1>11, <1>12
    DEF Next, WorkerStep, DiskError

(* Promoted results go first: when a live batch is next, the list holds none *)
(* any more, so a maintenance event that is attended to has its signal up.   *)
LEMMA ListPreempts == TypeOK /\ ListInv => MaintenancePreempts
  <1> SUFFICES ASSUME TypeOK, ListInv, NEW e \in Event, NEW f \in Event,
                      worker.pc = "next", e \in worker.batch,
                      \A g \in worker.batch : Goes(e, g), KeyOf[e] = NoKey,
                      outbox[f].status = "pending", KeyOf[f] \in Key \ Delivered,
                      KeyOf[f] \notin signals
               PROVE  FALSE
    BY DEF MaintenancePreempts
  <1>1. Working /\ ~ Handling
    BY DEF Working, Handling, Recovering
  <1>2. PICK h \in worker.promoted : h \in worker.batch
    BY <1>1 DEF ListInv, Attended, InHand
  <1>3. e \in worker.promoted
    BY <1>2 DEF Goes
  <1>4. QED
    BY <1>1, <1>3, EventAssumption DEF ListInv

(* However the two threads interleave, a maintenance event with a pending    *)
(* result preempts the live backlog after at most one more item: the signals *)
(* are forgotten only before the outbox is listed or when all of them are    *)
(* of events already delivered.                                              *)
THEOREM MaintenanceGoesFirst == Spec => []MaintenancePreempts
  <1>1. Init => OutcomeInv /\ ListInv
    BY DEF Init, IdleWorker, OutcomeInv, ListInv, Working, Handling
  <1>2. IInv /\ OutcomeInv /\ ListInv /\ [Next]_vars => OutcomeInv' /\ ListInv'
    BY OutcomeStep, ListStep DEF IInv
  <1>3. IInv /\ ListInv => MaintenancePreempts
    BY ListPreempts DEF IInv
  <1>4. QED
    BY <1>1, <1>2, <1>3, Invariance, PTL DEF Spec

-----------------------------------------------------------------------------
(* The generator's side of the delivery.                                   *)

(* What is in hand or settled is told as before, but for the item whose     *)
(* outcome is saved.                                                        *)
LEMMA ToldStep ==
  ASSUME TypeOK, WorkerInv, [Next]_vars, ~ SettleItem
  PROVE  Told' = Told
  <1> outbox \in [Event -> Item] /\ worker \in WorkerThread
    BY DEF TypeOK
  <1>1. \A e \in Event : Settled(e) => outbox'[e] = outbox[e]
    BY OutboxSteps
  <1>2. \A e \in Event : ~ Settled(e) => outbox'[e].status \notin {"sent", "failed"}
    <2>1. CASE PipelineStep
      BY <2>1, PipelineLeavesWorker DEF Settled
    <2>2. CASE \E f \in Event : MarkSending(f)
      BY <2>2 DEF MarkSending, Settled, Item
    <2>3. CASE \E f \in Event : RecoverItem(f)
      BY <2>3 DEF RecoverItem, Settled, Item
    <2>4. CASE UNCHANGED outbox
      BY <2>4 DEF Settled
    <2>5. QED
      BY <2>1, <2>2, <2>3, <2>4
      DEF Next, WorkerStep, DiskError, ConsumeSignals, ListItems, ReadRunState, WriteRunState,
          Post, CheckSignals, RecoveryDone, PipelineSaveFails, WriteRunStateFails, SaveSentFails,
          WorkerSaveFails, BackoffPasses, Restart, outboxVars, vars
  <1>3. QED
    BY <1>1, <1>2 DEF Settled, Told

(* Only a POST takes a receipt further. *)
LEMMA ReceiptStep ==
  ASSUME TypeOK, WorkerInv, [Next]_vars
  PROVE  /\ receipt' \in [Event -> Delivery!Receipt]
         /\ \A e \in Event : receipt'[e] \in Delivery!Becomes(receipt[e])
  <1>1. CASE UNCHANGED receipt
    BY <1>1 DEF TypeOK, Delivery!Receipt, Delivery!Becomes
  <1>2. ASSUME NEW becomes, NEW answer, Post(becomes, answer) PROVE worker.event \in Event
    BY <1>2 DEF Post, WorkerInv, Handling
  <1>3. CASE \E becomes \in {"none"} \cup Receipts,
                answer \in {"ok", "retryable", "final"} : Post(becomes, answer)
    BY <1>2, <1>3, PostedReceipt
  <1>4. CASE PipelineStep
    BY <1>1, <1>4, PipelineLeavesWorker
  <1>5. QED
    BY <1>1, <1>3, <1>4
    DEF Next, WorkerStep, DiskError, ConsumeSignals, ListItems, MarkSending, ReadRunState,
        WriteRunState, SettleItem, CheckSignals, RecoverItem, RecoveryDone, PipelineSaveFails,
        WriteRunStateFails, SaveSentFails, WorkerSaveFails, BackoffPasses, Restart, receiverVars, vars

(* Every step is one of the delivery, or none that it sees. *)
LEMMA DeliveryStep ==
  ASSUME IInv, [Next]_vars
  PROVE  [Delivery!Next]_(Delivery!vars)
  <1> TypeOK /\ WorkerInv /\ outbox \in [Event -> Item]
    BY DEF IInv, TypeOK
  <1>1. CASE SettleItem
    <2> DEFINE e == worker.event
    <2>1. /\ e \in Event /\ outbox[e].status = "sending"
          /\ worker.status \in {"sent", "retry_wait", "failed"}
          /\ worker.status = "sent" => receipt[e] \in Delivery!Closed
      BY <1>1 DEF SettleItem, WorkerInv, Handling
    <2>2. /\ outbox'[e].status = worker.status
          /\ \A f \in Event : f # e => outbox'[f] = outbox[f]
          /\ receipt' = receipt
      BY <1>1, <2>1 DEF SettleItem, Item, receiverVars
    <2> HIDE DEF e
    <2>3. Told[e] = "open"
      BY <2>1 DEF Told
    <2>4. CASE worker.status = "sent"
      <3>1. Told' = [Told EXCEPT ![e] = "delivered"]
        BY <2>1, <2>2, <2>4 DEF Told
      <3>2. Delivery!Deliver(e)
        BY <2>1, <2>2, <2>3, <2>4, <3>1 DEF Delivery!Deliver, Delivery!Settle
      <3>3. QED
        BY <2>1, <3>2 DEF Delivery!Next
    <2>5. CASE worker.status = "failed"
      <3>1. Told' = [Told EXCEPT ![e] = "abandoned"]
        BY <2>1, <2>2, <2>5 DEF Told
      <3>2. Delivery!Abandon(e)
        BY <2>2, <2>3, <3>1 DEF Delivery!Abandon, Delivery!Settle
      <3>3. QED
        BY <2>1, <3>2 DEF Delivery!Next
    <2>6. CASE worker.status = "retry_wait"
      <3>1. Told' = Told
        BY <2>1, <2>2, <2>6 DEF Told
      <3>2. QED
        BY <2>2, <3>1 DEF Delivery!vars
    <2>7. QED
      BY <2>1, <2>4, <2>5, <2>6
  <1>2. CASE ~ SettleItem
    <2>1. Told' = Told
      BY <1>2, ToldStep
    <2>2. Delivery!Advance
      BY <2>1, ReceiptStep DEF Delivery!Advance
    <2>3. QED
      BY <2>2 DEF Delivery!Next
  <1>3. QED
    BY <1>1, <1>2

(* The generator keeps its side of the delivery, for any sources, batches    *)
(* and bounds: with its threads, retries, failed saves and restarts it takes *)
(* for delivered only a batch the backend is done with, and for good.        *)
THEOREM DeliveryImplemented == Spec => ImplementsDelivery
  <1>1. Init => Delivery!Init
    BY DEF Init, Delivery!Init, Told, NoItem
  <1>2. IInv /\ [Next]_vars => [Delivery!Next]_(Delivery!vars)
    BY DeliveryStep
  <1>3. QED
    BY <1>1, <1>2, Invariance, PTL DEF Spec, ImplementsDelivery, Delivery!Spec
=============================================================================
