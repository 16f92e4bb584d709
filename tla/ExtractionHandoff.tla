------------------------- MODULE ExtractionHandoff -------------------------
(***************************************************************************)
(* From a published dataset to a row of the runtime queue:                 *)
(* ExtractionRuntimeHandoffService, the status directories of              *)
(* ExtractionHandoffRepository and the cycles of ExtractionHandoffWorker.  *)
(*                                                                         *)
(* A handoff is a file <status>/<handoff_id>.json, moved from directory to *)
(* directory.  The worker and the extraction manager call the service on   *)
(* the event loop, one call after the other; the retry endpoint is a plain *)
(* def that FastAPI runs in a thread, beside them.  The queue is seen      *)
(* through what get_item and enqueue tell of one source (RuntimeQueue has  *)
(* the rest of it).  The real get_item never raises                        *)
(* PipelineQueuePersistError: the branch for it is left out.               *)
(***************************************************************************)
EXTENDS Naturals, FiniteSets

CONSTANTS
  Handoffs,     \* handoff ids, one for each published dataset
  Loop,         \* the event loop
  Requests,     \* the threads that serve POST .../handoffs/{id}/retry
  MaxRetries,   \* PATHS.extraction_handoff_max_retries
  MaxStarts,    \* bound on the number of process starts
  MaxFaults     \* bound on the file and SQLite operations that raise

ASSUME HandoffAssumption ==
  /\ Loop \notin Requests
  /\ MaxRetries \in Nat \ {0}
  /\ MaxStarts \in Nat
  /\ MaxFaults \in Nat

VARIABLES
  files,     \* the record files: status directory, handoff, attempt_count
  job,       \* the queue row under the handoff's runtime job id
  rival,     \* a row with the same source under another job id
  up,        \* the process runs
  enabled,   \* PATHS.runtime_prediction_enabled of this process
  pc,        \* what each thread is doing
  at,        \* the handoff it has in hand,
  st,        \* the status of the record in its hand
  att,       \* and that record's attempt_count
  old,       \* the directory its save found the record in
  trying,    \* it is inside process_handoff's try
  batch,     \* the candidates the worker's cycle has still to deliver
  created,   \* history: handoffs whose first save returned
  cut,       \* history: handoffs one of whose deliveries was cut short
  starts,    \* process starts so far
  faults     \* operations that raised so far

store  == <<files, job, rival>>
hand   == <<at, st, att>>
thread == <<pc, hand, old, trying>>
hist   == <<created, cut>>
proc   == <<up, enabled, starts>>
vars   == <<store, thread, batch, hist, proc, faults>>

Threads  == {Loop} \union Requests
Status   == {"pending", "runtime_disabled", "enqueueing", "enqueued",
             "retry_wait", "blocked", "retry_exhausted"}
PolledNew == {"pending", "runtime_disabled"}   \* mutant
Polled   == {"pending", "runtime_disabled", "retry_wait"}
Final    == {"enqueued", "blocked", "retry_exhausted"}
Record   == [handoff : Handoffs, status : Status, attempt : Nat]
Row      == {"absent", "active", "succeeded", "failed", "foreign"}
Phase    == {"idle", "begin", "lookup", "save", "unlink", "replace", "enqueue", "recheck"}

TypeOK ==
  /\ files \subseteq Record
  /\ job \in [Handoffs -> Row]
  /\ rival \in [Handoffs -> Row \ {"foreign"}]
  /\ up \in BOOLEAN /\ enabled \in BOOLEAN
  /\ pc \in [Threads -> Phase]
  /\ at \in [Threads -> Handoffs]
  /\ st \in [Threads -> Status]
  /\ att \in [Threads -> Nat]
  /\ old \in [Threads -> Status \union {"none"}]
  /\ trying \in [Threads -> BOOLEAN]
  /\ batch \subseteq Record
  /\ created \subseteq Handoffs /\ cut \subseteq Handoffs
  /\ starts \in Nat /\ faults \in Nat

(* A row that the handoff's own enqueue made: unreadable rows and rows of *)
(* another context under the same job id are "foreign".                   *)
Queued(h) == job[h] \in {"active", "succeeded", "failed"}
Registered(h) == Queued(h) \/ rival[h] # "absent"

(* The order of STATUS_SUBDIRS, in which find_handoff_by_id looks. *)
Rank == [s \in Status |->
  CASE s = "pending" -> 1 [] s = "runtime_disabled" -> 2 [] s = "enqueueing" -> 3
    [] s = "enqueued" -> 4 [] s = "retry_wait" -> 5 [] s = "blocked" -> 6
    [] OTHER -> 7]
Of(h)       == {r \in files : r.handoff = h}
Finds(r, h) == r \in Of(h) /\ \A q \in Of(h) : Rank[r.status] <= Rank[q.status]

Init ==
  /\ files = {}
  /\ job \in [Handoffs -> {"absent", "foreign"}]
  /\ rival = [h \in Handoffs |-> "absent"]
  /\ up = FALSE /\ enabled = FALSE
  /\ pc = [t \in Threads |-> "idle"]
  /\ at \in {[t \in Threads |-> h] : h \in Handoffs}
  /\ st = [t \in Threads |-> "pending"]
  /\ att = [t \in Threads |-> 0]
  /\ old = [t \in Threads |-> "none"]
  /\ trying = [t \in Threads |-> FALSE]
  /\ batch = {} /\ created = {} /\ cut = {}
  /\ starts = 0 /\ faults = 0

-----------------------------------------------------------------------------
Go(t, phase)  == pc' = [pc EXCEPT ![t] = phase]
Take(t, r) ==
  /\ at' = [at EXCEPT ![t] = r.handoff]
  /\ st' = [st EXCEPT ![t] = r.status]
  /\ att' = [att EXCEPT ![t] = r.attempt]
Becomes(t, s) == st' = [st EXCEPT ![t] = s] /\ UNCHANGED <<at, att>>
Return(t) ==
  /\ Go(t, "idle")
  /\ st' = [st EXCEPT ![t] = "pending"] /\ att' = [att EXCEPT ![t] = 0]
  /\ UNCHANGED at

(* create_or_get_handoff of a dataset the extraction cycle has published: *)
(* the record that exists, or a new one, to be saved first.               *)
Create(h) ==
  /\ up /\ pc[Loop] = "idle" /\ batch = {}
  /\ \/ \E r \in files : Finds(r, h) /\ enabled /\ Take(Loop, r) /\ Go(Loop, "begin")
     \/ /\ Of(h) = {}
        /\ Take(Loop, [handoff |-> h, attempt |-> 0,
                       status |-> IF enabled THEN "pending" ELSE "runtime_disabled"])
        /\ Go(Loop, "save")
  /\ UNCHANGED <<store, old, trying, batch, hist, proc, faults>>

(* run_single_cycle: the candidates, all read before the first delivery. *)
Poll ==
  /\ up /\ pc[Loop] = "idle" /\ batch = {}
  /\ batch' = {r \in files : r.status \in Polled}
  /\ batch' # {}
  /\ UNCHANGED <<store, thread, hist, proc, faults>>

Deliver ==
  /\ up /\ pc[Loop] = "idle"
  /\ \E r \in batch : batch' = batch \ {r} /\ Take(Loop, r)
  /\ Go(Loop, "begin")
  /\ UNCHANGED <<store, old, trying, hist, proc, faults>>

(* retry_extraction_handoff: refused for a blocked record. *)
Retry(t, h) ==
  /\ up /\ t \in Requests /\ pc[t] = "idle"
  /\ \E r \in files : Finds(r, h) /\ r.status # "blocked" /\ Take(t, r)
  /\ Go(t, "begin")
  /\ UNCHANGED <<store, old, trying, batch, hist, proc, faults>>

-----------------------------------------------------------------------------
(* process_handoff *)

(* Final records are left alone, and so are all while predictions are off. *)
Begin(t) ==
  /\ up /\ pc[t] = "begin"
  /\ \/ st[t] \in Final /\ Return(t)
     \/ st[t] \notin Final /\ enabled /\ Go(t, "lookup") /\ UNCHANGED hand
     \/ st[t] = "runtime_disabled" /\ ~ enabled /\ Return(t)
     \/ /\ st[t] \notin Final \union {"runtime_disabled"} /\ ~ enabled
        /\ Becomes(t, "runtime_disabled") /\ Go(t, "save")
  /\ UNCHANGED <<store, old, trying, batch, hist, proc, faults>>

(* _get_existing_queue_item and _validate_queue_context_and_heal: what a row *)
(* under the runtime job id makes of the handoff.                            *)
HealedUnread(t) == IF job[at[t]] # "absent" THEN "enqueued" ELSE "blocked"   \* mutant
Healed(t) == IF Queued(at[t]) THEN "enqueued" ELSE "blocked"

(* The row is looked up: absent, so the handoff is saved as enqueueing and *)
(* enqueued; or there, so the handoff is healed, or blocked.               *)
Lookup(t) ==
  /\ up /\ pc[t] = "lookup"
  /\ Becomes(t, IF job[at[t]] = "absent" THEN "enqueueing" ELSE Healed(t))
  /\ Go(t, "save")
  /\ UNCHANGED <<store, old, trying, batch, hist, proc, faults>>

(* get_item raises (SQLite): an unknown error, and the handoff is blocked. *)
LookupRaises(t) ==
  /\ up /\ pc[t] \in {"lookup", "recheck"} /\ faults < MaxFaults
  /\ Becomes(t, "blocked") /\ Go(t, "save")
  /\ trying' = [trying EXCEPT ![t] = FALSE]
  /\ faults' = faults + 1
  /\ UNCHANGED <<store, old, batch, hist, proc>>

(* PipelineManager.enqueue; the table knows the source, or takes the row. *)
Enqueue(t) ==
  /\ up /\ pc[t] = "enqueue"
  /\ ~ Registered(at[t]) /\ job[at[t]] = "absent"
  /\ job' = [job EXCEPT ![at[t]] = "active"]
  /\ Becomes(t, "enqueued") /\ Go(t, "save")
  /\ trying' = [trying EXCEPT ![t] = TRUE]
  /\ UNCHANGED <<files, rival, old, batch, hist, proc, faults>>

(* The except branch: one more attempt, unless they are used up; an error *)
(* that is not retryable blocks the handoff.                              *)
Exhausted(t) == att[t] + 1 >= MaxRetries
ClassifyUnsaved(t, retryable) ==   \* mutant
  /\ Return(t)
  /\ trying' = [trying EXCEPT ![t] = FALSE]
Classify(t, retryable) ==
  /\ IF retryable
     THEN /\ st' = [st EXCEPT ![t] = IF Exhausted(t) THEN "retry_exhausted" ELSE "retry_wait"]
          /\ att' = [att EXCEPT ![t] = @ + 1]
          /\ UNCHANGED at
     ELSE Becomes(t, "blocked")
  /\ Go(t, "save")
  /\ trying' = [trying EXCEPT ![t] = FALSE]

(* The source is known: registered or duplicate inputs are looked up again, *)
(* an input already processed is a final error.                             *)
SucceededSource(h) == "succeeded" \in {job[h], rival[h]}
EnqueueRefused(t) ==
  /\ up /\ pc[t] = "enqueue" /\ Registered(at[t])
  /\ IF SucceededSource(at[t])
     THEN Classify(t, FALSE)
     ELSE Go(t, "recheck") /\ UNCHANGED <<hand, trying>>
  /\ UNCHANGED <<store, old, batch, hist, proc, faults>>

EnqueueRaises(t) ==
  /\ up /\ pc[t] = "enqueue" /\ faults < MaxFaults
  /\ faults' = faults + 1
  /\ Classify(t, TRUE)
  /\ UNCHANGED <<store, old, batch, hist, proc>>

Recheck(t) ==
  /\ up /\ pc[t] = "recheck"
  /\ IF job[at[t]] = "absent"
     THEN Classify(t, FALSE)
     ELSE Becomes(t, Healed(t)) /\ Go(t, "save") /\ UNCHANGED trying
  /\ UNCHANGED <<store, old, batch, hist, proc, faults>>

-----------------------------------------------------------------------------
(* save_handoff: the old file is removed, then the new one moved in place. *)

SaveFind(t) ==
  \/ \E r \in files : Finds(r, at[t]) /\ old' = [old EXCEPT ![t] = r.status]
  \/ Of(at[t]) = {} /\ old' = [old EXCEPT ![t] = "none"]

SaveBegin(t) ==
  /\ up /\ pc[t] = "save"
  /\ SaveFind(t)
  /\ Go(t, "unlink")
  /\ UNCHANGED <<store, hand, trying, batch, hist, proc, faults>>

InOld(t) == {r \in Of(at[t]) : r.status = old[t] /\ old[t] # st[t]}
SaveUnlinkKeepsFinal(t) ==   \* mutant
  /\ up /\ pc[t] = "unlink"
  /\ files' = files \ InOld(t)
  /\ IF old[t] \in Final THEN Return(t) ELSE Go(t, "replace") /\ UNCHANGED hand
  /\ UNCHANGED <<job, rival, old, trying, batch, hist, proc, faults>>

SaveUnlink(t) ==
  /\ up /\ pc[t] = "unlink"
  /\ \/ files' = files \ InOld(t) /\ UNCHANGED faults
     \/ faults < MaxFaults /\ faults' = faults + 1 /\ UNCHANGED files
  /\ Go(t, "replace")
  /\ UNCHANGED <<job, rival, hand, old, trying, batch, hist, proc>>

(* os.replace; a new record and one saved as enqueueing go on, the others *)
(* are where process_handoff returns or raises.                           *)
SaveReplace(t) ==
  /\ up /\ pc[t] = "replace"
  /\ files' = {r \in files : r.handoff # at[t] \/ r.status # st[t]}
                \union {[handoff |-> at[t], status |-> st[t], attempt |-> att[t]]}
  /\ created' = created \union {at[t]}
  /\ old' = [old EXCEPT ![t] = "none"]
  /\ trying' = [trying EXCEPT ![t] = FALSE]
  /\ \/ st[t] = "pending" /\ Go(t, "begin") /\ UNCHANGED hand
     \/ st[t] = "enqueueing" /\ Go(t, "enqueue") /\ UNCHANGED hand
     \/ st[t] \notin {"pending", "enqueueing"} /\ Return(t)
  /\ UNCHANGED <<job, rival, batch, cut, proc, faults>>

(* A write raises, before or after the old file is gone: inside the try it *)
(* counts as a retryable error of the enqueue, elsewhere the call ends.    *)
SaveRaises(t) ==
  /\ up /\ pc[t] \in {"save", "replace"} /\ faults < MaxFaults
  /\ faults' = faults + 1
  /\ IF trying[t] THEN Classify(t, TRUE) ELSE Return(t) /\ UNCHANGED trying
  /\ old' = [old EXCEPT ![t] = "none"]
  /\ cut' = cut \union {at[t]}
  /\ UNCHANGED <<store, batch, created, proc>>

-----------------------------------------------------------------------------
(* The queue's other clients, and the process *)

(* POST /internal/runtime-pipeline/enqueue with the same source. *)
RivalEnqueued(h) ==
  /\ up /\ enabled /\ ~ Registered(h)
  /\ rival' = [rival EXCEPT ![h] = "active"]
  /\ UNCHANGED <<files, job, thread, batch, hist, proc, faults>>

(* PipelineWorker settles the job. *)
JobSettles(h) ==
  /\ up
  /\ \E end \in {"succeeded", "failed"} :
       \/ job[h] = "active" /\ job' = [job EXCEPT ![h] = end] /\ UNCHANGED rival
       \/ rival[h] = "active" /\ rival' = [rival EXCEPT ![h] = end] /\ UNCHANGED job
  /\ UNCHANGED <<files, thread, batch, hist, proc, faults>>

Busy(h) == {t \in Threads : at[t] = h /\ pc[t] \notin {"idle", "begin", "lookup"}}

Crash ==
  /\ up /\ starts < MaxStarts
  /\ up' = FALSE
  /\ cut' = cut \union {h \in Handoffs : Busy(h) # {}}
  /\ pc' = [t \in Threads |-> "idle"]
  /\ st' = [t \in Threads |-> "pending"] /\ att' = [t \in Threads |-> 0]
  /\ old' = [t \in Threads |-> "none"]
  /\ trying' = [t \in Threads |-> FALSE]
  /\ batch' = {}
  /\ UNCHANGED <<store, at, created, enabled, starts, faults>>

Start ==
  /\ ~ up /\ starts < MaxStarts
  /\ up' = TRUE /\ starts' = starts + 1
  /\ enabled' \in BOOLEAN
  /\ UNCHANGED <<store, thread, batch, hist, faults>>

Process(t) ==
  \/ Begin(t) \/ Lookup(t) \/ Enqueue(t) \/ EnqueueRefused(t) \/ Recheck(t)
  \/ SaveBegin(t) \/ SaveUnlink(t) \/ SaveReplace(t)
Raises(t) == LookupRaises(t) \/ EnqueueRaises(t) \/ SaveRaises(t)

Next ==
  \/ \E h \in Handoffs : Create(h) \/ RivalEnqueued(h) \/ JobSettles(h)
  \/ \E t \in Requests, h \in Handoffs : Retry(t, h)
  \/ Poll \/ Deliver
  \/ \E t \in Threads : Process(t) \/ Raises(t)
  \/ Crash \/ Start

Spec == Init /\ [][Next]_vars

(* The event loop keeps polling, and every thread runs on. *)
FairSpec ==
  /\ Spec
  /\ WF_vars(Poll) /\ WF_vars(Deliver) /\ WF_vars(Start)
  /\ \A t \in Threads : WF_vars(Process(t))

-----------------------------------------------------------------------------
(* A record in enqueued is the truth: the queue holds the handoff's job.   *)
(* Two files, two threads and a queue relate: the record is written after  *)
(* the row in each of the three ways that lead there.                      *)
EnqueuedIsQueued ==
  \A r \in files : r.status = "enqueued" => Queued(r.handoff)

(* The threads that move one record between directories never lose it: it  *)
(* is gone only while a save is between its two file operations, or since  *)
(* a save was cut short there.                                             *)
RecordKept ==
  \A h \in created \ cut :
    Of(h) # {} \/ \E t \in Threads : at[t] = h /\ pc[t] = "replace"

(* A handoff left with no record but one in enqueueing, which no cycle     *)
(* polls, has a row in the queue or a thread that will move it on, unless  *)
(* its delivery was cut short.                                             *)
EnqueueingAttended ==
  \A h \in created \ cut :
    (\A r \in Of(h) : r.status = "enqueueing") => Queued(h) \/ Busy(h) # {}

(* Every handoff is decided while predictions are enabled, unless a        *)
(* delivery of it was cut short.                                           *)
EveryHandoffDecided ==
  \A h \in Handoffs :
    h \in created ~> \/ Queued(h) \/ \E r \in files : r.handoff = h /\ r.status \in Final
                     \/ ~ enabled \/ h \in cut
=============================================================================
