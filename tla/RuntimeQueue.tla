---------------------------- MODULE RuntimeQueue ----------------------------
(***************************************************************************)
(* The Generator's persistent prediction queue and its single consumer:    *)
(* PipelineQueue (one SQLite table, queue_items), PipelineWorker (one      *)
(* thread) and the start/stop life cycle of PipelineManager.               *)
(*                                                                         *)
(* Every PipelineQueue method runs under one lock and one transaction, so  *)
(* it is one action.  The worker, the HTTP handlers that enqueue, retry or *)
(* list, and the death of the process interleave between those actions.    *)
(* A call that is refused leaves the table as it was and is a stutter.     *)
(***************************************************************************)
EXTENDS Naturals, Sequences, FiniteSets

CONSTANTS
  Jobs,           \* job ids (primary key of queue_items)
  Inputs,         \* canonical runtime inputs a job can carry
  SourceIdentity, \* compute_source_identity of each input
  DedupKey,       \* "<normalized uri>:<checksum>" of each input
  ReplayEvent,    \* maintenance event each input replays, or NoEvent
  NoEvent,
  NoJob,
  Legacy,         \* jobs an earlier release left, whose rows _row_to_item rejects
  LegacyInput,    \* the input each of them carries
  LegacySeq,      \* the sequence number each of them has
  MaxAttempts,    \* PATHS.pipeline_max_attempts
  MaxRestarts,    \* bound on the number of process starts
  MaxStoreErrors  \* bound on the settling writes to SQLite that raise

ASSUME QueueAssumption ==
  /\ IsFiniteSet(Jobs)
  /\ NoJob \notin Jobs
  /\ Inputs # {}
  /\ DOMAIN SourceIdentity = Inputs
  /\ DOMAIN DedupKey = Inputs
  /\ DOMAIN ReplayEvent = Inputs
  /\ Legacy \subseteq Jobs
  /\ LegacyInput \in [Legacy -> Inputs]
  /\ LegacySeq \in [Legacy -> 1..Cardinality(Jobs)]
  /\ \A j, k \in Legacy : j # k =>
        /\ LegacySeq[j] # LegacySeq[k]
        /\ SourceIdentity[LegacyInput[j]] # SourceIdentity[LegacyInput[k]]
        /\ DedupKey[LegacyInput[j]] # DedupKey[LegacyInput[k]]
  /\ MaxAttempts \in Nat \ {0}
  /\ MaxRestarts \in Nat
  /\ MaxStoreErrors \in Nat

VARIABLES
  status,      \* status of each row, "absent" where there is none
  input,       \* the runtime input of each row
  path,        \* the jobs whose "archived:<job>:" prefixes the row's keys carry
  seq,         \* FIFO sequence
  attempt,     \* attempt counter
  retryOf,     \* retry_of_job_id
  up,          \* the process: "down", "up" or "stopping" (stop event set)
  pc,          \* what the worker thread is doing
  wjob,        \* PipelineWorker._current_job
  wattempt,    \* its attempt, as read when it was claimed
  stranded,    \* history: rows whose settling write raised since the last start
  restarts,    \* process starts so far
  storeErrors  \* settling writes that raised so far

rows   == <<status, input, path, seq, attempt, retryOf>>
worker == <<pc, wjob, wattempt>>
vars   == <<rows, up, worker, stranded, restarts, storeErrors>>

RowStatus == {"absent", "queued", "running", "succeeded", "failed", "dead_letter"}
Terminal  == {"succeeded", "failed", "dead_letter"}
Seqs      == 1..Cardinality(Jobs)

TypeOK ==
  /\ status \in [Jobs -> RowStatus]
  /\ input \in [Jobs -> Inputs]
  /\ path \in [Jobs -> Seq(Jobs)]
  /\ seq \in [Jobs -> Nat]
  /\ attempt \in [Jobs -> Nat]
  /\ retryOf \in [Jobs -> Jobs \union {NoJob}]
  /\ up \in {"down", "up", "stopping"}
  /\ pc \in {"idle", "executing", "executed", "backoff", "failing"}
  /\ wjob \in Jobs \union {NoJob}
  /\ wattempt \in Nat
  /\ stranded \subseteq Jobs
  /\ restarts \in Nat
  /\ storeErrors \in Nat

-----------------------------------------------------------------------------
Present(j)     == status[j] # "absent"
Readable(j)    == j \notin Legacy
IdentityKey(j) == <<path[j], SourceIdentity[input[j]]>>
RowDedup(j)    == <<path[j], DedupKey[input[j]]>>

(* COALESCE(MAX(sequence), 0) + 1 *)
IsNextSeq(s) ==
  /\ \A k \in Jobs : Present(k) => seq[k] < s
  /\ s = 1 \/ \E k \in Jobs : Present(k) /\ s = seq[k] + 1

(* Mutants of the definitions below: what a plausible bug would make of them. *)
FirstReplayForever(j)    == ReplayEvent[input[j]] # NoEvent
ActiveSource(i) ==
  \E k \in Jobs : /\ status[k] \in {"queued", "running", "succeeded"}
                  /\ IdentityKey(k) = <<<<>>, SourceIdentity[i]>>
RecoversNothing          == {}
RecoversFailed           == {"running", "failed"}
OneAttemptMore(retryable) == retryable /\ wattempt <= MaxAttempts

(* The statuses retry_failed_job accepts, and those a start recovers. *)
Retriable == {"failed", "dead_letter"}
Recovered == {"running"}

(* enqueue's lookup: some row, in whatever status, holds the identity. *)
KnownSource(i) ==
  \E k \in Jobs : Present(k) /\ IdentityKey(k) = <<<<>>, SourceIdentity[i]>>

(* process_one's choice between another attempt and failure *)
RetryAllowed(retryable) == retryable /\ wattempt < MaxAttempts

(* The CASE of claim_next's ORDER BY: 0 for the replay of a maintenance event *)
(* none of whose replays has succeeded, 1 for everything else.                *)
FirstReplay(j) ==
  /\ ReplayEvent[input[j]] # NoEvent
  /\ ~ \E k \in Jobs : /\ status[k] = "succeeded"
                       /\ ReplayEvent[input[k]] = ReplayEvent[input[j]]
Rank(j) == IF FirstReplay(j) THEN 0 ELSE 1

ClaimOrder(j, k) ==
  \/ Rank(j) < Rank(k)
  \/ Rank(j) = Rank(k) /\ seq[j] <= seq[k]

Init ==
  /\ \E old \in [Legacy -> RowStatus \ {"absent"}] :
        status = [j \in Jobs |-> IF j \in Legacy THEN old[j] ELSE "absent"]
  /\ input = [j \in Jobs |-> IF j \in Legacy THEN LegacyInput[j] ELSE CHOOSE i \in Inputs : TRUE]
  /\ path = [j \in Jobs |-> <<>>]
  /\ seq = [j \in Jobs |-> IF j \in Legacy THEN LegacySeq[j] ELSE 0]
  /\ attempt = [j \in Jobs |-> IF j \in Legacy THEN 1 ELSE 0]
  /\ retryOf = [j \in Jobs |-> NoJob]
  /\ up = "down"
  /\ pc = "idle" /\ wjob = NoJob /\ wattempt = 0
  /\ stranded = {} /\ restarts = 0 /\ storeErrors = 0

-----------------------------------------------------------------------------
(* PipelineQueue: handlers of the HTTP API and the extraction handoff *)

(* A new row: queued, attempt 1, next sequence. *)
Insert(j, i, p, orig) ==
  /\ ~ Present(j)
  /\ \E s \in Seqs : IsNextSeq(s) /\ seq' = [seq EXCEPT ![j] = s]
  /\ input' = [input EXCEPT ![j] = i]
  /\ attempt' = [attempt EXCEPT ![j] = 1]
  /\ retryOf' = [retryOf EXCEPT ![j] = orig]

(* enqueue: the source is unknown, and the table refuses a second row with *)
(* the same dedup_key (the same bytes at the same uri).                    *)
Enqueue(j, i) ==
  /\ up # "down"
  /\ ~ KnownSource(i)
  /\ \A k \in Jobs : Present(k) => RowDedup(k) # <<<<>>, DedupKey[i]>>
  /\ Insert(j, i, <<>>, NoJob)
  /\ status' = [status EXCEPT ![j] = "queued"]
  /\ path' = [path EXCEPT ![j] = <<>>]
  /\ UNCHANGED <<up, worker, stranded, restarts, storeErrors>>

(* retry_failed_job: in one transaction the failed row's keys get one more *)
(* "archived:<job>:" prefix and a new job takes over the old keys.         *)
RetryFailed(j, n) ==
  /\ up # "down"
  /\ status[j] \in Retriable
  /\ Readable(j)
  /\ \A k \in Jobs \ {j} : Present(k) =>
        /\ RowDedup(k) # RowDedup(j)
        /\ RowDedup(k) # <<<<j>> \o path[j], DedupKey[input[j]]>>
  /\ Insert(n, input[j], path[j], j)
  /\ status' = [status EXCEPT ![n] = "queued"]
  /\ path' = [path EXCEPT ![j] = <<j>> \o path[j], ![n] = path[j]]
  /\ UNCHANGED <<up, worker, stranded, restarts, storeErrors>>

(* get_item, list_items and retry_failed_job all go through _row_to_item, *)
(* which dead-letters a row it cannot read, whatever its status.          *)
ReadUnreadable(j) ==
  /\ up # "down"
  /\ Present(j) /\ ~ Readable(j)
  /\ status' = [status EXCEPT ![j] = "dead_letter"]
  /\ UNCHANGED <<input, path, seq, attempt, retryOf, up, worker, stranded, restarts, storeErrors>>

-----------------------------------------------------------------------------
(* PipelineWorker *)

IsNext(j) ==
  /\ status[j] = "queued"
  /\ \A k \in Jobs : status[k] = "queued" => ClaimOrder(j, k)

(* claim_next: the first queued row becomes running. *)
Claim(j) ==
  /\ up = "up" /\ pc = "idle"
  /\ IsNext(j) /\ Readable(j)
  /\ status' = [status EXCEPT ![j] = "running"]
  /\ pc' = "executing" /\ wjob' = j /\ wattempt' = attempt[j]
  /\ UNCHANGED <<input, path, seq, attempt, retryOf, up, stranded, restarts, storeErrors>>

(* claim_next on an unreadable row: dead-lettered under the same lock. *)
ClaimUnreadable(j) ==
  /\ up = "up" /\ pc = "idle"
  /\ IsNext(j) /\ ~ Readable(j)
  /\ status' = [status EXCEPT ![j] = "dead_letter"]
  /\ UNCHANGED <<input, path, seq, attempt, retryOf, up, worker, stranded, restarts, storeErrors>>

(* execute_queue_item returns, or raises a retryable or a final error. *)
Execute ==
  /\ up # "down" /\ pc = "executing"
  /\ \/ pc' = "executed"
     \/ \E retryable \in BOOLEAN :
           pc' = IF RetryAllowed(retryable) THEN "backoff" ELSE "failing"
  /\ UNCHANGED <<rows, up, wjob, wattempt, stranded, restarts, storeErrors>>

(* The write that settles wjob; process_one forgets the job in its finally. *)
Settle(from, st, bump) ==
  /\ up # "down" /\ pc = from
  /\ status' = [status EXCEPT ![wjob] = st]
  /\ attempt' = [attempt EXCEPT ![wjob] = @ + bump]
  /\ pc' = "idle" /\ wjob' = NoJob
  /\ UNCHANGED <<input, path, seq, retryOf, up, wattempt, stranded, restarts, storeErrors>>

MarkSucceeded == Settle("executed", "succeeded", 0)
MarkRetryWait == Settle("backoff", "queued", 1)
MarkFailed    == Settle("failing", "failed", 0)

(* mark_succeeded raises inside process_one's try: a non-retryable failure. *)
MarkSucceededRaises ==
  /\ up # "down" /\ pc = "executed" /\ storeErrors < MaxStoreErrors
  /\ pc' = "failing"
  /\ storeErrors' = storeErrors + 1
  /\ UNCHANGED <<rows, up, wjob, wattempt, stranded, restarts>>

(* mark_retry_wait or mark_failed raises out of process_one: the loop goes *)
(* on to the next claim and the row stays running until the next start.    *)
SettleRaises ==
  /\ up # "down" /\ pc \in {"backoff", "failing"} /\ storeErrors < MaxStoreErrors
  /\ stranded' = stranded \union {wjob}
  /\ pc' = "idle" /\ wjob' = NoJob
  /\ storeErrors' = storeErrors + 1
  /\ UNCHANGED <<rows, up, wattempt, restarts>>

-----------------------------------------------------------------------------
(* PipelineManager *)

(* start: recover_running_on_startup, then the worker thread. *)
Start ==
  /\ up = "down" /\ restarts < MaxRestarts
  /\ up' = "up"
  /\ status' = [j \in Jobs |-> IF status[j] \in Recovered THEN "queued" ELSE status[j]]
  /\ attempt' = [j \in Jobs |-> attempt[j] + (IF status[j] \in Recovered THEN 1 ELSE 0)]
  /\ stranded' = {}
  /\ restarts' = restarts + 1
  /\ UNCHANGED <<input, path, seq, retryOf, worker, storeErrors>>

(* stop: the stop event; the worker finishes its job and claims no other. *)
Stop ==
  /\ up = "up" /\ restarts < MaxRestarts
  /\ up' = "stopping"
  /\ UNCHANGED <<rows, worker, stranded, restarts, storeErrors>>

(* The process ends: after stop's join, its timeout, or a crash.  The daemon *)
(* thread and what it held in memory are gone.                               *)
Exit ==
  /\ up # "down" /\ restarts < MaxRestarts
  /\ up' = "down"
  /\ pc' = "idle" /\ wjob' = NoJob /\ wattempt' = 0
  /\ UNCHANGED <<rows, stranded, restarts, storeErrors>>

WorkerStep ==
  \/ \E j \in Jobs : Claim(j) \/ ClaimUnreadable(j)
  \/ Execute
  \/ MarkSucceeded
  \/ MarkRetryWait
  \/ MarkFailed

Next ==
  \/ \E j \in Jobs, i \in Inputs : Enqueue(j, i)
  \/ \E j, n \in Jobs : RetryFailed(j, n)
  \/ \E j \in Jobs : ReadUnreadable(j)
  \/ WorkerStep
  \/ MarkSucceededRaises
  \/ SettleRaises
  \/ Start
  \/ Stop
  \/ Exit

Spec == Init /\ [][Next]_vars

(* The worker thread keeps polling, a process that was told to stop ends, *)
(* and its supervisor starts it again.                                    *)
Fairness ==
  /\ WF_vars(WorkerStep)
  /\ WF_vars(up = "stopping" /\ Exit)
  /\ WF_vars(Start)

FairSpec == Spec /\ Fairness

-----------------------------------------------------------------------------
(* The single consumer: while the process is up a row is running exactly     *)
(* when the worker thread holds it, or when the write that should have       *)
(* settled it raised.  The table does not enforce it; it follows from        *)
(* recovery at every start and from there being one consumer.                *)
RunningOwned ==
  up # "down" => \A j \in Jobs :
    status[j] = "running" <=> (pc # "idle" /\ j = wjob) \/ j \in stranded

(* Two rows never carry the same source_identity.  The column has no UNIQUE *)
(* constraint: enqueue's lookup and the archiving of retry_failed_job are   *)
(* all that keeps fetchone() from seeing an arbitrary one of two rows.      *)
UniqueSourceIdentity ==
  \A j, k \in Jobs : /\ Present(j) /\ Present(k)
                     /\ IdentityKey(j) = IdentityKey(k)
                     => j = k

(* A job is attempted at most MaxAttempts times, plus once per restart of *)
(* the process: recovery counts an attempt but never gives a job up.      *)
AttemptBound ==
  \A j \in Jobs \ Legacy : attempt[j] + 1 <= MaxAttempts + restarts

(* A retry stays traceable: it carries its original's input, is behind it in *)
(* the FIFO, and the original stays the failed record it was.                *)
RetryLineage ==
  \A j, n \in Jobs : retryOf[n] = j =>
    /\ input[n] = input[j]
    /\ seq[j] < seq[n]
    /\ status[j] \in {"failed", "dead_letter"}

(* A settled job is never taken up again: neither recovery, nor a late mark *)
(* of the worker (the marks have no status guard), nor a retry changes it.  *)
TerminalStable ==
  [][\A j \in Jobs : Readable(j) /\ status[j] \in Terminal => status'[j] = status[j]]_vars

(* What PipelineQueue documents of its claim order, seen by a job that waits *)
(* for its first attempt: whatever succeeded ahead of it although enqueued   *)
(* after it was the replay of a maintenance event, and only one snapshot of  *)
(* each event; the later snapshots stay behind the job, over any failures,   *)
(* retries, restarts and recoveries in between.                              *)
Waiting(k)  == status[k] = "queued" /\ attempt[k] = 1
Overtook(k) == {j \in Jobs \ Legacy : status[j] = "succeeded" /\ seq[k] < seq[j]}
OvertakenOnce ==
  \A k \in Jobs : Waiting(k) =>
    \A j, m \in Overtook(k) :
      /\ ReplayEvent[input[j]] # NoEvent
      /\ ReplayEvent[input[j]] = ReplayEvent[input[m]] => j = m

(* Every job that was accepted is settled in the end, over crashes, restarts *)
(* and retries, unless its settling write fails and no restart follows.      *)
EveryJobSettles ==
  \A j \in Jobs : status[j] \in {"queued", "running"}
                   ~> status[j] \in Terminal \/ j \in stranded
=============================================================================
