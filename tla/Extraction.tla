------------------------------ MODULE Extraction ------------------------------
(***************************************************************************)
(* Incremental extraction of one gen_data sensor stream and publication of *)
(* its UTC windows (systems/generator/app/extraction).  One cycle, started *)
(* by the polling worker or by POST /extraction, reads the records behind  *)
(* the checkpoint into a fragment, commits the checkpoint, assembles the   *)
(* windows that are closed, publishes each as a dataset, records which     *)
(* fragments it consumed, deletes those, and hands the datasets to the     *)
(* runtime.  Cycles of a source exclude each other; the process may die    *)
(* between any two writes, and each write may fail.                        *)
(*                                                                         *)
(* A record is its position in the stream and a batch is the interval of   *)
(* positions it covers, which determines its batch_id.  All records map:   *)
(* rejected ones, provenance and checksums are left out.                   *)
(***************************************************************************)
EXTENDS Integers, Sequences

CONSTANTS
  Stream,        \* the UTC window of each record, in file order
  Limits,        \* values of max_records
  MaxAttempts,   \* extraction_max_attempts
  MaxRestarts,   \* bound: process deaths
  MaxErrors      \* bound: failed writes

Total == Len(Stream)
Records == 1 .. Total
Windows == {Stream[i] : i \in Records}

(* gen_data appends in time order, so windows do not go back.              *)
ASSUME StreamAssumption ==
  /\ Stream \in Seq(Nat \ {0})
  /\ \A i, j \in Records : i <= j => Stream[i] <= Stream[j]
ASSUME BoundsAssumption ==
  /\ Limits \subseteq Nat \ {0}
  /\ MaxAttempts \in Nat \ {0}
  /\ MaxRestarts \in Nat
  /\ MaxErrors \in Nat

VARIABLES
  written,       \* complete lines in the stream file
  checkpoint,    \* the checkpoint file: status, committed offset, pending batch
  fragments,     \* fragment directories on disk
  batches,       \* committed_batch_ids
  consumption,   \* consumption record of each batch
  datasets,      \* records in the dataset of each window; none, no dataset
  handoffs,      \* windows whose dataset has a handoff record
  source,        \* in memory: ExtractionSourceStatus
  pc,            \* the write the cycle is at
  limit, flush,  \* max_records and flush_before of the cycle
  range,         \* the batch the cycle has read
  found,         \* fragments discovered by the publish service
  todo,          \* windows still to publish
  window,        \* the window whose consumption is being recorded
  refs,          \* fragments it still has to be recorded for
  restarts, errors, flushed

disk   == <<checkpoint, fragments, batches, consumption, datasets, handoffs>>
local  == <<limit, flush, range, found, todo, window, refs>>
budget == <<restarts, errors, flushed>>
vars   == <<written, disk, source, pc, local, budget>>

-----------------------------------------------------------------------------
Ranges  == {r \in [from : 0 .. Total, to : Records] : r.from < r.to}
NoRange == [from |-> 0, to |-> 0]
In(i, r) == r.from < i /\ i <= r.to

(* The window of the first record of a batch.                              *)
FirstWindow(r) == Stream[r.from + 1]

Holds(r, w) == \E i \in Records : In(i, r) /\ Stream[i] = w
Overlap(r, s) == \E i \in Records : In(i, r) /\ In(i, s)

(* window_obs_map: the records of window w in a set of fragments.          *)
Content(w, fs) == {i \in Records : Stream[i] = w /\ \E r \in fs : In(i, r)}

(* Mutants of IsClosed. *)
ClosedBySame(w, fs, bound) ==
  /\ \E r \in fs : Holds(r, w)
  /\ \E r \in fs, v \in Windows : Holds(r, v) /\ w <= v
ClosedLate(w, fs, bound) ==
  /\ \E r \in fs : Holds(r, w)
  /\ \/ \E r \in fs, v \in Windows : Holds(r, v) /\ w + 1 < v
     \/ w <= bound

(* A window is closed once a later record was seen, or by flush_before.    *)
IsClosed(w, fs, bound) ==
  /\ \E r \in fs : Holds(r, w)
  /\ \/ \E r \in fs, v \in Windows : Holds(r, v) /\ w < v
     \/ w <= bound
Closed(fs, bound) == {w \in Windows : IsClosed(w, fs, bound)}

NotConsumed == [referenced |-> {}, published |-> {}]

(* status == "fully_consumed": there is a record and nothing is pending.   *)
IsFullyConsumed(r) ==
  /\ consumption[r].published # {}
  /\ consumption[r].referenced \subseteq consumption[r].published

(* discover_fragments_for_source.                                          *)
Discovered == {r \in fragments : ~IsFullyConsumed(r)}

NewSource == [status |-> "unknown", attempt |-> 0, offset |-> 0]
Clear == /\ limit' = 0 /\ flush' = 0 /\ range' = NoRange /\ found' = {}
         /\ todo' = {} /\ window' = 0 /\ refs' = {}

Init ==
  /\ written = 0
  /\ checkpoint = [status |-> "idle", committed |-> 0, pending |-> NoRange]
  /\ fragments = {} /\ batches = {} /\ handoffs = {}
  /\ consumption = [r \in Ranges |-> NotConsumed]
  /\ datasets = [w \in Windows |-> {}]
  /\ source = NewSource
  /\ pc = "idle"
  /\ limit = 0 /\ flush = 0 /\ range = NoRange /\ found = {}
  /\ todo = {} /\ window = 0 /\ refs = {}
  /\ restarts = 0 /\ errors = 0 /\ flushed = FALSE

-----------------------------------------------------------------------------
(* The end of a cycle: the source is waiting again and its attempts are    *)
(* forgotten, or an exception was classified.                              *)
Finish ==
  /\ pc' = "idle"
  /\ source' = [source EXCEPT !.status = "waiting", !.attempt = 0]
  /\ Clear

FailRetryable ==
  /\ pc' = "idle"
  /\ source' = [source EXCEPT
       !.attempt = source.attempt + 1,
       !.status = IF source.attempt + 1 >= MaxAttempts THEN "failed" ELSE "queued"]
  /\ Clear

FailBlocked ==
  /\ pc' = "idle"
  /\ source' = [source EXCEPT !.status = "blocked"]
  /\ Clear

-----------------------------------------------------------------------------
(* gen_data appends a line.                                                *)
AppendRecord ==
  /\ written < Total
  /\ written' = written + 1
  /\ UNCHANGED <<disk, source, pc, local, budget>>

Start(l, bound) ==
  /\ pc = "idle"
  /\ pc' = "open"
  /\ source' = [source EXCEPT !.status = "processing"]
  /\ limit' = l /\ flush' = bound
  /\ UNCHANGED <<written, disk, range, found, todo, window, refs, restarts, errors>>

(* ExtractionWorker.run_single_cycle: blocked and failed sources are       *)
(* skipped, and so is a file that has not grown past the offset kept in    *)
(* memory.                                                                 *)
Poll ==
  /\ source.status \notin {"blocked", "failed"}
  /\ written > source.offset
  /\ \E l \in Limits : Start(l, 0)
  /\ UNCHANGED flushed

(* POST /extraction: on demand, whatever the state, with flush_before.     *)
Request ==
  /\ \E l \in Limits, bound \in Windows \cup {0} :
       /\ Start(l, bound)
       /\ flushed' = (flushed \/ bound > 0)

Staged == checkpoint.status = "fragment_staged"
HasNewData == checkpoint.committed < written

NoData ==
  /\ pc = "open"
  /\ ~Staged /\ ~HasNewData
  /\ pc' = "idle"
  /\ source' = [source EXCEPT !.status = "waiting", !.attempt = 0,
                              !.offset = checkpoint.committed]
  /\ Clear
  /\ UNCHANGED <<written, disk, budget>>

(* Mutant of Committed. *)
CommittedStart(r) == [status |-> "idle", committed |-> r.from, pending |-> NoRange]

Committed(r) == [status |-> "idle", committed |-> r.to, pending |-> NoRange]

(* _recover_pending_fragment_if_valid: the batch a crash left staged is    *)
(* verified on disk and committed.                                         *)
RecoverPending ==
  /\ pc = "open"
  /\ Staged
  /\ checkpoint.pending.from = checkpoint.committed
  /\ checkpoint.pending \in fragments
  /\ checkpoint' = Committed(checkpoint.pending)
  /\ batches' = batches \cup {checkpoint.pending}
  /\ UNCHANGED <<written, fragments, consumption, datasets, handoffs, source,
                 pc, local, budget>>

MarkProcessing ==
  /\ pc = "open"
  /\ ~Staged /\ HasNewData
  /\ checkpoint' = [checkpoint EXCEPT !.status = "processing"]
  /\ pc' = "save"
  /\ UNCHANGED <<written, fragments, batches, consumption, datasets, handoffs,
                 source, local, budget>>

(* read_completed_records and save_fragment_atomic.  A fragment with the   *)
(* same batch_id, left by an earlier run, is used again.                   *)
SaveFragment ==
  /\ pc = "save"
  /\ range' = [from |-> checkpoint.committed,
               to |-> IF written <= checkpoint.committed + limit
                      THEN written ELSE checkpoint.committed + limit]
  /\ fragments' = fragments \cup {range'}
  /\ pc' = "stage"
  /\ UNCHANGED <<written, checkpoint, batches, consumption, datasets, handoffs,
                 source, limit, flush, found, todo, window, refs, budget>>

StageCommits == \* mutant of StageCheckpoint
  /\ pc = "stage"
  /\ checkpoint' = [status |-> "fragment_staged", committed |-> range.to, pending |-> range]
  /\ pc' = "commit"
  /\ UNCHANGED <<written, fragments, batches, consumption, datasets, handoffs,
                 source, local, budget>>

StageCheckpoint ==
  /\ pc = "stage"
  /\ checkpoint' = [checkpoint EXCEPT !.status = "fragment_staged", !.pending = range]
  /\ pc' = "commit"
  /\ UNCHANGED <<written, fragments, batches, consumption, datasets, handoffs,
                 source, local, budget>>

CommitCheckpoint ==
  /\ pc = "commit"
  /\ checkpoint' = Committed(range)
  /\ batches' = batches \cup {range}
  /\ source' = [source EXCEPT !.offset = range.to]
  /\ range' = NoRange
  /\ pc' = "assemble"
  /\ UNCHANGED <<written, fragments, consumption, datasets, handoffs,
                 limit, flush, found, todo, window, refs, budget>>

-----------------------------------------------------------------------------
(* collect_publishable_windows refuses a record that is in two fragments.  *)
HasDuplicates(fs) == \E r, s \in fs : r # s /\ Overlap(r, s)

AssembleFails ==
  /\ pc = "assemble"
  /\ HasDuplicates(Discovered)
  /\ FailBlocked
  /\ UNCHANGED <<written, disk, budget>>

Assemble ==
  /\ pc = "assemble"
  /\ ~HasDuplicates(Discovered)
  /\ LET ready == Closed(Discovered, flush)
     IN \/ ready = {} /\ Finish
        \/ /\ ready # {}
           /\ found' = Discovered
           /\ todo' = ready
           /\ pc' = "publish"
           /\ UNCHANGED <<source, limit, flush, range, window, refs>>
  /\ UNCHANGED <<written, disk, budget>>

IsNext(w) == w \in todo /\ \A v \in todo : w <= v

(* Mutants of PublishWindow. *)
PublishForAll(w) ==
  /\ pc = "publish"
  /\ IsNext(w)
  /\ datasets[w] \in {{}, Content(w, found)}
  /\ datasets' = [datasets EXCEPT ![w] = Content(w, found)]
  /\ todo' = todo \ {w}
  /\ window' = w
  /\ refs' = found
  /\ pc' = "record"
  /\ UNCHANGED <<written, checkpoint, fragments, batches, consumption, handoffs,
                 source, limit, flush, range, found, budget>>
PublishAnyway(w) ==
  /\ pc = "publish"
  /\ IsNext(w)
  /\ datasets' = [datasets EXCEPT ![w] = Content(w, found)]
  /\ todo' = todo \ {w}
  /\ window' = w
  /\ refs' = {r \in found : Holds(r, w)}
  /\ pc' = "record"
  /\ UNCHANGED <<written, checkpoint, fragments, batches, consumption, handoffs,
                 source, limit, flush, range, found, budget>>

(* publish_window_dataset: an existing dataset is used again if it has the *)
(* same content and is never changed.                                      *)
PublishWindow(w) ==
  /\ pc = "publish"
  /\ IsNext(w)
  /\ datasets[w] \in {{}, Content(w, found)}
  /\ datasets' = [datasets EXCEPT ![w] = Content(w, found)]
  /\ todo' = todo \ {w}
  /\ window' = w
  /\ refs' = {r \in found : Holds(r, w)}
  /\ pc' = "record"
  /\ UNCHANGED <<written, checkpoint, fragments, batches, consumption, handoffs,
                 source, limit, flush, range, found, budget>>

(* ExtractionDatasetConflictError.                                         *)
PublishConflict(w) ==
  /\ pc = "publish"
  /\ IsNext(w)
  /\ datasets[w] \notin {{}, Content(w, found)}
  /\ FailBlocked
  /\ UNCHANGED <<written, disk, budget>>

(* record_window_publication.                                              *)
Publication(c, referenced, w) ==
  [referenced |-> c.referenced \cup referenced \cup {w},
   published  |-> c.published \cup {w}]

(* publish_available_windows records the window for one fragment after the *)
(* other, and names that window as the only one the fragment refers to.    *)
RecordPublication(r) ==
  /\ pc = "record"
  /\ r \in refs
  /\ consumption' = [consumption EXCEPT ![r] = Publication(@, {window}, window)]
  /\ LET left == refs \ {r}
     IN \/ left # {} /\ refs' = left /\ pc' = "record"
        \/ left = {} /\ todo # {} /\ refs' = {} /\ pc' = "publish"
        \/ left = {} /\ todo = {} /\ refs' = found /\ pc' = "clean"
  /\ UNCHANGED <<written, checkpoint, fragments, batches, datasets, handoffs,
                 source, limit, flush, range, found, todo, window, budget>>

(* safe_cleanup_fragment of each fragment found at the start: removed if it *)
(* is fully consumed, retained if not, or if it cannot be removed.         *)
CleanupFragment(r) ==
  /\ pc = "clean"
  /\ r \in refs
  /\ refs' = refs \ {r}
  /\ \/ /\ IsFullyConsumed(r)
        /\ fragments' = fragments \ {r}
        /\ UNCHANGED errors
     \/ ~IsFullyConsumed(r) /\ UNCHANGED <<fragments, errors>>
     \/ /\ IsFullyConsumed(r)
        /\ errors < MaxErrors
        /\ errors' = errors + 1
        /\ UNCHANGED fragments
  /\ UNCHANGED <<written, checkpoint, batches, consumption, datasets, handoffs,
                 source, pc, limit, flush, range, found, todo, window, restarts, flushed>>

CleanupDone ==
  /\ pc = "clean"
  /\ refs = {}
  /\ pc' = "handoff"
  /\ todo' = Closed(found, flush)
  /\ UNCHANGED <<written, disk, source, limit, flush, range, found, window, refs, budget>>

(* create_or_get_handoff for each published dataset; an exception is only  *)
(* logged.                                                                 *)
CreateHandoff(w) ==
  /\ pc = "handoff"
  /\ IsNext(w)
  /\ \/ handoffs' = handoffs \cup {w} /\ UNCHANGED errors
     \/ errors < MaxErrors /\ errors' = errors + 1 /\ UNCHANGED handoffs
  /\ todo' = todo \ {w}
  /\ UNCHANGED <<written, checkpoint, fragments, batches, consumption, datasets,
                 source, pc, limit, flush, range, found, window, refs, restarts, flushed>>

CycleDone ==
  /\ pc = "handoff"
  /\ todo = {}
  /\ Finish
  /\ UNCHANGED <<written, disk, budget>>

-----------------------------------------------------------------------------
(* A checkpoint or a fragment cannot be written: retryable.                *)
ExtractionWriteFails ==
  /\ \/ pc = "open" /\ (Staged \/ HasNewData)
     \/ pc \in {"save", "stage", "commit"}
  /\ errors < MaxErrors
  /\ errors' = errors + 1
  /\ FailRetryable
  /\ UNCHANGED <<written, disk, restarts, flushed>>

(* A dataset, its receipt or a consumption record cannot be written: not   *)
(* retryable.  The receipt comes after the dataset.                        *)
PublishWriteFails ==
  /\ errors < MaxErrors
  /\ errors' = errors + 1
  /\ \/ pc \in {"publish", "record"} /\ UNCHANGED datasets
     \/ /\ pc = "publish"
        /\ \E w \in todo :
             /\ IsNext(w)
             /\ datasets[w] \in {{}, Content(w, found)}
             /\ datasets' = [datasets EXCEPT ![w] = Content(w, found)]
  /\ FailBlocked
  /\ UNCHANGED <<written, checkpoint, fragments, batches, consumption, handoffs,
                 restarts, flushed>>

(* The process dies and starts again: the source status is lost.           *)
Restart ==
  /\ restarts < MaxRestarts
  /\ restarts' = restarts + 1
  /\ pc' = "idle"
  /\ source' = NewSource
  /\ Clear
  /\ UNCHANGED <<written, disk, errors, flushed>>

CycleStep ==
  \/ NoData \/ RecoverPending \/ MarkProcessing \/ SaveFragment
  \/ StageCheckpoint \/ CommitCheckpoint \/ AssembleFails \/ Assemble
  \/ \E w \in Windows : PublishWindow(w) \/ PublishConflict(w) \/ CreateHandoff(w)
  \/ \E r \in Ranges : RecordPublication(r) \/ CleanupFragment(r)
  \/ CleanupDone \/ CycleDone

Next ==
  \/ AppendRecord \/ Poll \/ Request \/ CycleStep
  \/ ExtractionWriteFails \/ PublishWriteFails \/ Restart

Spec == Init /\ [][Next]_vars

(* The polling loop runs every interval and a cycle that started goes on.  *)
FairSpec == Spec /\ WF_vars(Poll) /\ WF_vars(CycleStep)

-----------------------------------------------------------------------------
Statuses == {"unknown", "processing", "waiting", "queued", "blocked", "failed"}
Steps == {"idle", "open", "save", "stage", "commit", "assemble", "publish",
          "record", "clean", "handoff"}

(* The type of every variable.                                             *)
TypeOK ==
  /\ written \in 0 .. Total
  /\ checkpoint \in [status : {"idle", "processing", "fragment_staged"},
                     committed : 0 .. Total,
                     pending : Ranges \cup {NoRange}]
  /\ fragments \subseteq Ranges /\ batches \subseteq Ranges
  /\ consumption \in [Ranges -> [referenced : SUBSET Windows, published : SUBSET Windows]]
  /\ datasets \in [Windows -> SUBSET Records]
  /\ handoffs \subseteq Windows
  /\ source \in [status : Statuses, attempt : Nat, offset : 0 .. Total]
  /\ pc \in Steps
  /\ limit \in Limits \cup {0} /\ flush \in Windows \cup {0}
  /\ range \in Ranges \cup {NoRange}
  /\ found \subseteq Ranges /\ todo \subseteq Windows
  /\ window \in Windows \cup {0} /\ refs \subseteq Ranges
  /\ restarts \in Nat /\ errors \in Nat /\ flushed \in BOOLEAN

(* The committed batches cover the records up to the committed offset, and *)
(* no record twice, wherever a crash fell between the three checkpoint     *)
(* saves and the fragment (process_available_records and its recovery).    *)
BatchesTile ==
  /\ \A i \in Records : i <= checkpoint.committed <=> \E b \in batches : In(i, b)
  /\ \A b, c \in batches : b # c => ~Overlap(b, c)

(* Of a committed batch that is no longer on disk, at least the records of *)
(* the window it starts in are in that window's dataset: a crash, a failed *)
(* write, a conflict or an orphan fragment never loses those.              *)
FirstWindowKept ==
  \A b \in batches : b \notin fragments =>
    \A i \in Records :
      In(i, b) /\ Stream[i] = FirstWindow(b) => i \in datasets[Stream[i]]

(* A window is published only when all its records have been read, unless  *)
(* an operator asked for it with flush_before: the watermark is sound.     *)
PublishedWhenClosed ==
  ~flushed =>
    \A i \in Records : datasets[Stream[i]] # {} => i <= checkpoint.committed

(* Without a crash, a failed write or a flush no source is ever blocked:   *)
(* neither overlapping fragments nor conflicting datasets come from        *)
(* ordinary operation, whatever max_records is.                            *)
NeverBlockedInOrdinaryOperation ==
  restarts = 0 /\ errors = 0 /\ ~flushed => source.status # "blocked"

(* A published dataset never changes, in whatever state a crash left its   *)
(* fragments when its window is assembled again.                           *)
DatasetsImmutable ==
  [][\A w \in Windows : datasets[w] # {} => datasets'[w] = datasets[w]]_vars

(* If nothing fails, once the stream is written every record of a closed   *)
(* window gets into its dataset if its batch starts in that window, and    *)
(* the dataset is handed off.                                              *)
ClosedWindowsPublished ==
  (written = Total) ~>
    \/ restarts > 0 \/ errors > 0 \/ flushed
    \/ /\ checkpoint.committed = Total
       /\ \A b \in batches : \A i \in Records :
            /\ In(i, b) /\ Stream[i] = FirstWindow(b)
            /\ Stream[i] < Stream[Total]
            => i \in datasets[Stream[i]] /\ Stream[i] \in handoffs

(* is_fully_consumed: a fragment has been consumed by all the windows it   *)
(* refers to, so a removed fragment's records are all in datasets.         *)
RemovedWhenConsumed ==
  \A b \in batches : b \notin fragments =>
    \A i \in Records : In(i, b) => i \in datasets[Stream[i]]
=============================================================================
