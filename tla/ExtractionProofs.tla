-------------------------- MODULE ExtractionProofs --------------------------
(* Proofs about Extraction, for every stream whose windows do not go back,  *)
(* every batch size and any number of crashes and failed writes.            *)
EXTENDS Extraction, TLAPS

USE StreamAssumption, BoundsAssumption

-----------------------------------------------------------------------------
CheckpointType == [status : {"idle", "processing", "fragment_staged"},
                   committed : 0 .. Total,
                   pending : Ranges \cup {NoRange}]
SourceType == [status : Statuses, attempt : Nat, offset : 0 .. Total]
ConsumptionType == [referenced : SUBSET Windows, published : SUBSET Windows]

(* What the checkpoint says at each step of a cycle.  Whatever a crash left *)
(* staged is on disk and starts at the committed offset.                    *)
CheckpointInv ==
  /\ checkpoint.committed <= written
  /\ \A f \in fragments : f.from <= checkpoint.committed
  /\ Staged => /\ checkpoint.pending \in fragments
               /\ checkpoint.pending.from = checkpoint.committed
               /\ checkpoint.pending.to <= written
  /\ pc \in {"open", "save"} => limit \in Limits
  /\ pc = "save" => ~Staged /\ checkpoint.committed < written
  /\ pc = "stage" => /\ ~Staged
                     /\ range \in fragments
                     /\ range.from = checkpoint.committed
                     /\ range.to <= written
  /\ pc = "commit" => Staged /\ checkpoint.pending = range
  /\ pc \in {"assemble", "publish", "record", "clean", "handoff"} => ~Staged

(* The windows a cycle has published, and those it still has to publish.    *)
PublishInv ==
  /\ pc \in {"publish", "record"} =>
       /\ todo \subseteq Closed(found, flush)
       /\ \A v \in Closed(found, flush) \ todo : datasets[v] = Content(v, found)
  /\ pc = "record" =>
       /\ window \in Closed(found, flush) \ todo
       /\ \A v \in todo : window < v
       /\ refs \subseteq {r \in found : Holds(r, window)}

(* A batch leaves the disk only after a window was published from it, and   *)
(* the first one is the window it starts in.                                *)
KeptInv ==
  /\ \A b \in batches : b \in fragments \/ consumption[b].published # {}
  /\ \A f \in Ranges : consumption[f].published # {} =>
       \A i \in Records : In(i, f) /\ Stream[i] = FirstWindow(f) => i \in datasets[Stream[i]]

(* Only committed records are assembled: an orphan that reaches beyond the  *)
(* committed offset overlaps the batch that was just committed.             *)
WatermarkInv ==
  /\ \A f \in Ranges : consumption[f].published # {} => f.to <= checkpoint.committed
  /\ pc = "assemble" =>
       \E last \in fragments :
         /\ ~IsFullyConsumed(last)
         /\ last.to = checkpoint.committed
         /\ \A f \in fragments : f.from <= last.from
  /\ pc \in {"publish", "record"} => \A f \in found : f.to <= checkpoint.committed
  /\ flush # 0 => flushed
  /\ PublishedWhenClosed

IInv == TypeOK /\ CheckpointInv /\ BatchesTile /\ PublishInv /\ KeptInv /\ WatermarkInv

-----------------------------------------------------------------------------
(* The stream has a window for each record, and windows are positive.       *)
LEMMA StreamFacts ==
  /\ Total \in Nat
  /\ Records = 1 .. Total
  /\ \A i \in Records : Stream[i] \in Nat \ {0} /\ Stream[i] \in Windows
  /\ Windows \subseteq Nat \ {0}
  BY DEF Total, Records, Windows

(* A range is not empty, and starts with a record. *)
LEMMA RangeFacts ==
  ASSUME NEW r \in Ranges
  PROVE  /\ r.from \in Nat /\ r.to \in Nat /\ r.from < r.to /\ r.to <= Total
         /\ r.from + 1 \in Records /\ r.to \in Records
         /\ In(r.from + 1, r) /\ In(r.to, r)
         /\ r = [from |-> r.from, to |-> r.to]
         /\ r # NoRange
  BY StreamFacts DEF Ranges, In, Records, NoRange

(* Intervals: from a record's window back to the one its batch starts in.   *)
LEMMA FirstIsLeast ==
  ASSUME NEW r \in Ranges, NEW i \in Records, In(i, r)
  PROVE  FirstWindow(r) <= Stream[i] /\ FirstWindow(r) \in Windows /\ Holds(r, FirstWindow(r))
  <1>1. r.from + 1 \in Records /\ In(r.from + 1, r)
    BY RangeFacts
  <1>2. r.from + 1 <= i
    BY RangeFacts, StreamFacts DEF In
  <1>3. QED
    BY <1>1, <1>2, StreamFacts DEF FirstWindow, Holds

(* The windows before a closed window that its fragment holds are closed.   *)
LEMMA FirstIsClosed ==
  ASSUME NEW fs \in SUBSET Ranges, NEW bound, NEW r \in fs,
         NEW w \in Closed(fs, bound), Holds(r, w)
  PROVE  FirstWindow(r) \in Closed(fs, bound) /\ FirstWindow(r) <= w
  <1>1. PICK i \in Records : In(i, r) /\ Stream[i] = w
    BY DEF Holds
  <1>2. FirstWindow(r) <= w /\ FirstWindow(r) \in Windows /\ Holds(r, FirstWindow(r))
    BY <1>1, FirstIsLeast
  <1>3. w \in Windows /\ w \in Nat /\ FirstWindow(r) \in Nat
    BY <1>2, StreamFacts DEF Closed
  <1>4. CASE FirstWindow(r) = w
    BY <1>2, <1>4
  <1>5. CASE FirstWindow(r) # w
    BY <1>2, <1>3, <1>5 DEF Closed, IsClosed
  <1>6. QED
    BY <1>4, <1>5

(* The watermark: a window of fragments that were read up to c, closed by a *)
(* later record, has no record behind c.                                    *)
LEMMA Watermark ==
  ASSUME NEW fs \in SUBSET Ranges, NEW c \in Nat, \A f \in fs : f.to <= c,
         NEW w \in Closed(fs, 0), NEW i \in Records, Stream[i] = w
  PROVE  i <= c
  <1>1. w \in Nat \ {0}
    BY StreamFacts DEF Closed
  <1>2. PICK r \in fs, v \in Windows : Holds(r, v) /\ w < v
    BY <1>1 DEF Closed, IsClosed
  <1>3. PICK j \in Records : In(j, r) /\ Stream[j] = v
    BY <1>2 DEF Holds
  <1>4. j <= c
    BY <1>3, RangeFacts, StreamFacts DEF In
  <1>5. v \in Nat /\ ~ (v <= w)
    BY <1>1, <1>2, StreamFacts
  <1>6. ~ (j <= i)
    BY <1>3, <1>5
  <1>7. QED
    BY <1>4, <1>6, StreamFacts

-----------------------------------------------------------------------------
(* The initial state satisfies the invariant. *)
LEMMA InitIInv == Init => IInv
  <1> SUFFICES ASSUME Init PROVE IInv
    OBVIOUS
  <1>1. TypeOK
    <2>1. checkpoint \in CheckpointType
      BY StreamFacts DEF Init, CheckpointType
    <2>2. source \in SourceType
      BY StreamFacts DEF Init, SourceType, NewSource, Statuses
    <2>3. consumption \in [Ranges -> ConsumptionType]
      BY DEF Init, NotConsumed, ConsumptionType
    <2>4. QED
      BY <2>1, <2>2, <2>3, StreamFacts
      DEF Init, TypeOK, CheckpointType, SourceType, ConsumptionType, Steps
  <1>2. CheckpointInv
    BY DEF Init, CheckpointInv, Staged
  <1>3. BatchesTile
    BY StreamFacts DEF Init, BatchesTile
  <1>4. PublishInv /\ KeptInv
    BY DEF Init, PublishInv, KeptInv, NotConsumed
  <1>5. WatermarkInv
    BY StreamFacts DEF Init, WatermarkInv, NotConsumed, PublishedWhenClosed
  <1>6. QED
    BY <1>1, <1>2, <1>3, <1>4, <1>5 DEF IInv

-----------------------------------------------------------------------------
(* What an action that leaves part of the state alone preserves. *)
LEMMA Frames ==
  ASSUME IInv
  PROVE  /\ UNCHANGED <<checkpoint, batches>> => BatchesTile'
         /\ UNCHANGED <<fragments, batches, consumption, datasets>> => KeptInv'
         /\ UNCHANGED <<checkpoint, datasets, flushed>> => PublishedWhenClosed'
         /\ UNCHANGED <<checkpoint, consumption>> =>
              (\A f \in Ranges : consumption[f].published # {} => f.to <= checkpoint.committed)'
  BY DEF IInv, BatchesTile, KeptInv, WatermarkInv, PublishedWhenClosed, In, FirstWindow

(* A cycle ends, whatever becomes of the source. *)
LEMMA EndsIInv ==
  ASSUME IInv, pc' = "idle", Clear, source' \in SourceType,
         UNCHANGED <<written, disk, flushed>>, restarts' \in Nat, errors' \in Nat
  PROVE  IInv'
  <1>1. TypeOK'
    <2>1. UNCHANGED <<checkpoint, fragments, batches, consumption, datasets, handoffs>>
      BY DEF disk
    <2>2. source' \in [status : Statuses, attempt : Nat, offset : 0 .. Total]
      BY DEF SourceType
    <2>3. QED
      BY <2>1, <2>2 DEF IInv, TypeOK, Clear, Steps
  <1>2. CheckpointInv'
    BY DEF IInv, CheckpointInv, disk, Staged
  <1>3. BatchesTile' /\ KeptInv'
    BY Frames DEF disk
  <1>4. PublishInv'
    BY DEF PublishInv
  <1>5. WatermarkInv'
    BY Frames DEF disk, WatermarkInv, Clear
  <1>6. QED
    BY <1>1, <1>2, <1>3, <1>4, <1>5 DEF IInv

(* Each way for a cycle to end leaves the source in a legal state. *)
LEMMA EndsSource ==
  ASSUME TypeOK
  PROVE  /\ Finish => source' \in SourceType
         /\ FailRetryable => source' \in SourceType
         /\ FailBlocked => source' \in SourceType
         /\ [source EXCEPT !.status = "waiting", !.attempt = 0,
                           !.offset = checkpoint.committed] \in SourceType
         /\ NewSource \in SourceType
  <1>1. source \in SourceType /\ checkpoint.committed \in 0 .. Total
    BY DEF TypeOK, SourceType
  <1>2. source.attempt + 1 \in Nat
    BY <1>1 DEF SourceType
  <1>3. \A t \in Statuses : [source EXCEPT !.status = t] \in SourceType
    BY <1>1 DEF SourceType
  <1>4. \A t \in Statuses : [source EXCEPT !.attempt = source.attempt + 1, !.status = t] \in SourceType
    BY <1>1, <1>2 DEF SourceType
  <1>5. FailRetryable => source' \in SourceType
    <2>1. (IF source.attempt + 1 >= MaxAttempts THEN "failed" ELSE "queued") \in Statuses
      BY DEF Statuses
    <2>2. QED
      BY <1>4, <2>1 DEF FailRetryable
  <1>6. Finish => source' \in SourceType
    <2>1. \A t \in Statuses : [source EXCEPT !.status = t, !.attempt = 0] \in SourceType
      BY <1>1 DEF SourceType
    <2>2. QED
      BY <2>1 DEF Finish, Statuses
  <1>7. FailBlocked => source' \in SourceType
    BY <1>3 DEF FailBlocked, Statuses
  <1>8. [source EXCEPT !.status = "waiting", !.attempt = 0,
                       !.offset = checkpoint.committed] \in SourceType
    <2>1. \A t \in Statuses : [source EXCEPT !.status = t, !.attempt = 0,
                                  !.offset = checkpoint.committed] \in SourceType
      BY <1>1 DEF SourceType
    <2>2. QED
      BY <2>1 DEF Statuses
  <1>9. NewSource \in SourceType
    BY StreamFacts DEF SourceType, Statuses, NewSource
  <1>10. QED
    BY <1>5, <1>6, <1>7, <1>8, <1>9

LEMMA AppendIInv == ASSUME IInv, AppendRecord PROVE IInv'
  <1> USE DEF AppendRecord, disk, local, budget
  <1>1. written' \in 0 .. Total /\ written \in Nat /\ written' = written + 1
    BY StreamFacts DEF IInv, TypeOK
  <1>2. TypeOK'
    BY <1>1 DEF IInv, TypeOK
  <1>3. CheckpointInv'
    <2>1. \A f \in Ranges : f.to \in Nat
      BY RangeFacts
    <2>2. checkpoint.committed \in Nat /\ fragments \subseteq Ranges
      BY DEF IInv, TypeOK
    <2>3. \A n \in Nat : n <= written => n <= written'
      BY <1>1
    <2>4. \A n \in Nat : n < written => n < written'
      BY <1>1
    <2>5. QED
      BY <2>1, <2>2, <2>3, <2>4 DEF IInv, CheckpointInv, Staged
  <1>4. BatchesTile' /\ KeptInv'
    BY Frames
  <1>5. PublishInv'
    BY DEF IInv, PublishInv, Closed, IsClosed, Content, Holds, In
  <1>6. WatermarkInv'
    BY Frames DEF IInv, WatermarkInv, IsFullyConsumed
  <1>7. QED
    BY <1>2, <1>3, <1>4, <1>5, <1>6 DEF IInv

LEMMA StartIInv ==
  ASSUME IInv, NEW l \in Limits, NEW bound \in Windows \cup {0}, Start(l, bound),
         flushed' \in BOOLEAN, flushed => flushed', bound # 0 => flushed'
  PROVE  IInv'
  <1> USE DEF Start, disk
  <1>1. TypeOK'
    <2>1. source' \in [status : Statuses, attempt : Nat, offset : 0 .. Total]
      BY DEF IInv, TypeOK, Statuses
    <2>2. QED
      BY <2>1 DEF IInv, TypeOK, Steps
  <1>2. CheckpointInv'
    BY DEF IInv, CheckpointInv, Staged
  <1>3. BatchesTile' /\ KeptInv'
    BY Frames
  <1>4. PublishInv'
    BY DEF PublishInv
  <1>5. WatermarkInv'
    BY Frames DEF IInv, WatermarkInv, PublishedWhenClosed
  <1>6. QED
    BY <1>1, <1>2, <1>3, <1>4, <1>5 DEF IInv

LEMMA PollIInv == ASSUME IInv, Poll PROVE IInv'
  <1>1. PICK l \in Limits : Start(l, 0)
    BY DEF Poll
  <1>2. flushed' = flushed /\ flushed' \in BOOLEAN
    BY DEF Poll, IInv, TypeOK
  <1>3. QED
    BY <1>1, <1>2, StartIInv

LEMMA RequestIInv == ASSUME IInv, Request PROVE IInv'
  <1>1. PICK l \in Limits, bound \in Windows \cup {0} :
          Start(l, bound) /\ flushed' = (flushed \/ bound > 0)
    BY DEF Request
  <1>2. flushed \in BOOLEAN
    BY DEF IInv, TypeOK
  <1>3. bound > 0 <=> bound # 0
    BY StreamFacts
  <1>4. flushed' \in BOOLEAN /\ (flushed => flushed') /\ (bound # 0 => flushed')
    BY <1>1, <1>3, Zenon
  <1>5. QED
    BY <1>1, <1>4, StartIInv

LEMMA NoDataIInv == ASSUME IInv, NoData PROVE IInv'
  <1>1. source' \in SourceType
    BY EndsSource DEF NoData, IInv
  <1>2. restarts' \in Nat /\ errors' \in Nat /\ flushed' = flushed
    BY DEF NoData, budget, IInv, TypeOK
  <1>3. QED
    BY <1>1, <1>2, EndsIInv DEF NoData

(* A batch that starts at the committed offset may follow the committed ones. *)
LEMMA CommitTiles ==
  ASSUME IInv, NEW r \in fragments, r.from = checkpoint.committed,
         checkpoint' = Committed(r), batches' = batches \cup {r}
  PROVE  BatchesTile'
  <1>1. r \in Ranges /\ batches \subseteq Ranges /\ checkpoint.committed \in Nat
    BY DEF IInv, TypeOK
  <1>2. checkpoint'.committed = r.to
    BY DEF Committed
  <1>3. \A i \in Records : In(i, r) <=> checkpoint.committed < i /\ i <= r.to
    BY DEF In
  <1>4. \A i \in Records : i <= checkpoint.committed => i <= r.to
    BY <1>1, RangeFacts, StreamFacts
  <1>5. \A i \in Records : i <= checkpoint.committed \/ checkpoint.committed < i
    BY <1>1, StreamFacts
  <1>6. \A i \in Records : i <= checkpoint'.committed <=> \E b \in batches' : In(i, b)
    BY <1>2, <1>3, <1>4, <1>5 DEF IInv, BatchesTile
  <1>7. \A b \in batches : ~Overlap(b, r) /\ ~Overlap(r, b)
    BY <1>1, <1>3, StreamFacts DEF IInv, BatchesTile, Overlap
  <1>8. \A b, c \in batches' : b # c => ~Overlap(b, c)
    BY <1>7 DEF IInv, BatchesTile
  <1>9. QED
    BY <1>6, <1>8 DEF BatchesTile, Overlap, In

(* Committing a batch that is on disk keeps what does not speak of pc. *)
LEMMA CommitKeeps ==
  ASSUME IInv, NEW r \in fragments, r.from = checkpoint.committed,
         checkpoint' = Committed(r), batches' = batches \cup {r},
         UNCHANGED <<fragments, consumption, datasets, flushed>>
  PROVE  /\ checkpoint' \in CheckpointType
         /\ batches' \subseteq Ranges
         /\ ~Staged'
         /\ checkpoint'.committed = r.to
         /\ \A n \in Nat : n <= checkpoint.committed => n <= r.to
         /\ BatchesTile'
         /\ KeptInv'
         /\ (\A f \in Ranges : consumption[f].published # {} => f.to <= checkpoint.committed)'
         /\ PublishedWhenClosed'
  <1>1. r \in Ranges /\ r.from \in Nat /\ r.to \in Nat /\ r.from < r.to /\ r.to <= Total
    BY RangeFacts DEF IInv, TypeOK
  <1>2. checkpoint' \in CheckpointType
    BY <1>1, StreamFacts DEF CheckpointType, Committed
  <1>3. batches' \subseteq Ranges
    BY <1>1 DEF IInv, TypeOK
  <1>4. ~Staged' /\ checkpoint'.committed = r.to
    BY DEF Staged, Committed
  <1>5. \A n \in Nat : n <= checkpoint.committed => n <= r.to
    BY <1>1
  <1>6. BatchesTile'
    BY CommitTiles
  <1>7. KeptInv'
    BY DEF IInv, KeptInv, In, FirstWindow
  <1>8. \A f \in Ranges : f.to \in Nat
    BY RangeFacts
  <1>9. (\A f \in Ranges : consumption[f].published # {} => f.to <= checkpoint.committed)'
    BY <1>4, <1>5, <1>8 DEF IInv, WatermarkInv
  <1>10. PublishedWhenClosed'
    BY <1>4, <1>5, StreamFacts DEF IInv, WatermarkInv, PublishedWhenClosed
  <1>11. QED
    BY <1>2, <1>3, <1>4, <1>5, <1>6, <1>7, <1>9, <1>10

LEMMA RecoverPendingIInv == ASSUME IInv, RecoverPending PROVE IInv'
  <1> USE DEF RecoverPending, local, budget
  <1> DEFINE r == checkpoint.pending
  <1>1. r \in fragments /\ r.from = checkpoint.committed /\ r.to <= written
    BY DEF IInv, CheckpointInv
  <1>2. /\ checkpoint' \in CheckpointType /\ batches' \subseteq Ranges /\ ~Staged'
        /\ checkpoint'.committed = r.to
        /\ BatchesTile' /\ KeptInv' /\ PublishedWhenClosed'
        /\ \A n \in Nat : n <= checkpoint.committed => n <= r.to
        /\ (\A f \in Ranges : consumption[f].published # {} => f.to <= checkpoint.committed)'
    BY <1>1, CommitKeeps
  <1>3. TypeOK'
    BY <1>2 DEF IInv, TypeOK, CheckpointType
  <1>4. CheckpointInv'
    <2>1. fragments \subseteq Ranges /\ \A f \in Ranges : f.from \in Nat
      BY RangeFacts DEF IInv, TypeOK
    <2>2. \A f \in fragments' : f.from <= checkpoint'.committed
      BY <1>2, <2>1 DEF IInv, CheckpointInv
    <2>3. QED
      BY <1>1, <1>2, <2>2 DEF IInv, CheckpointInv
  <1>5. PublishInv'
    BY DEF PublishInv
  <1>6. WatermarkInv'
    BY <1>2 DEF IInv, WatermarkInv
  <1>7. QED
    BY <1>2, <1>3, <1>4, <1>5, <1>6 DEF IInv

LEMMA MarkProcessingIInv == ASSUME IInv, MarkProcessing PROVE IInv'
  <1> USE DEF MarkProcessing, local, budget
  <1>1. checkpoint \in CheckpointType
    BY DEF IInv, TypeOK, CheckpointType
  <1>2. /\ checkpoint' \in CheckpointType
        /\ checkpoint'.committed = checkpoint.committed
        /\ checkpoint'.status = "processing"
    BY <1>1 DEF CheckpointType
  <1>3. TypeOK'
    BY <1>2 DEF IInv, TypeOK, CheckpointType, Steps
  <1>4. CheckpointInv'
    BY <1>2 DEF IInv, CheckpointInv, HasNewData, Staged
  <1>5. BatchesTile'
    BY <1>2 DEF IInv, BatchesTile
  <1>6. KeptInv' /\ PublishInv'
    BY Frames DEF PublishInv
  <1>7. WatermarkInv'
    BY <1>2 DEF IInv, WatermarkInv, PublishedWhenClosed
  <1>8. QED
    BY <1>3, <1>4, <1>5, <1>6, <1>7 DEF IInv

(* The batch the cycle reads starts at the committed offset and ends at the *)
(* last record it may read.                                                 *)
LEMMA SavedRange ==
  ASSUME IInv, SaveFragment
  PROVE  /\ range' \in Ranges
         /\ range'.from = checkpoint.committed
         /\ range'.to <= written
  <1>1. /\ checkpoint.committed \in 0 .. Total /\ written \in 0 .. Total
        /\ checkpoint.committed < written
        /\ limit \in Nat /\ limit > 0
    BY DEF IInv, TypeOK, CheckpointInv, SaveFragment
  <1> DEFINE c == checkpoint.committed
             t == IF written <= c + limit THEN written ELSE c + limit
  <1>2. t \in Records /\ c < t /\ t <= written
    BY <1>1, StreamFacts
  <1>3. range' = [from |-> c, to |-> t]
    BY DEF SaveFragment
  <1>4. [from |-> c, to |-> t] \in Ranges
    BY <1>1, <1>2 DEF Ranges
  <1>5. QED
    BY <1>2, <1>3, <1>4

LEMMA SaveFragmentIInv == ASSUME IInv, SaveFragment PROVE IInv'
  <1>1. /\ range' \in Ranges /\ range'.from = checkpoint.committed /\ range'.to <= written
        /\ fragments' = fragments \cup {range'}
        /\ pc = "save" /\ pc' = "stage"
        /\ UNCHANGED <<written, checkpoint, batches, consumption, datasets, handoffs,
                       source, limit, flush, found, todo, window, refs, restarts, errors, flushed>>
    BY SavedRange DEF SaveFragment, budget
  <1>2. TypeOK'
    BY <1>1 DEF IInv, TypeOK, Steps
  <1>3. checkpoint.committed <= checkpoint.committed
    BY StreamFacts DEF IInv, TypeOK
  <1>4. CheckpointInv'
    BY <1>1, <1>3 DEF IInv, CheckpointInv, Staged
  <1>5. BatchesTile'
    BY <1>1, Frames
  <1>6. KeptInv'
    BY <1>1 DEF IInv, KeptInv, In, FirstWindow
  <1>7. PublishInv'
    BY <1>1 DEF PublishInv
  <1>8. WatermarkInv'
    BY <1>1 DEF IInv, WatermarkInv, PublishedWhenClosed
  <1>9. QED
    BY <1>2, <1>4, <1>5, <1>6, <1>7, <1>8 DEF IInv

LEMMA StageCheckpointIInv == ASSUME IInv, StageCheckpoint PROVE IInv'
  <1> USE DEF StageCheckpoint, local, budget
  <1>1. checkpoint \in CheckpointType /\ range \in fragments /\ fragments \subseteq Ranges
    BY DEF IInv, TypeOK, CheckpointType, CheckpointInv
  <1>2. /\ checkpoint' \in CheckpointType
        /\ checkpoint'.committed = checkpoint.committed
        /\ checkpoint'.status = "fragment_staged"
        /\ checkpoint'.pending = range
    BY <1>1 DEF CheckpointType
  <1>3. TypeOK'
    BY <1>2 DEF IInv, TypeOK, CheckpointType, Steps
  <1>4. CheckpointInv'
    BY <1>1, <1>2 DEF IInv, CheckpointInv, Staged
  <1>5. BatchesTile'
    BY <1>2 DEF IInv, BatchesTile
  <1>6. KeptInv' /\ PublishInv'
    BY Frames DEF PublishInv
  <1>7. WatermarkInv'
    BY <1>2 DEF IInv, WatermarkInv, PublishedWhenClosed
  <1>8. QED
    BY <1>3, <1>4, <1>5, <1>6, <1>7 DEF IInv

LEMMA CommitCheckpointIInv == ASSUME IInv, CommitCheckpoint PROVE IInv'
  <1> USE DEF CommitCheckpoint, budget
  <1>1. /\ range \in fragments /\ range.from = checkpoint.committed /\ range.to <= written
        /\ fragments \subseteq Ranges /\ range \in Ranges
    BY DEF IInv, CheckpointInv, TypeOK
  <1>2. /\ checkpoint' \in CheckpointType /\ batches' \subseteq Ranges /\ ~Staged'
        /\ checkpoint'.committed = range.to
        /\ BatchesTile' /\ KeptInv' /\ PublishedWhenClosed'
        /\ \A n \in Nat : n <= checkpoint.committed => n <= range.to
        /\ (\A f \in Ranges : consumption[f].published # {} => f.to <= checkpoint.committed)'
    BY <1>1, CommitKeeps
  <1>3. \A f \in Ranges : f.from \in Nat /\ f.to \in Nat /\ f.from < f.to /\ f.to <= Total
    BY RangeFacts
  <1>4. TypeOK'
    <2>1. source' \in SourceType
      <3>1. source \in SourceType /\ range.to \in 0 .. Total
        BY <1>1, <1>3, StreamFacts DEF IInv, TypeOK, SourceType
      <3>2. QED
        BY <3>1 DEF SourceType
    <2>2. QED
      BY <1>2, <2>1 DEF IInv, TypeOK, CheckpointType, SourceType, Steps
  <1>5. CheckpointInv'
    BY <1>1, <1>2, <1>3 DEF IInv, CheckpointInv
  <1>6. PublishInv'
    BY DEF PublishInv
  <1>7. (\E last \in fragments :
           /\ ~IsFullyConsumed(last)
           /\ last.to = checkpoint.committed
           /\ \A f \in fragments : f.from <= last.from)'
    <2>1. ~(consumption'[range].published # {}
              /\ consumption'[range].referenced \subseteq consumption'[range].published)
      <3>1. ~(range.to <= checkpoint.committed)
        BY <1>1, <1>3
      <3>2. consumption[range].published = {}
        BY <1>1, <3>1 DEF IInv, WatermarkInv
      <3>3. QED
        BY <3>2
    <2>2. \A f \in fragments : f.from <= range.from
      BY <1>1 DEF IInv, CheckpointInv
    <2>3. QED
      BY <1>1, <1>2, <2>1, <2>2 DEF IsFullyConsumed
  <1>8. WatermarkInv'
    BY <1>2, <1>7 DEF IInv, WatermarkInv
  <1>9. QED
    BY <1>2, <1>4, <1>5, <1>6, <1>8 DEF IInv

-----------------------------------------------------------------------------
(* Once a batch is committed, what can be assembled was committed: an orphan *)
(* that reaches further starts no later than the batch, so the two share the *)
(* last committed record and assembly refuses them.                          *)
LEMMA DiscoveredIsCommitted ==
  ASSUME IInv, pc = "assemble", ~HasDuplicates(Discovered), NEW f \in Discovered
  PROVE  f.to <= checkpoint.committed
  <1>1. PICK last \in fragments : /\ ~IsFullyConsumed(last)
                                  /\ last.to = checkpoint.committed
                                  /\ \A g \in fragments : g.from <= last.from
    BY DEF IInv, WatermarkInv
  <1>2. last \in Discovered /\ f \in fragments /\ fragments \subseteq Ranges
    BY <1>1 DEF Discovered, IInv, TypeOK
  <1>3. last.to \in Records /\ last.from \in Nat /\ last.from < last.to
    BY <1>2, RangeFacts
  <1>4. f.to \in Nat /\ f.from \in Nat /\ f.from <= last.from
    BY <1>1, <1>2, RangeFacts
  <1>5. SUFFICES ASSUME f.to > last.to PROVE FALSE
    BY <1>1, <1>3, <1>4, StreamFacts
  <1>6. In(last.to, f) /\ In(last.to, last)
    BY <1>3, <1>4, <1>5, StreamFacts DEF In
  <1>7. f # last /\ Overlap(f, last)
    BY <1>3, <1>5, <1>6, StreamFacts DEF Overlap
  <1>8. QED
    BY <1>2, <1>7 DEF HasDuplicates

LEMMA AssembleIInv == ASSUME IInv, Assemble PROVE IInv'
  <1> USE DEF Assemble, budget
  <1>1. restarts \in Nat /\ errors \in Nat /\ fragments \subseteq Ranges
    BY DEF IInv, TypeOK
  <1>2. CASE Finish
    BY <1>1, <1>2, EndsSource, EndsIInv DEF Finish, IInv
  <1>3. CASE ~Finish
    <2>1. /\ found' = Discovered
          /\ todo' = Closed(Discovered, flush)
          /\ pc = "assemble" /\ pc' = "publish"
          /\ UNCHANGED <<written, checkpoint, fragments, batches, consumption, datasets,
                         handoffs, source, limit, flush, range, window, refs, flushed>>
          /\ restarts' \in Nat /\ errors' \in Nat
      BY <1>1, <1>3 DEF disk
    <2>2. Discovered \subseteq Ranges /\ Closed(Discovered, flush) \subseteq Windows
      BY <1>1 DEF Discovered, Closed
    <2>3. TypeOK'
      BY <2>1, <2>2 DEF IInv, TypeOK, Steps
    <2>4. CheckpointInv'
      BY <2>1 DEF IInv, CheckpointInv, Staged
    <2>5. BatchesTile' /\ KeptInv'
      BY <2>1, Frames
    <2>6. PublishInv'
      BY <2>1 DEF PublishInv, Closed, IsClosed, Content
    <2>7. \A f \in found' : f.to <= checkpoint.committed
      BY <2>1, DiscoveredIsCommitted
    <2>8. WatermarkInv'
      BY <2>1, <2>7, Frames DEF IInv, WatermarkInv
    <2>9. QED
      BY <2>3, <2>4, <2>5, <2>6, <2>8 DEF IInv
  <1>4. QED
    BY <1>2, <1>3

(* The only change a dataset may see: the window is published for the first *)
(* time, or once more with what it has.                                     *)
Published(w) ==
  /\ pc = "publish" /\ w \in todo
  /\ datasets[w] \in {{}, Content(w, found)}
  /\ datasets' = [datasets EXCEPT ![w] = Content(w, found)]

(* Publication keeps what was published, and publishes closed windows only. *)
LEMMA PublishKeeps ==
  ASSUME IInv, NEW w, Published(w),
         UNCHANGED <<written, checkpoint, fragments, batches, consumption, flushed>>
  PROVE  /\ datasets' \in [Windows -> SUBSET Records]
         /\ \A v \in Windows : datasets[v] # {} => datasets'[v] = datasets[v]
         /\ KeptInv'
         /\ PublishedWhenClosed'
  <1>1. /\ datasets \in [Windows -> SUBSET Records]
        /\ w \in Windows /\ w \in Closed(found, flush)
        /\ found \in SUBSET Ranges
    BY DEF IInv, TypeOK, PublishInv, Published, Closed
  <1>2. Content(w, found) \subseteq Records
    BY DEF Content
  <1>3. datasets' \in [Windows -> SUBSET Records]
    BY <1>1, <1>2 DEF Published
  <1>4. \A v \in Windows : datasets[v] # {} => datasets'[v] = datasets[v]
    BY <1>1 DEF Published
  <1>5. KeptInv'
    <2>1. \A i \in Records : i \in datasets[Stream[i]] => i \in datasets'[Stream[i]]
      BY <1>4, StreamFacts
    <2>2. QED
      BY <2>1 DEF IInv, KeptInv, In, FirstWindow
  <1>6. PublishedWhenClosed'
    <2> SUFFICES ASSUME ~flushed, NEW i \in Records, datasets'[Stream[i]] # {}
                 PROVE  i <= checkpoint.committed
      BY DEF PublishedWhenClosed
    <2>1. CASE Stream[i] # w
      BY <1>1, <2>1, StreamFacts DEF Published, IInv, WatermarkInv, PublishedWhenClosed
    <2>2. CASE Stream[i] = w
      <3>1. flush = 0 /\ \A f \in found : f.to <= checkpoint.committed
        BY DEF Published, IInv, WatermarkInv
      <3>2. checkpoint.committed \in Nat
        BY StreamFacts DEF IInv, TypeOK
      <3>3. QED
        BY <1>1, <2>2, <3>1, <3>2, Watermark
    <2>3. QED
      BY <2>1, <2>2
  <1>7. QED
    BY <1>3, <1>4, <1>5, <1>6

LEMMA PublishWindowIInv == ASSUME IInv, NEW w \in Windows, PublishWindow(w) PROVE IInv'
  <1> USE DEF PublishWindow, budget
  <1>1. w \in todo /\ todo \subseteq Closed(found, flush) /\ todo \subseteq Windows
    BY DEF IInv, TypeOK, PublishInv, IsNext
  <1>2. Published(w)
    BY <1>1 DEF Published
  <1>3. datasets' \in [Windows -> SUBSET Records] /\ KeptInv' /\ PublishedWhenClosed'
    BY <1>2, PublishKeeps
  <1>4. TypeOK'
    BY <1>3 DEF IInv, TypeOK, Steps
  <1>5. CheckpointInv'
    BY DEF IInv, CheckpointInv, Staged
  <1>6. BatchesTile'
    BY Frames
  <1>7. PublishInv'
    <2>1. \A v \in Closed(found, flush) \ todo' : datasets'[v] = Content(v, found)
      <3>1. Closed(found, flush) \subseteq Windows /\ datasets \in [Windows -> SUBSET Records]
        BY DEF Closed, IInv, TypeOK
      <3>2. QED
        BY <3>1 DEF IInv, PublishInv
    <2>2. \A v \in todo' : w < v
      <3>1. \A v \in todo : v \in Nat /\ w <= v
        BY <1>1, StreamFacts DEF IsNext
      <3>2. w \in Nat
        BY StreamFacts
      <3>3. QED
        BY <3>1, <3>2
    <2>3. todo' \subseteq Closed(found, flush) /\ w \in Closed(found, flush) \ todo'
      BY <1>1
    <2>4. Closed(found, flush)' = Closed(found, flush)
      BY DEF Closed, IsClosed, Holds, In
    <2>5. \A v : Content(v, found)' = Content(v, found)
      BY DEF Content, In
    <2>6. QED
      BY <2>1, <2>2, <2>3, <2>4, <2>5 DEF PublishInv, Holds, Content, In
  <1>8. WatermarkInv'
    BY <1>3, Frames DEF IInv, WatermarkInv
  <1>9. QED
    BY <1>3, <1>4, <1>5, <1>6, <1>7, <1>8 DEF IInv

(* A batch gets its first consumption record when all that precedes the     *)
(* window recorded is published, the window the batch starts in included.   *)
LEMMA RecordPublicationIInv ==
  ASSUME IInv, NEW r \in Ranges, RecordPublication(r) PROVE IInv'
  <1> USE DEF RecordPublication, budget
  <1>1. /\ window \in Closed(found, flush) \ todo /\ window \in Windows
        /\ r \in found /\ Holds(r, window) /\ found \subseteq Ranges
        /\ consumption \in [Ranges -> ConsumptionType]
    BY DEF IInv, TypeOK, PublishInv, Closed, ConsumptionType
  <1>2. Publication(consumption[r], {window}, window) \in ConsumptionType
    BY <1>1 DEF Publication, ConsumptionType
  <1>3. /\ consumption' \in [Ranges -> ConsumptionType]
        /\ \A f \in Ranges : f # r => consumption'[f] = consumption[f]
        /\ consumption'[r].published # {}
    BY <1>1, <1>2 DEF Publication, ConsumptionType
  <1>4. TypeOK'
    BY <1>3 DEF IInv, TypeOK, ConsumptionType, Steps
  <1>5. CheckpointInv'
    BY DEF IInv, CheckpointInv, Staged
  <1>6. BatchesTile' /\ PublishedWhenClosed'
    BY Frames
  <1>7. PublishInv'
    <2>1. Closed(found, flush)' = Closed(found, flush)
      BY DEF Closed, IsClosed, Holds, In
    <2>2. \A v : Content(v, found)' = Content(v, found)
      BY DEF Content, In
    <2>3. {f \in found : Holds(f, window)}' = {f \in found : Holds(f, window)}
      BY DEF Holds, In
    <2>4. QED
      BY <2>1, <2>2, <2>3 DEF IInv, PublishInv
  <1>8. KeptInv'
    <2>1. FirstWindow(r) \in Closed(found, flush) /\ FirstWindow(r) <= window
      BY <1>1, FirstIsClosed
    <2>2. FirstWindow(r) \notin todo
      <3>1. window \in Nat /\ \A v \in todo : v \in Nat /\ window < v
        BY <1>1, StreamFacts DEF IInv, TypeOK, PublishInv
      <3>2. QED
        BY <2>1, <3>1
    <2>3. datasets[FirstWindow(r)] = Content(FirstWindow(r), found)
      BY <2>1, <2>2 DEF IInv, PublishInv
    <2>4. \A i \in Records : In(i, r) /\ Stream[i] = FirstWindow(r) => i \in datasets[Stream[i]]
      BY <1>1, <2>3 DEF Content
    <2>5. \A b \in batches : b \in fragments \/ consumption'[b].published # {}
      BY <1>3 DEF IInv, TypeOK, KeptInv
    <2>6. QED
      BY <1>3, <2>4, <2>5 DEF IInv, KeptInv, In, FirstWindow
  <1>9. WatermarkInv'
    <2>1. (\A f \in Ranges : consumption[f].published # {} => f.to <= checkpoint.committed)'
      BY <1>1, <1>3 DEF IInv, WatermarkInv
    <2>2. QED
      BY <1>6, <2>1 DEF IInv, WatermarkInv
  <1>10. QED
    BY <1>4, <1>5, <1>6, <1>7, <1>8, <1>9 DEF IInv

(* Only a batch with a consumption record leaves the disk. *)
LEMMA CleanupFragmentIInv ==
  ASSUME IInv, NEW r \in Ranges, CleanupFragment(r) PROVE IInv'
  <1> USE DEF CleanupFragment
  <1>1. /\ fragments' \subseteq fragments
        /\ \A f \in fragments : f \in fragments' \/ consumption[f].published # {}
        /\ errors' \in Nat
    BY DEF IInv, TypeOK, IsFullyConsumed
  <1>2. TypeOK'
    BY <1>1 DEF IInv, TypeOK
  <1>3. CheckpointInv'
    BY <1>1 DEF IInv, CheckpointInv, Staged
  <1>4. BatchesTile' /\ PublishedWhenClosed'
    BY Frames
  <1>5. PublishInv'
    BY DEF PublishInv
  <1>6. KeptInv'
    BY <1>1 DEF IInv, KeptInv, In, FirstWindow
  <1>7. WatermarkInv'
    BY <1>4 DEF IInv, WatermarkInv
  <1>8. QED
    BY <1>2, <1>3, <1>4, <1>5, <1>6, <1>7 DEF IInv

(* From the cleanup on a cycle changes handoffs and its own variables only. *)
LEMMA LateIInv ==
  ASSUME IInv, pc \in {"clean", "handoff"}, pc' = "handoff",
         todo' \subseteq Windows, handoffs' \subseteq Windows, errors' \in Nat,
         UNCHANGED <<written, checkpoint, fragments, batches, consumption, datasets, source,
                     limit, flush, range, found, window, refs, restarts, flushed>>
  PROVE  IInv'
  <1>1. TypeOK'
    BY DEF IInv, TypeOK, Steps
  <1>2. CheckpointInv'
    BY DEF IInv, CheckpointInv, Staged
  <1>3. BatchesTile' /\ KeptInv' /\ PublishInv'
    BY Frames DEF PublishInv
  <1>4. WatermarkInv'
    BY Frames DEF IInv, WatermarkInv
  <1>5. QED
    BY <1>1, <1>2, <1>3, <1>4 DEF IInv

LEMMA CleanupDoneIInv == ASSUME IInv, CleanupDone PROVE IInv'
  BY LateIInv DEF CleanupDone, disk, budget, Closed, IInv, TypeOK

LEMMA CreateHandoffIInv ==
  ASSUME IInv, NEW w \in Windows, CreateHandoff(w) PROVE IInv'
  <1>1. todo' \subseteq Windows /\ handoffs' \subseteq Windows /\ errors' \in Nat
    BY DEF CreateHandoff, IInv, TypeOK
  <1>2. QED
    BY <1>1, LateIInv DEF CreateHandoff

(* A write fails, or the process dies: the cycle ends. *)
LEMMA ExtractionWriteFailsIInv == ASSUME IInv, ExtractionWriteFails PROVE IInv'
  <1>1. restarts' \in Nat /\ errors' \in Nat
    BY DEF ExtractionWriteFails, IInv, TypeOK
  <1>2. QED
    BY <1>1, EndsSource, EndsIInv DEF ExtractionWriteFails, FailRetryable, IInv

LEMMA PublishWriteFailsIInv == ASSUME IInv, PublishWriteFails PROVE IInv'
  <1> USE DEF PublishWriteFails
  <1>1. restarts' \in Nat /\ errors' \in Nat /\ source' \in SourceType
    BY EndsSource DEF IInv, TypeOK
  <1>2. CASE UNCHANGED datasets
    BY <1>1, <1>2, EndsIInv DEF FailBlocked, disk
  <1>3. CASE \E w \in todo : Published(w)
    <2>1. PICK w \in todo : Published(w)
      BY <1>3
    <2>2. datasets' \in [Windows -> SUBSET Records] /\ KeptInv' /\ PublishedWhenClosed'
      BY <2>1, PublishKeeps
    <2>3. TypeOK'
      <3>1. source' \in [status : Statuses, attempt : Nat, offset : 0 .. Total]
        BY <1>1 DEF SourceType
      <3>2. QED
        BY <1>1, <2>2, <3>1 DEF IInv, TypeOK, FailBlocked, Clear, Steps
    <2>4. CheckpointInv'
      BY DEF IInv, CheckpointInv, Staged, FailBlocked
    <2>5. BatchesTile' /\ PublishInv'
      BY Frames DEF PublishInv, FailBlocked
    <2>6. WatermarkInv'
      BY <2>2, Frames DEF WatermarkInv, FailBlocked, Clear
    <2>7. QED
      BY <2>2, <2>3, <2>4, <2>5, <2>6 DEF IInv
  <1>4. QED
    BY <1>2, <1>3 DEF Published

LEMMA EndingsIInv ==
  ASSUME IInv,
         \/ AssembleFails \/ CycleDone \/ Restart
         \/ \E w \in Windows : PublishConflict(w)
  PROVE  IInv'
  <1>1. /\ pc' = "idle" /\ Clear /\ source' \in SourceType
        /\ UNCHANGED <<written, disk, flushed>>
    BY EndsSource
    DEF IInv, AssembleFails, CycleDone, Restart, PublishConflict, Finish, FailBlocked, budget
  <1>2. restarts' \in Nat /\ errors' \in Nat
    BY DEF IInv, TypeOK, AssembleFails, CycleDone, Restart, PublishConflict, budget
  <1>3. QED
    BY <1>1, <1>2, EndsIInv

LEMMA StutterIInv == ASSUME IInv, UNCHANGED vars PROVE IInv'
  <1> USE DEF vars, disk, local, budget
  <1>1. TypeOK'
    BY DEF IInv, TypeOK
  <1>2. CheckpointInv'
    BY DEF IInv, CheckpointInv, Staged
  <1>3. BatchesTile' /\ KeptInv' /\ PublishedWhenClosed'
    BY Frames
  <1>4. PublishInv'
    BY DEF IInv, PublishInv, Closed, IsClosed, Content, Holds, In
  <1>5. WatermarkInv'
    BY <1>3 DEF IInv, WatermarkInv, IsFullyConsumed
  <1>6. QED
    BY <1>1, <1>2, <1>3, <1>4, <1>5 DEF IInv

-----------------------------------------------------------------------------
LEMMA NextIInv == IInv /\ [Next]_vars => IInv'
  <1> SUFFICES ASSUME IInv, [Next]_vars PROVE IInv'
    OBVIOUS
  <1>1. CASE AppendRecord
    BY <1>1, AppendIInv
  <1>2. CASE Poll
    BY <1>2, PollIInv
  <1>3. CASE Request
    BY <1>3, RequestIInv
  <1>4. CASE NoData \/ RecoverPending \/ MarkProcessing \/ SaveFragment
    BY <1>4, NoDataIInv, RecoverPendingIInv, MarkProcessingIInv, SaveFragmentIInv
  <1>5. CASE StageCheckpoint \/ CommitCheckpoint \/ Assemble \/ CleanupDone
    BY <1>5, StageCheckpointIInv, CommitCheckpointIInv, AssembleIInv, CleanupDoneIInv
  <1>6. CASE AssembleFails \/ CycleDone \/ Restart
    BY <1>6, EndingsIInv
  <1>7. CASE \E w \in Windows : PublishWindow(w) \/ PublishConflict(w) \/ CreateHandoff(w)
    BY <1>7, PublishWindowIInv, CreateHandoffIInv, EndingsIInv
  <1>8. CASE \E r \in Ranges : RecordPublication(r) \/ CleanupFragment(r)
    BY <1>8, RecordPublicationIInv, CleanupFragmentIInv
  <1>9. CASE ExtractionWriteFails \/ PublishWriteFails
    BY <1>9, ExtractionWriteFailsIInv, PublishWriteFailsIInv
  <1>10. CASE UNCHANGED vars
    BY <1>10, StutterIInv
  <1>11. QED
    BY <1>1, <1>2, <1>3, <1>4, <1>5, <1>6, <1>7, <1>8, <1>9, <1>10 DEF Next, CycleStep

(* The inductive invariant holds of the specification. *)
THEOREM Invariant == Spec => []IInv
  <1>1. QED
    BY InitIInv, NextIInv, PTL DEF Spec

(* Every variable has its type. *)
THEOREM TypeCorrect == Spec => []TypeOK
  <1>1. IInv => TypeOK
    BY DEF IInv
  <1>2. QED
    BY <1>1, Invariant, PTL

(* Committed batches cover the records up to the committed offset, none twice: *)
(* no crash between the saves of process_available_records skips or repeats a  *)
(* record.                                                                     *)
THEOREM BatchesAlwaysTile == Spec => []BatchesTile
  <1>1. IInv => BatchesTile
    BY DEF IInv
  <1>2. QED
    BY <1>1, Invariant, PTL

(* What a crash left staged can be recovered: the batch is on disk and starts *)
(* where the committed offset is.                                             *)
THEOREM StagedIsRecoverable ==
  Spec => [](Staged => /\ checkpoint.pending \in fragments
                       /\ checkpoint.pending.from = checkpoint.committed)
  <1>1. IInv => (Staged => /\ checkpoint.pending \in fragments
                           /\ checkpoint.pending.from = checkpoint.committed)
    BY DEF IInv, CheckpointInv
  <1>2. QED
    BY <1>1, Invariant, PTL

(* A committed batch leaves the disk only when the records of the window it *)
(* starts in are in that window's dataset.                                  *)
THEOREM FirstWindowNeverLost == Spec => []FirstWindowKept
  <1>1. IInv => FirstWindowKept
    <2>1. IInv => batches \subseteq Ranges
      BY DEF IInv, TypeOK
    <2>2. QED
      BY <2>1 DEF IInv, KeptInv, FirstWindowKept
  <1>2. QED
    BY <1>1, Invariant, PTL

(* The watermark is sound: unless an operator flushes, a window with a dataset *)
(* has no record behind the committed offset.                                  *)
THEOREM WatermarkIsSound == Spec => []PublishedWhenClosed
  <1>1. IInv => PublishedWhenClosed
    BY DEF IInv, WatermarkInv
  <1>2. QED
    BY <1>1, Invariant, PTL

(* No step changes a dataset that was published. *)
THEOREM PublishedNeverChanges == Spec => DatasetsImmutable
  <1>1. IInv /\ [Next]_vars =>
          [\A w \in Windows : datasets[w] # {} => datasets'[w] = datasets[w]]_vars
    <2> SUFFICES ASSUME IInv, Next
                 PROVE  \A w \in Windows : datasets[w] # {} => datasets'[w] = datasets[w]
      OBVIOUS
    <2>1. CASE \E w : Published(w)
      <3>1. PICK w : Published(w)
        BY <2>1
      <3>2. datasets \in [Windows -> SUBSET Records]
        BY DEF IInv, TypeOK
      <3>3. QED
        BY <3>1, <3>2 DEF Published
    <2>2. CASE UNCHANGED datasets
      BY <2>2
    <2>3. QED
      <3>1. (\E w : Published(w)) \/ UNCHANGED datasets
        BY DEF Next, CycleStep, AppendRecord, Poll, Request, Start, NoData, RecoverPending,
               MarkProcessing, SaveFragment, StageCheckpoint, CommitCheckpoint, AssembleFails,
               Assemble, PublishWindow, PublishConflict, CreateHandoff, RecordPublication,
               CleanupFragment, CleanupDone, CycleDone, ExtractionWriteFails, PublishWriteFails,
               Restart, disk, IsNext, Published
      <3>2. QED
        BY <2>1, <2>2, <3>1
  <1>2. QED
    BY <1>1, Invariant, PTL DEF Spec, DatasetsImmutable

-----------------------------------------------------------------------------
(* Ordinary operation: no crash, no failed write, no flush.                 *)
Ordinary == restarts = 0 /\ errors = 0 /\ ~flushed

(* In ordinary operation every fragment is a committed batch, but for the   *)
(* one the cycle is about to commit.  A cycle publishes only windows that   *)
(* have no dataset yet: once a window is published, each fragment that      *)
(* holds it gets a consumption record in which nothing is pending, so none  *)
(* is discovered again.                                                     *)
OrdinaryInv ==
  /\ source.status # "blocked"
  /\ Staged => pc = "commit"
  /\ \A f \in fragments : f \in batches \/ (pc \in {"stage", "commit"} /\ f = range)
  /\ \A f \in Ranges : consumption[f].referenced = consumption[f].published
  /\ pc \in {"publish", "record"} =>
       /\ \A f \in fragments : f \in found \/ consumption[f].published # {}
       /\ \A w \in todo : datasets[w] = {}
  /\ \A w \in Windows : datasets[w] # {} =>
       \A f \in fragments : Holds(f, w) =>
         consumption[f].published # {} \/ (pc = "record" /\ w = window /\ f \in refs)

(* The batch a cycle reads has no record of a published window: those are   *)
(* all committed.                                                           *)
LEMMA NewRangeIsUnpublished ==
  ASSUME IInv, ~flushed, SaveFragment, NEW w \in Windows, datasets[w] # {}
  PROVE  ~Holds(range', w)
  <1>1. range'.from = checkpoint.committed /\ checkpoint.committed \in Nat
    BY SavedRange, StreamFacts DEF IInv, TypeOK
  <1>2. \A i \in Records : Stream[i] = w => i <= checkpoint.committed
    BY DEF IInv, WatermarkInv, PublishedWhenClosed
  <1>3. QED
    BY <1>1, <1>2, StreamFacts DEF Holds, In

(* Assembly has nothing to refuse, and none of the windows it finds has a   *)
(* dataset.                                                                 *)
LEMMA OrdinaryAssembly ==
  ASSUME IInv, OrdinaryInv, pc = "assemble"
  PROVE  /\ ~HasDuplicates(Discovered)
         /\ \A f \in fragments : f \in Discovered \/ consumption[f].published # {}
         /\ \A w \in Closed(Discovered, flush) : datasets[w] = {}
  <1>1. fragments \subseteq batches /\ fragments \subseteq Ranges
    BY DEF OrdinaryInv, IInv, TypeOK
  <1>2. ~HasDuplicates(Discovered)
    BY <1>1 DEF HasDuplicates, Discovered, IInv, BatchesTile
  <1>3. \A f \in fragments : f \in Discovered <=> consumption[f].published = {}
    BY <1>1 DEF OrdinaryInv, Discovered, IsFullyConsumed
  <1>4. ASSUME NEW w \in Closed(Discovered, flush) PROVE datasets[w] = {}
    <2>1. PICK f \in Discovered : Holds(f, w)
      BY DEF Closed, IsClosed
    <2>2. f \in fragments /\ consumption[f].published = {} /\ w \in Windows
      BY <2>1, <1>3 DEF Discovered, Closed
    <2>3. QED
      BY <2>1, <2>2 DEF OrdinaryInv
  <1>5. QED
    BY <1>2, <1>3, <1>4

(* What a step that leaves the data of the cycle alone preserves. *)
LEMMA OrdinaryFrame ==
  ASSUME OrdinaryInv, pc # "record", pc' \notin {"publish", "record"},
         UNCHANGED <<fragments, consumption, datasets>>
  PROVE  /\ (\A f \in Ranges : consumption[f].referenced = consumption[f].published)'
         /\ (pc \in {"publish", "record"} =>
               /\ \A f \in fragments : f \in found \/ consumption[f].published # {}
               /\ \A w \in todo : datasets[w] = {})'
         /\ (\A w \in Windows : datasets[w] # {} =>
               \A f \in fragments : Holds(f, w) =>
                 consumption[f].published # {} \/ (pc = "record" /\ w = window /\ f \in refs))'
  BY DEF OrdinaryInv, Holds, In

(* A cycle that starts, goes on reading or ends without an exception. *)
LEMMA OrdinaryReading ==
  ASSUME IInv, OrdinaryInv,
         \/ \E l \in Limits, bound \in Windows \cup {0} : Start(l, bound)
         \/ NoData \/ MarkProcessing \/ StageCheckpoint \/ CommitCheckpoint
         \/ CleanupDone \/ CycleDone
         \/ \E w \in Windows : CreateHandoff(w)
  PROVE  OrdinaryInv'
  <1> USE DEF Start, NoData, MarkProcessing, StageCheckpoint, CommitCheckpoint,
              CleanupDone, CycleDone, CreateHandoff, Finish, disk
  <1>1. /\ pc # "record" /\ pc' \notin {"publish", "record"}
        /\ UNCHANGED <<fragments, consumption, datasets>>
    OBVIOUS
  <1>2. source'.status # "blocked"
    BY DEF OrdinaryInv, IInv, TypeOK
  <1>3. checkpoint \in CheckpointType
    BY DEF IInv, TypeOK, CheckpointType
  <1>4. /\ (Staged => pc = "commit")'
        /\ (\A f \in fragments : f \in batches \/ (pc \in {"stage", "commit"} /\ f = range))'
    <2>1. CASE StageCheckpoint \/ CommitCheckpoint
      BY <2>1 DEF OrdinaryInv, Staged, Committed, local
    <2>2. CASE MarkProcessing
      BY <2>2, <1>3 DEF OrdinaryInv, Staged, CheckpointType, local
    <2>3. CASE UNCHANGED <<checkpoint, batches>> /\ pc \notin {"stage", "commit"}
      BY <2>3 DEF OrdinaryInv, Staged
    <2>4. QED
      BY <2>1, <2>2, <2>3
  <1>5. QED
    BY <1>1, <1>2, <1>4, OrdinaryFrame DEF OrdinaryInv

LEMMA OrdinarySave ==
  ASSUME IInv, OrdinaryInv, ~flushed, SaveFragment PROVE OrdinaryInv'
  <1>1. /\ fragments' = fragments \cup {range'}
        /\ pc = "save" /\ pc' = "stage"
        /\ UNCHANGED <<checkpoint, batches, consumption, datasets, source>>
    BY DEF SaveFragment
  <1>2. \A w \in Windows : datasets[w] # {} => ~Holds(range', w)
    BY NewRangeIsUnpublished
  <1>3. \A w \in Windows : datasets[w] # {} =>
          \A f \in fragments' : Holds(f, w) => consumption[f].published # {}
    BY <1>1, <1>2 DEF OrdinaryInv
  <1>4. QED
    BY <1>1, <1>3 DEF OrdinaryInv, Staged, Holds, In

LEMMA OrdinaryAssemble == ASSUME IInv, OrdinaryInv, Assemble PROVE OrdinaryInv'
  <1> USE DEF Assemble, disk
  <1>1. CASE Finish
    <2>1. source'.status # "blocked" /\ pc' = "idle"
      BY <1>1 DEF Finish, IInv, TypeOK
    <2>2. QED
      BY <2>1, OrdinaryFrame DEF OrdinaryInv, Staged
  <1>2. CASE ~Finish
    <2>1. /\ pc = "assemble" /\ pc' = "publish"
          /\ found' = Discovered /\ todo' = Closed(Discovered, flush)
          /\ UNCHANGED <<checkpoint, fragments, batches, consumption, datasets, source>>
      BY <1>2
    <2>2. /\ \A f \in fragments : f \in found' \/ consumption[f].published # {}
          /\ \A w \in todo' : datasets[w] = {}
      BY <2>1, OrdinaryAssembly
    <2>3. QED
      BY <2>1, <2>2 DEF OrdinaryInv, Staged, Holds, In
  <1>3. QED
    BY <1>1, <1>2

(* The fragments that hold the window just published are the ones its       *)
(* consumption is recorded for.                                             *)
LEMMA OrdinaryPublish ==
  ASSUME IInv, OrdinaryInv, NEW w \in Windows, PublishWindow(w) PROVE OrdinaryInv'
  <1> USE DEF PublishWindow
  <1>1. datasets \in [Windows -> SUBSET Records] /\ w \notin todo' /\ todo' \subseteq todo
    BY DEF IInv, TypeOK
  <1>2. todo \subseteq Windows
    BY DEF IInv, TypeOK
  <1>3. \A v \in Windows : v # w => datasets'[v] = datasets[v]
    BY <1>1
  <1>4. \A v \in todo' : datasets'[v] = {}
    BY <1>1, <1>2, <1>3 DEF OrdinaryInv
  <1>5. ASSUME NEW v \in Windows, datasets'[v] # {}, NEW f \in fragments, Holds(f, v)
        PROVE  consumption[f].published # {} \/ (v = w /\ f \in refs')
    BY <1>3, <1>5 DEF OrdinaryInv
  <1>6. QED
    BY <1>4, <1>5 DEF OrdinaryInv, Staged, Holds, In

LEMMA OrdinaryRecord ==
  ASSUME IInv, OrdinaryInv, NEW r \in Ranges, RecordPublication(r) PROVE OrdinaryInv'
  <1> USE DEF RecordPublication
  <1>1. consumption \in [Ranges -> ConsumptionType]
    BY DEF IInv, TypeOK, ConsumptionType
  <1>2. /\ \A f \in Ranges : f # r => consumption'[f] = consumption[f]
        /\ consumption'[r] = Publication(consumption[r], {window}, window)
    BY <1>1
  <1>3. \A f \in Ranges : consumption'[f].referenced = consumption'[f].published
    <2>1. consumption[r].referenced = consumption[r].published
      BY DEF OrdinaryInv
    <2>2. /\ consumption'[r].referenced = consumption[r].referenced \cup {window} \cup {window}
          /\ consumption'[r].published = consumption[r].published \cup {window}
      BY <1>2 DEF Publication
    <2>3. consumption'[r].referenced = consumption'[r].published
      BY <2>1, <2>2
    <2>4. QED
      BY <1>2, <2>3 DEF OrdinaryInv
  <1>4. \A f \in Ranges : f = r \/ consumption[f].published # {} => consumption'[f].published # {}
    <2>1. window \in consumption'[r].published
      BY <1>2 DEF Publication
    <2>2. QED
      BY <1>2, <2>1
  <1>5. fragments \subseteq Ranges
    BY DEF IInv, TypeOK
  <1>6. \A f \in fragments : f \in found \/ consumption'[f].published # {}
    BY <1>4, <1>5 DEF OrdinaryInv
  <1>7. ASSUME NEW w \in Windows, datasets[w] # {}, NEW f \in fragments, Holds(f, w)
        PROVE  consumption'[f].published # {} \/ (pc' = "record" /\ w = window /\ f \in refs')
    BY <1>4, <1>5, <1>7 DEF OrdinaryInv
  <1>8. QED
    BY <1>3, <1>6, <1>7 DEF OrdinaryInv, Staged, Holds, In

(* Removing fragments, and lines of the stream, disturb nothing. *)
LEMMA OrdinaryCleanup ==
  ASSUME IInv, OrdinaryInv, NEW r \in Ranges, CleanupFragment(r) PROVE OrdinaryInv'
  <1>1. /\ fragments' \subseteq fragments
        /\ pc = "clean" /\ pc' = "clean"
        /\ UNCHANGED <<checkpoint, batches, consumption, datasets, source>>
    BY DEF CleanupFragment
  <1>2. QED
    BY <1>1 DEF OrdinaryInv, Staged, Holds, In

LEMMA OrdinaryUnchanged ==
  ASSUME OrdinaryInv, UNCHANGED <<disk, source, pc, local>> PROVE OrdinaryInv'
  BY DEF OrdinaryInv, disk, local, Staged, Holds, In

(* In ordinary operation no source is blocked, by induction: neither        *)
(* refusal of the publish service is enabled.                               *)
LEMMA OrdinaryNext ==
  ASSUME IInv, [Next]_vars, Ordinary => OrdinaryInv PROVE (Ordinary => OrdinaryInv)'
  <1> SUFFICES ASSUME Ordinary' PROVE OrdinaryInv'
    OBVIOUS
  <1>1. /\ restarts \in Nat /\ errors \in Nat /\ flushed \in BOOLEAN
        /\ fragments \subseteq Ranges
    BY DEF IInv, TypeOK
  <1>2. CASE ExtractionWriteFails \/ PublishWriteFails \/ Restart
    BY <1>1, <1>2 DEF ExtractionWriteFails, PublishWriteFails, Restart, Ordinary
  <1>3. CASE AppendRecord
    <2>1. OrdinaryInv
      BY <1>3 DEF Ordinary, AppendRecord, budget
    <2>2. QED
      BY <1>3, <2>1, OrdinaryUnchanged DEF AppendRecord
  <1>4. CASE Poll \/ Request
    <2>1. Ordinary
      BY <1>1, <1>4 DEF Ordinary, Poll, Request, Start
    <2>2. \E l \in Limits, bound \in Windows \cup {0} : Start(l, bound)
      BY <1>4 DEF Poll, Request
    <2>3. QED
      BY <2>1, <2>2, OrdinaryReading
  <1>5. CASE CycleStep
    <2>1. Ordinary
      <3>1. \/ restarts' = restarts /\ errors' = errors /\ flushed' = flushed
            \/ errors' = errors + 1
        BY <1>5 DEF CycleStep, NoData, RecoverPending, MarkProcessing, SaveFragment,
             StageCheckpoint, CommitCheckpoint, AssembleFails, Assemble, PublishWindow,
             PublishConflict, CreateHandoff, RecordPublication, CleanupFragment,
             CleanupDone, CycleDone, budget
      <3>2. ~(errors' = errors + 1)
        BY <1>1 DEF Ordinary
      <3>3. QED
        BY <3>1, <3>2 DEF Ordinary
    <2>2. OrdinaryInv /\ ~flushed
      BY <2>1 DEF Ordinary
    <2>3. ~RecoverPending
      BY <2>2 DEF OrdinaryInv, RecoverPending
    <2>4. ~AssembleFails
      BY <2>2, OrdinaryAssembly DEF AssembleFails
    <2>5. \A w \in Windows : ~PublishConflict(w)
      BY <2>2 DEF OrdinaryInv, PublishConflict, IsNext
    <2>6. CASE NoData \/ MarkProcessing \/ StageCheckpoint \/ CommitCheckpoint
               \/ CleanupDone \/ CycleDone \/ \E w \in Windows : CreateHandoff(w)
      BY <2>2, <2>6, OrdinaryReading
    <2>7. CASE SaveFragment \/ Assemble \/ \E w \in Windows : PublishWindow(w)
      BY <2>2, <2>7, OrdinarySave, OrdinaryAssemble, OrdinaryPublish
    <2>8. CASE \E r \in Ranges : RecordPublication(r) \/ CleanupFragment(r)
      BY <2>2, <2>8, OrdinaryRecord, OrdinaryCleanup
    <2>9. QED
      BY <1>5, <2>3, <2>4, <2>5, <2>6, <2>7, <2>8 DEF CycleStep
  <1>6. CASE UNCHANGED vars
    <2>1. OrdinaryInv
      BY <1>6 DEF Ordinary, vars, budget
    <2>2. QED
      BY <1>6, <2>1, OrdinaryUnchanged DEF vars
  <1>7. QED
    BY <1>2, <1>3, <1>4, <1>5, <1>6 DEF Next

(* Whatever the batch sizes, no source is ever blocked unless a process died, *)
(* a write failed or an operator flushed: overlapping fragments and           *)
(* conflicting datasets do not come from ordinary operation.                  *)
THEOREM OrdinaryNeverBlocks == Spec => []NeverBlockedInOrdinaryOperation
  <1>1. Init => (Ordinary => OrdinaryInv)
    <2> SUFFICES ASSUME Init PROVE OrdinaryInv
      OBVIOUS
    <2>1. /\ \A f \in Ranges : consumption[f].referenced = consumption[f].published
          /\ \A w \in Windows : datasets[w] = {}
      BY DEF Init, NotConsumed
    <2>2. fragments = {} /\ pc = "idle" /\ ~Staged /\ source.status # "blocked"
      BY DEF Init, Staged, NewSource
    <2>3. QED
      BY <2>1, <2>2 DEF OrdinaryInv
  <1>2. IInv /\ (Ordinary => OrdinaryInv) /\ [Next]_vars => (Ordinary => OrdinaryInv)'
    BY OrdinaryNext
  <1>3. (Ordinary => OrdinaryInv) => NeverBlockedInOrdinaryOperation
    BY DEF Ordinary, OrdinaryInv, NeverBlockedInOrdinaryOperation
  <1>4. QED
    BY <1>1, <1>2, <1>3, Invariant, PTL DEF Spec
=============================================================================
