-------------------------- MODULE RuntimeQueueProofs --------------------------
(* Proofs about RuntimeQueue, for every set of jobs and inputs. *)
EXTENDS RuntimeQueue, SequenceTheorems, FiniteSetTheorems, TLAPS

USE QueueAssumption

-----------------------------------------------------------------------------
(* What the worker thread holds: a readable job that is running, apart from *)
(* those whose settling write raised; nothing once the process is gone.     *)
WorkerInv ==
  /\ up = "down" => pc = "idle"
  /\ pc # "idle" => wjob \in Jobs \ Legacy /\ wjob \notin stranded
  /\ stranded \subseteq Jobs \ Legacy

(* A row that is not there yet carries no keys and retries nothing. *)
AbsentInv ==
  \A j \in Jobs : ~ Present(j) => path[j] = <<>> /\ retryOf[j] = NoJob

(* A row whose keys were archived by job j got them from j before j was *)
(* archived once more: they carry fewer prefixes than those of j.       *)
ArchiveInv ==
  \A j, k \in Jobs : /\ k # j /\ path[k] # <<>> /\ Head(path[k]) = j
                     => Len(path[k]) < Len(path[j])

(* The attempt the worker remembers is the attempt in the table. *)
AttemptInv ==
  /\ pc # "idle" => attempt[wjob] = wattempt
  /\ pc = "backoff" => wattempt < MaxAttempts
  /\ up # "down" => restarts > 0
  /\ restarts = 0 => \A j \in Jobs \ Legacy : status[j] = "absent"
  /\ AttemptBound

IInv ==
  /\ TypeOK
  /\ WorkerInv
  /\ RunningOwned
  /\ AbsentInv
  /\ ArchiveInv
  /\ UniqueSourceIdentity
  /\ AttemptInv
  /\ RetryLineage

-----------------------------------------------------------------------------
(* Archiving a key once more: one prefix longer, headed by the job. *)
LEMMA Archived ==
  ASSUME NEW j \in Jobs, NEW p \in Seq(Jobs)
  PROVE  /\ <<j>> \o p \in Seq(Jobs)
         /\ <<j>> \o p # <<>>
         /\ Head(<<j>> \o p) = j
         /\ Len(<<j>> \o p) = Len(p) + 1
  <1>1. <<j>> \in Seq(Jobs) /\ Len(<<j>>) = 1 /\ <<j>>[1] = j
    OBVIOUS
  <1>2. QED
    BY <1>1, ConcatProperties, HeadTailProperties

(* The empty queue, or one holding rows of an earlier release, satisfies the invariant. *)
LEMMA InitIInv == Init => IInv
  <1> SUFFICES ASSUME Init PROVE IInv
    OBVIOUS
  <1>1. TypeOK
    <2>1. Cardinality(Jobs) \in Nat
      BY FS_CardinalityType
    <2>2. seq \in [Jobs -> Nat]
      BY <2>1 DEF Init
    <2>3. path \in [Jobs -> Seq(Jobs)]
      BY DEF Init
    <2>4. status \in [Jobs -> RowStatus]
      BY DEF Init, RowStatus
    <2>5. input \in [Jobs -> Inputs]
      BY DEF Init
    <2>6. QED
      BY <2>2, <2>3, <2>4, <2>5 DEF Init, TypeOK
  <1>2. WorkerInv /\ RunningOwned
    BY DEF Init, WorkerInv, RunningOwned
  <1>3. AbsentInv /\ ArchiveInv
    BY DEF Init, AbsentInv, ArchiveInv, Present
  <1>4. UniqueSourceIdentity
    <2> SUFFICES ASSUME NEW j \in Jobs, NEW k \in Jobs, Present(j), Present(k),
                        IdentityKey(j) = IdentityKey(k)
                 PROVE  j = k
      BY DEF UniqueSourceIdentity
    <2>1. j \in Legacy /\ k \in Legacy
      BY DEF Init, Present
    <2>2. SourceIdentity[LegacyInput[j]] = SourceIdentity[LegacyInput[k]]
      BY <2>1 DEF Init, IdentityKey
    <2>3. QED
      BY <2>1, <2>2
  <1>5. AttemptInv /\ RetryLineage
    BY DEF Init, AttemptInv, AttemptBound, RetryLineage
  <1>6. QED
    BY <1>1, <1>2, <1>3, <1>4, <1>5 DEF IInv

-----------------------------------------------------------------------------
(* Enqueue and retry: a row appears at an absent job and no present row *)
(* changes its status, input or position.                               *)
LEMMA EnqueueIInv ==
  ASSUME IInv, NEW j \in Jobs, NEW i \in Inputs, Enqueue(j, i)
  PROVE  IInv'
  <1> USE DEF IInv
  <1>1. PICK s \in Seqs : IsNextSeq(s) /\ seq' = [seq EXCEPT ![j] = s]
    BY DEF Enqueue, Insert
  <1>2. s \in Nat
    BY FS_CardinalityType DEF Seqs
  <1>3. TypeOK'
    BY <1>1, <1>2 DEF Enqueue, Insert, TypeOK, RowStatus, worker
  <1>4. ~ Present(j) /\ path[j] = <<>> /\ path' = path
    BY DEF AbsentInv, Enqueue, Insert, TypeOK
  <1>5. WorkerInv' /\ RunningOwned'
    BY <1>4 DEF WorkerInv, RunningOwned, Enqueue, Insert, TypeOK, Present, worker
  <1>6. AbsentInv' /\ ArchiveInv'
    BY <1>4 DEF AbsentInv, ArchiveInv, Enqueue, Insert, TypeOK, Present
  <1>7. UniqueSourceIdentity'
    <2>1. \A k \in Jobs : Present(k) => IdentityKey(k) # <<<<>>, SourceIdentity[i]>>
      BY DEF Enqueue, KnownSource
    <2>2. \A k \in Jobs : k # j => /\ Present(k)' = Present(k)
                                  /\ IdentityKey(k)' = IdentityKey(k)
      BY <1>4 DEF Enqueue, Insert, TypeOK, Present, IdentityKey
    <2>3. IdentityKey(j)' = <<<<>>, SourceIdentity[i]>>
      BY <1>4 DEF Enqueue, Insert, TypeOK, IdentityKey
    <2>4. QED
      BY <2>1, <2>2, <2>3 DEF UniqueSourceIdentity
  <1>8. AttemptInv'
    <2>1. pc # "idle" => wjob \in Jobs \ {j}
      BY <1>4 DEF WorkerInv, RunningOwned, Present, Enqueue
    <2>2. attempt' = [attempt EXCEPT ![j] = 1] /\ UNCHANGED <<pc, wjob, wattempt, up, restarts>>
      BY DEF Enqueue, Insert, worker
    <2>3. attempt \in [Jobs -> Nat] /\ restarts \in Nat /\ restarts > 0
      BY DEF TypeOK, AttemptInv, Enqueue
    <2>4. AttemptBound'
      BY <2>2, <2>3 DEF AttemptBound, AttemptInv
    <2>5. QED
      BY <2>1, <2>2, <2>3, <2>4 DEF AttemptInv
  <1>9. RetryLineage'
    BY <1>1, <1>2, <1>4 DEF RetryLineage, AbsentInv, Enqueue, Insert, TypeOK, Present
  <1>10. QED
    BY <1>3, <1>5, <1>6, <1>7, <1>8, <1>9

(* A retry archives the keys of its original and inserts a row behind it. *)
LEMMA RetryFailedIInv ==
  ASSUME IInv, NEW j \in Jobs, NEW n \in Jobs, RetryFailed(j, n)
  PROVE  IInv'
  <1> USE DEF IInv
  <1> DEFINE p == path[j]
             q == <<j>> \o p
  <1>1. PICK s \in Seqs : IsNextSeq(s) /\ seq' = [seq EXCEPT ![n] = s]
    BY DEF RetryFailed, Insert
  <1>2. s \in Nat /\ \A k \in Jobs : Present(k) => seq[k] < s
    BY <1>1, FS_CardinalityType DEF Seqs, IsNextSeq
  <1>3. /\ Present(j) /\ status[j] \in {"failed", "dead_letter"}
        /\ ~ Present(n) /\ j # n /\ path[n] = <<>> /\ retryOf[n] = NoJob
    BY DEF RetryFailed, Insert, Retriable, Present, AbsentInv
  <1>4. p \in Seq(Jobs) /\ q \in Seq(Jobs) /\ q # <<>> /\ Head(q) = j /\ Len(q) = Len(p) + 1
        /\ Len(p) \in Nat
    BY Archived, LenProperties DEF TypeOK
  <1>5. /\ path' = [path EXCEPT ![j] = q, ![n] = p]
        /\ path'[j] = q /\ path'[n] = p
        /\ \A k \in Jobs \ {j, n} : path'[k] = path[k]
    BY <1>3 DEF RetryFailed, TypeOK
  <1> HIDE DEF p, q
  <1>6. TypeOK'
    <2>1. path' \in [Jobs -> Seq(Jobs)]
      BY <1>4, <1>5 DEF TypeOK
    <2>2. seq' \in [Jobs -> Nat]
      BY <1>1, <1>2 DEF TypeOK
    <2>3. QED
      BY <2>1, <2>2 DEF RetryFailed, Insert, TypeOK, RowStatus, worker
  <1>7. WorkerInv' /\ RunningOwned'
    BY <1>3 DEF WorkerInv, RunningOwned, RetryFailed, Insert, TypeOK, Present, worker
  <1>8. AbsentInv'
    BY <1>3, <1>5 DEF AbsentInv, RetryFailed, Insert, TypeOK, Present
  <1>9. ArchiveInv'
    <2> SUFFICES ASSUME NEW h \in Jobs, NEW k \in Jobs, k # h,
                        path'[k] # <<>>, Head(path'[k]) = h
                 PROVE  Len(path'[k]) < Len(path'[h])
      BY DEF ArchiveInv
    <2>1. Len(path[h]) \in Nat /\ Len(path[k]) \in Nat
      BY LenProperties DEF TypeOK
    <2>2. CASE k = n
      <3>1. h # n /\ p # <<>> /\ Head(p) = h
        BY <2>2, <1>5
      <3>2. CASE h = j
        BY <3>2, <2>2, <1>4, <1>5
      <3>3. CASE h # j
        BY <3>1, <3>3, <2>2, <1>3, <1>5 DEF ArchiveInv, p
      <3>4. QED
        BY <3>2, <3>3
    <2>3. CASE k = j
      BY <2>3, <1>4, <1>5
    <2>4. CASE k # n /\ k # j
      <3>1. Len(path[k]) < Len(path[h])
        BY <2>4, <1>5 DEF ArchiveInv
      <3>2. h # n
        BY <3>1, <2>1, <1>3, EmptySeq
      <3>3. CASE h = j
        <4>1. path'[k] = path[k] /\ path'[h] = q /\ path[h] = p
          BY <3>3, <2>4, <1>5 DEF p
        <4>2. QED
          BY <4>1, <3>1, <2>1, <1>4
      <3>4. CASE h # j
        BY <3>1, <3>2, <3>4, <2>4, <1>5
      <3>5. QED
        BY <3>3, <3>4
    <2>5. QED
      BY <2>2, <2>3, <2>4
  <1>10. UniqueSourceIdentity'
    <2>1. \A k \in Jobs \ {j, n} : path'[k] # q
      <3> SUFFICES ASSUME NEW k \in Jobs \ {j, n}, path[k] = q PROVE FALSE
        BY <1>5
      <3>1. Len(path[k]) < Len(path[j])
        BY <1>4 DEF ArchiveInv
      <3>2. QED
        BY <3>1, <1>4 DEF p
    <2>2. p # q
      BY <1>4
    <2>3. \A k \in Jobs \ {n} : Present(k)' = Present(k) /\ input'[k] = input[k]
      BY <1>3 DEF RetryFailed, Insert, TypeOK, Present
    <2>4. input'[n] = input[j]
      BY <1>3 DEF RetryFailed, Insert, TypeOK
    <2> SUFFICES ASSUME NEW k \in Jobs, NEW l \in Jobs, k # l,
                        Present(k)', Present(l)', IdentityKey(k)' = IdentityKey(l)'
                 PROVE  FALSE
      BY DEF UniqueSourceIdentity
    <2>5. path'[k] = path'[l] /\ SourceIdentity[input'[k]] = SourceIdentity[input'[l]]
      BY DEF IdentityKey
    <2>6. k # j /\ l # j
      BY <2>1, <2>2, <2>5, <1>5
    <2>7. \A m \in Jobs \ {j, n} :
            Present(m) => ~ (path[m] = p /\ SourceIdentity[input[m]] = SourceIdentity[input[j]])
      BY <1>3 DEF UniqueSourceIdentity, IdentityKey, p
    <2>8. CASE k = n
      <3>1. l \in Jobs \ {j, n} /\ path[l] = p /\ Present(l)
        BY <2>3, <2>5, <2>6, <2>8, <1>5
      <3>2. SourceIdentity[input[l]] = SourceIdentity[input[j]]
        BY <3>1, <2>3, <2>4, <2>5, <2>8
      <3>3. QED
        BY <3>1, <3>2, <2>7
    <2>9. CASE l = n
      <3>1. k \in Jobs \ {j, n} /\ path[k] = p /\ Present(k)
        BY <2>3, <2>5, <2>6, <2>9, <1>5
      <3>2. SourceIdentity[input[k]] = SourceIdentity[input[j]]
        BY <3>1, <2>3, <2>4, <2>5, <2>9
      <3>3. QED
        BY <3>1, <3>2, <2>7
    <2>10. CASE k # n /\ l # n
      <3>1. Present(k) /\ Present(l)
        BY <2>3, <2>10
      <3>2. IdentityKey(k) = IdentityKey(l)
        BY <2>3, <2>5, <2>6, <2>10, <1>5 DEF IdentityKey
      <3>3. QED
        BY <3>1, <3>2 DEF UniqueSourceIdentity
    <2>11. QED
      BY <2>8, <2>9, <2>10
  <1>11. AttemptInv'
    <2>1. pc # "idle" => wjob \in Jobs \ {n}
      BY <1>3 DEF WorkerInv, RunningOwned, Present, RetryFailed
    <2>2. attempt' = [attempt EXCEPT ![n] = 1] /\ UNCHANGED <<pc, wjob, wattempt, up, restarts>>
      BY DEF RetryFailed, Insert, worker
    <2>3. attempt \in [Jobs -> Nat] /\ restarts \in Nat /\ restarts > 0
      BY DEF TypeOK, AttemptInv, RetryFailed
    <2>4. AttemptBound'
      BY <2>2, <2>3 DEF AttemptBound, AttemptInv
    <2>5. QED
      BY <2>1, <2>2, <2>3, <2>4 DEF AttemptInv
  <1>12. RetryLineage'
    BY <1>1, <1>2, <1>3 DEF RetryLineage, RetryFailed, Insert, TypeOK, Present
  <1>13. QED
    BY <1>6, <1>7, <1>8, <1>9, <1>10, <1>11, <1>12

-----------------------------------------------------------------------------
(* The worker and the life cycle: the rows keep their keys. *)
LEMMA KeysUnchanged ==
  ASSUME IInv, UNCHANGED <<input, path, seq, retryOf>>,
         \A k \in Jobs : Present(k)' <=> Present(k)
  PROVE  AbsentInv' /\ ArchiveInv' /\ UniqueSourceIdentity'
  <1>1. AbsentInv' /\ ArchiveInv'
    BY DEF IInv, AbsentInv, ArchiveInv
  <1>2. \A k \in Jobs : IdentityKey(k)' = IdentityKey(k)
    BY DEF IdentityKey
  <1>3. UniqueSourceIdentity'
    BY <1>2 DEF IInv, UniqueSourceIdentity
  <1>4. QED
    BY <1>1, <1>3

(* Reading a row of an earlier release fails that row and touches no other. *)
LEMMA ReadUnreadableIInv ==
  ASSUME IInv, NEW j \in Jobs, ReadUnreadable(j)
  PROVE  IInv'
  <1> USE DEF IInv
  <1>1. TypeOK'
    BY DEF ReadUnreadable, TypeOK, RowStatus, worker
  <1>2. WorkerInv' /\ RunningOwned' /\ AttemptInv'
    BY DEF ReadUnreadable, TypeOK, WorkerInv, RunningOwned, AttemptInv, AttemptBound, Readable, worker
  <1>3. AbsentInv' /\ ArchiveInv' /\ UniqueSourceIdentity'
    BY KeysUnchanged DEF ReadUnreadable, TypeOK, Present
  <1>4. RetryLineage'
    BY DEF ReadUnreadable, TypeOK, RetryLineage
  <1>5. QED
    BY <1>1, <1>2, <1>3, <1>4

(* A claim makes one queued row running and gives it to the worker. *)
LEMMA ClaimIInv ==
  ASSUME IInv, NEW j \in Jobs, Claim(j)
  PROVE  IInv'
  <1> USE DEF IInv
  <1>1. TypeOK'
    BY DEF Claim, TypeOK, RowStatus
  <1>2. WorkerInv' /\ RunningOwned' /\ AttemptInv'
    BY DEF Claim, IsNext, TypeOK, WorkerInv, RunningOwned, AttemptInv, AttemptBound, Readable
  <1>3. AbsentInv' /\ ArchiveInv' /\ UniqueSourceIdentity'
    BY KeysUnchanged DEF Claim, IsNext, TypeOK, Present
  <1>4. RetryLineage'
    BY DEF Claim, IsNext, TypeOK, RetryLineage
  <1>5. QED
    BY <1>1, <1>2, <1>3, <1>4

(* A claim that meets an unreadable row fails it and gives the worker nothing. *)
LEMMA ClaimUnreadableIInv ==
  ASSUME IInv, NEW j \in Jobs, ClaimUnreadable(j)
  PROVE  IInv'
  <1> USE DEF IInv
  <1>1. TypeOK'
    BY DEF ClaimUnreadable, TypeOK, RowStatus, worker
  <1>2. WorkerInv' /\ RunningOwned' /\ AttemptInv'
    BY DEF ClaimUnreadable, IsNext, TypeOK, WorkerInv, RunningOwned, AttemptInv, AttemptBound,
           Readable, worker
  <1>3. AbsentInv' /\ ArchiveInv' /\ UniqueSourceIdentity'
    BY KeysUnchanged DEF ClaimUnreadable, IsNext, TypeOK, Present
  <1>4. RetryLineage'
    BY DEF ClaimUnreadable, TypeOK, RetryLineage
  <1>5. QED
    BY <1>1, <1>2, <1>3, <1>4

(* Settling the worker's row frees the worker. *)
LEMMA SettleIInv ==
  ASSUME IInv, NEW from \in {"executed", "backoff", "failing"}, NEW st \in RowStatus,
         NEW bump \in {0, 1}, Settle(from, st, bump),
         st \notin {"absent", "running"},
         bump = 1 => from = "backoff"
  PROVE  IInv'
  <1> USE DEF IInv
  <1>1. /\ pc = from /\ pc # "idle" /\ up # "down"
        /\ wjob \in Jobs \ Legacy /\ wjob \notin stranded /\ status[wjob] = "running"
    BY DEF Settle, WorkerInv, RunningOwned
  <1>2. TypeOK'
    BY <1>1 DEF Settle, TypeOK, RowStatus
  <1>3. WorkerInv' /\ RunningOwned'
    BY <1>1 DEF Settle, TypeOK, WorkerInv, RunningOwned
  <1>4. AttemptInv'
    <2>1. attempt[wjob] + bump + 1 <= MaxAttempts + restarts
      BY <1>1 DEF AttemptInv, AttemptBound, TypeOK
    <2>2. QED
      BY <2>1, <1>1 DEF Settle, AttemptInv, AttemptBound, TypeOK
  <1>5. AbsentInv' /\ ArchiveInv' /\ UniqueSourceIdentity'
    BY <1>1, KeysUnchanged DEF Settle, TypeOK, Present
  <1>6. RetryLineage'
    BY <1>1 DEF Settle, TypeOK, RetryLineage
  <1>7. QED
    BY <1>2, <1>3, <1>4, <1>5, <1>6

(* Recovery at start leaves no row running. *)
LEMMA StartIInv ==
  ASSUME IInv, Start
  PROVE  IInv'
  <1> USE DEF IInv, Recovered
  <1>1. TypeOK'
    BY DEF Start, TypeOK, RowStatus, worker
  <1>2. WorkerInv' /\ RunningOwned'
    BY DEF Start, TypeOK, WorkerInv, RunningOwned, worker
  <1>3. AttemptInv'
    BY DEF Start, TypeOK, WorkerInv, AttemptInv, AttemptBound, worker
  <1>4. AbsentInv' /\ ArchiveInv' /\ UniqueSourceIdentity'
    BY KeysUnchanged DEF Start, TypeOK, Present
  <1>5. RetryLineage'
    BY DEF Start, TypeOK, RetryLineage
  <1>6. QED
    BY <1>1, <1>2, <1>3, <1>4, <1>5

(* Steps that leave the table alone. *)
LEMMA RowsUnchangedIInv ==
  ASSUME IInv,
         \/ Execute \/ MarkSucceededRaises \/ SettleRaises \/ Stop \/ Exit \/ UNCHANGED vars
  PROVE  IInv'
  <1> USE DEF IInv
  <1>1. UNCHANGED rows
    BY DEF Execute, MarkSucceededRaises, SettleRaises, Stop, Exit, vars
  <1>2. TypeOK'
    <2>1. CASE Execute
      BY <2>1 DEF Execute, TypeOK, rows
    <2>2. CASE MarkSucceededRaises
      BY <2>2 DEF MarkSucceededRaises, TypeOK, rows
    <2>3. CASE SettleRaises
      BY <2>3 DEF SettleRaises, TypeOK, rows, WorkerInv
    <2>4. CASE Stop \/ Exit \/ UNCHANGED vars
      BY <2>4 DEF Stop, Exit, vars, TypeOK, rows, worker
    <2>5. QED
      BY <2>1, <2>2, <2>3, <2>4
  <1>3. WorkerInv' /\ RunningOwned'
    BY DEF Execute, MarkSucceededRaises, SettleRaises, Stop, Exit, vars, TypeOK, rows, worker,
           WorkerInv, RunningOwned
  <1>4. AttemptInv'
    BY DEF Execute, MarkSucceededRaises, SettleRaises, Stop, Exit, vars, TypeOK, rows, worker,
           AttemptInv, AttemptBound, RetryAllowed
  <1>5. AbsentInv' /\ ArchiveInv' /\ UniqueSourceIdentity' /\ RetryLineage'
    BY <1>1, KeysUnchanged DEF rows, Present, RetryLineage
  <1>6. QED
    BY <1>2, <1>3, <1>4, <1>5

(* Every step preserves the invariant. *)
LEMMA NextIInv == IInv /\ [Next]_vars => IInv'
  <1> SUFFICES ASSUME IInv, [Next]_vars PROVE IInv'
    OBVIOUS
  <1>1. CASE \E j \in Jobs, i \in Inputs : Enqueue(j, i)
    BY <1>1, EnqueueIInv
  <1>2. CASE \E j, n \in Jobs : RetryFailed(j, n)
    BY <1>2, RetryFailedIInv
  <1>3. CASE \E j \in Jobs : ReadUnreadable(j)
    BY <1>3, ReadUnreadableIInv
  <1>4. CASE \E j \in Jobs : Claim(j) \/ ClaimUnreadable(j)
    BY <1>4, ClaimIInv, ClaimUnreadableIInv
  <1>5. CASE MarkSucceeded \/ MarkRetryWait \/ MarkFailed
    <2> USE DEF RowStatus
    <2>1. CASE MarkSucceeded
      BY <2>1, SettleIInv DEF MarkSucceeded
    <2>2. CASE MarkRetryWait
      BY <2>2, SettleIInv DEF MarkRetryWait
    <2>3. CASE MarkFailed
      BY <2>3, SettleIInv DEF MarkFailed
    <2>4. QED
      BY <1>5, <2>1, <2>2, <2>3
  <1>6. CASE Start
    BY <1>6, StartIInv
  <1>7. CASE Execute \/ MarkSucceededRaises \/ SettleRaises \/ Stop \/ Exit \/ UNCHANGED vars
    BY <1>7, RowsUnchangedIInv
  <1>8. QED
    BY <1>1, <1>2, <1>3, <1>4, <1>5, <1>6, <1>7 DEF Next, WorkerStep

(* The invariant holds in every reachable state. *)
LEMMA InvariantIInv == Spec => []IInv
  BY InitIInv, NextIInv, PTL DEF Spec

-----------------------------------------------------------------------------
(* Every row, and what the worker remembers of one, keeps its type. *)
THEOREM TypeCorrect == Spec => []TypeOK
  BY InvariantIInv, PTL DEF IInv

(* The single consumer: a row is running exactly when the worker holds it or *)
(* its settling write raised (pipeline_queue.py's claim, marks and recovery).*)
THEOREM SingleConsumer == Spec => []RunningOwned
  BY InvariantIInv, PTL DEF IInv

(* source_identity stays unique although the table has no such constraint,   *)
(* over any sequence of enqueues and repeated retries.                       *)
THEOREM IdentityUnique == Spec => []UniqueSourceIdentity
  BY InvariantIInv, PTL DEF IInv

(* Attempts are bounded by the configured maximum plus the process starts. *)
THEOREM AttemptsBounded == Spec => []AttemptBound
  <1>1. IInv => AttemptBound
    BY DEF IInv, AttemptInv
  <1>2. QED
    BY <1>1, InvariantIInv, PTL

(* A retry carries its original's input, is behind it, and the original *)
(* stays failed.                                                        *)
THEOREM RetryTraceable == Spec => []RetryLineage
  BY InvariantIInv, PTL DEF IInv

(* A settled readable job keeps its status in every step. *)
THEOREM SettledForGood == Spec => TerminalStable
  <1>1. IInv /\ [Next]_vars =>
          [\A j \in Jobs : Readable(j) /\ status[j] \in Terminal => status'[j] = status[j]]_vars
    <2> SUFFICES ASSUME IInv, Next, NEW j \in Jobs, Readable(j), status[j] \in Terminal
                 PROVE  status'[j] = status[j]
      OBVIOUS
    <2> USE DEF IInv, TypeOK, Terminal
    <2>1. CASE \E k \in Jobs, i \in Inputs : Enqueue(k, i)
      BY <2>1 DEF Enqueue, Insert, Present
    <2>2. CASE \E k, n \in Jobs : RetryFailed(k, n)
      BY <2>2 DEF RetryFailed, Insert, Present
    <2>3. CASE \E k \in Jobs : ReadUnreadable(k)
      BY <2>3 DEF ReadUnreadable
    <2>4. CASE \E k \in Jobs : Claim(k) \/ ClaimUnreadable(k)
      BY <2>4 DEF Claim, ClaimUnreadable, IsNext
    <2>5. CASE MarkSucceeded \/ MarkRetryWait \/ MarkFailed
      BY <2>5 DEF MarkSucceeded, MarkRetryWait, MarkFailed, Settle, WorkerInv, RunningOwned
    <2>6. CASE Start
      BY <2>6 DEF Start, Recovered
    <2>7. CASE Execute \/ MarkSucceededRaises \/ SettleRaises \/ Stop \/ Exit
      BY <2>7 DEF Execute, MarkSucceededRaises, SettleRaises, Stop, Exit, rows
    <2>8. QED
      BY <2>1, <2>2, <2>3, <2>4, <2>5, <2>6, <2>7 DEF Next, WorkerStep
  <1>2. QED
    BY <1>1, InvariantIInv, PTL DEF Spec, TerminalStable

-----------------------------------------------------------------------------
(* Attempts are counted from 1. *)
CountedInv == \A j \in Jobs : Present(j) => attempt[j] >= 1

(* No step makes a row without an attempt, or takes an attempt back. *)
LEMMA NextCounted == IInv /\ CountedInv /\ [Next]_vars => CountedInv'
  <1> SUFFICES ASSUME IInv, CountedInv, [Next]_vars PROVE CountedInv'
    OBVIOUS
  <1> USE DEF IInv, TypeOK, CountedInv, Present
  <1>1. CASE \E j \in Jobs, i \in Inputs : Enqueue(j, i)
    BY <1>1 DEF Enqueue, Insert
  <1>2. CASE \E j, n \in Jobs : RetryFailed(j, n)
    BY <1>2 DEF RetryFailed, Insert
  <1>3. CASE \E j \in Jobs : ReadUnreadable(j) \/ Claim(j) \/ ClaimUnreadable(j)
    BY <1>3 DEF ReadUnreadable, Claim, ClaimUnreadable, IsNext
  <1>4. CASE MarkSucceeded \/ MarkRetryWait \/ MarkFailed
    <2>1. wjob \in Jobs /\ status[wjob] = "running" /\ attempt[wjob] \in Nat
      BY <1>4 DEF MarkSucceeded, MarkRetryWait, MarkFailed, Settle, WorkerInv, RunningOwned
    <2>2. \A j \in Jobs : Present(j)' => Present(j)
      BY <1>4, <2>1 DEF MarkSucceeded, MarkRetryWait, MarkFailed, Settle
    <2>3. \A j \in Jobs : attempt'[j] \in Nat /\ attempt'[j] >= attempt[j]
      <3>1. PICK bump \in {0, 1} : attempt' = [attempt EXCEPT ![wjob] = attempt[wjob] + bump]
        BY <1>4 DEF MarkSucceeded, MarkRetryWait, MarkFailed, Settle
      <3>2. attempt \in [Jobs -> Nat]
        OBVIOUS
      <3>3. QED
        BY <2>1, <3>1, <3>2
    <2>4. QED
      BY <2>2, <2>3
  <1>5. CASE Start
    <2> SUFFICES ASSUME NEW j \in Jobs, Present(j)' PROVE attempt'[j] >= 1
      OBVIOUS
    <2>1. Present(j) /\ attempt[j] \in Nat
      BY <1>5 DEF Start, Recovered
    <2>2. attempt'[j] = attempt[j] + (IF status[j] \in Recovered THEN 1 ELSE 0)
      BY <1>5 DEF Start
    <2>3. QED
      BY <2>1, <2>2
  <1>6. CASE Execute \/ MarkSucceededRaises \/ SettleRaises \/ Stop \/ Exit \/ UNCHANGED vars
    BY <1>6 DEF Execute, MarkSucceededRaises, SettleRaises, Stop, Exit, vars, rows
  <1>7. QED
    BY <1>1, <1>2, <1>3, <1>4, <1>5, <1>6 DEF Next, WorkerStep

(* No snapshot of the event of row j has succeeded. *)
Unreplayed(j) ==
  /\ ReplayEvent[input[j]] # NoEvent
  /\ \A m \in Jobs : status[m] = "succeeded" => ReplayEvent[input[m]] # ReplayEvent[input[j]]

(* While the worker holds a job that was enqueued after one that waits, the *)
(* job is a snapshot of an event none of whose snapshots has succeeded: its *)
(* own success is the only one that can come ahead of the waiting job.      *)
HeldInv == pc # "idle" => \A k \in Jobs : Waiting(k) /\ seq[k] < seq[wjob] => Unreplayed(wjob)

OInv == CountedInv /\ OvertakenOnce /\ HeldInv

(* A row appears behind all others, and nothing else changes of the rows but *)
(* the keys: it overtakes nothing and nothing has overtaken it.              *)
LEMMA InsertOInv ==
  ASSUME IInv, OInv, NEW n \in Jobs, NEW i \in Inputs, NEW p, NEW o, Insert(n, i, p, o),
         status' = [status EXCEPT ![n] = "queued"], UNCHANGED <<pc, wjob>>
  PROVE  OvertakenOnce' /\ HeldInv'
  <1> USE DEF IInv, TypeOK
  <1>1. PICK s \in Seqs : IsNextSeq(s) /\ seq' = [seq EXCEPT ![n] = s]
    BY DEF Insert
  <1>2. s \in Nat /\ ~ Present(n) /\ \A k \in Jobs : Present(k) => seq[k] < s
    BY <1>1, FS_CardinalityType DEF Seqs, IsNextSeq, Insert
  <1>3. \A k \in Jobs \ {n} : /\ status'[k] = status[k] /\ seq'[k] = seq[k]
                              /\ input'[k] = input[k] /\ attempt'[k] = attempt[k]
    BY <1>1 DEF Insert
  <1>4. status'[n] = "queued" /\ seq'[n] = s
    BY <1>1
  <1>5. \A k \in Jobs \ {n} : Overtook(k)' = Overtook(k) /\ (Waiting(k)' <=> Waiting(k))
    <2> SUFFICES ASSUME NEW k \in Jobs \ {n}
                 PROVE  Overtook(k)' = Overtook(k) /\ (Waiting(k)' <=> Waiting(k))
      OBVIOUS
    <2>1. \A j \in Jobs : status'[j] = "succeeded" <=> status[j] = "succeeded"
      BY <1>2, <1>3, <1>4 DEF Present, Insert
    <2>2. \A j \in Jobs : status[j] = "succeeded" => seq'[j] = seq[j]
      BY <2>1, <1>3, <1>4
    <2>3. Overtook(k)' = {j \in Jobs \ Legacy : status'[j] = "succeeded" /\ seq'[k] < seq'[j]}
      BY DEF Overtook
    <2>4. seq'[k] = seq[k]
      BY <1>3
    <2>5. Overtook(k)' = Overtook(k)
      BY <2>1, <2>2, <2>3, <2>4 DEF Overtook
    <2>6. QED
      BY <2>5, <1>3 DEF Waiting
  <1>6. Overtook(n)' = {}
    <2> SUFFICES ASSUME NEW j \in Jobs, status'[j] = "succeeded", seq'[n] < seq'[j] PROVE FALSE
      BY DEF Overtook
    <2>1. j # n /\ Present(j)
      BY <1>3, <1>4 DEF Present
    <2>2. QED
      BY <2>1, <1>2, <1>3, <1>4
  <1>7. OvertakenOnce'
    <2> SUFFICES ASSUME NEW k \in Jobs, Waiting(k)', NEW j \in Overtook(k)', NEW m \in Overtook(k)'
                 PROVE  /\ ReplayEvent[input'[j]] # NoEvent
                        /\ ReplayEvent[input'[j]] = ReplayEvent[input'[m]] => j = m
      BY DEF OvertakenOnce
    <2>1. k # n /\ j \in Overtook(k) /\ m \in Overtook(k) /\ Waiting(k)
      BY <1>5, <1>6
    <2>2. j \in Jobs \ {n} /\ m \in Jobs \ {n}
      BY <2>1, <1>2 DEF Overtook, Present
    <2>3. input'[j] = input[j] /\ input'[m] = input[m]
      BY <2>2, <1>3
    <2>4. QED
      BY <2>1, <2>3 DEF OInv, OvertakenOnce
  <1>8. HeldInv'
    <2> SUFFICES ASSUME pc # "idle", NEW k \in Jobs, Waiting(k)', seq'[k] < seq'[wjob]
                 PROVE  Unreplayed(wjob)'
      BY DEF HeldInv
    <2>1. wjob \in Jobs \ {n} /\ Present(wjob)
      BY <1>2 DEF WorkerInv, RunningOwned, Present
    <2>2. k # n
      BY <2>1, <1>2, <1>3, <1>4
    <2>3. Waiting(k) /\ seq[k] < seq[wjob]
      BY <2>1, <2>2, <1>3 DEF Waiting
    <2>4. Unreplayed(wjob)
      BY <2>3 DEF OInv, HeldInv
    <2>5. \A m \in Jobs : status'[m] = "succeeded" => m # n /\ status[m] = "succeeded"
      BY <1>3, <1>4
    <2>6. QED
      BY <2>1, <2>4, <2>5, <1>3 DEF Unreplayed
  <1>9. QED
    BY <1>7, <1>8

(* A step after which no more rows have succeeded, none waits that did not, *)
(* and the worker holds what it held or nothing.                            *)
LEMMA QuietOInv ==
  ASSUME OInv, UNCHANGED <<seq, input>>,
         \A k \in Jobs : status'[k] = "succeeded" => status[k] = "succeeded",
         \A k \in Jobs : Waiting(k)' => Waiting(k),
         pc' # "idle" => pc # "idle" /\ wjob' = wjob
  PROVE  OvertakenOnce' /\ HeldInv'
  <1>1. \A k \in Jobs : Overtook(k)' \subseteq Overtook(k)
    BY DEF Overtook
  <1>2. OvertakenOnce'
    BY <1>1 DEF OInv, OvertakenOnce
  <1>3. HeldInv'
    BY DEF OInv, HeldInv, Unreplayed
  <1>4. QED
    BY <1>2, <1>3

(* A claim takes a later row only if claim_next's ORDER BY ranks it first. *)
LEMMA ClaimOInv ==
  ASSUME IInv, OInv, NEW j \in Jobs, Claim(j)
  PROVE  OvertakenOnce' /\ HeldInv'
  <1> USE DEF IInv, TypeOK
  <1>1. /\ status' = [status EXCEPT ![j] = "running"] /\ UNCHANGED <<seq, input, attempt>>
        /\ wjob' = j /\ status[j] = "queued"
    BY DEF Claim, IsNext
  <1>2. \A k \in Jobs : /\ status'[k] = "succeeded" <=> status[k] = "succeeded"
                        /\ Waiting(k)' => Waiting(k)
    BY <1>1 DEF Waiting
  <1>3. OvertakenOnce'
    <2>1. \A k \in Jobs : Overtook(k)' = Overtook(k)
      BY <1>1, <1>2 DEF Overtook
    <2>2. QED
      BY <2>1, <1>1, <1>2 DEF OInv, OvertakenOnce
  <1>4. HeldInv'
    <2> SUFFICES ASSUME NEW k \in Jobs, Waiting(k)', seq[k] < seq[j] PROVE Unreplayed(j)'
      BY <1>1 DEF HeldInv
    <2>1. ClaimOrder(j, k)
      BY <1>2 DEF Claim, IsNext, Waiting
    <2>2. seq[j] \in Nat /\ seq[k] \in Nat
      OBVIOUS
    <2>3. FirstReplay(j)
      BY <2>1, <2>2 DEF ClaimOrder, Rank
    <2>4. QED
      BY <2>3, <1>1, <1>2 DEF FirstReplay, Unreplayed
  <1>5. QED
    BY <1>3, <1>4

(* The one success that comes ahead of a waiting job: the worker's. *)
LEMMA MarkSucceededOInv ==
  ASSUME IInv, OInv, MarkSucceeded
  PROVE  OvertakenOnce' /\ HeldInv'
  <1> USE DEF IInv, TypeOK
  <1>1. /\ pc # "idle" /\ pc' = "idle" /\ wjob \in Jobs /\ status[wjob] = "running"
        /\ status' = [status EXCEPT ![wjob] = "succeeded"]
        /\ attempt' = [attempt EXCEPT ![wjob] = @ + 0] /\ UNCHANGED <<seq, input>>
    BY DEF MarkSucceeded, Settle, WorkerInv, RunningOwned
  <1>2. OvertakenOnce'
    <2> SUFFICES ASSUME NEW k \in Jobs, Waiting(k)', NEW j \in Overtook(k)', NEW m \in Overtook(k)'
                 PROVE  /\ ReplayEvent[input[j]] # NoEvent
                        /\ ReplayEvent[input[j]] = ReplayEvent[input[m]] => j = m
      BY <1>1 DEF OvertakenOnce
    <2>1. Waiting(k) /\ k # wjob
      BY <1>1 DEF Waiting
    <2>2. \A h \in Overtook(k)' : h \in Overtook(k) \/ (h = wjob /\ seq[k] < seq[wjob])
      BY <1>1 DEF Overtook
    <2>3. CASE j \in Overtook(k) /\ m \in Overtook(k)
      BY <2>1, <2>3 DEF OInv, OvertakenOnce
    <2>4. CASE j = wjob /\ m = wjob /\ seq[k] < seq[wjob]
      BY <2>1, <2>4, <1>1 DEF OInv, HeldInv, Unreplayed
    <2>5. CASE j = wjob /\ seq[k] < seq[wjob] /\ m \in Overtook(k)
      <3>1. Unreplayed(wjob) /\ m \in Jobs /\ status[m] = "succeeded"
        BY <2>1, <2>5, <1>1 DEF OInv, HeldInv, Overtook
      <3>2. QED
        BY <3>1, <2>5 DEF Unreplayed
    <2>6. CASE m = wjob /\ seq[k] < seq[wjob] /\ j \in Overtook(k)
      <3>1. Unreplayed(wjob) /\ j \in Jobs /\ status[j] = "succeeded"
        BY <2>1, <2>6, <1>1 DEF OInv, HeldInv, Overtook
      <3>2. ReplayEvent[input[j]] # NoEvent
        BY <2>1, <2>6 DEF OInv, OvertakenOnce
      <3>3. QED
        BY <3>1, <3>2, <2>6 DEF Unreplayed
    <2>7. QED
      BY <2>2, <2>3, <2>4, <2>5, <2>6
  <1>3. QED
    BY <1>1, <1>2 DEF HeldInv

(* Every step preserves it: a job returns to the queue only with one more    *)
(* attempt, and so waits for its first one from its enqueue to its claim.    *)
LEMMA NextOInv == IInv /\ OInv /\ [Next]_vars => OInv'
  <1> SUFFICES ASSUME IInv, OInv, [Next]_vars PROVE OvertakenOnce' /\ HeldInv'
    BY NextCounted DEF OInv
  <1> USE DEF IInv, TypeOK
  <1>1. CASE \E j \in Jobs, i \in Inputs : Enqueue(j, i)
    BY <1>1, InsertOInv DEF Enqueue, worker
  <1>2. CASE \E j, n \in Jobs : RetryFailed(j, n)
    <2>1. PICK j \in Jobs, n \in Jobs : RetryFailed(j, n)
      BY <1>2
    <2>2. input[j] \in Inputs /\ Insert(n, input[j], path[j], j)
      BY <2>1 DEF RetryFailed
    <2>3. status' = [status EXCEPT ![n] = "queued"] /\ UNCHANGED <<pc, wjob>>
      BY <2>1 DEF RetryFailed, worker
    <2>4. QED
      BY <2>2, <2>3, InsertOInv
  <1>3. CASE \E j \in Jobs : ReadUnreadable(j) \/ ClaimUnreadable(j)
    BY <1>3, QuietOInv DEF ReadUnreadable, ClaimUnreadable, IsNext, Waiting, worker
  <1>4. CASE \E j \in Jobs : Claim(j)
    BY <1>4, ClaimOInv
  <1>5. CASE MarkSucceeded
    BY <1>5, MarkSucceededOInv
  <1>6. CASE MarkRetryWait \/ MarkFailed
    <2>1. wjob \in Jobs /\ status[wjob] = "running" /\ attempt[wjob] \in Nat
      BY <1>6 DEF MarkRetryWait, MarkFailed, Settle, WorkerInv, RunningOwned
    <2>2. CASE MarkRetryWait
      <3>1. attempt[wjob] >= 1
        BY <2>1 DEF OInv, CountedInv, Present
      <3>2. QED
        BY <2>1, <2>2, <3>1, QuietOInv DEF MarkRetryWait, Settle, Waiting
    <2>3. CASE MarkFailed
      BY <2>1, <2>3, QuietOInv DEF MarkFailed, Settle, Waiting
    <2>4. QED
      BY <1>6, <2>2, <2>3
  <1>7. CASE Start
    <2>1. \A k \in Jobs : /\ status'[k] = "succeeded" => status[k] = "succeeded"
                          /\ Waiting(k)' => Waiting(k)
      <3> SUFFICES ASSUME NEW k \in Jobs
                   PROVE  /\ status'[k] = "succeeded" => status[k] = "succeeded"
                          /\ Waiting(k)' => Waiting(k)
        OBVIOUS
      <3>1. status'[k] = IF status[k] \in Recovered THEN "queued" ELSE status[k]
        BY <1>7 DEF Start
      <3>2. attempt'[k] = attempt[k] + (IF status[k] \in Recovered THEN 1 ELSE 0)
        BY <1>7 DEF Start
      <3>3. Present(k) => attempt[k] >= 1
        BY DEF OInv, CountedInv
      <3>4. attempt[k] \in Nat
        OBVIOUS
      <3>5. CASE status[k] = "running"
        BY <3>1, <3>2, <3>3, <3>4, <3>5 DEF Waiting, Recovered, Present
      <3>6. CASE status[k] # "running"
        <4>1. status'[k] = status[k] /\ attempt'[k] = attempt[k]
          BY <3>1, <3>2, <3>4, <3>6 DEF Recovered
        <4>2. QED
          BY <4>1 DEF Waiting
      <3>7. QED
        BY <3>5, <3>6
    <2>2. UNCHANGED <<seq, input, pc, wjob>>
      BY <1>7 DEF Start, worker
    <2>3. QED
      BY <2>1, <2>2, QuietOInv
  <1>8. CASE Execute \/ MarkSucceededRaises \/ SettleRaises \/ Stop \/ Exit \/ UNCHANGED vars
    BY <1>8, QuietOInv
       DEF Execute, MarkSucceededRaises, SettleRaises, Stop, Exit, vars, rows, worker, Waiting
  <1>9. QED
    BY <1>1, <1>2, <1>3, <1>4, <1>5, <1>6, <1>7, <1>8 DEF Next, WorkerStep

(* However many snapshots of one maintenance event are replayed, failed and  *)
(* retried, one of them at most succeeds ahead of a job that has waited      *)
(* since before it was enqueued, and ordinary input never does (claim_next). *)
THEOREM Overtaking == Spec => []OvertakenOnce
  <1>1. Init => OInv
    BY DEF Init, OInv, CountedInv, Present, OvertakenOnce, Overtook, HeldInv
  <1>2. OInv => OvertakenOnce
    BY DEF OInv
  <1>3. QED
    BY <1>1, <1>2, NextOInv, InvariantIInv, PTL DEF Spec
=============================================================================
