----------------------- MODULE ExtractionHandoffProofs -----------------------
(* Proofs about ExtractionHandoff, for any handoffs, threads and bounds. *)
EXTENDS ExtractionHandoff, TLAPS

USE HandoffAssumption

-----------------------------------------------------------------------------
(* A thread that is about to write "enqueued" has seen the row, or made it. *)
HandInv ==
  \A t \in Threads : pc[t] \in {"save", "unlink", "replace"} /\ st[t] = "enqueued"
                       => Queued(at[t])

(* A thread in the middle of a call belongs to a running process. *)
LiveInv == ~ up => \A t \in Threads : pc[t] = "idle"

IInv ==
  /\ TypeOK
  /\ HandInv
  /\ LiveInv
  /\ EnqueuedIsQueued
  /\ RecordKept
  /\ EnqueueingAttended

(* Before the first start there are no records and no calls. *)
LEMMA InitIInv == Init => IInv
  <1> SUFFICES ASSUME Init PROVE IInv
    OBVIOUS
  <1> USE DEF Init
  <1>1. TypeOK
    BY DEF TypeOK, Row, Phase, Status, Threads
  <1>2. HandInv /\ LiveInv /\ EnqueuedIsQueued /\ RecordKept /\ EnqueueingAttended
    BY DEF HandInv, LiveInv, EnqueuedIsQueued, RecordKept, EnqueueingAttended
  <1> QED
    BY <1>1, <1>2 DEF IInv

-----------------------------------------------------------------------------
(* The error branch leaves the thread with a record of a type. *)
LEMMA ClassifyTypes ==
  ASSUME TypeOK, NEW t \in Threads, NEW retryable \in BOOLEAN, Classify(t, retryable)
  PROVE  /\ pc' = [pc EXCEPT ![t] = "save"]
         /\ at' = at
         /\ \E s \in {"retry_exhausted", "retry_wait", "blocked"} : st' = [st EXCEPT ![t] = s]
         /\ att' \in [Threads -> Nat]
         /\ trying' = [trying EXCEPT ![t] = FALSE]
         /\ pc' \in [Threads -> Phase] /\ at' \in [Threads -> Handoffs]
         /\ st' \in [Threads -> Status] /\ trying' \in [Threads -> BOOLEAN]
  BY DEF Classify, Becomes, Go, TypeOK, Phase, Status

LEMMA NextTypeOK == TypeOK /\ [Next]_vars => TypeOK'
  <1> SUFFICES ASSUME TypeOK, [Next]_vars PROVE TypeOK'
    OBVIOUS
  <1> USE DEF TypeOK, Status, Phase, Row, Polled, store, hand, thread, hist, proc
  <1>1. ASSUME NEW h \in Handoffs, Create(h) PROVE TypeOK'
    BY <1>1 DEF Create, Take, Go, Finds, Of, Record, Threads
  <1>2. ASSUME NEW h \in Handoffs, RivalEnqueued(h) PROVE TypeOK'
    BY <1>2 DEF RivalEnqueued
  <1>3. ASSUME NEW h \in Handoffs, JobSettles(h) PROVE TypeOK'
    BY <1>3 DEF JobSettles
  <1>4. ASSUME NEW t \in Requests, NEW h \in Handoffs, Retry(t, h) PROVE TypeOK'
    BY <1>4 DEF Retry, Take, Go, Finds, Of, Record, Threads
  <1>5. CASE Poll
    BY <1>5 DEF Poll
  <1>6. CASE Deliver
    BY <1>6 DEF Deliver, Take, Go, Record, Threads
  <1>7. ASSUME NEW t \in Threads, Process(t) PROVE TypeOK'
    <2>1. CASE Begin(t)
      BY <2>1 DEF Begin, Return, Becomes, Go
    <2>2. CASE Lookup(t)
      BY <2>2 DEF Lookup, Becomes, Go, Healed
    <2>3. CASE Enqueue(t)
      BY <2>3 DEF Enqueue, Becomes, Go
    <2>4. CASE EnqueueRefused(t)
      <3>1. Classify(t, FALSE) \/ (Go(t, "recheck") /\ UNCHANGED <<hand, trying>>)
        BY <2>4 DEF EnqueueRefused
      <3>2. CASE Classify(t, FALSE)
        BY <2>4, <3>2, ClassifyTypes DEF EnqueueRefused
      <3>3. CASE Go(t, "recheck") /\ UNCHANGED <<hand, trying>>
        BY <2>4, <3>3 DEF EnqueueRefused, Go
      <3> QED
        BY <3>1, <3>2, <3>3
    <2>5. CASE Recheck(t)
      <3>1. CASE job[at[t]] = "absent"
        <4>1. Classify(t, FALSE)
          BY <2>5, <3>1 DEF Recheck
        <4> QED
          BY <2>5, <4>1, ClassifyTypes DEF Recheck
      <3>2. CASE job[at[t]] # "absent"
        BY <2>5, <3>2 DEF Recheck, Becomes, Go, Healed
      <3> QED
        BY <3>1, <3>2
    <2>6. CASE SaveBegin(t)
      <3>1. old' \in [Threads -> Status \union {"none"}]
        BY <2>6 DEF SaveBegin, SaveFind, Finds, Of, Record
      <3> QED
        BY <2>6, <3>1 DEF SaveBegin, Go
    <2>7. CASE SaveUnlink(t)
      BY <2>7 DEF SaveUnlink, Go
    <2>8. CASE SaveReplace(t)
      <3>1. files' \subseteq Record
        BY <2>8 DEF SaveReplace, Record
      <3> QED
        BY <2>8, <3>1 DEF SaveReplace, Return, Go
    <2> QED
      BY <1>7, <2>1, <2>2, <2>3, <2>4, <2>5, <2>6, <2>7, <2>8 DEF Process
  <1>8. ASSUME NEW t \in Threads, Raises(t) PROVE TypeOK'
    <2>1. CASE LookupRaises(t)
      BY <2>1 DEF LookupRaises, Becomes, Go
    <2>2. CASE EnqueueRaises(t)
      <3>1. Classify(t, TRUE)
        BY <2>2 DEF EnqueueRaises
      <3>2. faults' \in Nat
        BY <2>2 DEF EnqueueRaises
      <3>3. /\ pc' \in [Threads -> Phase] /\ at' \in [Threads -> Handoffs]
            /\ st' \in [Threads -> Status] /\ trying' \in [Threads -> BOOLEAN]
            /\ att' \in [Threads -> Nat]
        BY <3>1, ClassifyTypes
      <3> QED
        BY <2>2, <3>2, <3>3 DEF EnqueueRaises
    <2>3. CASE SaveRaises(t)
      <3>1. CASE trying[t]
        <4>1. Classify(t, TRUE)
          BY <2>3, <3>1 DEF SaveRaises
        <4>2. faults' \in Nat
          BY <2>3 DEF SaveRaises
        <4>3. /\ pc' \in [Threads -> Phase] /\ at' \in [Threads -> Handoffs]
              /\ st' \in [Threads -> Status] /\ trying' \in [Threads -> BOOLEAN]
              /\ att' \in [Threads -> Nat]
          BY <4>1, ClassifyTypes
        <4>4. old' \in [Threads -> Status \union {"none"}] /\ cut' \subseteq Handoffs
          BY <2>3 DEF SaveRaises
        <4> QED
          BY <2>3, <4>2, <4>3, <4>4 DEF SaveRaises
      <3>2. CASE ~ trying[t]
        BY <2>3, <3>2 DEF SaveRaises, Return, Go
      <3> QED
        BY <3>1, <3>2
    <2> QED
      BY <1>8, <2>1, <2>2, <2>3 DEF Raises
  <1>9. CASE Crash
    BY <1>9 DEF Crash
  <1>10. CASE Start
    BY <1>10 DEF Start
  <1>11. CASE UNCHANGED vars
    BY <1>11 DEF vars
  <1> QED
    BY <1>1, <1>2, <1>3, <1>4, <1>5, <1>6, <1>7, <1>8, <1>9, <1>10, <1>11 DEF Next

-----------------------------------------------------------------------------
(* Steps that move no file and end no delivery keep what the invariant says *)
(* of the records: rows stay, and a busy thread stays busy.                 *)
LEMMA RecordsStay ==
  ASSUME RecordKept, EnqueuedIsQueued, EnqueueingAttended,
         files' = files, created' = created, cut \subseteq cut',
         \A h \in Handoffs : Queued(h) => Queued(h)',
         \A h \in Handoffs : Busy(h) # {} => Busy(h)' # {} \/ h \in cut',
         \A h \in Handoffs : (\E t \in Threads : at[t] = h /\ pc[t] = "replace")
              => (\E t \in Threads : at'[t] = h /\ pc'[t] = "replace") \/ h \in cut',
         created \subseteq Handoffs, files \subseteq Record
  PROVE  RecordKept' /\ EnqueuedIsQueued' /\ EnqueueingAttended'
  <1>1. \A h \in Handoffs : Of(h)' = Of(h)
    BY DEF Of
  <1>2. RecordKept'
    BY <1>1 DEF RecordKept
  <1>3. EnqueuedIsQueued'
    BY DEF EnqueuedIsQueued, Record
  <1>4. EnqueueingAttended'
    BY <1>1 DEF EnqueueingAttended
  <1> QED
    BY <1>2, <1>3, <1>4

(* One thread's step that leaves it busy, or that found it not busy. *)
LEMMA ThreadSteps ==
  ASSUME NEW t \in Threads, TypeOK, pc' \in [Threads -> Phase], at' \in [Threads -> Handoffs],
         \A u \in Threads \ {t} : pc'[u] = pc[u] /\ at'[u] = at[u],
         pc[t] # "replace",
         pc[t] \notin {"idle", "begin", "lookup"} =>
            at'[t] = at[t] /\ pc'[t] \notin {"idle", "begin", "lookup"}
  PROVE  /\ \A h \in Handoffs : Busy(h) # {} => Busy(h)' # {}
         /\ \A h \in Handoffs : (\E u \in Threads : at[u] = h /\ pc[u] = "replace")
              => (\E u \in Threads : at'[u] = h /\ pc'[u] = "replace")
  <1>1. ASSUME NEW h \in Handoffs, Busy(h) # {} PROVE Busy(h)' # {}
    <2>1. PICK u \in Threads : at[u] = h /\ pc[u] \notin {"idle", "begin", "lookup"}
      BY <1>1 DEF Busy
    <2>2. at'[u] = h /\ pc'[u] \notin {"idle", "begin", "lookup"}
      BY <2>1
    <2> QED
      BY <2>2 DEF Busy
  <1>2. ASSUME NEW h \in Handoffs, NEW u \in Threads, at[u] = h, pc[u] = "replace"
        PROVE  at'[u] = h /\ pc'[u] = "replace"
    BY <1>2
  <1> QED
    BY <1>1, <1>2

-----------------------------------------------------------------------------
(* A row of a handoff's own never goes away. *)
LEMMA QueuedStays ==
  ASSUME TypeOK, [Next]_vars
  PROVE  \A h \in Handoffs : Queued(h) => Queued(h)'
  <1> USE DEF Queued, TypeOK, Row, store
  <1>1. ASSUME NEW t \in Threads, Enqueue(t) PROVE \A h \in Handoffs : Queued(h) => Queued(h)'
    BY <1>1 DEF Enqueue
  <1>2. ASSUME NEW g \in Handoffs, JobSettles(g) PROVE \A h \in Handoffs : Queued(h) => Queued(h)'
    BY <1>2 DEF JobSettles
  <1>3. CASE job' = job
    BY <1>3
  <1> QED
    BY <1>1, <1>2, <1>3 DEF Next, vars, Create, RivalEnqueued, Retry, Poll, Deliver, Process,
       Raises, Crash, Start, Begin, Lookup, EnqueueRefused, Recheck, SaveBegin, SaveUnlink,
       SaveReplace, LookupRaises, EnqueueRaises, SaveRaises

(* The thread t becomes or stays what it is: the others keep their hands. *)
LEMMA OneHand ==
  ASSUME NEW t \in Threads, HandInv, [Next]_vars, TypeOK,
         \A u \in Threads \ {t} : pc'[u] = pc[u] /\ at'[u] = at[u] /\ st'[u] = st[u],
         pc'[t] \in {"save", "unlink", "replace"} /\ st'[t] = "enqueued" => Queued(at[t])'
  PROVE  HandInv'
  <1>1. \A u \in Threads : at[u] \in Handoffs
    BY DEF TypeOK
  <1>2. ASSUME NEW u \in Threads \ {t},
               pc'[u] \in {"save", "unlink", "replace"}, st'[u] = "enqueued"
        PROVE  Queued(at[u])'
    <2>1. Queued(at[u])
      BY <1>2 DEF HandInv
    <2>2. job'[at[u]] \in {"active", "succeeded", "failed"} /\ at'[u] = at[u]
      BY <1>1, <1>2, <2>1, QueuedStays DEF Queued
    <2> QED
      BY <2>2 DEF Queued
  <1> QED
    BY <1>2 DEF HandInv, Queued

LEMMA NextHandInv == IInv /\ [Next]_vars => HandInv' /\ LiveInv'
  <1> SUFFICES ASSUME IInv, [Next]_vars PROVE HandInv' /\ LiveInv'
    OBVIOUS
  <1>0. TypeOK /\ HandInv /\ LiveInv
    BY DEF IInv
  <1> USE DEF store, hand, thread, hist, proc, Threads
  <1>1. ASSUME NEW h \in Handoffs, Create(h) PROVE HandInv' /\ LiveInv'
    <2>1. st'[Loop] = "enqueued" => pc'[Loop] = "begin"
      BY <1>1, <1>0 DEF Create, Take, Go, TypeOK
    <2> QED
      BY <1>1, <2>1, <1>0, OneHand DEF Create, Take, Go, LiveInv, TypeOK
  <1>2. ASSUME NEW t \in Requests, NEW h \in Handoffs, Retry(t, h) PROVE HandInv' /\ LiveInv'
    BY <1>2, <1>0, OneHand DEF Retry, Take, Go, LiveInv, TypeOK
  <1>3. CASE Deliver
    BY <1>3, <1>0, OneHand DEF Deliver, Take, Go, LiveInv, TypeOK
  <1>4. ASSUME NEW t \in Threads, Process(t) PROVE HandInv' /\ LiveInv'
    <2> USE DEF LiveInv
    <2>1. CASE Begin(t)
      BY <2>1, <1>0, OneHand DEF Begin, Return, Becomes, Go, TypeOK
    <2>2. CASE Lookup(t)
      <3>1. st'[t] = "enqueued" => Queued(at[t])'
        BY <2>2, <1>0 DEF Lookup, Becomes, Go, Healed, TypeOK, Queued
      <3> QED
        BY <2>2, <1>0, <3>1, OneHand DEF Lookup, Becomes, Go, TypeOK
    <2>3. CASE Enqueue(t)
      <3>1. Queued(at[t])'
        BY <2>3, <1>0 DEF Enqueue, Becomes, Go, TypeOK, Queued
      <3> QED
        BY <2>3, <1>0, <3>1, OneHand DEF Enqueue, Becomes, Go, TypeOK
    <2>4. CASE EnqueueRefused(t)
      BY <2>4, <1>0, OneHand DEF EnqueueRefused, Classify, Becomes, Go, TypeOK
    <2>5. CASE Recheck(t)
      <3>1. st'[t] = "enqueued" => Queued(at[t])'
        BY <2>5, <1>0 DEF Recheck, Classify, Becomes, Go, Healed, TypeOK, Queued
      <3> QED
        BY <2>5, <1>0, <3>1, OneHand DEF Recheck, Classify, Becomes, Go, TypeOK
    <2>6. CASE SaveBegin(t)
      <3>1. st'[t] = "enqueued" => Queued(at[t])'
        BY <2>6, <1>0 DEF SaveBegin, Go, TypeOK, Queued, HandInv
      <3> QED
        BY <2>6, <1>0, <3>1, OneHand DEF SaveBegin, Go, TypeOK
    <2>7. CASE SaveUnlink(t)
      <3>1. st'[t] = "enqueued" => Queued(at[t])'
        BY <2>7, <1>0 DEF SaveUnlink, Go, TypeOK, Queued, HandInv
      <3> QED
        BY <2>7, <1>0, <3>1, OneHand DEF SaveUnlink, Go, TypeOK
    <2>8. CASE SaveReplace(t)
      BY <2>8, <1>0, OneHand DEF SaveReplace, Return, Go, TypeOK
    <2> QED
      BY <1>4, <2>1, <2>2, <2>3, <2>4, <2>5, <2>6, <2>7, <2>8 DEF Process
  <1>5. ASSUME NEW t \in Threads, Raises(t) PROVE HandInv' /\ LiveInv'
    <2> USE DEF LiveInv
    <2>1. CASE LookupRaises(t)
      BY <2>1, <1>0, OneHand DEF LookupRaises, Becomes, Go, TypeOK
    <2>2. CASE EnqueueRaises(t)
      BY <2>2, <1>0, OneHand DEF EnqueueRaises, Classify, Go, TypeOK
    <2>3. CASE SaveRaises(t)
      BY <2>3, <1>0, OneHand DEF SaveRaises, Classify, Return, Go, TypeOK
    <2> QED
      BY <1>5, <2>1, <2>2, <2>3 DEF Raises
  <1>6. CASE Crash
    BY <1>6 DEF Crash, HandInv, LiveInv
  <1>7. CASE Start
    BY <1>7, <1>0 DEF Start, HandInv, LiveInv, Queued
  <1>8. ASSUME NEW h \in Handoffs, RivalEnqueued(h) \/ JobSettles(h) PROVE HandInv' /\ LiveInv'
    <2>1. UNCHANGED thread /\ up' = up
      BY <1>8 DEF RivalEnqueued, JobSettles
    <2> QED
      BY <2>1, <1>0, QueuedStays DEF HandInv, LiveInv, TypeOK, Queued
  <1>9. CASE Poll \/ UNCHANGED vars
    BY <1>9, <1>0 DEF Poll, vars, HandInv, LiveInv, Queued
  <1> QED
    BY <1>1, <1>2, <1>3, <1>4, <1>5, <1>6, <1>7, <1>8, <1>9 DEF Next

-----------------------------------------------------------------------------
(* The three properties of the records. *)
RecordInv == RecordKept /\ EnqueuedIsQueued /\ EnqueueingAttended

(* A thread that is not replacing a file, and does not stop half way. *)
LEMMA ThreadKeepsRecords ==
  ASSUME IInv, [Next]_vars, NEW t \in Threads, TypeOK',
         \A u \in Threads \ {t} : pc'[u] = pc[u] /\ at'[u] = at[u],
         pc[t] # "replace",
         pc[t] \notin {"idle", "begin", "lookup"} =>
            at'[t] = at[t] /\ pc'[t] \notin {"idle", "begin", "lookup"},
         files' = files, created' = created, cut \subseteq cut'
  PROVE  RecordInv'
  <1>1. TypeOK /\ RecordKept /\ EnqueuedIsQueued /\ EnqueueingAttended
    BY DEF IInv
  <1>2. /\ pc' \in [Threads -> Phase] /\ at' \in [Threads -> Handoffs]
        /\ created \subseteq Handoffs /\ files \subseteq Record
    BY <1>1 DEF TypeOK
  <1>3. \A h \in Handoffs : Queued(h) => Queued(h)'
    BY <1>1, QueuedStays
  <1>4. /\ \A h \in Handoffs : Busy(h) # {} => Busy(h)' # {}
        /\ \A h \in Handoffs : (\E u \in Threads : at[u] = h /\ pc[u] = "replace")
              => (\E u \in Threads : at'[u] = h /\ pc'[u] = "replace")
    BY <1>1, <1>2, ThreadSteps
  <1> QED
    BY <1>1, <1>2, <1>3, <1>4, RecordsStay DEF RecordInv

(* save_handoff removes the old file: the thread is about to put the new one. *)
LEMMA UnlinkKeepsRecords ==
  ASSUME IInv, [Next]_vars, NEW t \in Threads, SaveUnlink(t)
  PROVE  RecordInv'
  <1> USE DEF hist, hand, proc
  <1>1. TypeOK /\ RecordKept /\ EnqueuedIsQueued /\ EnqueueingAttended
    BY DEF IInv
  <1>2. /\ files' \subseteq files /\ UNCHANGED <<job, at, created, cut>>
        /\ pc' = [pc EXCEPT ![t] = "replace"]
    BY DEF SaveUnlink, Go
  <1>3. \A h \in Handoffs : h # at[t] => Of(h)' = Of(h)
    BY DEF SaveUnlink, InOld, Of
  <1>4. at'[t] = at[t] /\ pc'[t] = "replace" /\ at[t] \in Handoffs
    BY <1>1, <1>2 DEF TypeOK
  <1>5. \A h \in Handoffs : Busy(h) # {} => Busy(h)' # {}
    BY <1>2, <1>4 DEF Busy, SaveUnlink
  <1>6. Busy(at[t])' # {}
    BY <1>2, <1>4 DEF Busy
  <1>7. RecordKept'
    <2>1. ASSUME NEW h \in created \ cut PROVE Of(h)' # {} \/ \E u \in Threads : at'[u] = h /\ pc'[u] = "replace"
      <3>1. CASE h = at[t]
        BY <3>1, <1>4
      <3>2. CASE h # at[t]
        <4>1. Of(h)' = Of(h)
          BY <3>2, <1>1, <1>3 DEF TypeOK
        <4>2. Of(h) # {} \/ \E u \in Threads : at[u] = h /\ pc[u] = "replace"
          BY <1>1 DEF RecordKept
        <4> QED
          BY <4>1, <4>2, <1>1, <1>2 DEF TypeOK
      <3> QED
        BY <3>1, <3>2
    <2> QED
      BY <2>1, <1>2 DEF RecordKept
  <1>8. EnqueuedIsQueued'
    BY <1>1, <1>2 DEF EnqueuedIsQueued, Queued
  <1>9. EnqueueingAttended'
    <2>1. ASSUME NEW h \in created \ cut, \A r \in Of(h)' : r.status = "enqueueing"
          PROVE  Queued(h)' \/ Busy(h)' # {}
      <3>1. CASE h = at[t]
        BY <3>1, <1>2, <1>4, <1>6 DEF Busy
      <3>2. CASE h # at[t]
        <4>1. h \in Handoffs /\ Of(h)' = Of(h)
          BY <3>2, <1>1, <1>3 DEF TypeOK
        <4>2. Queued(h) \/ Busy(h) # {}
          BY <4>1, <2>1, <1>1 DEF EnqueueingAttended
        <4> QED
          BY <4>1, <4>2, <1>2, <1>5 DEF Queued
      <3> QED
        BY <3>1, <3>2
    <2> QED
      BY <2>1, <1>2 DEF EnqueueingAttended
  <1> QED
    BY <1>7, <1>8, <1>9 DEF RecordInv

(* The new file is in place: a record that is enqueueing keeps its thread, *)
(* and one that is enqueued has its row.                                   *)
LEMMA ReplaceKeepsRecords ==
  ASSUME IInv, [Next]_vars, NEW t \in Threads, SaveReplace(t)
  PROVE  RecordInv'
  <1> USE DEF hist, hand, proc
  <1> DEFINE new == [handoff |-> at[t], status |-> st[t], attempt |-> att[t]]
  <1>1. TypeOK /\ RecordKept /\ EnqueuedIsQueued /\ EnqueueingAttended /\ HandInv
    BY DEF IInv
  <1>2. /\ files' = {r \in files : r.handoff # at[t] \/ r.status # st[t]} \union {new}
        /\ UNCHANGED <<job, cut>> /\ created' = created \union {at[t]} /\ pc[t] = "replace"
        /\ at' = at
    BY DEF SaveReplace, Return
  <1>3. new.handoff = at[t] /\ new.status = st[t] /\ at[t] \in Handoffs /\ new \in files'
    BY <1>1, <1>2 DEF TypeOK
  <1> HIDE DEF new
  <1>4. \A h \in Handoffs : h # at[t] => Of(h)' = Of(h)
    BY <1>2, <1>3 DEF Of
  <1>5. new \in Of(at[t])'
    BY <1>2, <1>3 DEF Of
  <1>6. \A u \in Threads \ {t} : pc'[u] = pc[u]
    BY <1>1 DEF SaveReplace, Go, Return, TypeOK
  <1>7. RecordKept'
    <2>1. ASSUME NEW h \in created' \ cut PROVE Of(h)' # {} \/ \E u \in Threads : at'[u] = h /\ pc'[u] = "replace"
      <3>1. CASE h = at[t]
        BY <3>1, <1>5, <1>2
      <3>2. CASE h # at[t]
        <4>1. h \in created \ cut /\ Of(h)' = Of(h)
          BY <3>2, <2>1, <1>1, <1>2, <1>4 DEF TypeOK
        <4>2. Of(h) # {} \/ \E u \in Threads : at[u] = h /\ pc[u] = "replace"
          BY <4>1, <1>1 DEF RecordKept
        <4> QED
          BY <4>1, <4>2, <3>2, <1>2, <1>6
      <3> QED
        BY <3>1, <3>2
    <2> QED
      BY <2>1, <1>2 DEF RecordKept
  <1>8. EnqueuedIsQueued'
    <2>1. ASSUME NEW r \in files', r.status = "enqueued" PROVE job'[r.handoff] \in {"active", "succeeded", "failed"}
      <3>1. CASE r = new
        <4>1. st[t] = "enqueued" /\ pc[t] = "replace" /\ r.handoff = at[t]
          BY <3>1, <2>1, <1>2, <1>3
        <4> QED
          BY <4>1, <1>1, <1>2 DEF HandInv, Queued
      <3>2. CASE r \in files
        BY <3>2, <2>1, <1>1, <1>2 DEF EnqueuedIsQueued, Queued
      <3> QED
        BY <3>1, <3>2, <1>2
    <2> QED
      BY <2>1 DEF EnqueuedIsQueued, Queued
  <1>9. EnqueueingAttended'
    <2>1. ASSUME NEW h \in created' \ cut, \A r \in Of(h)' : r.status = "enqueueing"
          PROVE  Queued(h)' \/ Busy(h)' # {}
      <3>1. CASE h = at[t]
        <4>1. st[t] = "enqueueing"
          BY <3>1, <2>1, <1>3, <1>5, <1>2
        <4>2. pc'[t] = "enqueue"
          BY <4>1, <1>1 DEF SaveReplace, Go, TypeOK
        <4> QED
          BY <3>1, <4>2, <1>2 DEF Busy
      <3>2. CASE h # at[t]
        <4>1. h \in created \ cut /\ h \in Handoffs /\ Of(h)' = Of(h)
          BY <3>2, <2>1, <1>1, <1>2, <1>4 DEF TypeOK
        <4>2. Queued(h) \/ Busy(h) # {}
          BY <4>1, <2>1, <1>1 DEF EnqueueingAttended
        <4>3. Busy(h) # {} => Busy(h)' # {}
          BY <3>2, <1>2, <1>6 DEF Busy
        <4> QED
          BY <4>2, <4>3, <1>2 DEF Queued
      <3> QED
        BY <3>1, <3>2
    <2> QED
      BY <2>1, <1>2 DEF EnqueueingAttended
  <1> QED
    BY <1>7, <1>8, <1>9 DEF RecordInv

(* What stops half way is recorded in cut. *)
LEMMA CutKeepsRecords ==
  ASSUME IInv, [Next]_vars, Crash \/ \E t \in Threads : SaveRaises(t)
  PROVE  RecordInv'
  <1> USE DEF hist, hand, proc, store
  <1>1. TypeOK /\ RecordKept /\ EnqueuedIsQueued /\ EnqueueingAttended
    BY DEF IInv
  <1>2. files' = files /\ created' = created /\ cut \subseteq cut' /\ at' = at /\ job' = job
    BY ClassifyTypes DEF Crash, SaveRaises, Classify, Return, Becomes
  <1>3. created \subseteq Handoffs /\ files \subseteq Record
    BY <1>1 DEF TypeOK
  <1>4. ASSUME NEW h \in Handoffs, NEW u \in Threads, at[u] = h, pc[u] \notin {"idle", "begin", "lookup"}
        PROVE  (at'[u] = h /\ pc'[u] = pc[u]) \/ h \in cut'
    <2>1. CASE Crash
      BY <1>4, <2>1 DEF Crash, Busy
    <2>2. ASSUME NEW t \in Threads, SaveRaises(t) PROVE (at'[u] = h /\ pc'[u] = pc[u]) \/ h \in cut'
      BY <1>1, <1>2, <1>4, <2>2 DEF SaveRaises, Classify, Return, Go, TypeOK
    <2> QED
      BY <2>1, <2>2
  <1>5. \A h \in Handoffs : Busy(h) # {} => Busy(h)' # {} \/ h \in cut'
    BY <1>4 DEF Busy
  <1>6. \A h \in Handoffs : (\E u \in Threads : at[u] = h /\ pc[u] = "replace")
              => (\E u \in Threads : at'[u] = h /\ pc'[u] = "replace") \/ h \in cut'
    BY <1>4
  <1>7. \A h \in Handoffs : Queued(h) => Queued(h)'
    BY <1>2 DEF Queued
  <1> QED
    BY <1>1, <1>2, <1>3, <1>5, <1>6, <1>7, RecordsStay DEF RecordInv

LEMMA NextRecordInv == IInv /\ [Next]_vars => RecordInv'
  <1> SUFFICES ASSUME IInv, [Next]_vars PROVE RecordInv'
    OBVIOUS
  <1>0. TypeOK /\ TypeOK'
    BY NextTypeOK DEF IInv
  <1> USE DEF store, hand, thread, hist, proc
  <1>1. ASSUME NEW h \in Handoffs, Create(h) PROVE RecordInv'
    BY <1>1, <1>0, ThreadKeepsRecords DEF Create, Take, Go, TypeOK, Threads
  <1>2. ASSUME NEW t \in Requests, NEW h \in Handoffs, Retry(t, h) PROVE RecordInv'
    BY <1>2, <1>0, ThreadKeepsRecords DEF Retry, Take, Go, TypeOK, Threads
  <1>3. CASE Deliver
    BY <1>3, <1>0, ThreadKeepsRecords DEF Deliver, Take, Go, TypeOK, Threads
  <1>4. ASSUME NEW t \in Threads, Process(t) PROVE RecordInv'
    <2>1. CASE Begin(t)
      BY <2>1, <1>0, ThreadKeepsRecords DEF Begin, Return, Becomes, Go, TypeOK
    <2>2. CASE Lookup(t)
      BY <2>2, <1>0, ThreadKeepsRecords DEF Lookup, Becomes, Go, TypeOK
    <2>3. CASE Enqueue(t)
      BY <2>3, <1>0, ThreadKeepsRecords DEF Enqueue, Becomes, Go, TypeOK
    <2>4. CASE EnqueueRefused(t)
      BY <2>4, <1>0, ThreadKeepsRecords DEF EnqueueRefused, Classify, Becomes, Go, TypeOK
    <2>5. CASE Recheck(t)
      BY <2>5, <1>0, ThreadKeepsRecords DEF Recheck, Classify, Becomes, Go, TypeOK
    <2>6. CASE SaveBegin(t)
      BY <2>6, <1>0, ThreadKeepsRecords DEF SaveBegin, Go, TypeOK
    <2>7. CASE SaveUnlink(t)
      BY <2>7, UnlinkKeepsRecords
    <2>8. CASE SaveReplace(t)
      BY <2>8, ReplaceKeepsRecords
    <2> QED
      BY <1>4, <2>1, <2>2, <2>3, <2>4, <2>5, <2>6, <2>7, <2>8 DEF Process
  <1>5. ASSUME NEW t \in Threads, Raises(t) PROVE RecordInv'
    <2>1. CASE LookupRaises(t)
      BY <2>1, <1>0, ThreadKeepsRecords DEF LookupRaises, Becomes, Go, TypeOK
    <2>2. CASE EnqueueRaises(t)
      BY <2>2, <1>0, ThreadKeepsRecords DEF EnqueueRaises, Classify, Go, TypeOK
    <2>3. CASE SaveRaises(t)
      BY <2>3, CutKeepsRecords
    <2> QED
      BY <1>5, <2>1, <2>2, <2>3 DEF Raises
  <1>6. CASE Crash
    BY <1>6, CutKeepsRecords
  <1>7. CASE Poll \/ Start \/ UNCHANGED vars \/ \E h \in Handoffs : RivalEnqueued(h) \/ JobSettles(h)
    <2>1. UNCHANGED <<files, pc, at, created, cut>>
      BY <1>7 DEF Poll, Start, RivalEnqueued, JobSettles, vars
    <2>2. /\ TypeOK /\ RecordKept /\ EnqueuedIsQueued /\ EnqueueingAttended
          /\ created \subseteq Handoffs /\ files \subseteq Record
      BY DEF IInv, TypeOK
    <2>3. \A h \in Handoffs : Queued(h) => Queued(h)'
      BY <2>2, QueuedStays
    <2>4. /\ \A h \in Handoffs : Busy(h) # {} => Busy(h)' # {} \/ h \in cut'
          /\ \A h \in Handoffs : (\E u \in Threads : at[u] = h /\ pc[u] = "replace")
                => (\E u \in Threads : at'[u] = h /\ pc'[u] = "replace") \/ h \in cut'
      BY <2>1 DEF Busy
    <2> QED
      BY <2>1, <2>2, <2>3, <2>4, RecordsStay DEF RecordInv
  <1> QED
    BY <1>1, <1>2, <1>3, <1>4, <1>5, <1>6, <1>7 DEF Next

-----------------------------------------------------------------------------
LEMMA Invariance == Spec => []IInv
  <1>1. IInv /\ [Next]_vars => IInv'
    BY NextTypeOK, NextHandInv, NextRecordInv DEF IInv, RecordInv
  <1> QED
    BY <1>1, InitIInv, PTL DEF Spec

(* The record files, the rows and the threads keep their types. *)
THEOREM TypeCorrect == Spec => []TypeOK
  <1>1. IInv => TypeOK
    BY DEF IInv
  <1> QED
    BY <1>1, Invariance, PTL

(* A record in the directory enqueued has its row in the queue, however the *)
(* event loop, the request threads, crashes and failed writes interleave.   *)
THEOREM EnqueuedHasRow == Spec => []EnqueuedIsQueued
  <1>1. IInv => EnqueuedIsQueued
    BY DEF IInv
  <1> QED
    BY <1>1, Invariance, PTL

(* Threads that move the same record between directories never lose it; only *)
(* a save cut short between its two file operations does.                    *)
THEOREM RecordSurvives == Spec => []RecordKept
  <1>1. IInv => RecordKept
    BY DEF IInv
  <1> QED
    BY <1>1, Invariance, PTL

(* A handoff that no cycle polls any more and that the queue does not hold *)
(* is in the hands of a thread, unless its delivery was cut short.         *)
THEOREM HandoffAttended == Spec => []EnqueueingAttended
  <1>1. IInv => EnqueueingAttended
    BY DEF IInv
  <1> QED
    BY <1>1, Invariance, PTL
=============================================================================
