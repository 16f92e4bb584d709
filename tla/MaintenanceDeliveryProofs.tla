---------------------- MODULE MaintenanceDeliveryProofs ----------------------
(* Proofs about ProjectOutbox, for every set of events and workers, any     *)
(* number of attempts, and any assignment of events to streams, lifecycles  *)
(* and versions; and then about MaintenanceDelivery, which extends it, for  *)
(* any number of dispatchers.                                               *)
EXTENDS MaintenanceDelivery, FiniteSetTheorems, SequenceTheorems, WellFoundedInduction, TLAPS

USE OutboxAssumption

-----------------------------------------------------------------------------
(* A worker carries a message exactly while it is not idle. *)
WorkerInv == \A w \in Workers : pc[w] = "idle" <=> msg[w] = NoEvent

Earlier(e) == {f \in Events : Lifecycle[f] = Lifecycle[e] /\ Version[f] < Version[e]}

(* Versions are inserted in order, and an event that was ever claimed has its *)
(* earlier versions delivered.                                                *)
EarlierInv ==
  \A e \in Events : \A f \in Earlier(e) :
    /\ Inserted(e) => Inserted(f)
    /\ status[e] \notin {"absent", "pending"} => status[f] = "processed"

IInv == TypeOK /\ LeaseHeld /\ WorkerInv /\ EarlierInv /\ HandledInOrder /\ LogMatches

-----------------------------------------------------------------------------
(* The initial state satisfies the invariant. *)
LEMMA InitIInv == Init => IInv
  <1> SUFFICES ASSUME Init PROVE IInv
    OBVIOUS
  <1>1. TypeOK
    BY DEF Init, TypeOK, RowStatus
  <1>2. LeaseHeld /\ WorkerInv
    BY DEF Init, LeaseHeld, WorkerInv
  <1>3. EarlierInv /\ HandledInOrder
    BY DEF Init, EarlierInv, HandledInOrder, Earlier, Inserted
  <1>4. LogMatches
    BY DEF Init, LogMatches
  <1>5. QED
    BY <1>1, <1>2, <1>3, <1>4 DEF IInv

(* The recovery of expired leases touches processing rows only. *)
LEMMA RecoveredRows ==
  ASSUME TypeOK
  PROVE  /\ Recovered \in [Events -> RowStatus]
         /\ DueAfter \in [Events -> BOOLEAN]
         /\ \A e \in Events :
              /\ Recovered[e] \in {"absent", "pending", "dead_letter", "processed"}
                   => status[e] = Recovered[e]
              /\ status[e] \in {"absent", "pending", "dead_letter", "processed"}
                   => Recovered[e] = status[e]
              /\ Recovered[e] = "retry" => status[e] \in {"retry", "processing"}
              /\ Recovered[e] = "processing" <=> status[e] = "processing" /\ ~ LeaseRunOut(e)
  BY DEF TypeOK, Recovered, DueAfter, LeaseRunOut, RowStatus

(* The head of a stream has all earlier versions of its lifecycle delivered. *)
LEMMA HeadFollowsDelivered ==
  ASSUME IInv, NEW e \in Events, StreamHead(e), NEW f \in Earlier(e)
  PROVE  status[f] = "processed"
  <1>1. f \in Events /\ Lifecycle[f] = Lifecycle[e] /\ Version[f] < Version[e]
    BY DEF Earlier
  <1>2. Stream[f] = Stream[e]
    BY <1>1
  <1>3. Version[e] \in Nat /\ Version[f] \in Nat
    BY <1>1
  <1>4. ~ Before(e, f)
    BY <1>1, <1>3 DEF Before
  <1>5. ~ Undelivered(f)
    BY <1>1, <1>2, <1>4 DEF StreamHead
  <1>6. Recovered[f] \in {"absent", "processed"}
    BY <1>5 DEF Undelivered
  <1>7. Recovered[e] # "absent" /\ Inserted(e)
    BY RecoveredRows DEF IInv, StreamHead, Undelivered, Inserted
  <1>8. Inserted(f)
    BY <1>7 DEF IInv, EarlierInv
  <1>9. QED
    BY <1>1, <1>6, <1>8, RecoveredRows DEF IInv, Inserted

-----------------------------------------------------------------------------
(* Each action preserves the invariant. *)
LEMMA InsertIInv ==
  ASSUME IInv, NEW e \in Events, Insert(e) PROVE IInv'
  <1>1. TypeOK'
    <2>1. Cardinality({f \in Events : Inserted(f)}) \in Nat
      <3>1. IsFiniteSet({f \in Events : Inserted(f)})
        BY FS_Subset
      <3>2. QED
        BY <3>1, FS_CardinalityType
    <2>2. created' \in [Events -> Nat]
      BY <2>1 DEF IInv, TypeOK, Insert
    <2>3. status' \in [Events -> RowStatus]
      BY DEF IInv, TypeOK, Insert, RowStatus
    <2>4. QED
      BY <2>2, <2>3 DEF IInv, TypeOK, Insert
  <1>2. LeaseHeld'
    BY DEF IInv, TypeOK, Insert, LeaseHeld, Inserted
  <1>3. WorkerInv'
    BY DEF IInv, Insert, WorkerInv
  <1>4. EarlierInv'
    BY DEF IInv, TypeOK, Insert, EarlierInv, Earlier, Inserted
  <1>5. HandledInOrder'
    BY DEF IInv, TypeOK, Insert, HandledInOrder, Inserted
  <1>6. LogMatches'
    BY DEF IInv, TypeOK, Insert, LogMatches, Inserted
  <1>7. QED
    BY <1>1, <1>2, <1>3, <1>4, <1>5, <1>6 DEF IInv

(* A claim takes the head of a stream, whose earlier versions are delivered. *)
LEMMA ClaimIInv ==
  ASSUME IInv, NEW w \in Workers, Claim(w) PROVE IInv'
  <1>0. PICK e \in Events :
        /\ Eligible(e)
        /\ status' = [Recovered EXCEPT ![e] = "processing"]
        /\ attempts' = [attempts EXCEPT ![e] = @ + 1]
        /\ token' = [f \in Events |-> IF f = e THEN w ELSE IF LeaseRunOut(f) THEN NoWorker ELSE token[f]]
        /\ msg' = [msg EXCEPT ![w] = e]
    BY DEF Claim, FirstClaimable
  <1>a. StreamHead(e) /\ Claimable(e)
    BY <1>0 DEF Eligible
  <1>b. \A f \in Earlier(e) : status[f] = "processed"
    BY <1>a, HeadFollowsDelivered
  <1>c. status[e] \notin {"absent", "processed"}
    BY <1>a, RecoveredRows DEF IInv, StreamHead, Undelivered
  <1>d. \A f \in Events : status[f] = "processed" <=> status'[f] = "processed"
    BY <1>0, <1>c, RecoveredRows DEF IInv
  <1>1. TypeOK'
    <2>1. attempts' \in [Events -> 0..MaxAttempts]
      BY <1>0, <1>a DEF IInv, TypeOK, Claimable
    <2>2. status' \in [Events -> RowStatus]
      BY <1>0, RecoveredRows DEF IInv, RowStatus
    <2>3. due' \in [Events -> BOOLEAN] /\ expired' \in [Events -> BOOLEAN]
      BY RecoveredRows DEF IInv, TypeOK, Claim
    <2>4. token' \in [Events -> Workers \union {NoWorker}]
      BY <1>0 DEF IInv, TypeOK
    <2>5. msg' \in [Workers -> Events \union {NoEvent}] /\ pc' \in [Workers -> {"idle", "handling", "ok", "retryable", "final"}]
      BY DEF IInv, TypeOK, Claim
    <2>6. QED
      BY <2>1, <2>2, <2>3, <2>4, <2>5 DEF IInv, TypeOK, Claim
  <1>2. LeaseHeld'
    <2> SUFFICES ASSUME NEW f \in Events
                 PROVE  (status'[f] = "processing" <=> token'[f] # NoWorker) /\ (expired'[f] => status'[f] = "processing")
      BY DEF LeaseHeld
    <2>1. CASE f = e
      BY <1>0, <2>1, RecoveredRows DEF IInv, TypeOK
    <2>2. CASE f # e
      BY <1>0, <2>2, RecoveredRows DEF IInv, TypeOK, LeaseHeld, Claim
    <2>3. QED
      BY <2>1, <2>2
  <1>3. WorkerInv'
    BY DEF IInv, TypeOK, Claim, WorkerInv
  <1>4. EarlierInv'
    <2> SUFFICES ASSUME NEW g \in Events, NEW f \in Earlier(g)
                 PROVE  /\ Inserted(g)' => Inserted(f)'
                        /\ status'[g] \notin {"absent", "pending"} => status'[f] = "processed"
      BY DEF EarlierInv, Earlier
    <2>0. f \in Events
      BY DEF Earlier
    <2>1. Inserted(g)' <=> Inserted(g)
      BY <1>0, <1>c, RecoveredRows DEF IInv, Inserted, TypeOK
    <2>2. Inserted(f)' <=> Inserted(f)
      BY <1>0, <1>c, <2>0, RecoveredRows DEF IInv, Inserted, TypeOK
    <2>3. CASE g = e
      BY <2>0, <2>1, <2>2, <2>3, <1>b, <1>d DEF IInv, EarlierInv
    <2>4. CASE g # e
      <3>1. status'[g] \notin {"absent", "pending"} => status[g] \notin {"absent", "pending"}
        BY <1>0, <2>4, RecoveredRows DEF IInv
      <3>2. QED
        BY <3>1, <2>0, <2>1, <2>2, <1>d DEF IInv, EarlierInv
    <2>5. QED
      BY <2>3, <2>4
  <1>5. HandledInOrder'
    <2> SUFFICES ASSUME NEW v \in Workers, NEW f \in Events, msg'[v] # NoEvent,
                        Lifecycle[f] = Lifecycle[msg'[v]], Version[f] < Version[msg'[v]]
                 PROVE  status'[f] = "processed"
      BY DEF HandledInOrder
    <2>1. CASE v = w
      <3>1. msg'[v] = e
        BY <1>0, <2>1 DEF IInv, TypeOK
      <3>2. f \in Earlier(e)
        BY <3>1 DEF Earlier
      <3>3. QED
        BY <3>2, <1>b, <1>d
    <2>2. CASE v # w
      BY <1>0, <2>2, <1>d DEF IInv, HandledInOrder, TypeOK
    <2>3. QED
      BY <2>1, <2>2
  <1>6. LogMatches'
    BY <1>d DEF IInv, LogMatches, Claim
  <1>7. QED
    BY <1>1, <1>2, <1>3, <1>4, <1>5, <1>6 DEF IInv

(* A claim that finds nothing only recovers leases. *)
LEMMA ClaimNothingIInv ==
  ASSUME IInv, NEW w \in Workers, ClaimNothing(w) PROVE IInv'
  <1>d. \A f \in Events : status[f] = "processed" <=> status'[f] = "processed"
    BY RecoveredRows DEF IInv, ClaimNothing
  <1>1. TypeOK'
    <2>1. status' \in [Events -> RowStatus] /\ due' \in [Events -> BOOLEAN]
      BY RecoveredRows DEF IInv, ClaimNothing
    <2>2. expired' \in [Events -> BOOLEAN] /\ token' \in [Events -> Workers \union {NoWorker}]
      BY DEF IInv, TypeOK, ClaimNothing
    <2>3. QED
      BY <2>1, <2>2 DEF IInv, TypeOK, ClaimNothing
  <1>2. LeaseHeld'
    BY RecoveredRows DEF IInv, LeaseHeld, ClaimNothing, TypeOK
  <1>3. WorkerInv'
    BY DEF IInv, ClaimNothing, WorkerInv
  <1>4. EarlierInv'
    <2> SUFFICES ASSUME NEW g \in Events, NEW f \in Earlier(g)
                 PROVE  /\ Inserted(g)' => Inserted(f)'
                        /\ status'[g] \notin {"absent", "pending"} => status'[f] = "processed"
      BY DEF EarlierInv, Earlier
    <2>0. f \in Events
      BY DEF Earlier
    <2>1. \A h \in Events : Inserted(h)' <=> Inserted(h)
      BY RecoveredRows DEF IInv, Inserted, ClaimNothing
    <2>2. status'[g] \notin {"absent", "pending"} => status[g] \notin {"absent", "pending"}
      BY RecoveredRows DEF IInv, ClaimNothing
    <2>3. QED
      BY <2>0, <2>1, <2>2, <1>d DEF IInv, EarlierInv
  <1>5. HandledInOrder'
    BY <1>d DEF IInv, HandledInOrder, ClaimNothing
  <1>6. LogMatches'
    BY <1>d DEF IInv, LogMatches, ClaimNothing
  <1>7. QED
    BY <1>1, <1>2, <1>3, <1>4, <1>5, <1>6 DEF IInv

(* A handler changes no row. *)
LEMMA HandleIInv ==
  ASSUME IInv, NEW w \in Workers, Handle(w) PROVE IInv'
  <1>1. TypeOK'
    BY DEF IInv, TypeOK, Handle, rows
  <1>2. LeaseHeld' /\ EarlierInv' /\ HandledInOrder' /\ LogMatches'
    BY DEF IInv, Handle, rows, LeaseHeld, EarlierInv, Earlier, Inserted, HandledInOrder, LogMatches
  <1>3. WorkerInv'
    BY DEF IInv, TypeOK, Handle, WorkerInv
  <1>4. QED
    BY <1>1, <1>2, <1>3 DEF IInv

(* The worker that is done with its message and holds the lease of its row. *)
LEMMA Settling ==
  ASSUME IInv, NEW w \in Workers, pc[w] # "idle", Holds(w)
  PROVE  msg[w] \in Events /\ status[msg[w]] = "processing"
  <1>1. msg[w] \in Events
    BY DEF IInv, TypeOK, WorkerInv
  <1>2. QED
    BY <1>1 DEF IInv, Holds, LeaseHeld

(* A delivery settles the row its worker holds and logs it. *)
LEMMA MarkDeliveredIInv ==
  ASSUME IInv, NEW w \in Workers, MarkDelivered(w) PROVE IInv'
  <1> DEFINE e == msg[w]
  <1>0. e \in Events /\ status[e] = "processing"
    BY Settling DEF MarkDelivered
  <1>1. TypeOK'
    BY <1>0 DEF IInv, TypeOK, MarkDelivered, LogDelivery, Forget, RowStatus
  <1>2. LeaseHeld'
    BY <1>0 DEF IInv, TypeOK, LeaseHeld, MarkDelivered
  <1>3. WorkerInv'
    BY DEF IInv, TypeOK, WorkerInv, MarkDelivered, Forget
  <1>a. \A f \in Events : /\ status'[f] = "absent" <=> status[f] = "absent"
                          /\ status'[f] = "pending" <=> status[f] = "pending"
                          /\ status[f] = "processed" => status'[f] = "processed"
    BY <1>0 DEF IInv, TypeOK, MarkDelivered
  <1>4. EarlierInv'
    BY <1>a DEF IInv, EarlierInv, Earlier, Inserted
  <1>5. HandledInOrder'
    BY <1>a DEF IInv, TypeOK, HandledInOrder, MarkDelivered, Forget
  <1>6. LogMatches'
    <2>1. logged' = logged \union {e}
      BY DEF MarkDelivered, LogDelivery
    <2>2. status' = [status EXCEPT ![e] = "processed"]
      BY DEF MarkDelivered
    <2>3. QED
      BY <1>0, <2>1, <2>2 DEF IInv, TypeOK, LogMatches
  <1>7. QED
    BY <1>1, <1>2, <1>3, <1>4, <1>5, <1>6 DEF IInv

(* A failure returns the row its worker holds to retry or gives it up. *)
LEMMA MarkFailedIInv ==
  ASSUME IInv, NEW w \in Workers, MarkFailed(w) PROVE IInv'
  <1> DEFINE e == msg[w]
  <1>0. e \in Events /\ status[e] = "processing"
    BY Settling DEF MarkFailed
  <1>1. TypeOK'
    BY <1>0 DEF IInv, TypeOK, MarkFailed, Forget, RowStatus
  <1>2. LeaseHeld'
    BY <1>0 DEF IInv, TypeOK, LeaseHeld, MarkFailed
  <1>3. WorkerInv'
    BY DEF IInv, TypeOK, WorkerInv, MarkFailed, Forget
  <1>a. \A f \in Events : /\ status'[f] = "absent" <=> status[f] = "absent"
                          /\ status'[f] = "pending" <=> status[f] = "pending"
                          /\ status'[f] = "processed" <=> status[f] = "processed"
    BY <1>0 DEF IInv, TypeOK, MarkFailed
  <1>4. EarlierInv'
    BY <1>a DEF IInv, EarlierInv, Earlier, Inserted
  <1>5. HandledInOrder'
    BY <1>a DEF IInv, TypeOK, HandledInOrder, MarkFailed, Forget
  <1>6. LogMatches'
    BY <1>a DEF IInv, LogMatches, MarkFailed
  <1>7. QED
    BY <1>1, <1>2, <1>3, <1>4, <1>5, <1>6 DEF IInv

(* A worker that lost its lease changes no row, and its log entry is rolled back. *)
LEMMA SettleLostIInv ==
  ASSUME IInv, NEW w \in Workers, SettleLost(w) PROVE IInv'
  <1>0. logged' = logged
    BY DEF SettleLost, LogDelivery
  <1>1. TypeOK'
    BY <1>0 DEF IInv, TypeOK, SettleLost, Forget
  <1>2. LeaseHeld' /\ EarlierInv' /\ LogMatches'
    BY <1>0 DEF IInv, SettleLost, LeaseHeld, EarlierInv, Earlier, Inserted, LogMatches
  <1>3. WorkerInv' /\ HandledInOrder'
    BY DEF IInv, TypeOK, SettleLost, Forget, WorkerInv, HandledInOrder
  <1>4. QED
    BY <1>1, <1>2, <1>3 DEF IInv

(* A crash forgets the message and leaves the row and its token as they are. *)
LEMMA CrashIInv ==
  ASSUME IInv, NEW w \in Workers, Crash(w) PROVE IInv'
  <1>1. TypeOK'
    BY DEF IInv, TypeOK, Crash, Forget, rows
  <1>2. LeaseHeld' /\ EarlierInv' /\ LogMatches'
    BY DEF IInv, Crash, rows, LeaseHeld, EarlierInv, Earlier, Inserted, LogMatches
  <1>3. WorkerInv' /\ HandledInOrder'
    BY DEF IInv, TypeOK, Crash, rows, Forget, WorkerInv, HandledInOrder
  <1>4. QED
    BY <1>1, <1>2, <1>3 DEF IInv

(* Passing time changes no status. *)
LEMMA TimeIInv ==
  ASSUME IInv, NEW e \in Events, LeaseExpires(e) \/ DelayPasses(e) PROVE IInv'
  <1>1. TypeOK'
    BY DEF IInv, TypeOK, LeaseExpires, DelayPasses
  <1>2. LeaseHeld'
    BY DEF IInv, TypeOK, LeaseHeld, LeaseExpires, DelayPasses
  <1>3. EarlierInv' /\ HandledInOrder' /\ LogMatches' /\ WorkerInv'
    BY DEF IInv, LeaseExpires, DelayPasses, EarlierInv, Earlier, Inserted, HandledInOrder, LogMatches, WorkerInv
  <1>4. QED
    BY <1>1, <1>2, <1>3 DEF IInv

(* An operator replays an event whose earlier versions are delivered. *)
LEMMA ReplayIInv ==
  ASSUME IInv, NEW e \in Events, ReplayDeadLetter(e) PROVE IInv'
  <1>1. TypeOK'
    BY DEF IInv, TypeOK, ReplayDeadLetter, RowStatus
  <1>2. LeaseHeld'
    BY DEF IInv, TypeOK, LeaseHeld, ReplayDeadLetter
  <1>a. \A f \in Events : /\ status'[f] = "absent" <=> status[f] = "absent"
                          /\ status[f] = "pending" => status'[f] = "pending"
                          /\ status'[f] = "processed" <=> status[f] = "processed"
    BY DEF IInv, TypeOK, ReplayDeadLetter
  <1>3. EarlierInv'
    BY <1>a DEF IInv, EarlierInv, Earlier, Inserted
  <1>4. HandledInOrder' /\ LogMatches' /\ WorkerInv'
    BY <1>a DEF IInv, ReplayDeadLetter, HandledInOrder, LogMatches, WorkerInv
  <1>5. QED
    BY <1>1, <1>2, <1>3, <1>4 DEF IInv

(* Every step preserves the invariant. *)
LEMMA NextIInv == IInv /\ [Next]_vars => IInv'
  <1> SUFFICES ASSUME IInv, [Next]_vars PROVE IInv'
    OBVIOUS
  <1>1. ASSUME NEW e \in Events, Insert(e) PROVE IInv'
    BY <1>1, InsertIInv
  <1>2. ASSUME NEW e \in Events, LeaseExpires(e) \/ DelayPasses(e) PROVE IInv'
    BY <1>2, TimeIInv
  <1>3. ASSUME NEW e \in Events, ReplayDeadLetter(e) PROVE IInv'
    BY <1>3, ReplayIInv
  <1>4. ASSUME NEW w \in Workers, Claim(w) \/ ClaimNothing(w) PROVE IInv'
    BY <1>4, ClaimIInv, ClaimNothingIInv
  <1>5. ASSUME NEW w \in Workers, Handle(w) PROVE IInv'
    BY <1>5, HandleIInv
  <1>6. ASSUME NEW w \in Workers, MarkDelivered(w) \/ MarkFailed(w) \/ SettleLost(w) PROVE IInv'
    BY <1>6, MarkDeliveredIInv, MarkFailedIInv, SettleLostIInv
  <1>7. ASSUME NEW w \in Workers, Crash(w) PROVE IInv'
    BY <1>7, CrashIInv
  <1>8. CASE UNCHANGED vars
    BY <1>8 DEF vars, rows, IInv, TypeOK, LeaseHeld, WorkerInv, EarlierInv, Earlier, Inserted,
                HandledInOrder, LogMatches
  <1>9. QED
    BY <1>1, <1>2, <1>3, <1>4, <1>5, <1>6, <1>7, <1>8 DEF Next, WorkerStep

(* The invariant holds in every reachable state. *)
LEMMA InvariantIInv == Spec => []IInv
  <1>1. QED
    BY InitIInv, NextIInv, PTL DEF Spec

-----------------------------------------------------------------------------
(* Rows and workers keep their types; in particular no row is claimed more *)
(* often than max_attempts between two replays.                            *)
THEOREM TypeCorrect == Spec => []TypeOK
  <1>1. IInv => TypeOK
    BY DEF IInv
  <1>2. QED
    BY <1>1, InvariantIInv, PTL

(* Exactly the processing rows carry a lease. *)
THEOREM LeaseExclusive == Spec => []LeaseHeld
  <1>1. IInv => LeaseHeld
    BY DEF IInv
  <1>2. QED
    BY <1>1, InvariantIInv, PTL

(* No worker ever handles an event before its earlier versions are delivered, *)
(* however many leases are lost.                                              *)
THEOREM VersionOrder == Spec => []HandledInOrder
  <1>1. IInv => HandledInOrder
    BY DEF IInv
  <1>2. QED
    BY <1>1, InvariantIInv, PTL

(* The delivery log lists exactly the delivered events. *)
THEOREM DeliveryLogged == Spec => []LogMatches
  <1>1. IInv => LogMatches
    BY DEF IInv
  <1>2. QED
    BY <1>1, InvariantIInv, PTL

(* Only the worker that holds the lease settles a row. *)
THEOREM HolderSettles == Spec => SettledByHolder
  <1> DEFINE Settled(e) == status[e] = "processing" /\ status'[e] \in {"processed", "dead_letter"}
             ByHolder(e) == \E w \in Workers : /\ token[e] = w /\ msg[w] = e
                                               /\ msg'[w] = NoEvent /\ token'[e] = NoWorker
  <1>1. ASSUME IInv, [Next]_vars PROVE \A e \in Events : Settled(e) => ByHolder(e)
    <2> SUFFICES ASSUME NEW e \in Events, Settled(e) PROVE ByHolder(e)
      OBVIOUS
    <2>1. ASSUME NEW w \in Workers, MarkDelivered(w) \/ MarkFailed(w) PROVE ByHolder(e)
      <3>1. msg[w] \in Events /\ status[msg[w]] = "processing" /\ token[msg[w]] = w
        BY <1>1, <2>1, Settling DEF MarkDelivered, MarkFailed, Holds
      <3>2. msg[w] = e
        BY <1>1, <2>1, <3>1 DEF IInv, TypeOK, MarkDelivered, MarkFailed
      <3>3. msg'[w] = NoEvent /\ token'[e] = NoWorker
        BY <1>1, <2>1, <3>2 DEF IInv, TypeOK, MarkDelivered, MarkFailed, Forget
      <3>4. QED
        BY <3>1, <3>2, <3>3
    <2>2. ASSUME NEW w \in Workers, Claim(w) \/ ClaimNothing(w) PROVE FALSE
      BY <1>1, <2>2, RecoveredRows DEF IInv, Claim, ClaimNothing
    <2>3. ASSUME NEW w \in Workers, Handle(w) \/ SettleLost(w) \/ Crash(w) PROVE FALSE
      BY <2>3 DEF Handle, SettleLost, Crash, rows
    <2>4. ASSUME NEW f \in Events, Insert(f) \/ ReplayDeadLetter(f) PROVE FALSE
      BY <1>1, <2>4 DEF IInv, TypeOK, Insert, ReplayDeadLetter
    <2>5. ASSUME NEW f \in Events, LeaseExpires(f) \/ DelayPasses(f) PROVE FALSE
      BY <2>5 DEF LeaseExpires, DelayPasses
    <2>6. CASE UNCHANGED vars
      BY <2>6 DEF vars, rows
    <2>7. QED
      BY <1>1, <2>1, <2>2, <2>3, <2>4, <2>5, <2>6 DEF Next, WorkerStep
  <1>2. IInv /\ [Next]_vars => [\A e \in Events : Settled(e) => ByHolder(e)]_vars
    BY <1>1
  <1>3. QED
    BY <1>2, InvariantIInv, PTL DEF Spec, SettledByHolder

-----------------------------------------------------------------------------
(* The outbox implements its promise. *)

(* The state an event is in for the producer, by the status of its row. *)
LEMMA DeliveryStateOf ==
  ASSUME TypeOK, NEW e \in Events
  PROVE  /\ DeliveryState[e] = "none" <=> status[e] = "absent"
         /\ DeliveryState[e] = "waiting" <=> status[e] \in {"pending", "processing", "retry"}
         /\ DeliveryState[e] = "delivered" <=> status[e] = "processed"
         /\ DeliveryState[e] = "dead" <=> status[e] = "dead_letter"
  BY DEF TypeOK, RowStatus, DeliveryState

(* A step that keeps every row in the same of these classes is a stutter. *)
LEMMA SameDelivery ==
  ASSUME TypeOK, TypeOK',
         \A e \in Events :
           /\ status'[e] = "absent" <=> status[e] = "absent"
           /\ status'[e] = "processed" <=> status[e] = "processed"
           /\ status'[e] = "dead_letter" <=> status[e] = "dead_letter"
  PROVE  DeliveryState' = DeliveryState
  BY DEF DeliveryState

(* A step that changes one row changes the state of one event. *)
LEMMA OneDelivery ==
  ASSUME TypeOK, NEW e \in Events, NEW s \in RowStatus,
         status' = [status EXCEPT ![e] = s]
  PROVE  DeliveryState' = [DeliveryState EXCEPT ![e] =
           CASE s = "absent" -> "none" [] s = "processed" -> "delivered"
             [] s = "dead_letter" -> "dead" [] OTHER -> "waiting"]
  BY DEF DeliveryState, TypeOK

(* A step of one row is the step of its event. *)
LEMMA DeliveryStep ==
  ASSUME IInv, IInv', [Next]_vars
  PROVE  [Delivery!Next]_DeliveryState
  <1> USE DEF Delivery!Earlier
  <1>1. ASSUME NEW e \in Events, Insert(e) PROVE Delivery!Submit(e)
    <2>1. DeliveryState' = [DeliveryState EXCEPT ![e] = "waiting"]
      BY <1>1, OneDelivery DEF IInv, Insert, RowStatus
    <2>2. DeliveryState[e] = "none"
      BY <1>1, DeliveryStateOf DEF IInv, Insert, Inserted
    <2>3. \A f \in Delivery!Earlier(e) : DeliveryState[f] # "none"
      BY <1>1, DeliveryStateOf DEF IInv, Insert, Inserted
    <2>4. QED
      BY <2>1, <2>2, <2>3 DEF Delivery!Submit
  <1>2. ASSUME NEW w \in Workers, MarkDelivered(w)
        PROVE  \E e \in Events : Delivery!Deliver(e)
    <2> DEFINE e == msg[w]
    <2>1. e \in Events /\ status[e] = "processing"
      BY <1>2, Settling DEF MarkDelivered
    <2>2. DeliveryState' = [DeliveryState EXCEPT ![e] = "delivered"]
      BY <1>2, <2>1, OneDelivery DEF IInv, MarkDelivered, RowStatus
    <2>3. DeliveryState[e] = "waiting"
      BY <2>1, DeliveryStateOf DEF IInv
    <2>4. \A f \in Delivery!Earlier(e) : DeliveryState[f] = "delivered"
      BY <2>1, DeliveryStateOf DEF IInv, EarlierInv, Earlier
    <2>5. QED
      BY <2>1, <2>2, <2>3, <2>4 DEF Delivery!Deliver
  <1>3. ASSUME NEW w \in Workers, MarkFailed(w)
        PROVE  (\E e \in Events : Delivery!GiveUp(e)) \/ DeliveryState' = DeliveryState
    <2> DEFINE e == msg[w]
    <2>1. e \in Events /\ status[e] = "processing"
      BY <1>3, Settling DEF MarkFailed
    <2>2. CASE RetryAllowed(w)
      BY <1>3, <2>1, <2>2, SameDelivery DEF IInv, TypeOK, MarkFailed
    <2>3. CASE ~ RetryAllowed(w)
      <3>1. DeliveryState' = [DeliveryState EXCEPT ![e] = "dead"]
        BY <1>3, <2>1, <2>3, OneDelivery DEF IInv, MarkFailed, RowStatus
      <3>2. DeliveryState[e] = "waiting"
        BY <2>1, DeliveryStateOf DEF IInv
      <3>3. \A f \in Delivery!Earlier(e) : DeliveryState[f] = "delivered"
        BY <2>1, DeliveryStateOf DEF IInv, EarlierInv, Earlier
      <3>4. QED
        BY <2>1, <3>1, <3>2, <3>3 DEF Delivery!GiveUp
    <2>4. QED
      BY <2>2, <2>3
  <1>4. ASSUME NEW e \in Events, ReplayDeadLetter(e) PROVE Delivery!Replay(e)
    <2>1. DeliveryState' = [DeliveryState EXCEPT ![e] = "waiting"]
      BY <1>4, OneDelivery DEF IInv, ReplayDeadLetter, RowStatus
    <2>2. DeliveryState[e] = "dead"
      BY <1>4, DeliveryStateOf DEF IInv, ReplayDeadLetter
    <2>3. QED
      BY <2>1, <2>2 DEF Delivery!Replay
  <1>5. ASSUME NEW w \in Workers, Claim(w) PROVE DeliveryState' = DeliveryState
    <2>1. PICK e \in Events : Eligible(e) /\ status' = [Recovered EXCEPT ![e] = "processing"]
      BY <1>5 DEF Claim, FirstClaimable
    <2>2. Recovered[e] \in {"pending", "retry"}
      BY <2>1 DEF Eligible, Claimable
    <2>3. QED
      BY <2>1, <2>2, RecoveredRows, SameDelivery DEF IInv
  <1>6. ASSUME NEW w \in Workers, ClaimNothing(w) PROVE DeliveryState' = DeliveryState
    BY <1>6, RecoveredRows, SameDelivery DEF IInv, ClaimNothing
  <1>7. ASSUME NEW w \in Workers, Handle(w) \/ SettleLost(w) \/ Crash(w)
        PROVE  DeliveryState' = DeliveryState
    BY <1>7 DEF Handle, SettleLost, Crash, rows, DeliveryState
  <1>8. ASSUME NEW e \in Events, LeaseExpires(e) \/ DelayPasses(e)
        PROVE  DeliveryState' = DeliveryState
    BY <1>8 DEF LeaseExpires, DelayPasses, DeliveryState
  <1>9. CASE UNCHANGED vars
    BY <1>9 DEF vars, rows, DeliveryState
  <1>10. QED
    BY <1>1, <1>2, <1>3, <1>4, <1>5, <1>6, <1>7, <1>8, <1>9 DEF Next, WorkerStep, Delivery!Next

(* Leases, attempts, crashes and slow workers never show through: the       *)
(* producer sees ordered delivery, once and for good, with dead letters the *)
(* only other outcome.                                                      *)
THEOREM OrderedDeliveryImplemented == Spec => ImplementsDelivery
  <1>1. Init => Delivery!Init
    BY DEF Init, Delivery!Init, DeliveryState
  <1>2. IInv /\ IInv' /\ [Next]_vars => [Delivery!Next]_DeliveryState
    BY DeliveryStep
  <1>3. QED
    BY <1>1, <1>2, InvariantIInv, PTL DEF Spec, ImplementsDelivery, Delivery!Spec

-----------------------------------------------------------------------------
(* No stream keeps the workers from another.                               *)

(* A pending row was never claimed since it was inserted or replayed. *)
FreshInv ==
  \A e \in Events : /\ status[e] = "absent" => attempts[e] = 0
                    /\ status[e] = "pending" => due[e] /\ attempts[e] = 0

LEMMA FreshStep ==
  ASSUME IInv, FreshInv, [Next]_vars PROVE FreshInv'
  <1>1. ASSUME NEW e \in Events, Insert(e) PROVE FreshInv'
    BY <1>1 DEF IInv, TypeOK, FreshInv, Insert, Inserted
  <1>2. ASSUME NEW e \in Events, LeaseExpires(e) \/ DelayPasses(e) \/ ReplayDeadLetter(e)
        PROVE  FreshInv'
    BY <1>2 DEF IInv, TypeOK, FreshInv, LeaseExpires, DelayPasses, ReplayDeadLetter
  <1>3. ASSUME NEW w \in Workers, Claim(w) PROVE FreshInv'
    <2>1. PICK e \in Events : /\ Eligible(e)
                             /\ status' = [Recovered EXCEPT ![e] = "processing"]
                             /\ attempts' = [attempts EXCEPT ![e] = @ + 1]
      BY <1>3 DEF Claim, FirstClaimable
    <2>2. due' = DueAfter
      BY <1>3 DEF Claim
    <2>3. \A f \in Events : status'[f] \in {"absent", "pending"} =>
            status[f] = status'[f] /\ attempts'[f] = attempts[f] /\ (due[f] => due'[f])
      BY <2>1, <2>2, RecoveredRows DEF IInv, TypeOK, DueAfter
    <2>4. QED
      BY <2>3 DEF FreshInv
  <1>4. ASSUME NEW w \in Workers, ClaimNothing(w) PROVE FreshInv'
    <2>1. \A f \in Events : status'[f] \in {"absent", "pending"} =>
            status[f] = status'[f] /\ attempts'[f] = attempts[f] /\ (due[f] => due'[f])
      BY <1>4, RecoveredRows DEF IInv, TypeOK, DueAfter, ClaimNothing
    <2>2. QED
      BY <2>1 DEF FreshInv
  <1>5. ASSUME NEW w \in Workers, MarkDelivered(w) \/ MarkFailed(w) PROVE FreshInv'
    <2>1. msg[w] \in Events
      BY <1>5 DEF IInv, WorkerInv, TypeOK, MarkDelivered, MarkFailed
    <2>2. \A f \in Events : status'[f] \in {"absent", "pending"} =>
            status[f] = status'[f] /\ attempts'[f] = attempts[f] /\ due'[f] = due[f]
      BY <1>5, <2>1 DEF IInv, TypeOK, MarkDelivered, MarkFailed
    <2>3. QED
      BY <2>2 DEF FreshInv
  <1>6. CASE \/ UNCHANGED vars
             \/ \E w \in Workers : Handle(w) \/ SettleLost(w) \/ Crash(w)
    BY <1>6 DEF vars, rows, FreshInv, Handle, SettleLost, Crash
  <1>7. QED
    BY <1>1, <1>2, <1>3, <1>4, <1>5, <1>6 DEF Next, WorkerStep

Less == {s \in Nat \X Nat : s[1] < s[2]}

LEMMA LeastNatural ==
  ASSUME NEW T \in SUBSET Nat, T # {}
  PROVE  \E n \in T : \A m \in T : n <= m
  <1>1. OpToRel(<, Nat) = Less
    BY DEF OpToRel, Less
  <1>2. IsWellFoundedOn(Less, Nat)
    BY <1>1, NatLessThanWellFounded, Zenon
  <1>3. PICK n \in T : \A m \in T : ~ (<<m, n>> \in Less)
    BY <1>2, WFMin
  <1>4. \A m \in T : m < n => <<m, n>> \in Less
    BY DEF Less
  <1>5. \A m \in T : m \in Nat /\ n \in Nat /\ ~ (m < n)
    BY <1>3, <1>4
  <1>6. QED
    BY <1>5

(* Among some events one has the least number. *)
LEMMA LeastEvent ==
  ASSUME NEW f \in [Events -> Nat], NEW S \in SUBSET Events, S # {}
  PROVE  \E e \in S : \A g \in S : f[e] <= f[g]
  <1> DEFINE T == {f[e] : e \in S}
  <1>1. T \in SUBSET Nat /\ T # {}
    OBVIOUS
  <1>2. PICK n \in T : \A m \in T : n <= m
    BY <1>1, LeastNatural
  <1>3. QED
    BY <1>2

(* A stream with an undelivered event has a head: of the events with the least *)
(* version the first inserted one.                                            *)
LEMMA HeadExists ==
  ASSUME TypeOK, NEW e \in Events, Undelivered(e)
  PROVE  \E h \in Events : Stream[h] = Stream[e] /\ StreamHead(h)
  <1> DEFINE S == {f \in Events : Undelivered(f) /\ Stream[f] = Stream[e]}
  <1>1. PICK f \in S : \A g \in S : Version[f] <= Version[g]
    BY LeastEvent
  <1> DEFINE T == {g \in S : Version[g] = Version[f]}
  <1>2. PICK h \in T : \A g \in T : created[h] <= created[g]
    BY LeastEvent DEF TypeOK
  <1>3. \A g \in S : Before(h, g)
    BY <1>1, <1>2 DEF Before
  <1>4. QED
    BY <1>2, <1>3 DEF StreamHead

LEMMA NothingOverlooked ==
  ASSUME IInv, FreshInv PROVE NoStreamBlocksAnother
  <1> SUFFICES ASSUME NEW e \in Events, Undelivered(e)
               PROVE  \E h \in Events :
                        /\ Stream[h] = Stream[e] /\ StreamHead(h)
                        /\ \/ Held(h) \/ Delayed(h) \/ UsedUp(h) \/ Recovered[h] = "dead_letter"
                           \/ Eligible(h) /\ \E f \in Events : FirstClaimable(f)
    BY DEF NoStreamBlocksAnother
  <1>1. PICK h \in Events : Stream[h] = Stream[e] /\ StreamHead(h)
    BY HeadExists DEF IInv
  <1>2. Recovered[h] \in {"pending", "retry", "processing", "dead_letter"}
    BY <1>1, RecoveredRows DEF IInv, StreamHead, Undelivered, RowStatus
  <1>3. CASE Claimable(h)
    <2> DEFINE S == {f \in Events : Eligible(f)}
    <2>1. h \in S
      BY <1>1, <1>3 DEF Eligible
    <2>2. PICK f \in S : \A g \in S : created[f] <= created[g]
      BY <2>1, LeastEvent DEF IInv, TypeOK
    <2>3. FirstClaimable(f)
      BY <2>2 DEF FirstClaimable
    <2>4. QED
      BY <1>1, <2>1, <2>3
  <1>4. CASE ~ Claimable(h)
    <2>1. CASE Recovered[h] = "pending"
      <3>1. status[h] = "pending"
        BY <2>1, RecoveredRows DEF IInv
      <3>2. due[h] /\ attempts[h] = 0
        BY <3>1 DEF FreshInv
      <3>3. DueAfter[h]
        BY <3>2 DEF DueAfter
      <3>4. attempts[h] < MaxAttempts
        BY <3>2
      <3>5. QED
        BY <1>4, <2>1, <3>3, <3>4 DEF Claimable
    <2>2. CASE Recovered[h] = "retry"
      <3>1. attempts[h] < MaxAttempts \/ attempts[h] = MaxAttempts
        BY DEF IInv, TypeOK
      <3>2. Delayed(h) \/ UsedUp(h)
        BY <1>4, <2>2, <3>1 DEF Claimable, Delayed, UsedUp
      <3>3. QED
        BY <1>1, <3>2
    <2>3. CASE Recovered[h] \in {"processing", "dead_letter"}
      BY <1>1, <2>3 DEF Held
    <2>4. QED
      BY <1>2, <2>1, <2>2, <2>3
  <1>5. QED
    BY <1>3, <1>4

(* Whatever became of the other streams, an undelivered event's stream has a *)
(* head, and unless that head is held, delayed or waits for an operator an   *)
(* idle worker finds a row to claim.                                         *)
THEOREM NoStreamOverlooked == Spec => []NoStreamBlocksAnother
  <1>1. Init => FreshInv
    BY DEF Init, FreshInv
  <1>2. IInv /\ FreshInv /\ [Next]_vars => FreshInv'
    BY FreshStep
  <1>3. IInv /\ FreshInv => NoStreamBlocksAnother
    BY NothingOverlooked
  <1>4. QED
    BY <1>1, <1>2, <1>3, InvariantIInv, PTL DEF Spec

-----------------------------------------------------------------------------
(* The dispatchers and their handlers. *)
HIDE OutboxAssumption
USE DeploymentAssumption

LEMMA DeploymentFacts ==
  ASSUME DeploymentOK
  PROVE  /\ dispatchers \subseteq Workers
         /\ transport \in {"jsonl", "http"}
         /\ maxDiskErrors \in Nat
         /\ IsFiniteSet(dispatchers)
  BY DEF DeploymentOK, Deployed

LEMMA DeploymentStays ==
  ASSUME UNCHANGED deployment
  PROVE  /\ transport' = transport /\ dispatchers' = dispatchers /\ maxDiskErrors' = maxDiskErrors
         /\ DeploymentOK => DeploymentOK'
  BY DEF deployment, DeploymentOK, Deployed

(* Every step of the dispatchers is a step of the outbox or leaves it alone. *)
LEMMA StepOfOutbox ==
  ASSUME DeploymentOK, DeliveryNext
  PROVE  [Next]_vars
  <1>0. dispatchers \subseteq Workers
    BY DeploymentFacts
  <1>1. ASSUME OutboxStep PROVE Next
    BY <1>0, <1>1 DEF OutboxStep, Next, WorkerStep
  <1>2. ASSUME NEW w \in Workers, HandlerStep(w) PROVE Handle(w) \/ UNCHANGED vars
    <2>1. ASSUME NEW s, GoTo(w, s) PROVE UNCHANGED vars
      BY <2>1 DEF GoTo
    <2>2. ASSUME NEW r \in {"ok", "retryable", "final"}, Return(w, r), pc[w] = "handling"
          PROVE  Handle(w)
      BY <2>2 DEF Return, Handle
    <2>3. CASE Check(w)
      BY <2>1, <2>2, <2>3 DEF Check, In
    <2>4. CASE AppendLine(w) \/ AppendFails(w)
      BY <2>2, <2>4 DEF AppendLine, AppendFails, In
    <2>5. CASE PostAccepted(w)
      BY <2>1, <2>2, <2>5 DEF PostAccepted, In
    <2>6. CASE PostRefused(w)
      BY <2>2, <2>6 DEF PostRefused, NotAccepted, In
    <2>7. CASE FindReceipt(w)
      BY <2>1, <2>2, <2>7 DEF FindReceipt, In
    <2>8. CASE InsertReceipt(w)
      BY <2>2, <2>8 DEF InsertReceipt, In
    <2>9. QED
      BY <1>2, <2>3, <2>4, <2>5, <2>6, <2>7, <2>8 DEF HandlerStep
  <1>3. ASSUME NEW w \in Workers, CrashHandler(w) PROVE Next
    BY <1>3 DEF CrashHandler, Next
  <1>4. QED
    BY <1>0, <1>1, <1>2, <1>3 DEF DeliveryNext, Next, WorkerStep

(* The dispatcher with either handler behaves as the outbox allows: all *)
(* theorems about ProjectOutbox hold of it.                             *)
LEMMA DispatcherIsOutbox == DeliverySpec => Spec
  <1>1. DeliveryInit => Init
    BY DEF DeliveryInit
  <1>2. DeliveryInit => DeploymentOK
    BY DEF DeliveryInit
  <1>3. DeploymentOK /\ [DeliveryNext]_deliveryVars => DeploymentOK'
    BY DeploymentStays DEF DeliveryNext, deliveryVars
  <1>4. DeploymentOK /\ [DeliveryNext]_deliveryVars => [Next]_vars
    BY StepOfOutbox DEF deliveryVars
  <1>5. QED
    BY <1>1, <1>2, <1>3, <1>4, PTL DEF DeliverySpec, Spec

-----------------------------------------------------------------------------
HandlerTypeOK ==
  /\ DeploymentOK
  /\ inbox \in Seq(Events)
  /\ tail \in {"line", "bare", "part"}
  /\ joined \subseteq Events
  /\ receipts \subseteq Events
  /\ stage \in [Workers -> {"check", "send", "record", "insert"}]
  /\ diskErrors \in 0..maxDiskErrors

(* gen_data has the event, or had it in full on a line that is spoilt. *)
Reached(e) == InInbox(e) \/ e \in joined

(* A worker whose handler returned, or that is about to record a receipt, has *)
(* an event that reached gen_data.                                            *)
CarriedInv ==
  \A w \in Workers :
    pc[w] = "ok" \/ stage[w] \in {"record", "insert"} => msg[w] \in Events /\ Reached(msg[w])

(* A handler that is under way belongs to a worker that handles an event. *)
StageInv ==
  /\ \A w \in Workers : stage[w] # "check" => pc[w] = "handling"
  /\ transport = "jsonl" => \A w \in Workers : stage[w] \in {"check", "send"}
  /\ \A w \in Workers \ dispatchers : stage[w] = "check"

(* Lines are spoilt only after a write failed.  Once one is, nobody passes    *)
(* the check any more: what is spoilt, what the next write will spoil and     *)
(* what the dispatchers past the check may still add stay under one bound.    *)
Senders == {w \in dispatchers : stage[w] = "send"}
Bare    == IF tail = "bare" THEN 1 ELSE 0

FileInv ==
  /\ transport = "http" \/ diskErrors = 0 => tail = "line" /\ joined = {}
  /\ tail = "bare" => inbox # <<>>
  /\ Cardinality(joined) + Bare + Cardinality(Senders) <= Cardinality(dispatchers) + 1

DInv ==
  /\ HandlerTypeOK
  /\ StageInv
  /\ CarriedInv
  /\ FileInv
  /\ \A e \in Events : status[e] = "processed" => Reached(e)
  /\ \A e \in receipts : Reached(e)

(* One more event in the inbox. *)
LEMMA OneMore ==
  ASSUME HandlerTypeOK, NEW e \in Events, inbox' = Append(inbox, e)
  PROVE  /\ inbox' \in Seq(Events) /\ inbox' # <<>>
         /\ \A f : InInbox(f)' <=> InInbox(f) \/ f = e
  <1>1. Len(inbox) \in Nat /\ inbox \in Seq(Events)
    BY DEF HandlerTypeOK
  <1>2. /\ inbox' \in Seq(Events) /\ Len(inbox') = Len(inbox) + 1
        /\ inbox'[Len(inbox) + 1] = e
        /\ \A i \in 1..Len(inbox) : inbox'[i] = inbox[i]
    BY <1>1
  <1>3. ASSUME NEW f, InInbox(f)' PROVE InInbox(f) \/ f = e
    <2>1. PICK i \in 1..(Len(inbox) + 1) : inbox'[i] = f
      BY <1>2, <1>3 DEF InInbox
    <2>2. CASE i = Len(inbox) + 1
      BY <1>2, <2>1, <2>2
    <2>3. CASE i # Len(inbox) + 1
      <3>1. i \in 1..Len(inbox)
        BY <1>1, <2>3
      <3>2. QED
        BY <1>2, <2>1, <3>1 DEF InInbox
    <2>4. QED
      BY <2>2, <2>3
  <1>4. ASSUME NEW f, InInbox(f) PROVE InInbox(f)'
    <2>1. PICK i \in 1..Len(inbox) : inbox[i] = f
      BY <1>4 DEF InInbox
    <2>2. i \in 1..Len(inbox') /\ inbox'[i] = f
      BY <1>1, <1>2, <2>1
    <2>3. QED
      BY <2>2 DEF InInbox
  <1>5. InInbox(e)'
    <2>1. Len(inbox) + 1 \in 1..Len(inbox')
      BY <1>1, <1>2
    <2>2. QED
      BY <1>2, <2>1 DEF InInbox
  <1>6. inbox' # <<>>
    BY <1>1, <1>2, EmptySeq
  <1>7. QED
    BY <1>2, <1>3, <1>4, <1>5, <1>6

(* The inbox without its last event. *)
Shorter == SubSeq(inbox, 1, Len(inbox) - 1)

LEMMA OneLess ==
  ASSUME HandlerTypeOK, inbox # <<>>
  PROVE  /\ Len(inbox) \in Nat \ {0} /\ inbox[Len(inbox)] \in Events
         /\ Shorter \in Seq(Events) /\ Len(Shorter) = Len(inbox) - 1
         /\ \A i \in 1..Len(Shorter) : Shorter[i] = inbox[i]
  <1>1. inbox \in Seq(Events) /\ Len(inbox) \in Nat \ {0}
    BY EmptySeq DEF HandlerTypeOK
  <1>2. \A i \in 1..Len(inbox) : inbox[i] \in Events
    BY <1>1, LenProperties
  <1>3. \A i \in 1..(Len(inbox) - 1) : inbox[i] \in Events
    BY <1>1, <1>2
  <1>4. /\ Shorter \in Seq(Events)
        /\ Len(Shorter) = IF 1 <= Len(inbox) - 1 THEN Len(inbox) - 1 - 1 + 1 ELSE 0
        /\ \A i \in 1..(Len(inbox) - 1 - 1 + 1) : Shorter[i] = inbox[1 + i - 1]
    BY <1>1, <1>3, SubSeqProperties DEF Shorter
  <1>5. Len(Shorter) = Len(inbox) - 1
    <2> DEFINE n == Len(inbox)
    <2>1. n \in Nat \ {0} /\ Len(Shorter) = IF 1 <= n - 1 THEN n - 1 - 1 + 1 ELSE 0
      BY <1>1, <1>4
    <2> HIDE DEF n
    <2>2. Len(Shorter) = n - 1
      BY <2>1
    <2>3. QED
      BY <2>2 DEF n
  <1>6. \A i \in 1..Len(Shorter) : Shorter[i] = inbox[i]
    <2> SUFFICES ASSUME NEW i \in 1..(Len(inbox) - 1) PROVE Shorter[i] = inbox[i]
      BY <1>5
    <2>1. i \in 1..(Len(inbox) - 1 - 1 + 1) /\ 1 + i - 1 = i
      BY <1>1
    <2>2. QED
      BY <1>4, <2>1
  <1>7. Len(inbox) \in 1..Len(inbox)
    BY <1>1
  <1>8. QED
    <2>1. inbox[Len(inbox)] \in Events
      BY <1>2, <1>7
    <2>2. Shorter \in Seq(Events)
      BY <1>4
    <2>3. QED
      BY <1>1, <1>5, <1>6, <2>1, <2>2

(* A write adds its event, or spoils the last line and itself, or does       *)
(* nothing to what could be read; no event that is in the file leaves it.    *)
LEMMA WriteEffect ==
  ASSUME HandlerTypeOK, tail = "bare" => inbox # <<>>,
         NEW e \in Events, NEW x \in Extents, Write(e, x)
  PROVE  /\ inbox' \in Seq(Events)
         /\ tail' \in {"line", "bare", "part"}
         /\ joined' \subseteq Events
         /\ tail' = "bare" => inbox' # <<>>
         /\ \/ inbox' = inbox
            \/ tail = "line" /\ inbox' = Append(inbox, e)
            \/ tail = "bare" /\ inbox' = Shorter
         /\ \A f \in Events : Reached(f) => Reached(f)'
         /\ x = "line" => Reached(e)'
  <1> USE DEF HandlerTypeOK, Extents
  <1>1. CASE x = "nothing"
    BY <1>1 DEF Write, fileVars, Reached, InInbox
  <1>2. CASE x # "nothing" /\ tail = "line"
    <2>1. CASE x = "part"
      BY <1>2, <2>1 DEF Write, Reached, InInbox
    <2>2. CASE x # "part"
      <3>1. inbox' = Append(inbox, e) /\ tail' = x /\ joined' = joined
        BY <1>2, <2>2 DEF Write
      <3>2. QED
        BY <1>2, <3>1, OneMore DEF Reached
    <2>3. QED
      BY <2>1, <2>2
  <1>3. CASE x # "nothing" /\ tail = "part"
    <2>1. inbox' = inbox /\ tail' \in {"line", "part"}
      BY <1>3 DEF Write
    <2>2. /\ joined' \subseteq Events /\ joined \subseteq joined'
          /\ x = "line" => e \in joined'
      BY <1>3 DEF Write
    <2>3. QED
      BY <1>3, <2>1, <2>2 DEF Reached, InInbox
  <1>4. CASE x # "nothing" /\ tail = "bare"
    <2>1. inbox' = Shorter /\ tail' \in {"line", "part"}
      BY <1>4 DEF Write, Shorter
    <2>2. /\ joined' \subseteq Events /\ joined \subseteq joined'
          /\ inbox[Len(inbox)] \in joined'
          /\ x = "line" => e \in joined'
      BY <1>4, OneLess DEF Write
    <2>3. ASSUME NEW f \in Events, InInbox(f) PROVE Reached(f)'
      <3>1. PICK i \in 1..Len(inbox) : inbox[i] = f
        BY <2>3 DEF InInbox
      <3>2. CASE i = Len(inbox)
        BY <2>2, <3>1, <3>2 DEF Reached
      <3>3. CASE i # Len(inbox)
        <4>1. i \in 1..Len(inbox') /\ inbox'[i] = f
          BY <1>4, <2>1, <3>1, <3>3, OneLess
        <4>2. QED
          BY <4>1 DEF Reached, InInbox
      <3>4. QED
        BY <3>2, <3>3
    <2>4. QED
      BY <1>4, <2>1, <2>2, <2>3, OneLess DEF Reached
  <1>5. QED
    BY <1>1, <1>2, <1>3, <1>4

(* One more element adds at most one to a set's size. *)
LEMMA OneElementMore ==
  ASSUME NEW S, NEW a, IsFiniteSet(S)
  PROVE  /\ IsFiniteSet(S \cup {a}) /\ Cardinality(S \cup {a}) \in Nat
         /\ Cardinality(S \cup {a}) <= Cardinality(S) + 1
  <1>1. Cardinality(S) \in Nat
    BY FS_CardinalityType
  <1>2. /\ IsFiniteSet(S \cup {a})
        /\ Cardinality(S \cup {a}) = IF a \in S THEN Cardinality(S) ELSE Cardinality(S) + 1
    BY FS_AddElement
  <1>3. QED
    BY <1>1, <1>2

(* It spoils at most its own event and the one that waited for a newline. *)
LEMMA WriteCount ==
  ASSUME HandlerTypeOK, tail = "bare" => inbox # <<>>,
         NEW e \in Events, NEW x \in Extents, Write(e, x)
  PROVE  /\ Cardinality(joined) \in Nat /\ Cardinality(joined') \in Nat
         /\ Cardinality(joined') + Bare' <= Cardinality(joined) + Bare + 1
  <1> USE DEF HandlerTypeOK, Extents
  <1>1. IsFiniteSet(joined) /\ Cardinality(joined) \in Nat
    BY OutboxAssumption, FS_Subset, FS_CardinalityType
  <1>2. CASE joined' = joined
    <2>1. Bare' \in {0, 1} /\ Bare \in {0, 1}
      BY DEF Bare
    <2>2. QED
      BY <1>1, <1>2, <2>1
  <1>3. CASE joined' # joined
    <2>1. x # "nothing" /\ tail \in {"bare", "part"} /\ tail' # "bare"
      BY <1>3 DEF Write, fileVars
    <2>2. /\ IsFiniteSet(joined \cup {e})
          /\ Cardinality(joined \cup {e}) \in Nat
          /\ Cardinality(joined \cup {e}) <= Cardinality(joined) + 1
      BY <1>1, OneElementMore
    <2>3. CASE tail = "part"
      <3>1. joined' \subseteq joined \cup {e}
        BY <2>1, <2>3 DEF Write
      <3>2. Cardinality(joined') \in Nat /\ Cardinality(joined') <= Cardinality(joined \cup {e})
        BY <2>2, <3>1, FS_Subset, FS_CardinalityType
      <3>3. QED
        BY <1>1, <2>1, <2>2, <2>3, <3>2 DEF Bare
    <2>4. CASE tail = "bare"
      <3> DEFINE T == (joined \cup {e}) \cup {inbox[Len(inbox)]}
      <3>1. joined' \subseteq T
        BY <2>1, <2>4 DEF Write
      <3>2. IsFiniteSet(T) /\ Cardinality(T) \in Nat /\ Cardinality(T) <= Cardinality(joined \cup {e}) + 1
        BY <2>2, OneElementMore
      <3> HIDE DEF T
      <3>3. Cardinality(joined') \in Nat /\ Cardinality(joined') <= Cardinality(T)
        BY <3>1, <3>2, FS_Subset, FS_CardinalityType
      <3>4. QED
        BY <1>1, <2>1, <2>2, <2>4, <3>2, <3>3 DEF Bare
    <2>5. QED
      BY <2>1, <2>3, <2>4
  <1>4. QED
    BY <1>2, <1>3

LEMMA FiniteSenders ==
  ASSUME HandlerTypeOK
  PROVE  /\ IsFiniteSet(dispatchers) /\ Cardinality(dispatchers) \in Nat
         /\ IsFiniteSet(Senders) /\ Cardinality(Senders) \in Nat
         /\ Cardinality(Senders) <= Cardinality(dispatchers)
         /\ IsFiniteSet(joined) /\ Cardinality(joined) \in Nat
  <1>1. IsFiniteSet(dispatchers) /\ Senders \subseteq dispatchers
    BY DeploymentFacts DEF HandlerTypeOK, Senders
  <1>2. IsFiniteSet(joined)
    BY OutboxAssumption, FS_Subset DEF HandlerTypeOK
  <1>3. QED
    BY <1>1, <1>2, FS_Subset, FS_CardinalityType

(* Where the file is left alone, fewer senders keep the bound. *)
LEMMA SameFile ==
  ASSUME HandlerTypeOK, FileInv, UNCHANGED <<fileVars, deployment>>, diskErrors' >= diskErrors,
         diskErrors \in Nat, diskErrors' \in Nat,
         Senders' \subseteq Senders
  PROVE  FileInv'
  <1>1. IsFiniteSet(Senders') /\ Cardinality(Senders') <= Cardinality(Senders)
    BY FiniteSenders, FS_Subset
  <1>2. Cardinality(Senders') \in Nat
    BY <1>1, FS_CardinalityType
  <1>3. /\ transport' = transport /\ dispatchers' = dispatchers
        /\ inbox' = inbox /\ tail' = tail /\ joined' = joined /\ Bare' = Bare /\ Bare \in {0, 1}
    BY DEF fileVars, deployment, Bare
  <1>4. Cardinality(joined') + Bare' + Cardinality(Senders') <= Cardinality(dispatchers') + 1
    BY <1>1, <1>2, <1>3, FiniteSenders DEF FileInv
  <1>5. diskErrors' = 0 => diskErrors = 0
    OBVIOUS
  <1>6. QED
    BY <1>3, <1>4, <1>5 DEF FileInv

-----------------------------------------------------------------------------
(* The empty inbox satisfies the invariant. *)
LEMMA InitDInv == DeliveryInit => DInv
  <1> SUFFICES ASSUME DeliveryInit PROVE DInv
    OBVIOUS
  <1>1. HandlerTypeOK
    BY DeploymentFacts DEF DeliveryInit, HandlerTypeOK
  <1>2. StageInv /\ CarriedInv
    BY DEF DeliveryInit, Init, StageInv, CarriedInv
  <1>3. FileInv
    <2>1. Cardinality(joined) = 0 /\ Bare = 0 /\ tail = "line" /\ joined = {}
      BY FS_EmptySet DEF DeliveryInit, Bare
    <2>2. QED
      BY <1>1, <2>1, FiniteSenders DEF FileInv
  <1>4. \A e \in Events : status[e] # "processed"
    BY DEF DeliveryInit, Init
  <1>5. QED
    BY <1>1, <1>2, <1>3, <1>4 DEF DInv, DeliveryInit

(* The outbox's own steps: a row becomes processed only by a worker whose *)
(* handler returned.                                                      *)
LEMMA OutboxDInv ==
  ASSUME IInv, DInv, OutboxStep, UNCHANGED <<handlerVars, deployment>>
  PROVE  DInv'
  <1>1. \A e : Reached(e)' <=> Reached(e)
    BY DEF handlerVars, fileVars, Reached, InInbox
  <1>2. HandlerTypeOK' /\ \A e \in receipts' : Reached(e)'
    BY <1>1, DeploymentStays DEF DInv, HandlerTypeOK, handlerVars, fileVars
  <1>3. FileInv'
    <2>1. UNCHANGED <<fileVars, deployment>> /\ diskErrors' = diskErrors /\ stage' = stage
      BY DEF handlerVars
    <2>2. Senders' = Senders
      BY <2>1 DEF Senders, deployment
    <2>3. diskErrors \in Nat
      BY DeploymentFacts DEF DInv, HandlerTypeOK
    <2>4. QED
      BY <2>1, <2>2, <2>3, SameFile DEF DInv
  <1>a. CASE \E e \in Events : Insert(e) \/ LeaseExpires(e) \/ DelayPasses(e) \/ ReplayDeadLetter(e)
    <2>1. pc' = pc /\ msg' = msg
      BY <1>a DEF Insert, LeaseExpires, DelayPasses, ReplayDeadLetter
    <2>2. StageInv' /\ CarriedInv'
      BY <2>1, <1>1, DeploymentStays DEF DInv, StageInv, CarriedInv, handlerVars
    <2>3. \A e \in Events : status'[e] = "processed" => status[e] = "processed"
      BY <1>a DEF IInv, TypeOK, Insert, LeaseExpires, DelayPasses, ReplayDeadLetter
    <2>4. QED
      BY <1>1, <1>2, <1>3, <2>2, <2>3 DEF DInv
  <1>d. dispatchers \subseteq Workers
    BY DeploymentFacts DEF DInv, HandlerTypeOK
  <1>b. CASE \E w \in dispatchers : Claim(w) \/ ClaimNothing(w)
    <2>1. PICK w \in dispatchers : w \in Workers /\ (Claim(w) \/ ClaimNothing(w))
      BY <1>b, <1>d
    <2>2. pc[w] = "idle" /\ stage[w] = "check"
      BY <2>1 DEF DInv, HandlerTypeOK, StageInv, Claim, ClaimNothing
    <2>3. \A v \in Workers : v # w => pc'[v] = pc[v] /\ msg'[v] = msg[v]
      BY <2>1 DEF IInv, TypeOK, Claim, ClaimNothing
    <2>4. pc'[w] \in {"idle", "handling"}
      BY <2>1, <2>2 DEF IInv, TypeOK, Claim, ClaimNothing
    <2>5. StageInv'
      BY <2>2, <2>3, DeploymentStays DEF DInv, StageInv, handlerVars
    <2>6. CarriedInv'
      BY <1>1, <2>2, <2>3, <2>4 DEF DInv, CarriedInv, handlerVars
    <2>7. \A e \in Events : status'[e] = "processed" => status[e] = "processed"
      BY <2>1, RecoveredRows DEF IInv, Claim, ClaimNothing
    <2>8. QED
      BY <1>1, <1>2, <1>3, <2>5, <2>6, <2>7 DEF DInv
  <1>c. CASE \E w \in dispatchers : MarkDelivered(w) \/ MarkFailed(w) \/ SettleLost(w)
    <2>1. PICK w \in dispatchers : w \in Workers /\ (MarkDelivered(w) \/ MarkFailed(w) \/ SettleLost(w))
      BY <1>c, <1>d
    <2>2. stage[w] = "check"
      BY <2>1 DEF DInv, HandlerTypeOK, StageInv, MarkDelivered, MarkFailed, SettleLost
    <2>3. \A v \in Workers : v # w => pc'[v] = pc[v] /\ msg'[v] = msg[v]
      BY <2>1 DEF IInv, TypeOK, MarkDelivered, MarkFailed, SettleLost, Forget
    <2>4. pc'[w] = "idle"
      BY <2>1 DEF IInv, TypeOK, MarkDelivered, MarkFailed, SettleLost, Forget
    <2>5. StageInv'
      BY <2>2, <2>3, DeploymentStays DEF DInv, StageInv, handlerVars
    <2>6. CarriedInv'
      BY <1>1, <2>2, <2>3, <2>4 DEF DInv, CarriedInv, handlerVars
    <2>7. \A e \in Events : status'[e] = "processed" => Reached(e)
      <3>1. CASE MarkDelivered(w)
        BY <2>1, <3>1 DEF IInv, TypeOK, MarkDelivered, DInv, CarriedInv
      <3>2. CASE MarkFailed(w)
        BY <3>2 DEF IInv, TypeOK, MarkFailed, DInv
      <3>3. CASE SettleLost(w)
        BY <3>3 DEF SettleLost, DInv
      <3>4. QED
        BY <2>1, <3>1, <3>2, <3>3
    <2>8. QED
      BY <1>1, <1>2, <1>3, <2>5, <2>6, <2>7 DEF DInv
  <1>4. QED
    BY <1>a, <1>b, <1>c DEF OutboxStep

(* What all steps of a handler have in common. *)
LEMMA HandlerFacts ==
  ASSUME IInv, HandlerTypeOK, NEW w \in Workers, HandlerStep(w), UNCHANGED deployment
  PROVE  /\ transport' = transport /\ dispatchers' = dispatchers /\ maxDiskErrors' = maxDiskErrors
         /\ DeploymentOK' /\ maxDiskErrors \in Nat
         /\ pc[w] = "handling" /\ msg[w] \in Events /\ status' = status /\ msg' = msg
         /\ stage' \in [Workers -> {"check", "send", "record", "insert"}]
         /\ \A v \in Workers : v # w => stage'[v] = stage[v] /\ pc'[v] = pc[v]
         /\ stage'[w] # "check" => pc'[w] = "handling"
  <1>d. maxDiskErrors \in Nat
    BY DeploymentFacts DEF HandlerTypeOK
  <1>e. /\ transport' = transport /\ dispatchers' = dispatchers /\ maxDiskErrors' = maxDiskErrors
        /\ DeploymentOK'
    BY DeploymentStays DEF HandlerTypeOK
  <1>0. pc[w] = "handling" /\ status' = status /\ msg' = msg
    BY DEF HandlerStep, Check, AppendLine, AppendFails, PostAccepted, PostRefused, NotAccepted,
           FindReceipt, InsertReceipt, In, GoTo, Return, rows, vars
  <1>a. msg[w] \in Events
    BY <1>0 DEF IInv, TypeOK, WorkerInv
  <1>1. \/ \E s \in {"send", "record", "insert"} : GoTo(w, s)
        \/ \E r \in {"ok", "retryable", "final"} : Return(w, r)
    BY DEF HandlerStep, Check, AppendLine, AppendFails, PostAccepted, PostRefused, NotAccepted,
           FindReceipt, InsertReceipt
  <1>2. /\ stage' \in [Workers -> {"check", "send", "record", "insert"}]
        /\ \A v \in Workers : v # w => stage'[v] = stage[v] /\ pc'[v] = pc[v]
        /\ stage'[w] # "check" => pc'[w] = "handling"
    BY <1>0, <1>1 DEF GoTo, Return, vars, IInv, TypeOK, HandlerTypeOK
  <1>3. QED
    BY <1>d, <1>e, <1>0, <1>a, <1>2

(* A write to the file, whatever of it succeeds: the event is in the file if *)
(* the handler returns, and the bound holds with one sender less.            *)
LEMMA WritesDInv ==
  ASSUME IInv, DInv, NEW w \in Workers, w \in dispatchers, AppendLine(w) \/ AppendFails(w),
         UNCHANGED deployment
  PROVE  DInv'
  <1>a. HandlerStep(w) /\ HandlerTypeOK
    BY DEF HandlerStep, DInv
  <1>b. /\ transport' = transport /\ dispatchers' = dispatchers /\ maxDiskErrors' = maxDiskErrors
        /\ DeploymentOK' /\ maxDiskErrors \in Nat
        /\ pc[w] = "handling" /\ msg[w] \in Events /\ status' = status /\ msg' = msg
        /\ stage' \in [Workers -> {"check", "send", "record", "insert"}]
        /\ \A v \in Workers : v # w => stage'[v] = stage[v] /\ pc'[v] = pc[v]
        /\ stage'[w] # "check" => pc'[w] = "handling"
    BY <1>a, HandlerFacts
  <1>c. PICK x \in Extents : Write(msg[w], x) /\ (AppendLine(w) => x = "line")
    BY DEF AppendLine, AppendFails, Extents
  <1>d. tail = "bare" => inbox # <<>>
    BY DEF DInv, FileInv
  <1>1. /\ inbox' \in Seq(Events) /\ tail' \in {"line", "bare", "part"} /\ joined' \subseteq Events
        /\ tail' = "bare" => inbox' # <<>>
        /\ \A f \in Events : Reached(f) => Reached(f)'
        /\ x = "line" => Reached(msg[w])'
    BY <1>a, <1>b, <1>c, <1>d, WriteEffect
  <1>2. /\ transport = "jsonl" /\ stage[w] = "send" /\ stage' = [stage EXCEPT ![w] = "check"]
        /\ receipts' = receipts
        /\ pc' = [pc EXCEPT ![w] = IF AppendLine(w) THEN "ok" ELSE "retryable"]
        /\ diskErrors' \in 0..maxDiskErrors /\ diskErrors' >= diskErrors
        /\ AppendFails(w) => diskErrors' > 0
    <2>1. CASE AppendLine(w)
      <3>1. diskErrors' = diskErrors /\ pc' = [pc EXCEPT ![w] = "ok"]
        BY <2>1 DEF AppendLine, Return
      <3>2. ~ AppendFails(w)
        BY <3>1, <1>a, <1>b DEF AppendFails, HandlerTypeOK
      <3>3. QED
        BY <2>1, <3>1, <3>2, <1>a, <1>b DEF AppendLine, In, Return, HandlerTypeOK
    <2>2. CASE AppendFails(w)
      <3>1. diskErrors' = diskErrors + 1 /\ pc' = [pc EXCEPT ![w] = "retryable"]
        BY <2>2 DEF AppendFails, Return
      <3>2. ~ AppendLine(w)
        BY <3>1, <1>a, <1>b DEF AppendLine, HandlerTypeOK
      <3>3. QED
        BY <2>2, <3>1, <3>2, <1>a, <1>b DEF AppendFails, In, Return, HandlerTypeOK
    <2>3. QED
      BY <2>1, <2>2
  <1>3. HandlerTypeOK'
    BY <1>a, <1>b, <1>1, <1>2 DEF HandlerTypeOK
  <1>4. StageInv'
    BY <1>b, <1>2 DEF DInv, StageInv
  <1>5. CarriedInv'
    <2>1. pc'[w] = "ok" => Reached(msg[w])'
      BY <1>c, <1>1, <1>2 DEF IInv, TypeOK
    <2>2. \A v \in Workers : msg[v] \in Events /\ Reached(msg[v]) => Reached(msg[v])'
      BY <1>b, <1>1 DEF Reached, InInbox
    <2>3. stage'[w] = "check"
      BY <1>a, <1>2 DEF HandlerTypeOK
    <2>4. QED
      BY <1>b, <2>1, <2>2, <2>3 DEF DInv, CarriedInv
  <1>6. FileInv'
    <2>1. Senders' = Senders \ {w} /\ w \in Senders
      BY <1>a, <1>b, <1>2 DEF Senders, HandlerTypeOK
    <2>2. /\ Cardinality(Senders') = Cardinality(Senders) - 1
          /\ Cardinality(Senders) \in Nat /\ Cardinality(dispatchers) \in Nat
      BY <1>a, <2>1, FiniteSenders, FS_RemoveElement
    <2>3. /\ Cardinality(joined) \in Nat /\ Cardinality(joined') \in Nat
          /\ Cardinality(joined') + Bare' <= Cardinality(joined) + Bare + 1
      BY <1>a, <1>b, <1>c, <1>d, WriteCount
    <2>4. Bare \in {0, 1} /\ Bare' \in {0, 1}
      BY DEF Bare
    <2>5. Cardinality(joined) + Bare + Cardinality(Senders) <= Cardinality(dispatchers) + 1
      BY DEF DInv, FileInv
    <2>6. Cardinality(joined') + Bare' + Cardinality(Senders') <= Cardinality(dispatchers') + 1
      BY <1>b, <2>2, <2>3, <2>4, <2>5
    <2>7. diskErrors' = 0 => tail' = "line" /\ joined' = {}
      <3> SUFFICES ASSUME diskErrors' = 0 PROVE tail' = "line" /\ joined' = {}
        OBVIOUS
      <3>1. diskErrors = 0 /\ ~ AppendFails(w)
        BY <1>a, <1>b, <1>2 DEF HandlerTypeOK
      <3>2. x = "line" /\ tail = "line" /\ joined = {}
        BY <1>c, <3>1 DEF DInv, FileInv
      <3>3. QED
        BY <1>c, <3>2 DEF Write
    <2>8. QED
      BY <1>b, <1>1, <1>2, <2>6, <2>7 DEF FileInv
  <1>7. \A e \in Events : status'[e] = "processed" => Reached(e)'
    BY <1>b, <1>1 DEF DInv
  <1>8. \A e \in receipts' : Reached(e)'
    BY <1>a, <1>1, <1>2 DEF DInv, HandlerTypeOK
  <1>9. QED
    BY <1>3, <1>4, <1>5, <1>6, <1>7, <1>8 DEF DInv

(* A handler's other steps: none writes to the file. *)
LEMMA HandlerDInv ==
  ASSUME IInv, DInv, NEW w \in Workers, w \in dispatchers, HandlerStep(w), UNCHANGED deployment,
         ~ AppendLine(w), ~ AppendFails(w)
  PROVE  DInv'
  <1>a. HandlerTypeOK
    BY DEF DInv
  <1>b. /\ transport' = transport /\ dispatchers' = dispatchers /\ maxDiskErrors' = maxDiskErrors
        /\ DeploymentOK' /\ maxDiskErrors \in Nat
        /\ pc[w] = "handling" /\ msg[w] \in Events /\ status' = status /\ msg' = msg
        /\ stage' \in [Workers -> {"check", "send", "record", "insert"}]
        /\ \A v \in Workers : v # w => stage'[v] = stage[v] /\ pc'[v] = pc[v]
        /\ stage'[w] # "check" => pc'[w] = "handling"
    BY <1>a, HandlerFacts
  <1>1. /\ tail' = tail /\ joined' = joined /\ diskErrors' = diskErrors
        /\ inbox' = inbox \/ (inbox' = Append(inbox, msg[w]) /\ transport = "http")
    BY DEF HandlerStep, Check, PostAccepted, PostRefused, NotAccepted, FindReceipt, InsertReceipt, fileVars
  <1>2. inbox' \in Seq(Events) /\ \A f : Reached(f) => Reached(f)'
    <2>1. CASE inbox' = inbox
      BY <1>a, <1>1, <2>1 DEF Reached, InInbox, HandlerTypeOK
    <2>2. CASE inbox' = Append(inbox, msg[w])
      BY <1>a, <1>b, <1>1, <2>2, OneMore DEF Reached
    <2>3. QED
      BY <1>1, <2>1, <2>2
  <1>3. HandlerTypeOK'
    <2>1. receipts' \subseteq Events
      BY <1>a, <1>b DEF HandlerStep, Check, PostAccepted, PostRefused, NotAccepted, FindReceipt,
                        InsertReceipt, HandlerTypeOK
    <2>2. QED
      BY <1>a, <1>b, <1>1, <1>2, <2>1 DEF HandlerTypeOK
  <1>4. StageInv'
    <2>1. \A v \in Workers : stage'[v] # "check" => pc'[v] = "handling"
      BY <1>b DEF DInv, StageInv
    <2>2. ASSUME transport = "jsonl" PROVE stage'[w] \in {"check", "send"}
      BY <1>a, <2>2 DEF HandlerStep, Check, PostAccepted, PostRefused, FindReceipt, InsertReceipt, In,
                        GoTo, Return, HandlerTypeOK, DInv, StageInv
    <2>3. dispatchers \subseteq Workers
      BY <1>a, DeploymentFacts DEF HandlerTypeOK
    <2>4. QED
      BY <1>b, <2>1, <2>2, <2>3 DEF DInv, StageInv
  <1>5. CarriedInv'
    <2>1. ASSUME pc'[w] = "ok" \/ stage'[w] \in {"record", "insert"} PROVE Reached(msg[w])'
      <3>1. CASE Check(w)
        <4>1. Known(w)
          BY <1>b, <2>1, <3>1 DEF Check, In, Return, GoTo, IInv, TypeOK, DInv, HandlerTypeOK, vars
        <4>2. Reached(msg[w])
          BY <1>b, <4>1 DEF Known, DInv, Reached
        <4>3. QED
          BY <1>b, <1>2, <4>2 DEF Reached, InInbox
      <3>2. CASE PostAccepted(w)
        <4>1. InInbox(msg[w])'
          BY <1>a, <1>b, <3>2, OneMore DEF PostAccepted
        <4>2. QED
          BY <4>1 DEF Reached
      <3>3. CASE PostRefused(w)
        BY <2>1, <3>3 DEF PostRefused, NotAccepted, Return, IInv, TypeOK, DInv, HandlerTypeOK
      <3>4. CASE FindReceipt(w)
        BY <1>b, <1>2, <3>4 DEF FindReceipt, In, DInv, CarriedInv
      <3>5. CASE InsertReceipt(w)
        BY <1>b, <1>2, <3>5 DEF InsertReceipt, In, DInv, CarriedInv
      <3>6. QED
        BY <3>1, <3>2, <3>3, <3>4, <3>5 DEF HandlerStep
    <2>2. QED
      BY <2>1, <1>b, <1>2 DEF DInv, CarriedInv
  <1>6. FileInv'
    <2>1. CASE transport = "http"
      <3>1. tail' = "line" /\ joined' = {} /\ Bare' = 0 /\ Cardinality(joined') = 0
        BY <1>1, <2>1, FS_EmptySet DEF DInv, FileInv, Bare
      <3>2. /\ Cardinality(Senders') \in Nat /\ Cardinality(dispatchers') \in Nat
            /\ Cardinality(Senders') <= Cardinality(dispatchers')
        <4>1. IsFiniteSet(dispatchers') /\ Senders' \subseteq dispatchers'
          BY <1>a, <1>b, FiniteSenders DEF Senders
        <4>2. QED
          BY <4>1, FS_Subset, FS_CardinalityType
      <3>3. QED
        BY <3>1, <3>2 DEF FileInv
    <2>2. CASE transport # "http"
      <3>1. UNCHANGED <<fileVars, deployment>> /\ diskErrors \in Nat
        BY <1>a, <1>b, <1>1, <2>2 DEF fileVars, HandlerTypeOK
      <3>2. CASE tail = "line" /\ joined = {}
        <4>1. Bare' = 0 /\ Cardinality(joined') = 0 /\ tail' = "line" /\ joined' = {}
          BY <1>1, <3>2, FS_EmptySet DEF Bare
        <4>2. IsFiniteSet(dispatchers') /\ Senders' \subseteq dispatchers'
          BY <1>a, <1>b, FiniteSenders DEF Senders
        <4>3. /\ Cardinality(Senders') \in Nat /\ Cardinality(dispatchers') \in Nat
              /\ Cardinality(Senders') <= Cardinality(dispatchers')
          BY <4>2, FS_Subset, FS_CardinalityType
        <4>4. QED
          BY <4>1, <4>3 DEF FileInv
      <3>3. CASE tail = "bare" /\ joined = {}
        <4>1. Bare' = 1 /\ Cardinality(joined') = 0 /\ tail' = "bare"
          BY <1>1, <3>3, FS_EmptySet DEF Bare
        <4>2. IsFiniteSet(dispatchers') /\ Senders' \subseteq dispatchers'
          BY <1>a, <1>b, FiniteSenders DEF Senders
        <4>3. /\ Cardinality(Senders') \in Nat /\ Cardinality(dispatchers') \in Nat
              /\ Cardinality(Senders') <= Cardinality(dispatchers')
          BY <4>2, FS_Subset, FS_CardinalityType
        <4>4. QED
          BY <1>b, <1>1, <3>1, <3>3, <4>1, <4>3 DEF FileInv, DInv, fileVars
      <3>4. CASE tail = "part" \/ joined # {}
        <4>1. Unreadable(w)
          BY <1>a, <2>2, <3>4, DeploymentFacts DEF Unreadable, HandlerTypeOK
        <4>2. stage' = [stage EXCEPT ![w] = "check"]
               \/ \E s \in {"record", "insert"} : stage' = [stage EXCEPT ![w] = s]
          BY <2>2, <4>1 DEF HandlerStep, Check, PostAccepted, PostRefused, NotAccepted, FindReceipt,
                            InsertReceipt, Return, GoTo
        <4>3. \A v \in Workers : stage'[v] = "send" => stage[v] = "send"
          BY <1>a, <4>2 DEF HandlerTypeOK
        <4>4. Senders' \subseteq Senders
          BY <1>a, <1>b, <4>3, DeploymentFacts DEF Senders, HandlerTypeOK
        <4>5. QED
          BY <1>a, <1>1, <3>1, <4>4, SameFile DEF DInv
      <3>5. QED
        BY <1>a, <3>2, <3>3, <3>4 DEF HandlerTypeOK
    <2>3. QED
      BY <2>1, <2>2
  <1>7. \A e \in Events : status'[e] = "processed" => Reached(e)'
    BY <1>b, <1>2 DEF DInv
  <1>8. \A e \in receipts' : Reached(e)'
    <2>1. CASE InsertReceipt(w)
      BY <1>b, <1>2, <2>1 DEF InsertReceipt, In, DInv, CarriedInv
    <2>2. CASE ~ InsertReceipt(w)
      <3>1. receipts' = receipts
        BY <2>2 DEF HandlerStep, Check, PostAccepted, PostRefused, NotAccepted, FindReceipt
      <3>2. QED
        BY <1>2, <3>1 DEF DInv
    <2>3. QED
      BY <2>1, <2>2
  <1>9. QED
    BY <1>3, <1>4, <1>5, <1>6, <1>7, <1>8 DEF DInv

(* A crash forgets a message. *)
LEMMA CrashDInv ==
  ASSUME IInv, DInv, NEW w \in Workers, CrashHandler(w), UNCHANGED deployment
  PROVE  DInv'
  <1>1. \A e : Reached(e)' <=> Reached(e)
    BY DEF CrashHandler, fileVars, Reached, InInbox
  <1>2. status' = status /\ receipts' = receipts /\ UNCHANGED fileVars /\ diskErrors' = diskErrors
    BY DEF CrashHandler, Crash, rows
  <1>3. HandlerTypeOK'
    BY DeploymentStays DEF DInv, HandlerTypeOK, CrashHandler, fileVars
  <1>4. /\ \A v \in Workers : v # w => pc'[v] = pc[v] /\ msg'[v] = msg[v] /\ stage'[v] = stage[v]
        /\ pc'[w] = "idle" /\ stage'[w] = "check"
    BY DEF CrashHandler, Crash, Forget, IInv, TypeOK, DInv, HandlerTypeOK
  <1>5. StageInv' /\ CarriedInv'
    BY <1>1, <1>4, DeploymentStays DEF DInv, StageInv, CarriedInv
  <1>6. FileInv'
    <2>1. dispatchers \subseteq Workers /\ diskErrors \in Nat
      BY DeploymentFacts DEF DInv, HandlerTypeOK
    <2>2. Senders' \subseteq Senders
      BY <1>4, <2>1 DEF Senders, deployment
    <2>3. QED
      BY <1>2, <2>1, <2>2, SameFile DEF DInv
  <1>7. QED
    BY <1>1, <1>2, <1>3, <1>5, <1>6 DEF DInv

LEMMA StutterDInv ==
  ASSUME DInv, UNCHANGED deliveryVars
  PROVE  DInv'
  <1>1. UNCHANGED <<handlerVars, deployment>> /\ status' = status /\ pc' = pc /\ msg' = msg
    BY DEF deliveryVars, vars, rows
  <1>2. \A e : Reached(e)' <=> Reached(e)
    BY <1>1 DEF handlerVars, fileVars, Reached, InInbox
  <1>3. HandlerTypeOK' /\ StageInv' /\ CarriedInv'
    BY <1>1, <1>2, DeploymentStays DEF DInv, HandlerTypeOK, StageInv, CarriedInv, handlerVars, fileVars
  <1>4. FileInv'
    <2>1. diskErrors \in Nat
      BY DeploymentFacts DEF DInv, HandlerTypeOK
    <2>2. Senders' = Senders
      BY <1>1 DEF Senders, deployment, handlerVars
    <2>3. QED
      BY <1>1, <2>1, <2>2, SameFile DEF DInv, handlerVars
  <1>5. QED
    BY <1>1, <1>2, <1>3, <1>4 DEF DInv, handlerVars

LEMMA NextDInv ==
  ASSUME IInv, DInv, [DeliveryNext]_deliveryVars PROVE DInv'
  <1>1. CASE OutboxStep /\ UNCHANGED <<handlerVars, deployment>>
    BY <1>1, OutboxDInv
  <1>2. ASSUME NEW w \in dispatchers, HandlerStep(w) \/ CrashHandler(w), UNCHANGED deployment
        PROVE  DInv'
    <2>1. w \in Workers
      BY DeploymentFacts DEF DInv, HandlerTypeOK
    <2>2. QED
      BY <1>2, <2>1, WritesDInv, HandlerDInv, CrashDInv
  <1>3. CASE UNCHANGED deliveryVars
    BY <1>3, StutterDInv
  <1>4. QED
    BY <1>1, <1>2, <1>3 DEF DeliveryNext

(* The invariants hold in every reachable state. *)
LEMMA InvariantDInv == DeliverySpec => [](IInv /\ DInv)
  <1>1. DeliverySpec => []IInv
    BY DispatcherIsOutbox, InvariantIInv, PTL
  <1>2. QED
    BY <1>1, InitDInv, NextDInv, PTL DEF DeliverySpec

(* What the outbox calls processed has reached gen_data, for any transport,   *)
(* dispatchers and failing writes (maintenance_replay_jsonl.py's index and    *)
(* append, maintenance_delivery.py's receipts): but for events behind a write *)
(* that failed, at most one more than there are dispatchers.                  *)
THEOREM NothingProcessedIsLost == DeliverySpec => []ProcessedReached
  <1>1. ASSUME DInv PROVE ProcessedReached
    <2>1. Lost \subseteq joined
      BY <1>1 DEF Lost, DInv, Reached
    <2>2. Cardinality(joined) + Bare + Cardinality(Senders) <= Cardinality(dispatchers) + 1
      BY <1>1 DEF DInv, FileInv
    <2>3. /\ IsFiniteSet(joined) /\ Cardinality(joined) \in Nat
          /\ Cardinality(Senders) \in Nat /\ Cardinality(dispatchers) \in Nat
      BY <1>1, FiniteSenders DEF DInv
    <2>4. Cardinality(Lost) \in Nat /\ Cardinality(Lost) <= Cardinality(joined)
      BY <2>1, <2>3, FS_Subset, FS_CardinalityType
    <2>5. Bare \in {0, 1}
      BY DEF Bare
    <2>6. Cardinality(Lost) <= Cardinality(dispatchers) + 1
      BY <2>2, <2>3, <2>4, <2>5
    <2>7. diskErrors = 0 => Lost = {}
      BY <1>1, <2>1 DEF DInv, FileInv
    <2>8. QED
      BY <2>6, <2>7 DEF ProcessedReached
  <1>2. QED
    BY <1>1, InvariantDInv, PTL

-----------------------------------------------------------------------------
(* The file is never spoilt under a dispatcher that has already checked it:  *)
(* so over HTTP, on disks that do not fail, and with one dispatcher.         *)
Untorn ==
  \A d \in Deployments :
    \/ d.transport = "http"
    \/ d.diskErrors = 0
    \/ \A v, w \in d.dispatchers : v = w

(* Nobody is about to write to a file that cannot be indexed. *)
SoundInv == tail = "part" \/ joined # {} => \A w \in Workers : stage[w] # "send"

(* The event a worker carries may be added: its earlier versions are there. *)
LEMMA AddedInOrder ==
  ASSUME IInv, DInv, ReachedInOrder, joined = {},
         NEW w \in Workers, msg[w] \in Events, inbox' = Append(inbox, msg[w])
  PROVE  ReachedInOrder'
  <1>1. Len(inbox) \in Nat /\ inbox \in Seq(Events)
    BY DEF DInv, HandlerTypeOK
  <1>2. /\ Len(inbox') = Len(inbox) + 1
        /\ inbox'[Len(inbox) + 1] = msg[w]
        /\ \A i \in 1..Len(inbox) : inbox'[i] = inbox[i]
    BY <1>1
  <1> SUFFICES ASSUME NEW i \in 1..Len(inbox'), NEW f \in Events,
                      Lifecycle[f] = Lifecycle[inbox'[i]], Version[f] < Version[inbox'[i]]
               PROVE  \E j \in 1..(i - 1) : inbox'[j] = f
    BY DEF ReachedInOrder
  <1>3. CASE i = Len(inbox) + 1
    <2>1. status[f] = "processed"
      <3>1. inbox'[i] = msg[w] /\ msg[w] # NoEvent
        BY OutboxAssumption, <1>2, <1>3
      <3>2. Lifecycle[f] = Lifecycle[msg[w]] /\ Version[f] < Version[msg[w]]
        BY <3>1
      <3>3. QED
        BY <3>1, <3>2 DEF IInv, HandledInOrder
    <2>2. PICK j \in 1..Len(inbox) : inbox[j] = f
      BY <2>1 DEF DInv, Reached, InInbox
    <2>3. j \in 1..(i - 1) /\ inbox'[j] = f
      BY <1>1, <1>2, <1>3, <2>2
    <2>4. QED
      BY <2>3
  <1>4. CASE i # Len(inbox) + 1
    <2>1. i \in 1..Len(inbox) /\ inbox'[i] = inbox[i]
      BY <1>1, <1>2, <1>4
    <2>2. PICK j \in 1..(i - 1) : inbox[j] = f
      BY <2>1 DEF ReachedInOrder
    <2>3. j \in 1..Len(inbox)
      BY <1>1, <2>1, <2>2
    <2>4. QED
      BY <1>2, <2>2, <2>3
  <1>5. QED
    BY <1>3, <1>4

(* The inbox without its last event is in order as well. *)
LEMMA ShorterInOrder ==
  ASSUME DInv, ReachedInOrder, inbox # <<>>, inbox' = Shorter
  PROVE  ReachedInOrder'
  <1>1. /\ Len(inbox) \in Nat \ {0} /\ Len(inbox') = Len(inbox) - 1
        /\ \A i \in 1..Len(inbox') : inbox'[i] = inbox[i]
    BY OneLess DEF DInv
  <1> SUFFICES ASSUME NEW i \in 1..Len(inbox'), NEW f \in Events,
                      Lifecycle[f] = Lifecycle[inbox'[i]], Version[f] < Version[inbox'[i]]
               PROVE  \E j \in 1..(i - 1) : inbox'[j] = f
    BY DEF ReachedInOrder
  <1>2. i \in 1..Len(inbox) /\ inbox'[i] = inbox[i]
    BY <1>1
  <1>3. PICK j \in 1..(i - 1) : inbox[j] = f
    BY <1>2 DEF ReachedInOrder
  <1>4. j \in 1..Len(inbox')
    BY <1>1, <1>3
  <1>5. QED
    BY <1>1, <1>3, <1>4

(* With one dispatcher, or on a disk that does not fail, a handler's step     *)
(* spoils no file somebody is about to write to, and adds an event in order.  *)
LEMMA HandlerOrder ==
  ASSUME Untorn, IInv, DInv, SoundInv, ReachedInOrder,
         NEW w \in Workers, w \in dispatchers, HandlerStep(w), UNCHANGED deployment
  PROVE  SoundInv' /\ ReachedInOrder'
  <1>a. HandlerTypeOK
    BY DEF DInv
  <1>b. /\ pc[w] = "handling" /\ msg[w] \in Events
        /\ \A v \in Workers : v # w => stage'[v] = stage[v]
        /\ dispatchers \subseteq Workers /\ transport \in {"jsonl", "http"}
    BY <1>a, HandlerFacts, DeploymentFacts DEF HandlerTypeOK
  <1>1. SoundInv'
    <2>1. CASE transport = "http"
      <3>1. tail' = "line" /\ joined' = {}
        BY <2>1 DEF HandlerStep, Check, AppendLine, AppendFails, PostAccepted, PostRefused, NotAccepted,
                    FindReceipt, InsertReceipt, fileVars, DInv, FileInv
      <3>2. QED
        BY <3>1 DEF SoundInv
    <2>2. CASE transport = "jsonl" /\ maxDiskErrors = 0
      <3>1. DInv'
        BY WritesDInv, HandlerDInv
      <3>2. diskErrors' = 0
        BY <2>2, <3>1 DEF DInv, HandlerTypeOK, deployment
      <3>3. QED
        BY <3>1, <3>2 DEF DInv, FileInv, SoundInv
    <2>3. CASE transport = "jsonl" /\ maxDiskErrors # 0
      <3>1. \A v \in dispatchers : v = w
        BY <1>a, <2>3 DEF Untorn, HandlerTypeOK, DeploymentOK, Deployed
      <3>2. \A v \in Workers \ {w} : stage'[v] = "check"
        BY <1>b, <3>1 DEF DInv, StageInv
      <3>3. CASE AppendLine(w) \/ AppendFails(w)
        <4>1. stage'[w] = "check"
          BY <1>a, <3>3 DEF AppendLine, AppendFails, Return, HandlerTypeOK
        <4>2. QED
          BY <3>2, <4>1 DEF SoundInv
      <3>4. CASE ~ AppendLine(w) /\ ~ AppendFails(w)
        <4>1. UNCHANGED <<tail, joined>>
          BY <3>4 DEF HandlerStep, Check, PostAccepted, PostRefused, NotAccepted,
                      FindReceipt, InsertReceipt, fileVars
        <4>2. CASE tail = "part" \/ joined # {}
          <5>1. Unreadable(w)
            BY <2>3, <4>2 DEF Unreadable
          <5>2. stage'[w] # "send"
            BY <1>a, <3>4, <5>1 DEF HandlerStep, Check, PostAccepted, PostRefused, NotAccepted,
                                    FindReceipt, InsertReceipt, Return, GoTo, HandlerTypeOK
          <5>3. QED
            BY <3>2, <5>2 DEF SoundInv
        <4>3. CASE tail # "part" /\ joined = {}
          BY <4>1, <4>3 DEF SoundInv
        <4>4. QED
          BY <4>2, <4>3
      <3>5. QED
        BY <3>3, <3>4
    <2>4. QED
      BY <1>b, <2>1, <2>2, <2>3
  <1>2. ReachedInOrder'
    <2>1. CASE inbox' = inbox
      BY <2>1 DEF ReachedInOrder
    <2>2. CASE AppendLine(w) \/ AppendFails(w)
      <3>1. stage[w] = "send" /\ joined = {}
        BY <2>2 DEF AppendLine, AppendFails, In, SoundInv
      <3>2. PICK x \in Extents : Write(msg[w], x)
        BY <2>2 DEF AppendLine, AppendFails, Extents
      <3>3. tail = "bare" => inbox # <<>>
        BY DEF DInv, FileInv
      <3>4. \/ inbox' = inbox
            \/ inbox' = Append(inbox, msg[w])
            \/ tail = "bare" /\ inbox' = Shorter
        BY <1>a, <1>b, <3>2, <3>3, WriteEffect
      <3>5. QED
        BY <1>b, <2>1, <3>1, <3>3, <3>4, AddedInOrder, ShorterInOrder
    <2>3. CASE PostAccepted(w)
      <3>1. joined = {} /\ inbox' = Append(inbox, msg[w])
        BY <2>3 DEF PostAccepted, DInv, FileInv
      <3>2. QED
        BY <1>b, <3>1, AddedInOrder
    <2>4. CASE Check(w) \/ PostRefused(w) \/ FindReceipt(w) \/ InsertReceipt(w)
      BY <2>1, <2>4 DEF Check, PostRefused, NotAccepted, FindReceipt, InsertReceipt, fileVars
    <2>5. QED
      BY <2>2, <2>3, <2>4 DEF HandlerStep
  <1>3. QED
    BY <1>1, <1>2

(* gen_data meets the versions of a maintenance action in order. *)
THEOREM GenDataSeesOrder ==
  ASSUME Untorn PROVE DeliverySpec => []ReachedInOrder
  <1>1. DeliveryInit => SoundInv /\ ReachedInOrder
    BY DEF DeliveryInit, SoundInv, ReachedInOrder
  <1>2. IInv /\ DInv /\ SoundInv /\ ReachedInOrder /\ [DeliveryNext]_deliveryVars
          => SoundInv' /\ ReachedInOrder'
    <2> SUFFICES ASSUME IInv, DInv, SoundInv, ReachedInOrder, [DeliveryNext]_deliveryVars
                 PROVE  SoundInv' /\ ReachedInOrder'
      OBVIOUS
    <2>1. CASE UNCHANGED handlerVars
      BY <2>1 DEF handlerVars, fileVars, SoundInv, ReachedInOrder
    <2>2. ASSUME NEW w \in dispatchers, HandlerStep(w), UNCHANGED deployment
          PROVE  SoundInv' /\ ReachedInOrder'
      <3>1. w \in Workers
        BY DeploymentFacts DEF DInv, HandlerTypeOK
      <3>2. QED
        BY <2>2, <3>1, HandlerOrder
    <2>3. ASSUME NEW w \in dispatchers, CrashHandler(w) PROVE SoundInv' /\ ReachedInOrder'
      <3>1. UNCHANGED fileVars /\ \A v \in Workers : stage'[v] = "send" => stage[v] = "send"
        BY <2>3 DEF CrashHandler, DInv, HandlerTypeOK
      <3>2. QED
        BY <3>1 DEF fileVars, SoundInv, ReachedInOrder
    <2>4. QED
      BY <2>1, <2>2, <2>3 DEF DeliveryNext, deliveryVars
  <1>3. QED
    BY <1>1, <1>2, InvariantDInv, PTL DEF DeliverySpec

-----------------------------------------------------------------------------
(* How often an event gets into the file, on any disk.                       *)

(* The lines of an event, and the dispatchers about to write one: those that *)
(* read the file before the event was in it.                                 *)
Lines(e)   == {i \in 1..Len(inbox) : inbox[i] = e}
Writing(e) == {w \in dispatchers : stage[w] = "send" /\ msg[w] = e}

CopiesInv ==
  transport = "jsonl" =>
    \A e \in Events : Cardinality(Lines(e)) + Cardinality(Writing(e)) <= Cardinality(dispatchers)

LEMMA FiniteLines ==
  ASSUME HandlerTypeOK, NEW e
  PROVE  /\ IsFiniteSet(Lines(e)) /\ Cardinality(Lines(e)) \in Nat
         /\ IsFiniteSet(Writing(e)) /\ Cardinality(Writing(e)) \in Nat
         /\ IsFiniteSet(dispatchers) /\ Cardinality(dispatchers) \in Nat
         /\ Cardinality(Writing(e)) <= Cardinality(dispatchers)
  <1>1. IsFiniteSet(1..Len(inbox))
    BY FS_Interval DEF HandlerTypeOK
  <1>2. IsFiniteSet(Lines(e))
    BY <1>1, FS_Subset DEF Lines
  <1>3. IsFiniteSet(dispatchers)
    BY DeploymentFacts DEF HandlerTypeOK
  <1>4. Writing(e) \subseteq dispatchers
    BY DEF Writing
  <1>5. IsFiniteSet(Writing(e)) /\ Cardinality(Writing(e)) <= Cardinality(dispatchers)
    BY <1>3, <1>4, FS_Subset
  <1>6. QED
    BY <1>2, <1>3, <1>5, FS_CardinalityType

(* Where no line is written, fewer writers keep the bound. *)
LEMMA FewerWriters ==
  ASSUME HandlerTypeOK, CopiesInv, UNCHANGED deployment,
         \A e \in Events : Lines(e)' \subseteq Lines(e) /\ Writing(e)' \subseteq Writing(e)
  PROVE  CopiesInv'
  <1> SUFFICES ASSUME transport = "jsonl", NEW e \in Events
               PROVE  Cardinality(Lines(e)') + Cardinality(Writing(e)') <= Cardinality(dispatchers)
    BY DEF CopiesInv, deployment
  <1>1. /\ IsFiniteSet(Lines(e)') /\ Cardinality(Lines(e)') <= Cardinality(Lines(e))
        /\ IsFiniteSet(Writing(e)') /\ Cardinality(Writing(e)') <= Cardinality(Writing(e))
    BY FiniteLines, FS_Subset
  <1>2. Cardinality(Lines(e)') \in Nat /\ Cardinality(Writing(e)') \in Nat
    BY <1>1, FS_CardinalityType
  <1>3. QED
    BY <1>1, <1>2, FiniteLines DEF CopiesInv

(* A dispatcher that finds no line of its event may write one, as may all   *)
(* the others: there is none yet.                                           *)
LEMMA CheckCopies ==
  ASSUME HandlerTypeOK, CopiesInv, NEW w \in Workers, w \in dispatchers,
         ~ Known(w), GoTo(w, "send"), UNCHANGED <<inbox, deployment>>
  PROVE  CopiesInv'
  <1> SUFFICES ASSUME transport = "jsonl", NEW e \in Events
               PROVE  Cardinality(Lines(e)') + Cardinality(Writing(e)') <= Cardinality(dispatchers)
    BY DEF CopiesInv, deployment
  <1>0. msg' = msg /\ dispatchers' = dispatchers /\ inbox' = inbox
    BY DEF GoTo, vars, deployment
  <1>1. Lines(e)' = Lines(e)
    BY <1>0 DEF Lines
  <1>2. CASE msg[w] = e
    <2>1. Lines(e) = {}
      BY <1>2 DEF Known, InInbox, Lines
    <2>2. Writing(e)' \subseteq dispatchers
      BY <1>0 DEF Writing
    <2>3. Cardinality(Writing(e)') <= Cardinality(dispatchers) /\ IsFiniteSet(Writing(e)')
      BY <2>2, FiniteLines, FS_Subset
    <2>4. Cardinality(Writing(e)') \in Nat
      BY <2>3, FS_CardinalityType
    <2>5. QED
      BY <1>1, <2>1, <2>3, <2>4, FS_EmptySet
  <1>3. CASE msg[w] # e
    <2>1. Writing(e)' = Writing(e)
      BY <1>0, <1>3 DEF Writing, GoTo, HandlerTypeOK
    <2>2. QED
      BY <1>1, <2>1 DEF CopiesInv
  <1>4. QED
    BY <1>2, <1>3

(* A dispatcher that wrote to the file is not about to write any more. *)
LEMMA AppendCopies ==
  ASSUME IInv, DInv, CopiesInv, NEW w \in Workers, w \in dispatchers,
         AppendLine(w) \/ AppendFails(w), UNCHANGED deployment
  PROVE  CopiesInv'
  <1>a. HandlerTypeOK /\ (tail = "bare" => inbox # <<>>)
    BY DEF DInv, FileInv
  <1>0. /\ msg' = msg /\ dispatchers' = dispatchers /\ msg[w] \in Events
        /\ stage' = [stage EXCEPT ![w] = "check"]
        /\ stage[w] = "send"
    BY DEF AppendLine, AppendFails, In, Return, deployment, IInv, TypeOK, WorkerInv
  <1>b. PICK x \in Extents : Write(msg[w], x)
    BY DEF AppendLine, AppendFails, Extents
  <1>c. \/ inbox' = inbox
        \/ inbox' = Append(inbox, msg[w])
        \/ tail = "bare" /\ inbox' = Shorter
    BY <1>a, <1>0, <1>b, WriteEffect
  <1>1. CASE inbox' = inbox \/ (tail = "bare" /\ inbox' = Shorter)
    <2>1. \A e \in Events : Lines(e)' \subseteq Lines(e)
      BY <1>1, <1>a, OneLess DEF Lines
    <2>2. \A e \in Events : Writing(e)' \subseteq Writing(e)
      BY <1>0, <1>a DEF Writing, HandlerTypeOK
    <2>3. QED
      BY <1>a, <2>1, <2>2, FewerWriters
  <1>2. CASE inbox' = Append(inbox, msg[w])
    <2> SUFFICES ASSUME transport = "jsonl", NEW e \in Events
                 PROVE  Cardinality(Lines(e)') + Cardinality(Writing(e)') <= Cardinality(dispatchers)
      BY <1>0 DEF CopiesInv, deployment
    <2>1. Len(inbox) \in Nat /\ inbox \in Seq(Events)
      BY <1>a DEF HandlerTypeOK
    <2>2. /\ Len(inbox') = Len(inbox) + 1
          /\ inbox'[Len(inbox) + 1] = msg[w]
          /\ \A i \in 1..Len(inbox) : inbox'[i] = inbox[i]
      BY <1>0, <1>2, <2>1
    <2>3. CASE msg[w] = e
      <3>1. Lines(e)' = Lines(e) \cup {Len(inbox) + 1}
        BY <2>1, <2>2, <2>3 DEF Lines
      <3>2. Len(inbox) + 1 \notin Lines(e)
        BY <2>1 DEF Lines
      <3>3. Cardinality(Lines(e)') = Cardinality(Lines(e)) + 1
        BY <1>a, <3>1, <3>2, FiniteLines, FS_AddElement
      <3>4. Writing(e)' = Writing(e) \ {w} /\ w \in Writing(e)
        BY <1>0, <1>a, <2>3 DEF Writing, HandlerTypeOK
      <3>5. Cardinality(Writing(e)') = Cardinality(Writing(e)) - 1
        BY <1>a, <3>4, FiniteLines, FS_RemoveElement
      <3>6. QED
        BY <1>a, <3>3, <3>5, FiniteLines DEF CopiesInv
    <2>4. CASE msg[w] # e
      <3>1. Lines(e)' = Lines(e)
        BY <2>1, <2>2, <2>4 DEF Lines
      <3>2. Writing(e)' = Writing(e)
        BY <1>0, <1>a, <2>4 DEF Writing, HandlerTypeOK
      <3>3. QED
        BY <3>1, <3>2 DEF CopiesInv
    <2>5. QED
      BY <2>3, <2>4
  <1>3. QED
    BY <1>c, <1>1, <1>2

LEMMA InitCopies == DeliveryInit => CopiesInv
  <1> SUFFICES ASSUME DeliveryInit PROVE CopiesInv
    OBVIOUS
  <1>1. HandlerTypeOK
    BY InitDInv DEF DInv
  <1>2. ASSUME NEW e \in Events PROVE Lines(e) = {} /\ Writing(e) = {}
    BY DeploymentFacts DEF DeliveryInit, Lines, Writing
  <1>3. QED
    BY <1>1, <1>2, FiniteLines, FS_EmptySet DEF CopiesInv

LEMMA OutboxCopies ==
  ASSUME IInv, DInv, CopiesInv, OutboxStep, UNCHANGED <<handlerVars, deployment>>
  PROVE  CopiesInv'
  <1>0. dispatchers \subseteq Workers
    BY DeploymentFacts DEF DInv, HandlerTypeOK
  <1>1. \A v \in Workers : \/ pc'[v] = pc[v] /\ msg'[v] = msg[v]
                           \/ stage[v] = "check"
    <2>1. CASE \E e \in Events : Insert(e) \/ LeaseExpires(e) \/ DelayPasses(e) \/ ReplayDeadLetter(e)
      BY <2>1 DEF Insert, LeaseExpires, DelayPasses, ReplayDeadLetter
    <2>2. ASSUME NEW w \in dispatchers, Claim(w) \/ ClaimNothing(w)
          PROVE  stage[w] = "check" /\ \A v \in Workers : v # w => pc'[v] = pc[v] /\ msg'[v] = msg[v]
      BY <1>0, <2>2 DEF IInv, TypeOK, DInv, HandlerTypeOK, StageInv, Claim, ClaimNothing
    <2>3. ASSUME NEW w \in dispatchers, MarkDelivered(w) \/ MarkFailed(w) \/ SettleLost(w)
          PROVE  stage[w] = "check" /\ \A v \in Workers : v # w => pc'[v] = pc[v] /\ msg'[v] = msg[v]
      BY <1>0, <2>3 DEF IInv, TypeOK, DInv, HandlerTypeOK, StageInv, MarkDelivered, MarkFailed,
                        SettleLost, Forget
    <2>4. QED
      BY <2>1, <2>2, <2>3 DEF OutboxStep
  <1>2. \A e \in Events : Lines(e)' \subseteq Lines(e) /\ Writing(e)' \subseteq Writing(e)
    BY <1>0, <1>1 DEF Lines, Writing, handlerVars, fileVars, deployment
  <1>3. QED
    BY <1>2, FewerWriters DEF DInv

LEMMA HandlerCopies ==
  ASSUME IInv, DInv, CopiesInv, NEW w \in Workers, w \in dispatchers, HandlerStep(w),
         UNCHANGED deployment
  PROVE  CopiesInv'
  <1>a. HandlerTypeOK
    BY DEF DInv
  <1>0. /\ transport' = transport /\ dispatchers' = dispatchers /\ msg' = msg
        /\ dispatchers \subseteq Workers
    BY <1>a, HandlerFacts, DeploymentFacts DEF HandlerTypeOK
  <1>1. CASE transport # "jsonl"
    BY <1>0, <1>1 DEF CopiesInv
  <1>2. CASE Check(w)
    <2>1. inbox' = inbox
      BY <1>2 DEF Check, fileVars
    <2>2. CASE GoTo(w, "send") /\ ~ Known(w)
      BY <1>a, <2>1, <2>2, CheckCopies
    <2>3. CASE \E r \in {"ok", "retryable"} : Return(w, r)
      <3>1. \A e \in Events : Lines(e)' \subseteq Lines(e) /\ Writing(e)' \subseteq Writing(e)
        BY <1>a, <1>0, <2>1, <2>3 DEF Lines, Writing, Return, HandlerTypeOK
      <3>2. QED
        BY <1>a, <3>1, FewerWriters
    <2>4. QED
      BY <1>2, <2>2, <2>3 DEF Check
  <1>3. CASE AppendLine(w) \/ AppendFails(w)
    BY <1>3, AppendCopies
  <1>4. CASE FindReceipt(w) \/ InsertReceipt(w)
    <2>1. inbox' = inbox
      BY <1>4 DEF FindReceipt, InsertReceipt, fileVars
    <2>2. stage' \in {[stage EXCEPT ![w] = "check"], [stage EXCEPT ![w] = "insert"]}
      BY <1>4 DEF FindReceipt, InsertReceipt, Return, GoTo
    <2>3. \A v \in Workers : stage'[v] = "send" => stage[v] = "send"
      BY <1>a, <2>2 DEF HandlerTypeOK
    <2>4. \A e \in Events : Lines(e)' \subseteq Lines(e) /\ Writing(e)' \subseteq Writing(e)
      BY <1>0, <2>1, <2>3 DEF Lines, Writing
    <2>5. QED
      BY <1>a, <2>4, FewerWriters
  <1>5. QED
    BY <1>1, <1>2, <1>3, <1>4 DEF HandlerStep, PostAccepted, PostRefused

(* Redelivery adds no line: however often an event is redelivered, after a   *)
(* crash, a lost lease or a failed write, the file holds it at most once for *)
(* every dispatcher.                                                         *)
THEOREM RedeliveryAddsNoLine == DeliverySpec => []CopiesBounded
  <1>1. ASSUME IInv, DInv, CopiesInv, [DeliveryNext]_deliveryVars PROVE CopiesInv'
    <2>1. CASE UNCHANGED deliveryVars
      <3>1. \A e \in Events : Lines(e)' \subseteq Lines(e) /\ Writing(e)' \subseteq Writing(e)
        BY <2>1 DEF Lines, Writing, deliveryVars, vars, handlerVars, fileVars, deployment
      <3>2. QED
        BY <1>1, <2>1, <3>1, FewerWriters DEF DInv, deliveryVars
    <2>2. CASE OutboxStep /\ UNCHANGED <<handlerVars, deployment>>
      BY <1>1, <2>2, OutboxCopies
    <2>3. ASSUME NEW w \in dispatchers, HandlerStep(w), UNCHANGED deployment PROVE CopiesInv'
      <3>1. w \in Workers
        BY <1>1, DeploymentFacts DEF DInv, HandlerTypeOK
      <3>2. QED
        BY <1>1, <2>3, <3>1, HandlerCopies
    <2>4. ASSUME NEW w \in dispatchers, CrashHandler(w), UNCHANGED deployment PROVE CopiesInv'
      <3>1. /\ \A v \in Workers : v # w => msg'[v] = msg[v] /\ stage'[v] = stage[v]
            /\ stage'[w] = "check" /\ inbox' = inbox /\ dispatchers' = dispatchers
            /\ dispatchers \subseteq Workers
        BY <1>1, <2>4, DeploymentFacts
           DEF CrashHandler, Crash, Forget, fileVars, deployment, IInv, TypeOK, DInv, HandlerTypeOK
      <3>2. \A e \in Events : Lines(e)' \subseteq Lines(e) /\ Writing(e)' \subseteq Writing(e)
        BY <3>1 DEF Lines, Writing
      <3>3. QED
        BY <1>1, <2>4, <3>2, FewerWriters DEF DInv
    <2>5. QED
      BY <1>1, <2>1, <2>2, <2>3, <2>4 DEF DeliveryNext
  <1>2. IInv /\ DInv /\ CopiesInv => CopiesBounded
    <2> SUFFICES ASSUME DInv, CopiesInv, transport = "jsonl", NEW e \in Events
                 PROVE  Cardinality({i \in 1..Len(inbox) : inbox[i] = e}) <= Cardinality(dispatchers)
      BY DEF CopiesBounded
    <2>1. Cardinality(Lines(e)) + Cardinality(Writing(e)) <= Cardinality(dispatchers)
      BY DEF CopiesInv
    <2>2. Cardinality(Lines(e)) <= Cardinality(dispatchers)
      BY <2>1, FiniteLines DEF DInv
    <2>3. QED
      BY <2>2 DEF Lines
  <1>3. QED
    BY <1>1, <1>2, InvariantDInv, InitCopies, PTL DEF DeliverySpec
=============================================================================
