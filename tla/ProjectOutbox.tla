---------------------------- MODULE ProjectOutbox ----------------------------
(***************************************************************************)
(* The Backend's transactional outbox (infra/messaging/outbox.py): rows a  *)
(* domain transaction inserts, and workers that claim one row at a time    *)
(* under a lease, run its handler and settle it.  Each repository method   *)
(* is one database transaction and one action; between them workers are    *)
(* slow, crash, or lose their lease to another worker.                     *)
(*                                                                         *)
(* Time is abstract: a lease runs out, and a retry delay passes, at any    *)
(* moment.  A lease token is represented by the worker that holds it: a    *)
(* worker carries one message at a time, so it never meets a token of its  *)
(* own other than the one it carries.  The rows of one organization,       *)
(* project and set of registered event types are modelled; claim_one looks *)
(* at no others.                                                           *)
(***************************************************************************)
EXTENDS Naturals, FiniteSets

CONSTANTS
  Events,      \* outbox row ids
  Workers,
  NoEvent, NoWorker,
  Stream,      \* _delivery_stream of each event
  Lifecycle,   \* the aggregate whose state_version the event carries
  Version,     \* its state_version
  MaxAttempts, \* max_attempts of the workers
  MaxReplays   \* bound on operator replays of dead letters

ASSUME OutboxAssumption ==
  /\ IsFiniteSet(Events)
  /\ NoEvent \notin Events
  /\ NoWorker \notin Workers
  /\ DOMAIN Stream = Events
  /\ DOMAIN Lifecycle = Events
  /\ Version \in [Events -> Nat]
  /\ \A e, f \in Events : Lifecycle[e] = Lifecycle[f] =>
        /\ Stream[e] = Stream[f]
        /\ Version[e] = Version[f] => e = f
  /\ MaxAttempts \in Nat \ {0}
  /\ MaxReplays \in Nat

VARIABLES
  status,   \* "absent" until the domain transaction inserts the row
  attempts, \* attempt_count
  due,      \* available_at <= now
  expired,  \* lease_expires_at <= now
  token,    \* the worker whose lease_token the row carries
  created,  \* created_at, as the position among the inserted rows
  logged,   \* rows of outbox_delivery_log
  msg,      \* the message each worker carries
  pc,       \* what each worker is doing with it
  replays

rows == <<status, attempts, due, expired, token, created, logged, replays>>
vars == <<rows, msg, pc>>

RowStatus == {"absent", "pending", "processing", "retry", "processed", "dead_letter"}

TypeOK ==
  /\ status \in [Events -> RowStatus]
  /\ attempts \in [Events -> 0..MaxAttempts]
  /\ due \in [Events -> BOOLEAN]
  /\ expired \in [Events -> BOOLEAN]
  /\ token \in [Events -> Workers \union {NoWorker}]
  /\ created \in [Events -> Nat]
  /\ logged \subseteq Events
  /\ msg \in [Workers -> Events \union {NoEvent}]
  /\ pc \in [Workers -> {"idle", "handling", "ok", "retryable", "final"}]
  /\ replays \in Nat

Init ==
  /\ status = [e \in Events |-> "absent"]
  /\ attempts = [e \in Events |-> 0]
  /\ due = [e \in Events |-> FALSE]
  /\ expired = [e \in Events |-> FALSE]
  /\ token = [e \in Events |-> NoWorker]
  /\ created = [e \in Events |-> 0]
  /\ logged = {}
  /\ msg = [w \in Workers |-> NoEvent]
  /\ pc = [w \in Workers |-> "idle"]
  /\ replays = 0

-----------------------------------------------------------------------------
Inserted(e) == status[e] # "absent"

(* A domain transaction inserts the event due now; the events of one *)
(* lifecycle are emitted in the order of their versions.             *)
Insert(e) ==
  /\ ~ Inserted(e)
  /\ \A f \in Events : Lifecycle[f] = Lifecycle[e] /\ Version[f] < Version[e] => Inserted(f)
  /\ status' = [status EXCEPT ![e] = "pending"]
  /\ due' = [due EXCEPT ![e] = TRUE]
  /\ created' = [created EXCEPT ![e] = 1 + Cardinality({f \in Events : Inserted(f)})]
  /\ UNCHANGED <<attempts, expired, token, logged, msg, pc, replays>>

-----------------------------------------------------------------------------
(* claim_one *)

(* Its first UPDATE: a processing row whose lease has run out becomes retry, *)
(* due at once and without a holder.                                         *)
LeaseRunOut(e)   == status[e] = "processing" /\ expired[e]
RecoversNothing  == status \* mutant of Recovered
Recovered        == [e \in Events |-> IF LeaseRunOut(e) THEN "retry" ELSE status[e]]
DueAfter         == [e \in Events |-> due[e] \/ LeaseRunOut(e)]

(* Mutants of the definitions below. *)
LiveRow(e)       == Recovered[e] \notin {"absent", "processed", "dead_letter"}
UnclaimedRow(e)  == Recovered[e] \in {"pending", "retry"}

(* The rows its SELECT returns. *)
Undelivered(e) == Recovered[e] \notin {"absent", "processed"}

(* _first_claimable: the head of a stream has the least (state_version, *)
(* created_at); only heads are eligible, the oldest of them is taken.   *)
Before(e, f) ==
  \/ Version[e] < Version[f]
  \/ Version[e] = Version[f] /\ created[e] <= created[f]

StreamHead(e) ==
  /\ Undelivered(e)
  /\ \A f \in Events : Undelivered(f) /\ Stream[f] = Stream[e] => Before(e, f)

Claimable(e) ==
  /\ Recovered[e] \in {"pending", "retry"}
  /\ attempts[e] < MaxAttempts
  /\ DueAfter[e]

OldestHead(e) == \* mutant of Eligible
  StreamHead(e) /\ Claimable(e) /\ \A f \in Events : StreamHead(f) => created[e] <= created[f]
Eligible(e) == StreamHead(e) /\ Claimable(e)

FirstClaimable(e) == Eligible(e) /\ \A f \in Events : Eligible(f) => created[e] <= created[f]

Claim(w) ==
  /\ pc[w] = "idle"
  /\ \E e \in Events :
       /\ FirstClaimable(e)
       /\ status' = [Recovered EXCEPT ![e] = "processing"]
       /\ attempts' = [attempts EXCEPT ![e] = @ + 1]
       /\ token' = [f \in Events |-> IF f = e THEN w ELSE IF LeaseRunOut(f) THEN NoWorker ELSE token[f]]
       /\ msg' = [msg EXCEPT ![w] = e]
  /\ due' = DueAfter
  /\ expired' = [e \in Events |-> expired[e] /\ ~ LeaseRunOut(e)]
  /\ pc' = [pc EXCEPT ![w] = "handling"]
  /\ UNCHANGED <<created, logged, replays>>

(* Nothing is eligible: the leases that ran out are recovered all the same. *)
ClaimNothing(w) ==
  /\ pc[w] = "idle"
  /\ ~ \E e \in Events : Eligible(e)
  /\ \E e \in Events : LeaseRunOut(e)
  /\ status' = Recovered
  /\ due' = DueAfter
  /\ token' = [e \in Events |-> IF LeaseRunOut(e) THEN NoWorker ELSE token[e]]
  /\ expired' = [e \in Events |-> expired[e] /\ ~ LeaseRunOut(e)]
  /\ UNCHANGED <<attempts, created, logged, msg, pc, replays>>

-----------------------------------------------------------------------------
(* process_once after the claim *)

(* The handler returns, or raises an error that may be retried or may not. *)
Handle(w) ==
  /\ pc[w] = "handling"
  /\ \E r \in {"ok", "retryable", "final"} : pc' = [pc EXCEPT ![w] = r]
  /\ UNCHANGED <<rows, msg>>

(* WHERE id=? AND lease_token=?: another claim has taken the lease or not. *)
Holds(w) == token[msg[w]] = w

(* process_once returns to its loop; where the lease was lost OutboxLeaseLost *)
(* ends the process instead, and the one its supervisor starts is idle too.   *)
Forget(w) ==
  /\ msg' = [msg EXCEPT ![w] = NoEvent]
  /\ pc' = [pc EXCEPT ![w] = "idle"]

(* The outcome of mark_failed: the attempt in the message is the row's. *)
RetryAllowed(w) == pc[w] = "retryable" /\ attempts[msg[w]] < MaxAttempts

(* mark_delivered writes the log before it checks the lease, and rolls the *)
(* log back with it: see SettleLost.                                       *)
LogDelivery(w) == IF Holds(w) THEN logged \union {msg[w]} ELSE logged

MarkDelivered(w) ==
  /\ pc[w] = "ok" /\ Holds(w)
  /\ status' = [status EXCEPT ![msg[w]] = "processed"]
  /\ logged' = LogDelivery(w)
  /\ token' = [token EXCEPT ![msg[w]] = NoWorker]
  /\ expired' = [expired EXCEPT ![msg[w]] = FALSE]
  /\ Forget(w)
  /\ UNCHANGED <<attempts, due, created, replays>>

MarkFailed(w) ==
  /\ pc[w] \in {"retryable", "final"} /\ Holds(w)
  /\ status' = [status EXCEPT ![msg[w]] = IF RetryAllowed(w) THEN "retry" ELSE "dead_letter"]
  /\ due' = [due EXCEPT ![msg[w]] = FALSE]
  /\ token' = [token EXCEPT ![msg[w]] = NoWorker]
  /\ expired' = [expired EXCEPT ![msg[w]] = FALSE]
  /\ Forget(w)
  /\ UNCHANGED <<attempts, created, logged, replays>>

SettleLost(w) ==
  /\ pc[w] \in {"ok", "retryable", "final"} /\ ~ Holds(w)
  /\ logged' = IF pc[w] = "ok" THEN LogDelivery(w) ELSE logged
  /\ Forget(w)
  /\ UNCHANGED <<status, attempts, due, expired, token, created, replays>>

(* The worker's process dies with its message. *)
Crash(w) ==
  /\ pc[w] # "idle"
  /\ Forget(w)
  /\ UNCHANGED rows

-----------------------------------------------------------------------------
LeaseExpires(e) ==
  /\ status[e] = "processing" /\ ~ expired[e]
  /\ expired' = [expired EXCEPT ![e] = TRUE]
  /\ UNCHANGED <<status, attempts, due, token, created, logged, msg, pc, replays>>

DelayPasses(e) ==
  /\ status[e] \in {"retry", "dead_letter"} /\ ~ due[e]
  /\ due' = [due EXCEPT ![e] = TRUE]
  /\ UNCHANGED <<status, attempts, expired, token, created, logged, msg, pc, replays>>

(* replay_dead_letter, called by an operator. *)
ReplayDeadLetter(e) ==
  /\ status[e] = "dead_letter" /\ replays < MaxReplays
  /\ status' = [status EXCEPT ![e] = "pending"]
  /\ attempts' = [attempts EXCEPT ![e] = 0]
  /\ due' = [due EXCEPT ![e] = TRUE]
  /\ token' = [token EXCEPT ![e] = NoWorker]
  /\ expired' = [expired EXCEPT ![e] = FALSE]
  /\ replays' = replays + 1
  /\ UNCHANGED <<created, logged, msg, pc>>

WorkerStep(w) ==
  \/ Claim(w) \/ ClaimNothing(w)
  \/ Handle(w)
  \/ MarkDelivered(w) \/ MarkFailed(w) \/ SettleLost(w)

Next ==
  \/ \E e \in Events : Insert(e) \/ LeaseExpires(e) \/ DelayPasses(e) \/ ReplayDeadLetter(e)
  \/ \E w \in Workers : WorkerStep(w) \/ Crash(w)

Spec == Init /\ [][Next]_vars

(* Every worker keeps polling and its handler returns; time passes. *)
Fairness ==
  /\ \A w \in Workers : WF_vars(WorkerStep(w))
  /\ \A e \in Events : WF_vars(LeaseExpires(e)) /\ WF_vars(DelayPasses(e))

FairSpec == Spec /\ Fairness

-----------------------------------------------------------------------------
(* Exactly the processing rows carry a lease token, so that a worker whose   *)
(* WHERE clause matches its token settles a row no other claim has reached.  *)
LeaseHeld ==
  \A e \in Events : /\ status[e] = "processing" <=> token[e] # NoWorker
                    /\ expired[e] => status[e] = "processing"

(* However slow a worker is, and whoever took its lease meanwhile, the event *)
(* it hands to its handler has every earlier version of its lifecycle        *)
(* delivered: the consumer never meets version n+1 before version n.         *)
HandledInOrder ==
  \A w \in Workers, f \in Events :
    msg[w] # NoEvent /\ Lifecycle[f] = Lifecycle[msg[w]] /\ Version[f] < Version[msg[w]]
      => status[f] = "processed"

(* outbox_delivery_log lists the delivered events and no other, although it *)
(* is written before the lease is checked.                                  *)
LogMatches == logged = {e \in Events : status[e] = "processed"}

(* A row leaves processing for processed or dead_letter only by the worker *)
(* that holds its lease and is done with it, in that very step.            *)
SettledByHolder ==
  [][\A e \in Events :
       status[e] = "processing" /\ status'[e] \in {"processed", "dead_letter"}
         => \E w \in Workers : /\ token[e] = w /\ msg[w] = e
                               /\ msg'[w] = NoEvent /\ token'[e] = NoWorker]_vars

(* A head that is not to be claimed now: under a lease that has not run out, *)
(* in its retry delay, or waiting for an operator.                           *)
Held(e)      == Recovered[e] = "processing"
Delayed(e)   == Recovered[e] = "retry" /\ ~ DueAfter[e]
UsedUp(e)    == Recovered[e] = "retry" /\ attempts[e] = MaxAttempts

(* No undelivered event is overlooked: its stream has a head, and unless that *)
(* head is held, delayed or waits for an operator it may be claimed now, and  *)
(* an idle worker finds a row to claim; whatever became of the other streams. *)
NoStreamBlocksAnother ==
  \A e \in Events : Undelivered(e) =>
    \E h \in Events :
      /\ Stream[h] = Stream[e] /\ StreamHead(h)
      /\ \/ Held(h) \/ Delayed(h) \/ UsedUp(h) \/ Recovered[h] = "dead_letter"
         \/ Eligible(h) /\ \E f \in Events : FirstClaimable(f)

(* What the outbox promises, with the bookkeeping of leases and attempts *)
(* hidden.                                                               *)
DeliveryState ==
  [e \in Events |->
     CASE status[e] = "absent" -> "none"
       [] status[e] = "processed" -> "delivered"
       [] status[e] = "dead_letter" -> "dead"
       [] OTHER -> "waiting"]

Delivery == INSTANCE OrderedDelivery WITH state <- DeliveryState

ImplementsDelivery == Delivery!Spec

(* Every inserted event is delivered, unless its stream waits for an operator: *)
(* at a dead letter, or at a row whose attempts a lease used up.               *)
Exhausted(e) == status[e] = "retry" /\ attempts[e] = MaxAttempts
Blocked(e) ==
  \E f \in Events : Stream[f] = Stream[e] /\ (status[f] = "dead_letter" \/ Exhausted(f))
EventuallyDelivered ==
  \A e \in Events : Inserted(e) ~> status[e] = "processed" \/ Blocked(e)

(* An expired lease is recovered: the event is delivered or becomes a dead *)
(* letter that an operator sees and can replay.                            *)
LeaseRecovered ==
  \A e \in Events : LeaseRunOut(e) ~> status[e] \in {"processed", "dead_letter"}
=============================================================================
