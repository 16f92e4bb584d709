------------------------- MODULE MaintenanceDelivery -------------------------
(***************************************************************************)
(* The maintenance replay dispatcher: the outbox of ProjectOutbox with the *)
(* handler it is built with, which hands a machine's maintenance events to *)
(* gen_data.  The JSONL handler reads the file gen_data consumes and       *)
(* appends the event unless it is there; the HTTP handler looks for a      *)
(* receipt, POSTs the event and records a receipt.  Neither is one step:   *)
(* other workers, crashes and lost leases fall between its reads and its   *)
(* writes.                                                                 *)
(*                                                                         *)
(* The payload of an event never changes, so the conflicts both handlers   *)
(* detect between two payloads of one id do not arise.                     *)
(***************************************************************************)
EXTENDS ProjectOutbox, Sequences

CONSTANT
  Deployments    \* how the dispatchers may be started: over which transport,
                 \* which of them, and, as a bound, how many writes to the
                 \* JSONL file fail

ASSUME DeploymentAssumption ==
  /\ Deployments \subseteq
       [transport : {"jsonl", "http"}, dispatchers : SUBSET Workers, diskErrors : Nat]
  /\ \A d \in Deployments : IsFiniteSet(d.dispatchers)

VARIABLES
  transport,     \* ONTOLOGY_DASHBOARD_MAINTENANCE_REPLAY_TRANSPORT
  dispatchers,   \* the workers that were started
  maxDiskErrors,
  inbox,     \* what gen_data can read: the file's lines that hold one whole
             \* event, or the POSTs it accepted, in order
  tail,      \* the end of the file's last line: "line" (terminated), "bare" (a
             \* whole event but no newline) or "part" (cut off)
  joined,    \* events written in full on a line that holds more than them
  receipts,  \* maintenance_runtime_delivery_receipts
  stage,     \* how far each worker's handler is
  diskErrors

fileVars == <<inbox, tail, joined>>
handlerVars == <<fileVars, receipts, stage, diskErrors>>
deployment == <<transport, dispatchers, maxDiskErrors>>
deliveryVars == <<vars, handlerVars, deployment>>

Deployed(d) ==
  transport = d.transport /\ dispatchers = d.dispatchers /\ maxDiskErrors = d.diskErrors

DeploymentOK == \E d \in Deployments : Deployed(d)

InInbox(e) == \E i \in 1..Len(inbox) : inbox[i] = e

DeliveryTypeOK ==
  /\ TypeOK
  /\ DeploymentOK
  /\ inbox \in Seq(Events)
  /\ tail \in {"line", "bare", "part"}
  /\ joined \subseteq Events
  /\ receipts \subseteq Events
  /\ stage \in [Workers -> {"check", "send", "record", "insert"}]
  /\ diskErrors \in 0..maxDiskErrors

DeliveryInit ==
  /\ Init
  /\ DeploymentOK
  /\ inbox = <<>>
  /\ tail = "line"
  /\ joined = {}
  /\ receipts = {}
  /\ stage = [w \in Workers |-> "check"]
  /\ diskErrors = 0

-----------------------------------------------------------------------------
In(w, s) == pc[w] = "handling" /\ stage[w] = s

GoTo(w, s) == stage' = [stage EXCEPT ![w] = s] /\ UNCHANGED vars

(* The handler returns, or raises. *)
Return(w, result) ==
  /\ pc' = [pc EXCEPT ![w] = result]
  /\ stage' = [stage EXCEPT ![w] = "check"]
  /\ UNCHANGED <<rows, msg>>

(* Mutants of the definitions below. *)
NeverKnown(w)  == FALSE
TornIgnored(w) == FALSE

(* The JSONL handler raises ValueError on a file it cannot index. *)
Unreadable(w) == transport = "jsonl" /\ (tail = "part" \/ joined # {})

Known(w) == IF transport = "jsonl" THEN InInbox(msg[w]) ELSE msg[w] \in receipts

Check(w) ==
  /\ In(w, "check")
  /\ \/ Unreadable(w) /\ Return(w, "retryable")
     \/ ~ Unreadable(w) /\ Known(w) /\ Return(w, "ok")
     \/ ~ Unreadable(w) /\ ~ Known(w) /\ GoTo(w, "send")
  /\ UNCHANGED <<fileVars, receipts, diskErrors>>

(* How much of an event's line write, flush and fsync bring into the file. *)
Extents == {"nothing", "part", "bare", "line"}

(* It goes to the end of the file: behind a last line without a newline both *)
(* events, behind a cut off one the new event are on a line nobody can read. *)
Write(e, x) ==
  \/ x = "nothing" /\ UNCHANGED fileVars
  \/ /\ x # "nothing" /\ tail = "line"
     /\ inbox' = IF x = "part" THEN inbox ELSE Append(inbox, e)
     /\ tail' = x
     /\ UNCHANGED joined
  \/ /\ x # "nothing" /\ tail # "line"
     /\ inbox' = IF tail = "bare" THEN SubSeq(inbox, 1, Len(inbox) - 1) ELSE inbox
     /\ joined' = joined \union {f \in Events : \/ tail = "bare" /\ f = inbox[Len(inbox)]
                                                \/ x # "part" /\ f = e}
     /\ tail' = IF x = "line" THEN "line" ELSE "part"

AppendLine(w) ==
  /\ transport = "jsonl" /\ In(w, "send")
  /\ Write(msg[w], "line")
  /\ Return(w, "ok")
  /\ UNCHANGED <<receipts, diskErrors>>

(* OSError from any of the three calls: nothing of the line may be in the file, *)
(* some of it, all but its newline, or all of it.                               *)
AppendFails(w) ==
  /\ transport = "jsonl" /\ In(w, "send") /\ diskErrors < maxDiskErrors
  /\ diskErrors' = diskErrors + 1
  /\ \E x \in Extents : Write(msg[w], x)
  /\ Return(w, "retryable")
  /\ UNCHANGED receipts

(* gen_data accepts the POST and the answer arrives, is unusable, or is lost. *)
PostAccepted(w) ==
  /\ transport = "http" /\ In(w, "send")
  /\ inbox' = Append(inbox, msg[w])
  /\ GoTo(w, "record") \/ Return(w, "final") \/ Return(w, "retryable")
  /\ UNCHANGED <<tail, joined, receipts, diskErrors>>

(* What an answer that is not a success comes to: a 4xx is final, the rest may *)
(* be retried.                                                                 *)
NotAccepted(w) ==
  (Return(w, "final") \/ Return(w, "retryable")) /\ UNCHANGED <<fileVars, receipts, diskErrors>>

PostRefused(w) == transport = "http" /\ In(w, "send") /\ NotAccepted(w)

(* record: the receipt exists already, or is to be inserted ... *)
FindReceipt(w) ==
  /\ In(w, "record")
  /\ IF msg[w] \in receipts THEN Return(w, "ok") ELSE GoTo(w, "insert")
  /\ UNCHANGED <<fileVars, receipts, diskErrors>>

(* ... unless another worker has inserted it since: the primary key raises. *)
InsertReceipt(w) ==
  /\ In(w, "insert")
  /\ receipts' = receipts \union {msg[w]}
  /\ Return(w, IF msg[w] \in receipts THEN "retryable" ELSE "ok")
  /\ UNCHANGED <<fileVars, diskErrors>>

HandlerStep(w) ==
  \/ Check(w)
  \/ AppendLine(w) \/ AppendFails(w)
  \/ PostAccepted(w) \/ PostRefused(w)
  \/ FindReceipt(w) \/ InsertReceipt(w)

(* A crash also ends the handler. *)
CrashHandler(w) ==
  /\ Crash(w)
  /\ stage' = [stage EXCEPT ![w] = "check"]
  /\ UNCHANGED <<fileVars, receipts, diskErrors>>

OutboxStep ==
  \/ \E e \in Events : Insert(e) \/ LeaseExpires(e) \/ DelayPasses(e) \/ ReplayDeadLetter(e)
  \/ \E w \in dispatchers : \/ Claim(w) \/ ClaimNothing(w)
                            \/ MarkDelivered(w) \/ MarkFailed(w) \/ SettleLost(w)

DeliveryNext ==
  /\ \/ OutboxStep /\ UNCHANGED handlerVars
     \/ \E w \in dispatchers : HandlerStep(w) \/ CrashHandler(w)
  /\ UNCHANGED deployment

DeliverySpec == DeliveryInit /\ [][DeliveryNext]_deliveryVars

-----------------------------------------------------------------------------
(* What the outbox calls processed has reached gen_data, unless a write to the *)
(* file failed.  If one left a line without its newline, the event is known    *)
(* from then on, is processed, and the next line spoils it and itself; but     *)
(* then the file is refused, so that only what had passed the check goes the   *)
(* same way, however many writes fail: one event more than dispatchers.        *)
Lost == {e \in Events : status[e] = "processed" /\ ~ InInbox(e)}
ProcessedReached ==
  /\ diskErrors = 0 => Lost = {}
  /\ Cardinality(Lost) <= Cardinality(dispatchers) + 1

(* gen_data meets no event before it has met every earlier version of the same *)
(* maintenance action, whatever is redelivered: a restart is never requested   *)
(* of a machine whose maintenance it has not seen completed.                   *)
ReachedInOrder ==
  \A i \in 1..Len(inbox) : \A f \in Events :
    Lifecycle[f] = Lifecycle[inbox[i]] /\ Version[f] < Version[inbox[i]]
      => \E j \in 1..(i - 1) : inbox[j] = f

(* Only workers that read the file before the event was in it append it again: *)
(* redelivery after a crash adds no line, and a single dispatcher never writes *)
(* an event twice.                                                             *)
CopiesBounded ==
  transport = "jsonl" =>
    \A e \in Events :
      Cardinality({i \in 1..Len(inbox) : inbox[i] = e}) <= Cardinality(dispatchers)
=============================================================================
