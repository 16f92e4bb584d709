----------------------------- MODULE DiagnosisInbox -----------------------------
(***************************************************************************)
(* The Backend's inbox of prediction results: what becomes of a batch that *)
(* the generator posts (see PredictionDelivery) or an operator submits.  A *)
(* request receives the batch -- one transaction classifies it against     *)
(* what was received before and stores it -- and then, if it may, promotes *)
(* the accepted batch to Product Results in another transaction.           *)
(*                                                                         *)
(* Requests run side by side on PostgreSQL at READ COMMITTED.  A           *)
(* transaction takes its locks one after the other and gives all of them   *)
(* up when it ends.  Two requests that hold what the other waits for stay  *)
(* so until one of them dies, which is what the server's deadlock          *)
(* detection makes one of them do.                                         *)
(*                                                                         *)
(* A payload is a batch, and an item a result, as its digest sees it: the  *)
(* same content sent again is the same payload and the same items.  The    *)
(* digest sorts the results of a batch, so that one payload may list them  *)
(* in many orders; the generator always uses the same.                     *)
(***************************************************************************)
EXTENDS Naturals, Sequences, FiniteSets

CONSTANTS
  Handler,       \* requests the Backend serves at once
  Batch,         \* batch_id
  Event,         \* event_id of a result
  Item,          \* results: an event_id with a payload_sha256
  Payload,       \* batches: a batch_id with a payload_sha256
  EventOf,       \* EventOf[i]: the event of item i
  BatchOf,       \* BatchOf[p]: the batch of payload p
  Listings,      \* Listings[p]: the sequences in which its items may be sent;
                 \* the empty one if the schema refuses it
  Invalid,       \* Invalid[p]: items that fail the checksum, scope or lineage check
  Promotable,    \* Promotable[v]: predictions for an asset of dataset version v
  IdOrder,       \* IdOrder[e]: the place of e among the sorted event ids
  ResultOrder,   \* ResultOrder[e]: its place in the order of the generator's results
  Nobody,        \* the holder of a free lock
  Nothing,       \* no payload, no batch
  MaxVersions,   \* bound: versions of the dataset
  MaxRequests,   \* bound: requests ever made
  MaxFailures    \* bound: requests that die

ItemsIn(s) == {s[k] : k \in DOMAIN s}
ItemsOf(p) == UNION {ItemsIn(s) : s \in Listings[p]}

(* The generator sorts its results and lists no event twice.  The Backend  *)
(* takes any order, and an event as often as it is listed.                 *)
InOrder(s) ==
  \A j, k \in DOMAIN s : j < k => ResultOrder[EventOf[s[j]]] < ResultOrder[EventOf[s[k]]]
ListsTwice(s) == \E j, k \in DOMAIN s : j < k /\ EventOf[s[j]] = EventOf[s[k]]

ASSUME NameAssumption ==
  /\ Nobody \notin Handler
  /\ Nothing \notin Payload /\ Nothing \notin Batch

ASSUME OrderAssumption ==
  /\ IsFiniteSet(Event)
  /\ IdOrder \in [Event -> 1 .. Cardinality(Event)]
  /\ ResultOrder \in [Event -> 1 .. Cardinality(Event)]
  /\ \A d, e \in Event : IdOrder[d] = IdOrder[e] => d = e

ASSUME PayloadAssumption ==
  /\ EventOf \in [Item -> Event]
  /\ BatchOf \in [Payload -> Batch]
  /\ Invalid \in [Payload -> SUBSET Item]
  /\ DOMAIN Listings = Payload
  /\ \A p \in Payload : \A s \in Listings[p] : s \in Seq(Item) /\ ItemsIn(s) = ItemsOf(p)

ASSUME BoundAssumption ==
  /\ MaxVersions \in Nat \ {0}
  /\ MaxRequests \in Nat
  /\ MaxFailures \in Nat
  /\ Promotable \in [1 .. MaxVersions -> SUBSET Item]

VARIABLES
  \* the tables
  batchRow,      \* batchRow[p]: validation_status of the row of p, or "none"
  listed,        \* listed[p]: the order of the results in its raw_payload
  itemRow,       \* itemRow[i]: validation_status of the row of i, or "none"
  itemBatch,     \* itemBatch[i]: the batch_id in the row of i
  batchMark,     \* payloads whose row has its promotion_result_id
  itemMark,      \* items whose row has its promotion_result_id
  artifacts,     \* <<b, i, v>>: item i promoted from batch b into version v
  version,       \* dataset versions registered under the name the batches use
  \* the requests
  pc, kind, payload, listing, batch, pending, at, status, itemStatus, source, into, inserts,
  owner,         \* owner[l]: the request whose transaction holds lock l
  \* the generator
  delivery,      \* delivery[p]: what it has been told of p
  requests, failures

inbox     == <<batchRow, listed, itemRow, itemBatch>>
results   == <<batchMark, itemMark, artifacts>>
request   == <<kind, payload, batch>>
reception == <<pending, status, itemStatus>>
promotion == <<source, into, inserts>>
outside   == <<version, delivery, requests, failures>>
vars == <<inbox, results, pc, request, listing, reception, promotion, at, owner, outside>>

Verdict == {"accepted", "duplicate", "conflict", "rejected"}
Stored  == Verdict \ {"duplicate"}
Answer  == Verdict \cup {"none", "promoted", "unknown", "unresolved", "clash"}
Step    == {"idle", "lock_batch", "lock_events", "receive_batch", "receive_items",
            "context", "lock_accepted", "promote_items", "reply"}

(* Advisory locks on a batch id and on event ids; locks on rows. *)
BatchLock(b) == <<"batch", b>>
EventLock(e) == <<"event", e>>
RowLock(p)   == <<"row", p>>
ItemLock(i)  == <<"item", i>>
Lock == {BatchLock(b) : b \in Batch} \cup {EventLock(e) : e \in Event}
          \cup {RowLock(p) : p \in Payload} \cup {ItemLock(i) : i \in Item}

Received(b)   == {p \in Payload : BatchOf[p] = b /\ batchRow[p] # "none"}
AnyReceived(b) == Received(b)   \* mutant
Accepted(b)   == {p \in Received(b) : batchRow[p] = "accepted"}
ReceivedOf(e) == {i \in Item : EventOf[i] = e /\ itemRow[i] # "none"}

-----------------------------------------------------------------------------
(* The locks a request may be waiting for, in the state it is in.  A query *)
(* with LIMIT 1 may pick any of the rows it finds.                         *)
RowsToRead(p)  == IF batchRow[p] # "none" THEN {p} ELSE Received(BatchOf[p])
ItemsToRead(i) == IF itemRow[i] # "none" THEN {i} ELSE ReceivedOf(EventOf[i])
ItemsToMark(b, i) ==
  {j \in ReceivedOf(EventOf[i]) : itemRow[j] = "accepted" /\ itemBatch[j] = b}
AnyEvent(h) == pending[h]   \* mutant
NextEvents(h) == {e \in pending[h] : \A d \in pending[h] : IdOrder[e] <= IdOrder[d]}
ItemNow(h)    == listing[h][at[h]]
ToPromote(h)  == ItemNow(h) \in Promotable[into[h]]

Awaited(h) ==
  CASE pc[h] = "lock_batch"    -> {BatchLock(BatchOf[payload[h]])}
    [] pc[h] = "lock_events"   -> {EventLock(e) : e \in NextEvents(h)}
    [] pc[h] = "receive_batch" -> {RowLock(p) : p \in RowsToRead(payload[h])}
    [] pc[h] = "receive_items" /\ at[h] <= Len(listing[h]) ->
         {ItemLock(i) : i \in ItemsToRead(ItemNow(h))}
    [] pc[h] = "lock_accepted" -> {RowLock(p) : p \in Accepted(batch[h])}
    [] pc[h] = "promote_items" /\ at[h] <= Len(listing[h]) ->
         IF ToPromote(h) THEN {ItemLock(i) : i \in ItemsToMark(batch[h], ItemNow(h))} ELSE {}
    [] OTHER -> {}

(* A transaction does not wait for itself. *)
Free(h, l) == owner[l] \in {Nobody, h}

(* Take one of the locks, or none if there is no row to lock. *)
TakeOneOf(h, locks) ==
  IF locks = {} THEN UNCHANGED owner
  ELSE \E l \in locks : Free(h, l) /\ owner' = [owner EXCEPT ![l] = h]

TakeAllOf(h, locks) ==
  /\ \A l \in locks : Free(h, l)
  /\ owner' = [l \in Lock |-> IF l \in locks THEN h ELSE owner[l]]

NoStatus == [i \in Item |-> "none"]

Release(h) == owner' = [l \in Lock |-> IF owner[l] = h THEN Nobody ELSE owner[l]]

Init ==
  /\ batchRow = [p \in Payload |-> "none"]
  /\ listed = [p \in Payload |-> <<>>]
  /\ itemRow = [i \in Item |-> "none"]
  /\ itemBatch = [i \in Item |-> Nothing]
  /\ batchMark = {} /\ itemMark = {} /\ artifacts = {}
  /\ version = 0
  /\ pc = [h \in Handler |-> "idle"]
  /\ kind = [h \in Handler |-> "none"]
  /\ payload = [h \in Handler |-> Nothing]
  /\ listing = [h \in Handler |-> <<>>]
  /\ batch = [h \in Handler |-> Nothing]
  /\ pending = [h \in Handler |-> {}]
  /\ at = [h \in Handler |-> 1]
  /\ status = [h \in Handler |-> "none"]
  /\ itemStatus = [h \in Handler |-> NoStatus]
  /\ source = [h \in Handler |-> Nothing]
  /\ into = [h \in Handler |-> 0]
  /\ inserts = [h \in Handler |-> {}]
  /\ owner = [l \in Lock |-> Nobody]
  /\ delivery = [p \in Payload |-> "open"]
  /\ requests = 0 /\ failures = 0

-----------------------------------------------------------------------------
(* ------------------------------- requests ------------------------------ *)
Begin(h, k, p, s, b, step) ==
  /\ pc[h] = "idle"
  /\ requests < MaxRequests
  /\ requests' = requests + 1
  /\ pc' = [pc EXCEPT ![h] = step]
  /\ kind' = [kind EXCEPT ![h] = k]
  /\ payload' = [payload EXCEPT ![h] = p]
  /\ listing' = [listing EXCEPT ![h] = s]
  /\ batch' = [batch EXCEPT ![h] = b]
  /\ UNCHANGED <<inbox, results, reception, promotion, at, owner, version, delivery,
                 failures>>

(* The generator posts a batch it has not settled: for the first time, or  *)
(* again while the Backend may still be busy with an earlier POST of it.   *)
Post(h, p) ==
  /\ delivery[p] = "open"
  /\ \E s \in Listings[p] : InOrder(s) /\ Begin(h, "internal", p, s, BatchOf[p], "lock_batch")

(* The public endpoints: receive only, and promote what was accepted. *)
Submit(h, p) ==
  \E s \in Listings[p] : Begin(h, "receive", p, s, BatchOf[p], "lock_batch")
Promote(h, b) == Begin(h, "promote", Nothing, <<>>, b, "context")

(* A new version of the dataset is registered; versions may share the name *)
(* the batches use, and a batch resolves to the newest.                    *)
RegisterVersion ==
  /\ version < MaxVersions
  /\ version' = version + 1
  /\ UNCHANGED <<inbox, results, pc, request, listing, reception, promotion, at, owner,
                 delivery, requests, failures>>

-----------------------------------------------------------------------------
(* ---------------------------- receive a batch -------------------------- *)
LockBatch(h) ==
  /\ pc[h] = "lock_batch"
  /\ TakeOneOf(h, Awaited(h))
  /\ pending' = [pending EXCEPT ![h] = {EventOf[i] : i \in ItemsOf(payload[h])}]
  /\ pc' = [pc EXCEPT ![h] = "lock_events"]
  /\ UNCHANGED <<inbox, results, request, listing, status, itemStatus, promotion, at, outside>>

(* The events in the order of their ids. *)
LockEvent(h) ==
  /\ pc[h] = "lock_events"
  /\ \E e \in NextEvents(h) :
       /\ TakeOneOf(h, {EventLock(e)})
       /\ pending' = [pending EXCEPT ![h] = @ \ {e}]
  /\ UNCHANGED <<inbox, results, pc, request, listing, status, itemStatus, promotion, at, outside>>

EventsLocked(h) ==
  /\ pc[h] = "lock_events"
  /\ pending[h] = {}
  /\ pc' = [pc EXCEPT ![h] = "receive_batch"]
  /\ UNCHANGED <<inbox, results, request, listing, reception, promotion, at, owner, outside>>

(* What the batch is by itself, and by what was received before. *)
Validated(p) ==
  IF ItemsOf(p) = {} \/ ItemsOf(p) \cap Invalid[p] # {} THEN "rejected" ELSE "accepted"

BatchStatus(p) ==
  IF batchRow[p] # "none" THEN "duplicate"
  ELSE IF Received(BatchOf[p]) # {} THEN "conflict"
  ELSE Validated(p)

ItemStatus(p, i) ==
  IF itemRow[i] # "none" THEN "duplicate"
  ELSE IF ReceivedOf(EventOf[i]) # {} THEN "conflict"
  ELSE IF i \in Invalid[p] THEN "rejected"
  ELSE "accepted"

(* An item that is not received makes its batch not received. *)
Combined(old, new) ==
  IF new = "conflict" \/ (new = "rejected" /\ old # "conflict") THEN new ELSE old

ReceiveBatch(h) ==
  /\ pc[h] = "receive_batch"
  /\ TakeOneOf(h, Awaited(h))
  /\ status' = [status EXCEPT ![h] = BatchStatus(payload[h])]
  /\ pc' = [pc EXCEPT ![h] = "receive_items"]
  /\ UNCHANGED <<inbox, results, request, listing, pending, itemStatus, promotion, at, outside>>

ReceiveItem(h) ==
  /\ pc[h] = "receive_items"
  /\ at[h] <= Len(listing[h])
  /\ TakeOneOf(h, Awaited(h))
  /\ LET i   == ItemNow(h)
         new == ItemStatus(payload[h], i)
     IN  /\ itemStatus' = [itemStatus EXCEPT ![h][i] = new]
         /\ status' = [status EXCEPT ![h] = Combined(@, new)]
  /\ at' = [at EXCEPT ![h] = @ + 1]
  /\ UNCHANGED <<inbox, results, pc, request, listing, pending, promotion, outside>>

NewItems(h) == {i \in Item : itemStatus[h][i] \in Stored}

(* The unique indexes allow one accepted row per batch and per event, be   *)
(* the other one stored before or inserted for an earlier result.          *)
ReceiptClashes(h) ==
  \/ status[h] = "accepted" /\ Accepted(batch[h]) # {}
  \/ \E i \in NewItems(h) : itemStatus[h][i] = "accepted"
       /\ \E j \in ReceivedOf(EventOf[i]) : itemRow[j] = "accepted"
  \/ \E j, k \in DOMAIN listing[h] :
       /\ j < k /\ EventOf[listing[h][j]] = EventOf[listing[h][k]]
       /\ \A i \in {listing[h][j], listing[h][k]} : itemStatus[h][i] = "accepted"

(* The internal endpoint promotes at once, the public one does not. *)
OnceAccepted(k, s) == k = "internal" /\ s = "accepted"   \* mutant
GoesOn(k, s) == k = "internal" /\ s \in {"accepted", "duplicate"}

Ended(h, s) ==
  /\ Release(h)
  /\ status' = [status EXCEPT ![h] = s]

(* A duplicate stores nothing. *)
StoreReceipt(h) ==
  /\ pc[h] = "receive_items"
  /\ at[h] > Len(listing[h])
  /\ IF status[h] # "duplicate" /\ ReceiptClashes(h)
     THEN /\ Ended(h, "clash")
          /\ pc' = [pc EXCEPT ![h] = "reply"]
          /\ UNCHANGED inbox
     ELSE /\ Ended(h, status[h])
          /\ pc' = [pc EXCEPT ![h] =
                      IF GoesOn(kind[h], status[h]) THEN "context" ELSE "reply"]
          /\ IF status[h] = "duplicate" THEN UNCHANGED inbox
             ELSE /\ batchRow' = [batchRow EXCEPT ![payload[h]] = status[h]]
                  /\ listed' = [listed EXCEPT ![payload[h]] = listing[h]]
                  /\ itemRow' = [i \in Item |-> IF i \in NewItems(h)
                                                THEN itemStatus[h][i] ELSE itemRow[i]]
                  /\ itemBatch' = [i \in Item |-> IF i \in NewItems(h)
                                                  THEN batch[h] ELSE itemBatch[i]]
  /\ itemStatus' = [itemStatus EXCEPT ![h] = NoStatus]
  /\ at' = [at EXCEPT ![h] = 1]
  /\ UNCHANGED <<results, request, listing, pending, promotion, outside>>

-----------------------------------------------------------------------------
(* ---------------------------- promote a batch -------------------------- *)
(* The payload to promote is read in a transaction of its own, that of the *)
(* accepted row: an operator is told when there is none, a duplicate keeps *)
(* its receipt, and without a dataset version the request fails.           *)
ReadContext(h) ==
  /\ pc[h] = "context"
  /\ \/ /\ Accepted(batch[h]) = {}
        /\ status' = [status EXCEPT ![h] = IF kind[h] = "internal" THEN @ ELSE "unknown"]
        /\ pc' = [pc EXCEPT ![h] = "reply"]
        /\ UNCHANGED <<listing, source, into>>
     \/ /\ Accepted(batch[h]) # {} /\ version = 0
        /\ status' = [status EXCEPT ![h] = "unresolved"]
        /\ pc' = [pc EXCEPT ![h] = "reply"]
        /\ UNCHANGED <<listing, source, into>>
     \/ /\ version > 0
        /\ \E p \in Accepted(batch[h]) : /\ source' = [source EXCEPT ![h] = p]
                                         /\ listing' = [listing EXCEPT ![h] = listed[p]]
        /\ into' = [into EXCEPT ![h] = version]
        /\ pc' = [pc EXCEPT ![h] = "lock_accepted"]
        /\ UNCHANGED status
  /\ UNCHANGED <<inbox, results, request, pending, itemStatus, inserts, at, owner, outside>>

AcceptedUnlocked(h) ==   \* mutant
  /\ pc[h] = "lock_accepted"
  /\ pc' = [pc EXCEPT ![h] = "promote_items"]
  /\ UNCHANGED <<inbox, results, request, listing, reception, promotion, at, owner, outside>>

LockAccepted(h) ==
  /\ pc[h] = "lock_accepted"
  /\ TakeOneOf(h, Awaited(h))
  /\ pc' = [pc EXCEPT ![h] = "promote_items"]
  /\ UNCHANGED <<inbox, results, request, listing, reception, promotion, at, outside>>

(* A result is found again by its batch, event and dataset version, be it  *)
(* stored before or inserted for an earlier result of the same batch.      *)
HasArtifact(b, e, v) == \E i \in Item : EventOf[i] = e /\ <<b, i, v>> \in artifacts
Found(h, e) ==
  HasArtifact(batch[h], e, into[h]) \/ \E i \in inserts[h] : EventOf[i] = e

PromoteItem(h) ==
  /\ pc[h] = "promote_items"
  /\ at[h] <= Len(listing[h])
  /\ inserts' = [inserts EXCEPT ![h] = IF ToPromote(h) /\ ~ Found(h, EventOf[ItemNow(h)])
                                       THEN @ \cup {ItemNow(h)} ELSE @]
  /\ TakeAllOf(h, Awaited(h))
  /\ at' = [at EXCEPT ![h] = @ + 1]
  /\ UNCHANGED <<inbox, results, pc, request, listing, reception, source, into, outside>>

(* A prediction's own key does not name the dataset version. *)
PromotionClashes(h) ==
  \E i \in inserts[h] : \E v \in 1 .. MaxVersions : HasArtifact(batch[h], EventOf[i], v)

SavePromotions(h) ==
  /\ pc[h] = "promote_items"
  /\ at[h] > Len(listing[h])
  /\ pc' = [pc EXCEPT ![h] = "reply"]
  /\ IF PromotionClashes(h)
     THEN Ended(h, "clash") /\ UNCHANGED results
     ELSE /\ Ended(h, IF kind[h] = "promote" THEN "promoted" ELSE status[h])
          /\ artifacts' = artifacts \cup {<<batch[h], i, into[h]>> : i \in inserts[h]}
          /\ itemMark' = itemMark \cup {i \in Item : owner[ItemLock(i)] = h}
          /\ batchMark' = IF ItemsOf(source[h]) \cap Promotable[into[h]] = {} THEN batchMark
                          ELSE batchMark \cup {p \in Payload : owner[RowLock(p)] = h}
  /\ UNCHANGED <<inbox, request, listing, pending, itemStatus, promotion, at, outside>>

-----------------------------------------------------------------------------
(* ------------------------ answers and failures ------------------------- *)
Forget(h) ==
  /\ pc' = [pc EXCEPT ![h] = "idle"]
  /\ kind' = [kind EXCEPT ![h] = "none"]
  /\ payload' = [payload EXCEPT ![h] = Nothing]
  /\ listing' = [listing EXCEPT ![h] = <<>>]
  /\ batch' = [batch EXCEPT ![h] = Nothing]
  /\ pending' = [pending EXCEPT ![h] = {}]
  /\ at' = [at EXCEPT ![h] = 1]
  /\ status' = [status EXCEPT ![h] = "none"]
  /\ itemStatus' = [itemStatus EXCEPT ![h] = NoStatus]
  /\ source' = [source EXCEPT ![h] = Nothing]
  /\ into' = [into EXCEPT ![h] = 0]
  /\ inserts' = [inserts EXCEPT ![h] = {}]

(* 202 and 200 settle a delivery, 409 and 422 end it, 500 is retried. *)
Told(old, s) ==
  IF old # "open" THEN old
  ELSE IF s \in {"accepted", "duplicate"} THEN "delivered"
  ELSE IF s \in {"conflict", "rejected"} THEN "refused"
  ELSE old

Reply(h) ==
  /\ pc[h] = "reply"
  /\ delivery' = IF kind[h] = "internal"
                 THEN [delivery EXCEPT ![payload[h]] = Told(@, status[h])] ELSE delivery
  /\ Forget(h)
  /\ UNCHANGED <<inbox, results, owner, version, requests, failures>>

(* A request dies at any step, be it aborted to end a deadlock, or its     *)
(* answer is lost.                                                         *)
Dies(h) ==
  /\ pc[h] # "idle"
  /\ failures < MaxFailures
  /\ failures' = failures + 1
  /\ Release(h)
  /\ Forget(h)
  /\ UNCHANGED <<inbox, results, version, delivery, requests>>

Next ==
  \/ \E h \in Handler :
       \/ \E p \in Payload : Post(h, p) \/ Submit(h, p)
       \/ \E b \in Batch : Promote(h, b)
       \/ LockBatch(h) \/ LockEvent(h) \/ EventsLocked(h)
       \/ ReceiveBatch(h) \/ ReceiveItem(h) \/ StoreReceipt(h)
       \/ ReadContext(h) \/ LockAccepted(h) \/ PromoteItem(h) \/ SavePromotions(h)
       \/ Reply(h) \/ Dies(h)
  \/ RegisterVersion

Spec == Init /\ [][Next]_vars

-----------------------------------------------------------------------------
(* Every variable has its type. *)
TypeOK ==
  /\ batchRow \in [Payload -> Stored \cup {"none"}]
  /\ listed \in [Payload -> Seq(Item)]
  /\ itemRow \in [Item -> Stored \cup {"none"}]
  /\ itemBatch \in [Item -> Batch \cup {Nothing}]
  /\ batchMark \subseteq Payload /\ itemMark \subseteq Item
  /\ artifacts \subseteq Batch \X Item \X (1 .. MaxVersions)
  /\ version \in 0 .. MaxVersions
  /\ pc \in [Handler -> Step]
  /\ kind \in [Handler -> {"none", "internal", "receive", "promote"}]
  /\ payload \in [Handler -> Payload \cup {Nothing}]
  /\ listing \in [Handler -> Seq(Item)]
  /\ batch \in [Handler -> Batch \cup {Nothing}]
  /\ pending \in [Handler -> SUBSET Event]
  /\ at \in [Handler -> Nat \ {0}]
  /\ status \in [Handler -> Answer]
  /\ itemStatus \in [Handler -> [Item -> Verdict \cup {"none"}]]
  /\ source \in [Handler -> Payload \cup {Nothing}]
  /\ into \in [Handler -> 0 .. MaxVersions]
  /\ inserts \in [Handler -> SUBSET Item]
  /\ owner \in [Lock -> Handler \cup {Nobody}]
  /\ delivery \in [Payload -> {"open", "delivered", "refused"}]
  /\ requests \in 0 .. MaxRequests /\ failures \in 0 .. MaxFailures

(* Requests that go through results in the generator's order never wait    *)
(* for each other in a circle: in any set of them there is one that waits  *)
(* for nothing another of them holds, whichever rows its queries pick.     *)
(* (Advisory locks are taken batch first and then in the order of event    *)
(* ids, row locks after them in the order of the results, by the reception *)
(* as by the promotion.)  Of results in two orders it is not so.           *)
NoCircularWait ==
  \A S \in (SUBSET {h \in Handler : InOrder(listing[h])}) \ {{}} :
    \E h \in S : \A l \in Awaited(h) : owner[l] \notin S \ {h}

(* What is promoted from a batch is the content accepted under its id,     *)
(* and that is one content, however many others came under the same id.    *)
PromotedIsAccepted ==
  /\ \A p, q \in Payload :
       batchRow[p] = "accepted" /\ batchRow[q] = "accepted" /\ BatchOf[p] = BatchOf[q] => p = q
  /\ \A a \in artifacts :
       \E p \in Payload : /\ BatchOf[p] = a[1] /\ batchRow[p] = "accepted"
                          /\ a[2] \in ItemsOf(p) \cap Promotable[a[3]]

(* Concurrent and repeated requests never run into a unique index: one     *)
(* fails on it only when a result of the batch was promoted into another   *)
(* version of the dataset, or an operator's batch lists an event twice.    *)
ClashExplained(h) ==
  \/ \E i \in Item, v \in 1 .. MaxVersions : v # into[h] /\ <<batch[h], i, v>> \in artifacts
  \/ kind[h] = "receive" /\ ListsTwice(listing[h])

OnlyExplainedClashes == \A h \in Handler : status[h] = "clash" => ClashExplained(h)

(* When the generator is told that an accepted batch is delivered, its     *)
(* predictions are Product Results: no crash between the reception and the *)
(* promotion is forgotten by a retry that finds a duplicate.               *)
Promoted(p, v) ==
  \A i \in ItemsOf(p) \cap Promotable[v] :
    \E w \in 1 .. version : HasArtifact(BatchOf[p], EventOf[i], w)

DeliveredMeansPromoted ==
  \A p \in Payload : delivery[p] = "delivered" /\ batchRow[p] = "accepted" =>
    \E v \in 1 .. version : Promoted(p, v)

(* What a payload has come to, and what both ends of the delivery keep to:  *)
(* the generator is told that a batch is delivered only when the Backend    *)
(* is done with it, and that it is refused only when it is; an accepted     *)
(* payload is never refused after all, and a promoted one stays promoted.   *)
Receipt(p) ==
  CASE batchRow[p] = "none" -> "none"
    [] batchRow[p] \in {"conflict", "rejected"} -> "refused"
    [] OTHER -> IF \E v \in 1 .. version : Promoted(p, v) THEN "promoted" ELSE "accepted"

Delivery == INSTANCE BatchDelivery WITH receipt <- [p \in Payload |-> Receipt(p)],
                                        told <- delivery

ImplementsDelivery == Delivery!Spec
=============================================================================
