------------------------- MODULE DiagnosisInboxProofs -------------------------
(***************************************************************************)
(* Theorems about DiagnosisInbox, for any number of requests, batches and  *)
(* results.  The inductive invariant IInv says what the locks of a request *)
(* protect: while it receives a batch nobody else stores a row of that     *)
(* batch or of its events, so what it found of them stays true until it    *)
(* commits; while it promotes, nobody else promotes the same batch.        *)
(***************************************************************************)
EXTENDS DiagnosisInbox, FiniteSetTheorems, WellFoundedInduction, TLAPS

Receiving == {"lock_batch", "lock_events", "receive_batch", "receive_items"}
Promoting == {"lock_accepted", "promote_items"}
EventsOf(p) == {EventOf[i] : i \in ItemsOf(p)}
EventsBefore(s, k) == {EventOf[s[j]] : j \in {j \in DOMAIN s : j < k}}

(* What a request in a given step is about. *)
RequestOK(h) ==
  /\ pc[h] \in Receiving =>
       /\ payload[h] \in Payload /\ listing[h] \in Listings[payload[h]]
       /\ kind[h] \in {"internal", "receive"}
       /\ kind[h] = "internal" => InOrder(listing[h])
  /\ pc[h] # "idle" => batch[h] \in Batch
  /\ payload[h] \in Payload => batch[h] = BatchOf[payload[h]]
  /\ pc[h] # "idle" /\ kind[h] = "internal" => payload[h] \in Payload
  /\ pc[h] \notin {"receive_items", "promote_items", "reply"} => at[h] = 1

(* What the reception has found stays true. *)
ReceptionOK(h) ==
  /\ \A i \in Item : itemStatus[h][i] # "none" =>
       pc[h] = "receive_items" /\ i \in ItemsOf(payload[h])
  /\ pc[h] = "receive_items" =>
       /\ status[h] \in Verdict
       /\ batchRow[payload[h]] # "none" => status[h] = "duplicate"
       /\ status[h] = "duplicate" => batchRow[payload[h]] # "none"
       /\ status[h] = "accepted" => Received(batch[h]) = {}
       /\ \A k \in DOMAIN listing[h] : k < at[h] => itemStatus[h][listing[h][k]] \in Verdict
       /\ \A i \in Item : itemStatus[h][i] = "duplicate" => itemRow[i] # "none"
       /\ \A i \in Item : itemStatus[h][i] = "accepted" => ReceivedOf(EventOf[i]) = {}

(* What the promotion has read stays true, and it has dealt with the       *)
(* results it has passed.                                                  *)
PromotionOK(h) ==
  /\ pc[h] \notin Promoting \cup {"reply"} => inserts[h] = {}
  /\ pc[h] \in Promoting =>
       /\ source[h] \in Accepted(batch[h]) /\ listing[h] \in Listings[source[h]]
       /\ into[h] \in 1 .. version
       /\ inserts[h] \subseteq ItemsOf(source[h]) \cap Promotable[into[h]]
       /\ \A i \in inserts[h] : ~ HasArtifact(batch[h], EventOf[i], into[h])
  /\ pc[h] = "lock_accepted" => inserts[h] = {}
  /\ pc[h] = "promote_items" =>
       \A k \in DOMAIN listing[h] : k < at[h] =>
         LET i == listing[h][k] IN i \in Promotable[into[h]] => Found(h, EventOf[i])

(* What an answer says. *)
AnswerOK(h) ==
  /\ status[h] = "clash" => pc[h] = "reply" /\ ClashExplained(h)
  /\ pc[h] \in {"context", "reply"} \cup Promoting /\ kind[h] = "internal"
       /\ status[h] \in {"accepted", "duplicate"} => batchRow[payload[h]] # "none"
  /\ pc[h] = "reply" /\ kind[h] = "internal" /\ status[h] \in {"accepted", "duplicate"}
       /\ batchRow[payload[h]] = "accepted" => \E v \in 1 .. version : Promoted(payload[h], v)

(* The locks a request holds in each step: at least, and at most. *)
HoldsOK(h) ==
  /\ \A b \in Batch : owner[BatchLock(b)] = h <=>
       pc[h] \in Receiving \ {"lock_batch"} /\ b = batch[h]
  /\ \A e \in Event : owner[EventLock(e)] = h <=>
       \/ pc[h] = "lock_events" /\ e \in EventsOf(payload[h]) \ pending[h]
       \/ pc[h] \in {"receive_batch", "receive_items"} /\ e \in EventsOf(payload[h])
  /\ \A p \in Payload : owner[RowLock(p)] = h =>
       \/ pc[h] = "receive_items"
       \/ pc[h] = "promote_items"
  /\ pc[h] = "promote_items" => owner[RowLock(source[h])] = h
  /\ \A i \in Item : owner[ItemLock(i)] = h =>
       \/ pc[h] = "receive_items" /\ EventOf[i] \in EventsBefore(listing[h], at[h])
       \/ pc[h] = "promote_items" /\ EventOf[i] \in EventsBefore(listing[h], at[h])
  /\ pc[h] = "lock_events" =>
       /\ pending[h] \subseteq EventsOf(payload[h])
       /\ \A d \in pending[h], e \in EventsOf(payload[h]) \ pending[h] : IdOrder[e] < IdOrder[d]

(* What is stored. *)
TablesOK ==
  /\ \A p, q \in Payload :
       batchRow[p] = "accepted" /\ batchRow[q] = "accepted" /\ BatchOf[p] = BatchOf[q] => p = q
  /\ \A p \in Payload : batchRow[p] # "none" =>
       listed[p] \in Listings[p] /\ \A i \in ItemsOf(p) : itemRow[i] # "none"
  /\ \A a \in artifacts :
       \E p \in Payload : /\ BatchOf[p] = a[1] /\ batchRow[p] = "accepted"
                          /\ a[2] \in ItemsOf(p) \cap Promotable[a[3]]
  /\ \A p \in Payload : delivery[p] = "delivered" => batchRow[p] # "none"

IInv ==
  /\ TypeOK
  /\ TablesOK
  /\ DeliveredMeansPromoted
  /\ \A h \in Handler : /\ RequestOK(h)
                        /\ ReceptionOK(h)
                        /\ PromotionOK(h)
                        /\ AnswerOK(h)
                        /\ HoldsOK(h)

-----------------------------------------------------------------------------
(* ------------------------------- locks --------------------------------- *)
LEMMA LockKinds ==
  /\ \A b \in Batch : BatchLock(b) \in Lock
  /\ \A e \in Event : EventLock(e) \in Lock
  /\ \A p \in Payload : RowLock(p) \in Lock
  /\ \A i \in Item : ItemLock(i) \in Lock
  /\ \A b, c : BatchLock(b) = BatchLock(c) => b = c
  /\ \A b, c : EventLock(b) = EventLock(c) => b = c
  /\ \A b, c : RowLock(b) = RowLock(c) => b = c
  /\ \A b, c : ItemLock(b) = ItemLock(c) => b = c
  /\ \A b, c : /\ BatchLock(b) # EventLock(c) /\ BatchLock(b) # RowLock(c)
               /\ BatchLock(b) # ItemLock(c) /\ EventLock(b) # RowLock(c)
               /\ EventLock(b) # ItemLock(c) /\ RowLock(b) # ItemLock(c)
<1>1. /\ \A b, c : BatchLock(b) = BatchLock(c) => b = c
      /\ \A b, c : EventLock(b) = EventLock(c) => b = c
      /\ \A b, c : RowLock(b) = RowLock(c) => b = c
      /\ \A b, c : ItemLock(b) = ItemLock(c) => b = c
  BY DEF BatchLock, EventLock, RowLock, ItemLock
<1>2. \A b, c : /\ BatchLock(b) # EventLock(c) /\ BatchLock(b) # RowLock(c)
                /\ BatchLock(b) # ItemLock(c) /\ EventLock(b) # RowLock(c)
                /\ EventLock(b) # ItemLock(c) /\ RowLock(b) # ItemLock(c)
  BY DEF BatchLock, EventLock, RowLock, ItemLock
<1>3. /\ \A b \in Batch : BatchLock(b) \in Lock
      /\ \A e \in Event : EventLock(e) \in Lock
      /\ \A p \in Payload : RowLock(p) \in Lock
      /\ \A i \in Item : ItemLock(i) \in Lock
  BY DEF Lock
<1>4. QED
  BY <1>1, <1>2, <1>3

(* Another request holds the same locks as before. *)
SameHolds(g) == \A l \in Lock : owner'[l] = g <=> owner[l] = g

LEMMA TakeOneEffect ==
  ASSUME TypeOK, NEW h \in Handler, NEW locks \in SUBSET Lock, TakeOneOf(h, locks)
  PROVE  /\ owner' \in [Lock -> Handler \cup {Nobody}]
         /\ \A g \in Handler : g # h => SameHolds(g)
         /\ \A l \in Lock : owner'[l] # owner[l] => l \in locks /\ owner'[l] = h
         /\ \A l \in Lock : locks = {l} => owner'[l] = h
<1>1. CASE locks = {}
  BY <1>1 DEF TakeOneOf, TypeOK, SameHolds
<1>2. CASE locks # {}
  <2>1. PICK l \in locks : Free(h, l) /\ owner' = [owner EXCEPT ![l] = h]
    BY <1>2 DEF TakeOneOf
  <2>2. l \in Lock /\ owner \in [Lock -> Handler \cup {Nobody}] /\ owner[l] \in {Nobody, h}
    BY <2>1 DEF TypeOK, Free
  <2>3. \A g \in Handler : g # Nobody
    BY NameAssumption
  <2>4. owner' \in [Lock -> Handler \cup {Nobody}]
    BY <2>1, <2>2
  <2>5. \A k \in Lock : owner'[k] = IF k = l THEN h ELSE owner[k]
    BY <2>1, <2>2
  <2>6. \A g \in Handler : g # h => SameHolds(g)
    BY <2>2, <2>3, <2>5 DEF SameHolds
  <2>7. QED
    BY <2>1, <2>4, <2>5, <2>6
<1>3. QED
  BY <1>1, <1>2

LEMMA TakeAllEffect ==
  ASSUME TypeOK, NEW h \in Handler, NEW locks \in SUBSET Lock, TakeAllOf(h, locks)
  PROVE  /\ owner' \in [Lock -> Handler \cup {Nobody}]
         /\ \A g \in Handler : g # h => SameHolds(g)
         /\ \A l \in Lock : owner'[l] # owner[l] => l \in locks /\ owner'[l] = h
         /\ \A l \in locks : owner'[l] = h
<1>1. owner \in [Lock -> Handler \cup {Nobody}] /\ \A l \in locks : owner[l] \in {Nobody, h}
  BY DEF TypeOK, TakeAllOf, Free
<1>2. \A k \in Lock : owner'[k] = IF k \in locks THEN h ELSE owner[k]
  BY DEF TakeAllOf
<1>3. owner' \in [Lock -> Handler \cup {Nobody}]
  BY <1>1 DEF TakeAllOf
<1>4. \A g \in Handler : g # Nobody
  BY NameAssumption
<1>5. QED
  BY <1>1, <1>2, <1>3, <1>4 DEF SameHolds

LEMMA ReleaseEffect ==
  ASSUME TypeOK, NEW h \in Handler, Release(h)
  PROVE  /\ owner' \in [Lock -> Handler \cup {Nobody}]
         /\ \A g \in Handler : g # h => SameHolds(g)
         /\ \A l \in Lock : owner'[l] # h
<1>1. owner \in [Lock -> Handler \cup {Nobody}]
  BY DEF TypeOK
<1>2. \A k \in Lock : owner'[k] = IF owner[k] = h THEN Nobody ELSE owner[k]
  BY DEF Release
<1>3. owner' \in [Lock -> Handler \cup {Nobody}]
  BY <1>1 DEF Release
<1>4. \A g \in Handler : g # Nobody
  BY NameAssumption
<1>5. QED
  BY <1>2, <1>3, <1>4 DEF SameHolds

LEMMA AwaitedAreLocks ==
  ASSUME TypeOK, NEW h \in Handler, RequestOK(h), PromotionOK(h)
  PROVE  Awaited(h) \in SUBSET Lock
<1>1. /\ \A b : Received(b) \subseteq Payload /\ Accepted(b) \subseteq Payload
      /\ \A e : ReceivedOf(e) \subseteq Item
  BY DEF Received, Accepted, ReceivedOf
<1>2. /\ EventOf \in [Item -> Event] /\ BatchOf \in [Payload -> Batch]
      /\ listing[h] \in Seq(Item) /\ at[h] \in Nat \ {0}
  BY PayloadAssumption DEF TypeOK
<1>3. CASE pc[h] = "lock_batch"
  BY <1>2, <1>3, LockKinds DEF Awaited, RequestOK, Receiving
<1>4. CASE pc[h] = "lock_events"
  BY <1>4, LockKinds DEF Awaited, NextEvents, TypeOK
<1>5. CASE pc[h] = "receive_batch"
  BY <1>1, <1>5, LockKinds DEF Awaited, RowsToRead, RequestOK, Receiving
<1>6. CASE pc[h] = "receive_items"
  <2>1. CASE at[h] <= Len(listing[h])
    <3>1. ItemNow(h) \in Item
      BY <1>2, <2>1 DEF ItemNow
    <3>2. ItemsToRead(ItemNow(h)) \subseteq Item
      BY <1>1, <3>1 DEF ItemsToRead
    <3>3. Awaited(h) = {ItemLock(i) : i \in ItemsToRead(ItemNow(h))}
      BY <1>6, <2>1 DEF Awaited
    <3>4. QED
      BY <3>2, <3>3, LockKinds
  <2>2. CASE ~ (at[h] <= Len(listing[h]))
    BY <1>6, <2>2 DEF Awaited
  <2>3. QED
    BY <2>1, <2>2
<1>7. CASE pc[h] = "lock_accepted"
  BY <1>1, <1>7, LockKinds DEF Awaited
<1>8. CASE pc[h] = "promote_items"
  <2>1. \A b, i : ItemsToMark(b, i) \subseteq Item
    BY <1>1 DEF ItemsToMark
  <2>2. Awaited(h) = {} \/ Awaited(h) = {ItemLock(i) : i \in ItemsToMark(batch[h], ItemNow(h))}
    BY <1>8 DEF Awaited
  <2>3. QED
    BY <2>1, <2>2, LockKinds
<1>9. CASE pc[h] \in {"idle", "context", "reply"}
  BY <1>9 DEF Awaited
<1>10. QED
  BY <1>3, <1>4, <1>5, <1>6, <1>7, <1>8, <1>9 DEF TypeOK, Step

LEMMA Typed ==
  ASSUME TypeOK
  PROVE  /\ EventOf \in [Item -> Event] /\ BatchOf \in [Payload -> Batch]
         /\ Invalid \in [Payload -> SUBSET Item]
         /\ \A b : Received(b) \subseteq Payload /\ Accepted(b) \subseteq Received(b)
         /\ \A e : ReceivedOf(e) \subseteq Item
         /\ \A p \in Payload : ItemsOf(p) \subseteq Item /\ EventsOf(p) \subseteq Event
         /\ \A p \in Payload : \A s \in Listings[p] :
              /\ s \in Seq(Item)
              /\ \A k \in DOMAIN s : s[k] \in ItemsOf(p)
              /\ \A i \in ItemsOf(p) : \E k \in DOMAIN s : s[k] = i
<1>1. /\ EventOf \in [Item -> Event] /\ BatchOf \in [Payload -> Batch]
      /\ Invalid \in [Payload -> SUBSET Item]
      /\ \A p \in Payload : \A s \in Listings[p] : s \in Seq(Item) /\ ItemsIn(s) = ItemsOf(p)
  BY PayloadAssumption
<1>2. \A p \in Payload : \A s \in Listings[p] :
        /\ \A k \in DOMAIN s : s[k] \in ItemsOf(p)
        /\ \A i \in ItemsOf(p) : \E k \in DOMAIN s : s[k] = i
  BY <1>1 DEF ItemsIn
<1>3. \A p \in Payload : ItemsOf(p) \subseteq Item
  <2>1. SUFFICES ASSUME NEW p \in Payload, NEW i \in ItemsOf(p) PROVE i \in Item
    OBVIOUS
  <2>2. PICK s \in Listings[p] : i \in ItemsIn(s)
    BY DEF ItemsOf
  <2>3. QED
    BY <1>1, <2>2 DEF ItemsIn
<1>4. \A p \in Payload : EventsOf(p) \subseteq Event
  BY <1>1, <1>3 DEF EventsOf
<1>5. QED
  BY <1>1, <1>2, <1>3, <1>4 DEF Received, Accepted, ReceivedOf

-----------------------------------------------------------------------------
(* ------------------------- what a step leaves alone -------------------- *)
SameRequest(g) ==
  /\ pc'[g] = pc[g] /\ kind'[g] = kind[g] /\ payload'[g] = payload[g]
  /\ listing'[g] = listing[g] /\ batch'[g] = batch[g] /\ pending'[g] = pending[g] /\ at'[g] = at[g]
  /\ status'[g] = status[g] /\ itemStatus'[g] = itemStatus[g]
  /\ source'[g] = source[g] /\ into'[g] = into[g] /\ inserts'[g] = inserts[g]

Others(h) == \A g \in Handler \ {h} : SameRequest(g) /\ SameHolds(g)

SameTables == UNCHANGED <<batchRow, listed, itemRow, artifacts, version, delivery>>

LEMMA RequestFrame ==
  ASSUME NEW g \in Handler, SameRequest(g), RequestOK(g)
  PROVE  RequestOK(g)'
BY DEF SameRequest, RequestOK, InOrder

LEMMA HoldsFrame ==
  ASSUME TypeOK, NEW g \in Handler, SameRequest(g), SameHolds(g), PromotionOK(g), HoldsOK(g)
  PROVE  HoldsOK(g)'
<1>1. /\ \A b \in Batch : owner'[BatchLock(b)] = g <=> owner[BatchLock(b)] = g
      /\ \A e \in Event : owner'[EventLock(e)] = g <=> owner[EventLock(e)] = g
      /\ \A p \in Payload : owner'[RowLock(p)] = g <=> owner[RowLock(p)] = g
      /\ \A i \in Item : owner'[ItemLock(i)] = g <=> owner[ItemLock(i)] = g
  BY LockKinds DEF SameHolds
<1>2. pc[g] = "promote_items" => owner'[RowLock(source[g])] = g
  BY <1>1, Typed DEF HoldsOK, PromotionOK, Promoting
<1>3. QED
  BY <1>1, <1>2 DEF SameRequest, HoldsOK, EventsOf, EventsBefore, ItemsOf

(* A step that changes no table leaves what other requests rely on. *)
LEMMA QuietFrame ==
  ASSUME NEW g \in Handler, SameRequest(g), SameTables,
         ReceptionOK(g), PromotionOK(g), AnswerOK(g)
  PROVE  ReceptionOK(g)' /\ PromotionOK(g)' /\ AnswerOK(g)'
<1>1. /\ \A b : Received(b)' = Received(b) /\ Accepted(b)' = Accepted(b)
      /\ \A e : ReceivedOf(e)' = ReceivedOf(e)
  BY DEF SameTables, Received, Accepted, ReceivedOf
<1>2. \A b, e, v : HasArtifact(b, e, v)' = HasArtifact(b, e, v)
  BY DEF SameTables, HasArtifact
<1>3. \A p, v : Promoted(p, v)' = Promoted(p, v)
  BY <1>2 DEF SameTables, Promoted, ItemsOf
<1>4. ReceptionOK(g)'
  BY <1>1 DEF SameRequest, SameTables, ReceptionOK, ItemsOf
<1>5. PromotionOK(g)'
  BY <1>1, <1>2 DEF SameRequest, SameTables, PromotionOK, Found, ItemsOf
<1>6. AnswerOK(g)'
  BY <1>3 DEF SameRequest, SameTables, AnswerOK, ClashExplained, ListsTwice
<1>7. QED
  BY <1>4, <1>5, <1>6

LEMMA QuietTables ==
  ASSUME SameTables, TablesOK, DeliveredMeansPromoted
  PROVE  TablesOK' /\ DeliveredMeansPromoted'
<1>1. \A b, e, v : HasArtifact(b, e, v)' = HasArtifact(b, e, v)
  BY DEF SameTables, HasArtifact
<1>2. \A p, v : Promoted(p, v)' = Promoted(p, v)
  BY <1>1 DEF SameTables, Promoted, ItemsOf
<1>3. QED
  BY <1>2 DEF SameTables, TablesOK, DeliveredMeansPromoted, ItemsOf

RequestInv(h) == /\ RequestOK(h) /\ ReceptionOK(h) /\ PromotionOK(h)
                 /\ AnswerOK(h) /\ HoldsOK(h)

(* So a step that changes no table has only its own request to answer for. *)
LEMMA QuietStep ==
  ASSUME IInv, NEW h \in Handler, TypeOK', Others(h), SameTables, RequestInv(h)'
  PROVE  IInv'
<1>1. TablesOK' /\ DeliveredMeansPromoted'
  BY QuietTables DEF IInv
<1>2. ASSUME NEW g \in Handler, g # h PROVE RequestInv(g)'
  <2>1. /\ SameRequest(g) /\ SameHolds(g) /\ RequestOK(g) /\ ReceptionOK(g)
        /\ PromotionOK(g) /\ AnswerOK(g) /\ HoldsOK(g) /\ TypeOK
    BY <1>2 DEF Others, IInv
  <2>2. RequestOK(g)'
    BY <2>1, RequestFrame
  <2>3. HoldsOK(g)'
    BY <2>1, HoldsFrame
  <2>4. ReceptionOK(g)' /\ PromotionOK(g)' /\ AnswerOK(g)'
    BY <2>1, QuietFrame
  <2>5. QED
    BY <2>2, <2>3, <2>4 DEF RequestInv
<1>3. QED
  BY <1>1, <1>2 DEF IInv, RequestInv

-----------------------------------------------------------------------------
(* ------------------------------ the steps ------------------------------ *)
LEMMA BeginStep ==
  ASSUME IInv, NEW h \in Handler, NEW k \in {"internal", "receive", "promote"},
         NEW p, NEW s \in Seq(Item), NEW b \in Batch, NEW step,
         \/ /\ p \in Payload /\ s \in Listings[p] /\ b = BatchOf[p] /\ step = "lock_batch"
            /\ k \in {"internal", "receive"} /\ (k = "internal" => InOrder(s))
         \/ p = Nothing /\ k = "promote" /\ step = "context",
         Begin(h, k, p, s, b, step)
  PROVE  IInv'
<1>1. TypeOK /\ RequestInv(h) /\ Nothing \notin Payload
  BY NameAssumption DEF IInv, RequestInv
<1>2. /\ SameTables /\ UNCHANGED <<owner, pending, at, status, itemStatus, source, into, inserts>>
      /\ pc' = [pc EXCEPT ![h] = step] /\ kind' = [kind EXCEPT ![h] = k]
      /\ payload' = [payload EXCEPT ![h] = p] /\ batch' = [batch EXCEPT ![h] = b]
      /\ listing' = [listing EXCEPT ![h] = s]
      /\ pc[h] = "idle"
  BY DEF Begin, SameTables, inbox, results, reception, promotion
<1>3. TypeOK'
  <2>1. step \in Step /\ p \in Payload \cup {Nothing}
    BY DEF Step
  <2>2. /\ pc' \in [Handler -> Step] /\ payload' \in [Handler -> Payload \cup {Nothing}]
        /\ batch' \in [Handler -> Batch \cup {Nothing}] /\ listing' \in [Handler -> Seq(Item)]
        /\ kind' \in [Handler -> {"none", "internal", "receive", "promote"}]
    BY <1>1, <1>2, <2>1 DEF TypeOK
  <2>3. requests' \in 0 .. MaxRequests
    BY <1>1, BoundAssumption DEF Begin, TypeOK
  <2>4. QED
    BY <1>1, <2>2, <2>3 DEF Begin, TypeOK, inbox, results, reception, promotion
<1>4. Others(h)
  BY <1>1, <1>2 DEF Others, SameRequest, SameHolds, TypeOK
<1>5. pc'[h] = step /\ kind'[h] = k /\ payload'[h] = p /\ batch'[h] = b
      /\ listing'[h] = s
  BY <1>1, <1>2 DEF TypeOK
<1>6. RequestOK(h)'
  BY <1>1, <1>2, <1>5 DEF RequestInv, InOrder, RequestOK, Receiving
<1>7. ReceptionOK(h)'
  BY <1>1, <1>2, <1>5 DEF RequestInv, ReceptionOK
<1>8. PromotionOK(h)'
  BY <1>1, <1>2, <1>5 DEF RequestInv, PromotionOK, Promoting
<1>9. AnswerOK(h)'
  BY <1>1, <1>2, <1>5 DEF RequestInv, AnswerOK, Promoting
<1>10. HoldsOK(h)'
  BY <1>1, <1>2, <1>5 DEF RequestInv, HoldsOK, Receiving
<1>11. QED
  BY <1>2, <1>3, <1>4, <1>6, <1>7, <1>8, <1>9, <1>10, QuietStep DEF RequestInv

LEMMA LockBatchStep ==
  ASSUME IInv, NEW h \in Handler, LockBatch(h)
  PROVE  IInv'
<1>1. TypeOK /\ RequestInv(h)
  BY DEF IInv, RequestInv
<1>2. /\ SameTables
      /\ UNCHANGED <<kind, payload, listing, batch, at, status, itemStatus, source, into, inserts>>
      /\ pc[h] = "lock_batch" /\ pc' = [pc EXCEPT ![h] = "lock_events"]
      /\ pending' = [pending EXCEPT ![h] = EventsOf(payload[h])]
  BY DEF LockBatch, SameTables, inbox, results, request, promotion, outside, EventsOf
<1>3. payload[h] \in Payload /\ batch[h] = BatchOf[payload[h]] /\ batch[h] \in Batch
  BY <1>1, <1>2 DEF RequestInv, InOrder, RequestOK, Receiving
<1>4. Awaited(h) = {BatchLock(batch[h])}
  BY <1>2, <1>3 DEF Awaited
<1>5. /\ owner' \in [Lock -> Handler \cup {Nobody}]
      /\ \A g \in Handler : g # h => SameHolds(g)
      /\ \A l \in Lock : owner'[l] # owner[l] => l = BatchLock(batch[h])
      /\ owner'[BatchLock(batch[h])] = h
  <2>1. Awaited(h) \in SUBSET Lock /\ TakeOneOf(h, Awaited(h))
    BY <1>1, AwaitedAreLocks DEF RequestInv, LockBatch
  <2>2. QED
    BY <1>1, <1>3, <1>4, <2>1, TakeOneEffect, LockKinds
<1>6. TypeOK'
  <2>1. EventsOf(payload[h]) \subseteq Event
    BY <1>1, <1>3, Typed
  <2>2. pc' \in [Handler -> Step] /\ pending' \in [Handler -> SUBSET Event]
    BY <1>1, <1>2, <2>1 DEF TypeOK, Step
  <2>3. QED
    BY <1>1, <1>5, <2>2 DEF LockBatch, TypeOK, inbox, results, request, promotion, outside
<1>7. Others(h)
  BY <1>1, <1>2, <1>5 DEF Others, SameRequest, TypeOK
<1>8. pc'[h] = "lock_events" /\ pending'[h] = EventsOf(payload[h])
  BY <1>1, <1>2 DEF TypeOK
<1>9. RequestOK(h)'
  BY <1>1, <1>2, <1>8 DEF RequestInv, InOrder, RequestOK, Receiving
<1>10. ReceptionOK(h)'
  BY <1>1, <1>2, <1>8 DEF RequestInv, ReceptionOK
<1>11. PromotionOK(h)'
  BY <1>1, <1>2, <1>8 DEF RequestInv, PromotionOK, Promoting
<1>12. AnswerOK(h)'
  BY <1>1, <1>2, <1>8 DEF RequestInv, AnswerOK, Promoting
<1>13. HoldsOK(h)'
  <2>1. \A b \in Batch : owner'[BatchLock(b)] = h <=> b = batch[h]
    BY <1>1, <1>2, <1>5, LockKinds DEF RequestInv, HoldsOK, Receiving
  <2>2. \A e \in Event : owner'[EventLock(e)] # h
    BY <1>1, <1>2, <1>5, LockKinds DEF RequestInv, HoldsOK
  <2>3. \A p \in Payload : owner'[RowLock(p)] # h
    BY <1>1, <1>2, <1>5, LockKinds DEF RequestInv, HoldsOK
  <2>4. \A i \in Item : owner'[ItemLock(i)] # h
    BY <1>1, <1>2, <1>5, LockKinds DEF RequestInv, HoldsOK
  <2>5. EventsOf(payload[h])' = EventsOf(payload[h])
    BY <1>2 DEF EventsOf, ItemsOf
  <2>6. QED
    BY <1>2, <1>8, <2>1, <2>2, <2>3, <2>4, <2>5 DEF HoldsOK, Receiving
<1>14. QED
  BY <1>2, <1>6, <1>7, <1>9, <1>10, <1>11, <1>12, <1>13, QuietStep DEF RequestInv

LEMMA LockEventStep ==
  ASSUME IInv, NEW h \in Handler, LockEvent(h)
  PROVE  IInv'
<1>1. TypeOK /\ RequestInv(h)
  BY DEF IInv, RequestInv
<1>2. /\ SameTables
      /\ UNCHANGED <<pc, kind, payload, listing, batch, at, status, itemStatus, source, into, inserts>>
      /\ pc[h] = "lock_events"
  BY DEF LockEvent, SameTables, inbox, results, request, promotion, outside
<1>3. PICK e \in NextEvents(h) :
        /\ TakeOneOf(h, {EventLock(e)})
        /\ pending' = [pending EXCEPT ![h] = @ \ {e}]
  BY DEF LockEvent
<1>4. /\ payload[h] \in Payload /\ batch[h] \in Batch
      /\ e \in pending[h] /\ pending[h] \subseteq EventsOf(payload[h])
      /\ \A d \in pending[h] : IdOrder[e] <= IdOrder[d]
  BY <1>1, <1>2 DEF RequestInv, InOrder, RequestOK, HoldsOK, Receiving, NextEvents
<1>5. EventsOf(payload[h]) \subseteq Event
  BY <1>1, <1>4, Typed
<1>6. /\ owner' \in [Lock -> Handler \cup {Nobody}]
      /\ \A g \in Handler : g # h => SameHolds(g)
      /\ \A l \in Lock : owner'[l] # owner[l] => l = EventLock(e)
      /\ owner'[EventLock(e)] = h
  <2>1. EventLock(e) \in Lock /\ {EventLock(e)} \in SUBSET Lock
    BY <1>4, <1>5, LockKinds
  <2>2. QED
    BY <1>1, <1>3, <2>1, TakeOneEffect
<1>7. TypeOK'
  <2>1. pending' \in [Handler -> SUBSET Event]
    BY <1>1, <1>3 DEF TypeOK
  <2>2. QED
    BY <1>1, <1>2, <1>6, <2>1 DEF LockEvent, TypeOK, inbox, results, request, promotion, outside
<1>8. Others(h)
  BY <1>1, <1>2, <1>3, <1>6 DEF Others, SameRequest, TypeOK
<1>9. pending'[h] = pending[h] \ {e}
  BY <1>1, <1>3 DEF TypeOK
<1>10. RequestOK(h)'
  BY <1>1, <1>2 DEF RequestInv, InOrder, RequestOK
<1>11. ReceptionOK(h)'
  BY <1>1, <1>2 DEF RequestInv, ReceptionOK
<1>12. PromotionOK(h)'
  BY <1>1, <1>2 DEF RequestInv, PromotionOK, Promoting
<1>13. AnswerOK(h)'
  BY <1>1, <1>2 DEF RequestInv, AnswerOK, Promoting
<1>14. HoldsOK(h)'
  <2>1. \A b \in Batch : owner'[BatchLock(b)] = h <=> b = batch[h]
    BY <1>1, <1>2, <1>6, LockKinds DEF RequestInv, HoldsOK, Receiving
  <2>2. \A d \in Event : owner'[EventLock(d)] = h <=> d \in EventsOf(payload[h]) \ pending'[h]
    <3>1. \A d \in Event : owner[EventLock(d)] = h <=> d \in EventsOf(payload[h]) \ pending[h]
      BY <1>1, <1>2 DEF RequestInv, HoldsOK
    <3>2. \A d \in Event : d # e => owner'[EventLock(d)] = owner[EventLock(d)]
      BY <1>6, LockKinds
    <3>3. QED
      BY <1>4, <1>6, <1>9, <3>1, <3>2
  <2>3. \A p \in Payload : owner'[RowLock(p)] # h
    <3>1. \A p \in Payload : owner[RowLock(p)] # h
      BY <1>1, <1>2 DEF RequestInv, HoldsOK
    <3>2. QED
      BY <1>6, <3>1, LockKinds
  <2>4. \A i \in Item : owner'[ItemLock(i)] # h
    <3>1. \A i \in Item : owner[ItemLock(i)] # h
      BY <1>1, <1>2 DEF RequestInv, HoldsOK
    <3>2. QED
      BY <1>6, <3>1, LockKinds
  <2>5. \A d \in pending'[h], c \in EventsOf(payload[h]) \ pending'[h] : IdOrder[c] < IdOrder[d]
    <3>1. \A d \in pending[h], c \in EventsOf(payload[h]) \ pending[h] : IdOrder[c] < IdOrder[d]
      BY <1>1, <1>2 DEF RequestInv, HoldsOK
    <3>2. \A d \in pending'[h] : IdOrder[e] < IdOrder[d]
      BY <1>4, <1>5, <1>9, OrderAssumption
    <3>3. QED
      BY <1>9, <3>1, <3>2
  <2>6. EventsOf(payload[h])' = EventsOf(payload[h])
    BY <1>2 DEF EventsOf, ItemsOf
  <2>7. QED
    BY <1>2, <1>4, <1>9, <2>1, <2>2, <2>3, <2>4, <2>5, <2>6 DEF HoldsOK, Receiving
<1>15. QED
  BY <1>2, <1>7, <1>8, <1>10, <1>11, <1>12, <1>13, <1>14, QuietStep DEF RequestInv

LEMMA EventsLockedStep ==
  ASSUME IInv, NEW h \in Handler, EventsLocked(h)
  PROVE  IInv'
<1>1. TypeOK /\ RequestInv(h)
  BY DEF IInv, RequestInv
<1>2. /\ SameTables
      /\ UNCHANGED <<kind, payload, listing, batch, pending, at, status, itemStatus, source, into,
                     inserts, owner>>
      /\ pc[h] = "lock_events" /\ pc' = [pc EXCEPT ![h] = "receive_batch"] /\ pending[h] = {}
  BY DEF EventsLocked, SameTables, inbox, results, request, reception, promotion, outside
<1>3. TypeOK'
  <2>1. pc' \in [Handler -> Step]
    BY <1>1, <1>2 DEF TypeOK, Step
  <2>2. QED
    BY <1>1, <2>1 DEF EventsLocked, TypeOK, inbox, results, request, reception, promotion, outside
<1>4. Others(h)
  BY <1>1, <1>2 DEF Others, SameRequest, SameHolds, TypeOK
<1>5. pc'[h] = "receive_batch"
  BY <1>1, <1>2 DEF TypeOK
<1>6. RequestOK(h)' /\ ReceptionOK(h)'
  BY <1>1, <1>2, <1>5 DEF RequestInv, InOrder, RequestOK, ReceptionOK, Receiving
<1>7. PromotionOK(h)' /\ AnswerOK(h)'
  BY <1>1, <1>2, <1>5 DEF RequestInv, PromotionOK, AnswerOK, Promoting
<1>8. HoldsOK(h)'
  <2>1. EventsOf(payload[h])' = EventsOf(payload[h])
    BY <1>2 DEF EventsOf, ItemsOf
  <2>2. QED
    BY <1>1, <1>2, <1>5, <2>1 DEF RequestInv, HoldsOK, Receiving
<1>9. QED
  BY <1>2, <1>3, <1>4, <1>6, <1>7, <1>8, QuietStep DEF RequestInv

LEMMA ReceiveBatchStep ==
  ASSUME IInv, NEW h \in Handler, ReceiveBatch(h)
  PROVE  IInv'
<1>1. TypeOK /\ RequestInv(h)
  BY DEF IInv, RequestInv
<1>2. /\ SameTables
      /\ UNCHANGED <<kind, payload, listing, batch, pending, at, itemStatus, source, into, inserts>>
      /\ pc[h] = "receive_batch" /\ pc' = [pc EXCEPT ![h] = "receive_items"]
      /\ status' = [status EXCEPT ![h] = BatchStatus(payload[h])]
  BY DEF ReceiveBatch, SameTables, inbox, results, request, promotion, outside
<1>3. payload[h] \in Payload /\ batch[h] = BatchOf[payload[h]] /\ at[h] = 1
  BY <1>1, <1>2 DEF RequestInv, InOrder, RequestOK, Receiving
<1>4. /\ owner' \in [Lock -> Handler \cup {Nobody}]
      /\ \A g \in Handler : g # h => SameHolds(g)
      /\ \A l \in Lock : owner'[l] # owner[l] => \E p \in Payload : l = RowLock(p)
  <2>1. Awaited(h) \in SUBSET Lock /\ TakeOneOf(h, Awaited(h))
    BY <1>1, AwaitedAreLocks DEF RequestInv, ReceiveBatch
  <2>2. RowsToRead(payload[h]) \subseteq Payload
    BY <1>1, <1>3, Typed DEF RowsToRead
  <2>3. \A l \in Awaited(h) : \E p \in Payload : l = RowLock(p)
    BY <1>2, <2>2 DEF Awaited
  <2>4. QED
    BY <1>1, <2>1, <2>3, TakeOneEffect
<1>5. BatchStatus(payload[h]) \in Verdict
  BY DEF BatchStatus, Validated, Verdict
<1>6. TypeOK'
  <2>1. pc' \in [Handler -> Step]
    BY <1>1, <1>2 DEF TypeOK, Step
  <2>2. status' \in [Handler -> Answer]
    BY <1>1, <1>2, <1>5 DEF TypeOK, Answer
  <2>3. QED
    BY <1>1, <1>4, <2>1, <2>2 DEF ReceiveBatch, TypeOK, inbox, results, request, promotion, outside
<1>7. Others(h)
  BY <1>1, <1>2, <1>4 DEF Others, SameRequest, TypeOK
<1>8. pc'[h] = "receive_items" /\ status'[h] = BatchStatus(payload[h])
  BY <1>1, <1>2 DEF TypeOK
<1>9. RequestOK(h)'
  BY <1>1, <1>2, <1>8 DEF RequestInv, InOrder, RequestOK, Receiving
<1>10. ReceptionOK(h)'
  <2>1. \A i \in Item : itemStatus[h][i] = "none"
    BY <1>1, <1>2 DEF RequestInv, ReceptionOK
  <2>2. /\ batchRow[payload[h]] # "none" <=> status'[h] = "duplicate"
        /\ status'[h] = "accepted" => Received(batch[h]) = {}
    BY <1>3, <1>8 DEF BatchStatus, Validated
  <2>3. \A b : Received(b)' = Received(b)
    BY <1>2 DEF Received, SameTables
  <2>4. \A k \in DOMAIN listing[h] : ~ (k < 1)
    BY <1>1 DEF TypeOK
  <2>5. QED
    BY <1>2, <1>3, <1>5, <1>8, <2>1, <2>2, <2>3, <2>4 DEF ReceptionOK, SameTables
<1>11. PromotionOK(h)'
  BY <1>1, <1>2, <1>8 DEF RequestInv, PromotionOK, Promoting
<1>12. AnswerOK(h)'
  BY <1>5, <1>8 DEF AnswerOK, Promoting, Verdict
<1>13. HoldsOK(h)'
  <2>1. /\ \A b \in Batch : owner'[BatchLock(b)] = owner[BatchLock(b)]
        /\ \A e \in Event : owner'[EventLock(e)] = owner[EventLock(e)]
        /\ \A i \in Item : owner'[ItemLock(i)] = owner[ItemLock(i)]
    <3>1. \A b \in Batch : owner'[BatchLock(b)] = owner[BatchLock(b)]
      BY <1>4, LockKinds
    <3>2. \A e \in Event : owner'[EventLock(e)] = owner[EventLock(e)]
      BY <1>4, LockKinds
    <3>3. ASSUME NEW i \in Item PROVE owner'[ItemLock(i)] = owner[ItemLock(i)]
      <4>1. ItemLock(i) \in Lock /\ \A p : ItemLock(i) # RowLock(p)
        BY LockKinds
      <4>2. QED
        BY <1>4, <4>1
    <3>4. QED
      BY <3>1, <3>2, <3>3
  <2>2. /\ \A b \in Batch : owner[BatchLock(b)] = h <=> b = batch[h]
        /\ \A e \in Event : owner[EventLock(e)] = h <=> e \in EventsOf(payload[h])
        /\ \A i \in Item : owner[ItemLock(i)] # h
    BY <1>1, <1>2 DEF RequestInv, HoldsOK, Receiving
  <2>3. EventsOf(payload[h])' = EventsOf(payload[h])
    BY <1>2 DEF EventsOf, ItemsOf
  <2>4. QED
    BY <1>2, <1>8, <2>1, <2>2, <2>3 DEF HoldsOK, Receiving
<1>14. QED
  BY <1>2, <1>6, <1>7, <1>9, <1>10, <1>11, <1>12, <1>13, QuietStep DEF RequestInv

LEMMA Later ==
  ASSUME NEW s \in Seq(Item), NEW k \in Nat, k \in DOMAIN s
  PROVE  /\ EventsBefore(s, k) \subseteq EventsBefore(s, k + 1)
         /\ EventOf[s[k]] \in EventsBefore(s, k + 1)
         /\ \A j \in DOMAIN s : j < k + 1 => j < k \/ j = k
<1>1. DOMAIN s \subseteq Nat
  OBVIOUS
<1>2. QED
  BY <1>1 DEF EventsBefore

LEMMA ReceiveItemStep ==
  ASSUME IInv, NEW h \in Handler, ReceiveItem(h)
  PROVE  IInv'
<1> DEFINE i == ItemNow(h)
           new == ItemStatus(payload[h], i)
<1>1. TypeOK /\ RequestInv(h) /\ TablesOK
  BY DEF IInv, RequestInv
<1>2. /\ SameTables
      /\ UNCHANGED <<pc, kind, payload, listing, batch, pending, source, into, inserts>>
      /\ pc[h] = "receive_items" /\ at[h] <= Len(listing[h])
      /\ status' = [status EXCEPT ![h] = Combined(@, new)]
      /\ itemStatus' = [itemStatus EXCEPT ![h][i] = new]
      /\ at' = [at EXCEPT ![h] = @ + 1]
  BY DEF ReceiveItem, SameTables, inbox, results, request, promotion, outside
<1>3. /\ payload[h] \in Payload /\ batch[h] = BatchOf[payload[h]] /\ at[h] \in Nat \ {0}
      /\ listing[h] \in Listings[payload[h]] /\ listing[h] \in Seq(Item)
  BY <1>1, <1>2 DEF RequestInv, InOrder, RequestOK, Receiving, TypeOK
<1>4. at[h] \in DOMAIN listing[h] /\ i = listing[h][at[h]]
  BY <1>1, <1>2, <1>3, Typed DEF ItemNow
<1>5. i \in ItemsOf(payload[h]) /\ i \in Item
  BY <1>1, <1>3, <1>4, Typed
<1>6. /\ owner' \in [Lock -> Handler \cup {Nobody}]
      /\ \A g \in Handler : g # h => SameHolds(g)
      /\ \A l \in Lock : owner'[l] # owner[l] =>
           \E j \in Item : l = ItemLock(j) /\ EventOf[j] = EventOf[i]
  <2>1. Awaited(h) \in SUBSET Lock /\ TakeOneOf(h, Awaited(h))
    BY <1>1, AwaitedAreLocks DEF RequestInv, ReceiveItem
  <2>2. \A j \in ItemsToRead(i) : j \in Item /\ EventOf[j] = EventOf[i]
    BY <1>5 DEF ItemsToRead, ReceivedOf
  <2>3. Awaited(h) = {ItemLock(j) : j \in ItemsToRead(i)}
    BY <1>2 DEF Awaited
  <2>4. \A l \in Awaited(h) : \E j \in Item : l = ItemLock(j) /\ EventOf[j] = EventOf[i]
    BY <2>2, <2>3
  <2>5. QED
    BY <1>1, <2>1, <2>4, TakeOneEffect
<1>7. new \in Verdict
  BY DEF ItemStatus, Verdict
<1>8. status[h] \in Verdict /\ Combined(status[h], new) \in Verdict
  BY <1>1, <1>2, <1>7 DEF RequestInv, ReceptionOK, Combined
<1>9. TypeOK'
  <2>1. status' \in [Handler -> Answer]
    BY <1>1, <1>2, <1>8 DEF TypeOK, Answer
  <2>2. itemStatus' \in [Handler -> [Item -> Verdict \cup {"none"}]]
    BY <1>1, <1>2, <1>5, <1>7 DEF TypeOK
  <2>3. at' \in [Handler -> Nat \ {0}]
    BY <1>1, <1>2, <1>3 DEF TypeOK
  <2>4. QED
    BY <1>1, <1>6, <2>1, <2>2, <2>3 DEF ReceiveItem, TypeOK, inbox, results, request, promotion, outside
<1>10. Others(h)
  BY <1>1, <1>2, <1>6 DEF Others, SameRequest, TypeOK
<1>11. /\ at'[h] = at[h] + 1 /\ status'[h] = Combined(status[h], new)
       /\ itemStatus'[h][i] = new /\ \A j \in Item : j # i => itemStatus'[h][j] = itemStatus[h][j]
  BY <1>1, <1>2, <1>5 DEF TypeOK
<1>12. RequestOK(h)'
  BY <1>1, <1>2 DEF RequestInv, InOrder, RequestOK, Receiving
<1>13. ReceptionOK(h)'
  <2>1. \A j \in Item : itemStatus'[h][j] # "none" => j \in ItemsOf(payload[h])
    BY <1>1, <1>5, <1>11 DEF RequestInv, ReceptionOK
  <2>2. batchRow[payload[h]] # "none" => status'[h] = "duplicate"
    <3>1. batchRow[payload[h]] # "none" => itemRow[i] # "none"
      BY <1>1, <1>3, <1>5 DEF TablesOK
    <3>2. itemRow[i] # "none" => new = "duplicate"
      BY DEF ItemStatus
    <3>3. QED
      BY <1>1, <1>2, <1>11, <3>1, <3>2 DEF RequestInv, ReceptionOK, Combined
  <2>3. /\ status'[h] = "duplicate" => batchRow[payload[h]] # "none"
        /\ status'[h] = "accepted" => Received(batch[h]) = {}
    BY <1>1, <1>2, <1>11 DEF RequestInv, ReceptionOK, Combined
  <2>4. \A k \in DOMAIN listing[h] : k < at'[h] =>
          itemStatus'[h][listing[h][k]] \in Verdict
    <3>1. \A k \in DOMAIN listing[h] : k < at'[h] => k < at[h] \/ k = at[h]
      BY <1>3, <1>4, <1>11, Later
    <3>2. \A k \in DOMAIN listing[h] : listing[h][k] \in Item
      BY <1>1, <1>3, Typed
    <3>3. \A k \in DOMAIN listing[h] : k < at[h] =>
            itemStatus[h][listing[h][k]] \in Verdict
      BY <1>1, <1>2 DEF RequestInv, ReceptionOK
    <3>4. QED
      BY <1>4, <1>7, <1>11, <3>1, <3>2, <3>3
  <2>5. \A j \in Item : /\ itemStatus'[h][j] = "duplicate" => itemRow[j] # "none"
                        /\ itemStatus'[h][j] = "accepted" => ReceivedOf(EventOf[j]) = {}
    <3>1. /\ new = "duplicate" => itemRow[i] # "none"
          /\ new = "accepted" => ReceivedOf(EventOf[i]) = {}
      BY DEF ItemStatus
    <3>2. \A j \in Item : /\ itemStatus[h][j] = "duplicate" => itemRow[j] # "none"
                          /\ itemStatus[h][j] = "accepted" => ReceivedOf(EventOf[j]) = {}
      BY <1>1, <1>2 DEF RequestInv, ReceptionOK
    <3>3. QED
      BY <1>11, <3>1, <3>2
  <2>6. /\ \A b : Received(b)' = Received(b)
        /\ \A e : ReceivedOf(e)' = ReceivedOf(e)
        /\ ItemsOf(payload[h])' = ItemsOf(payload[h])
    BY <1>2 DEF Received, ReceivedOf, SameTables, ItemsOf
  <2>7. QED
    BY <1>2, <1>8, <1>11, <2>1, <2>2, <2>3, <2>4, <2>5, <2>6 DEF ReceptionOK, SameTables
<1>14. PromotionOK(h)'
  BY <1>1, <1>2 DEF RequestInv, PromotionOK, Promoting
<1>15. AnswerOK(h)'
  BY <1>2, <1>8, <1>11 DEF AnswerOK, Promoting, Verdict
<1>16. HoldsOK(h)'
  <2>1. /\ \A b \in Batch : owner'[BatchLock(b)] = owner[BatchLock(b)]
        /\ \A e \in Event : owner'[EventLock(e)] = owner[EventLock(e)]
    BY <1>6, LockKinds
  <2>2. \A j \in Item : owner'[ItemLock(j)] = h => EventOf[j] \in EventsBefore(listing[h], at[h] + 1)
    <3>1. \A j \in Item : owner[ItemLock(j)] = h => EventOf[j] \in EventsBefore(listing[h], at[h])
      BY <1>1, <1>2 DEF RequestInv, HoldsOK
    <3>2. \A j \in Item : owner'[ItemLock(j)] # owner[ItemLock(j)] => EventOf[j] = EventOf[i]
      BY <1>6, LockKinds
    <3>3. QED
      BY <1>3, <1>4, <3>1, <3>2, Later
  <2>3. /\ \A b \in Batch : owner[BatchLock(b)] = h <=> b = batch[h]
        /\ \A e \in Event : owner[EventLock(e)] = h <=> e \in EventsOf(payload[h])
    BY <1>1, <1>2 DEF RequestInv, HoldsOK, Receiving
  <2>4. /\ EventsOf(payload[h])' = EventsOf(payload[h])
        /\ EventsBefore(listing[h], at[h])' = EventsBefore(listing[h], at[h] + 1)
    BY <1>2, <1>11 DEF EventsOf, ItemsOf, EventsBefore
  <2>5. QED
    BY <1>2, <2>1, <2>2, <2>3, <2>4 DEF HoldsOK, Receiving
<1>17. QED
  BY <1>2, <1>9, <1>10, <1>12, <1>13, <1>14, <1>15, <1>16, QuietStep DEF RequestInv

-----------------------------------------------------------------------------
(* ---------------------------- the receipt ------------------------------ *)
(* The locks rule out what the unique indexes refuse, except within a      *)
(* batch.                                                                  *)
LEMMA ReceiptClash ==
  ASSUME IInv, NEW h \in Handler, pc[h] = "receive_items", ReceiptClashes(h)
  PROVE  kind[h] = "receive" /\ ListsTwice(listing[h])
<1>1. ReceptionOK(h) /\ TypeOK
  BY DEF IInv
<1>2. status[h] = "accepted" => Accepted(batch[h]) = {}
  BY <1>1 DEF ReceptionOK, Accepted
<1>3. \A i \in NewItems(h) : itemStatus[h][i] = "accepted" => ReceivedOf(EventOf[i]) = {}
  BY <1>1 DEF ReceptionOK, NewItems
<1>4. ListsTwice(listing[h])
  BY <1>2, <1>3 DEF ReceiptClashes, ListsTwice
<1>5. listing[h] \in Seq(Item) /\ EventOf \in [Item -> Event]
  BY <1>1, PayloadAssumption DEF TypeOK
<1>6. ~ InOrder(listing[h])
  <2>1. PICK j, k \in DOMAIN listing[h] : j < k /\ EventOf[listing[h][j]] = EventOf[listing[h][k]]
    BY <1>4 DEF ListsTwice
  <2>2. ResultOrder[EventOf[listing[h][k]]] \in Nat
    BY <1>5, <2>1, OrderAssumption, FS_CardinalityType
  <2>3. QED
    BY <2>1, <2>2 DEF InOrder
<1>7. QED
  BY <1>4, <1>6 DEF IInv, RequestOK, Receiving

(* What a reception stores: a row that was not there, each of its results. *)
LEMMA ReceiptStored ==
  ASSUME IInv, NEW h \in Handler, pc[h] = "receive_items",
         at[h] > Len(listing[h]), status[h] # "duplicate",
         batchRow' = [batchRow EXCEPT ![payload[h]] = status[h]],
         listed' = [listed EXCEPT ![payload[h]] = listing[h]],
         itemRow' = [i \in Item |-> IF i \in NewItems(h) THEN itemStatus[h][i] ELSE itemRow[i]]
  PROVE  /\ payload[h] \in Payload /\ batch[h] = BatchOf[payload[h]]
         /\ batchRow[payload[h]] = "none" /\ batchRow'[payload[h]] = status[h]
         /\ status[h] \in Stored
         /\ listed'[payload[h]] \in Listings[payload[h]] /\ listed' \in [Payload -> Seq(Item)]
         /\ \A p \in Payload : p # payload[h] => batchRow'[p] = batchRow[p] /\ listed'[p] = listed[p]
         /\ \A i \in Item : itemRow'[i] # itemRow[i] =>
              i \in ItemsOf(payload[h]) /\ i \in NewItems(h)
         /\ \A i \in Item : itemRow[i] # "none" => itemRow'[i] # "none"
         /\ \A i \in ItemsOf(payload[h]) : itemRow'[i] # "none"
         /\ batchRow' \in [Payload -> Stored \cup {"none"}]
         /\ itemRow' \in [Item -> Stored \cup {"none"}]
<1>1. TypeOK /\ ReceptionOK(h) /\ RequestOK(h)
  BY DEF IInv
<1>2. /\ payload[h] \in Payload /\ batch[h] = BatchOf[payload[h]]
      /\ listing[h] \in Listings[payload[h]] /\ listing[h] \in Seq(Item)
  BY <1>1 DEF RequestOK, Receiving, TypeOK
<1>3. batchRow[payload[h]] = "none" /\ status[h] \in Stored
  BY <1>1 DEF ReceptionOK, Stored
<1>4. batchRow' \in [Payload -> Stored \cup {"none"}] /\ batchRow'[payload[h]] = status[h]
      /\ listed'[payload[h]] = listing[h] /\ listed' \in [Payload -> Seq(Item)]
      /\ \A p \in Payload : p # payload[h] => batchRow'[p] = batchRow[p] /\ listed'[p] = listed[p]
  BY <1>1, <1>2, <1>3 DEF TypeOK
<1>5. \A i \in Item : i \in NewItems(h) <=> itemStatus[h][i] \in Stored
  BY DEF NewItems
<1>6. itemRow' \in [Item -> Stored \cup {"none"}]
  BY <1>1, <1>5 DEF TypeOK
<1>7. \A i \in Item : itemRow'[i] = IF i \in NewItems(h) THEN itemStatus[h][i] ELSE itemRow[i]
  OBVIOUS
<1>8. "none" \notin Stored
  BY DEF Stored, Verdict
<1>9. \A i \in Item : itemRow'[i] # itemRow[i] => i \in ItemsOf(payload[h]) /\ i \in NewItems(h)
  BY <1>1, <1>5, <1>7, <1>8 DEF ReceptionOK
<1>10. \A i \in Item : itemRow[i] # "none" => itemRow'[i] # "none"
  BY <1>5, <1>7, <1>8
<1>11. \A i \in ItemsOf(payload[h]) : itemRow'[i] # "none"
  <2>1. SUFFICES ASSUME NEW i \in ItemsOf(payload[h]) PROVE itemRow'[i] # "none"
    OBVIOUS
  <2>2. PICK k \in DOMAIN listing[h] : listing[h][k] = i
    BY <1>1, <1>2, Typed
  <2>3. k < at[h] /\ i \in Item
    <3>1. listing[h] \in Seq(Item) /\ at[h] \in Nat
      BY <1>1 DEF TypeOK
    <3>2. QED
      BY <2>2, <3>1
  <2>4. itemStatus[h][i] \in Verdict
    BY <1>1, <2>2, <2>3 DEF ReceptionOK
  <2>5. itemStatus[h][i] \in Stored \/ itemStatus[h][i] = "duplicate"
    BY <2>4 DEF Stored
  <2>6. QED
    BY <1>1, <1>5, <1>7, <1>8, <1>10, <2>3, <2>5 DEF ReceptionOK
<1>12. QED
  BY <1>2, <1>3, <1>4, <1>6, <1>9, <1>10, <1>11

(* Nobody else receives the same batch or the same events meanwhile. *)
LEMMA ReceiptsApart ==
  ASSUME IInv, NEW h \in Handler, NEW g \in Handler, g # h,
         pc[h] = "receive_items", pc[g] = "receive_items"
  PROVE  /\ batch[g] # batch[h] /\ payload[g] # payload[h]
         /\ EventsOf(payload[g]) \cap EventsOf(payload[h]) = {}
<1>1. TypeOK /\ RequestOK(h) /\ RequestOK(g) /\ HoldsOK(h) /\ HoldsOK(g)
  BY DEF IInv
<1>2. /\ payload[h] \in Payload /\ batch[h] = BatchOf[payload[h]] /\ batch[h] \in Batch
      /\ payload[g] \in Payload /\ batch[g] = BatchOf[payload[g]] /\ batch[g] \in Batch
  BY <1>1 DEF RequestOK, Receiving
<1>3. owner[BatchLock(batch[h])] = h /\ owner[BatchLock(batch[g])] = g
  BY <1>1, <1>2 DEF HoldsOK, Receiving
<1>4. \A e \in Event : /\ e \in EventsOf(payload[h]) => owner[EventLock(e)] = h
                       /\ e \in EventsOf(payload[g]) => owner[EventLock(e)] = g
  BY <1>1 DEF HoldsOK
<1>5. EventsOf(payload[h]) \subseteq Event
  BY <1>1, <1>2, Typed
<1>6. QED
  BY <1>2, <1>3, <1>4, <1>5

LEMMA StoreReceiptStep ==
  ASSUME IInv, NEW h \in Handler, StoreReceipt(h)
  PROVE  IInv'
<1>1. TypeOK /\ RequestInv(h) /\ TablesOK /\ DeliveredMeansPromoted
  BY DEF IInv, RequestInv
<1>2. /\ UNCHANGED <<kind, payload, listing, batch, pending, source, into, inserts>>
      /\ UNCHANGED <<artifacts, version, delivery>>
      /\ pc[h] = "receive_items" /\ at[h] > Len(listing[h])
      /\ itemStatus' = [itemStatus EXCEPT ![h] = NoStatus]
      /\ at' = [at EXCEPT ![h] = 1]
  BY DEF StoreReceipt, results, request, promotion, outside
<1> DEFINE Clashed == /\ status' = [status EXCEPT ![h] = "clash"]
                      /\ pc' = [pc EXCEPT ![h] = "reply"]
                      /\ UNCHANGED inbox
           Went == /\ status' = [status EXCEPT ![h] = status[h]]
                   /\ pc' = [pc EXCEPT ![h] =
                               IF GoesOn(kind[h], status[h]) THEN "context" ELSE "reply"]
           Stores == /\ batchRow' = [batchRow EXCEPT ![payload[h]] = status[h]]
                     /\ listed' = [listed EXCEPT ![payload[h]] = listing[h]]
                     /\ itemRow' = [i \in Item |-> IF i \in NewItems(h)
                                                   THEN itemStatus[h][i] ELSE itemRow[i]]
                     /\ itemBatch' = [i \in Item |-> IF i \in NewItems(h)
                                                     THEN batch[h] ELSE itemBatch[i]]
<1>3. status[h] # "duplicate" /\ ReceiptClashes(h) =>
        kind[h] = "receive" /\ ListsTwice(listing[h])
  BY <1>2, ReceiptClash
<1>4. /\ Release(h)
      /\ \/ Clashed /\ kind[h] = "receive" /\ ListsTwice(listing[h])
         \/ Went /\ status[h] = "duplicate" /\ UNCHANGED inbox
         \/ Went /\ status[h] # "duplicate" /\ Stores
  BY <1>3 DEF StoreReceipt, Ended
<1>5. payload[h] \in Payload /\ batch[h] = BatchOf[payload[h]] /\ batch[h] \in Batch
  BY <1>1, <1>2 DEF RequestInv, InOrder, RequestOK, Receiving
<1>6. /\ owner' \in [Lock -> Handler \cup {Nobody}]
      /\ \A g \in Handler : g # h => SameHolds(g)
      /\ \A l \in Lock : owner'[l] # h
  BY <1>1, <1>4, ReleaseEffect
<1>7. /\ at'[h] = 1 /\ itemStatus'[h] = NoStatus /\ status[h] \in Verdict
      /\ Clashed => status'[h] = "clash" /\ pc'[h] = "reply"
      /\ Went => /\ status'[h] = status[h]
                 /\ pc'[h] = IF GoesOn(kind[h], status[h]) THEN "context" ELSE "reply"
      /\ pc'[h] \in {"context", "reply"}
  BY <1>1, <1>2, <1>4 DEF TypeOK, RequestInv, ReceptionOK
<1>8. Others(h)
  BY <1>1, <1>2, <1>4, <1>6 DEF Others, SameRequest, TypeOK
<1>9. TypeOK'
  <2>1. pc' \in [Handler -> Step] /\ status' \in [Handler -> Answer] /\ at' \in [Handler -> Nat \ {0}]
    <3>1. pc' \in [Handler -> Step]
      BY <1>1, <1>4 DEF TypeOK, Step
    <3>2. \E a \in {status[h], "clash"} : status' = [status EXCEPT ![h] = a]
      BY <1>4
    <3>3. status' \in [Handler -> Answer]
      BY <1>1, <3>2 DEF TypeOK, Answer
    <3>4. at' \in [Handler -> Nat \ {0}]
      <4>1. at \in [Handler -> Nat \ {0}] /\ at' = [at EXCEPT ![h] = 1]
        BY <1>1, <1>2 DEF TypeOK
      <4>2. QED
        BY <4>1
    <3>5. QED
      BY <3>1, <3>3, <3>4
  <2>2. itemStatus' \in [Handler -> [Item -> Verdict \cup {"none"}]]
    BY <1>1, <1>2 DEF TypeOK, NoStatus
  <2>3. /\ batchRow' \in [Payload -> Stored \cup {"none"}]
        /\ itemRow' \in [Item -> Stored \cup {"none"}] /\ listed' \in [Payload -> Seq(Item)]
    <3>1. CASE UNCHANGED inbox
      BY <1>1, <3>1 DEF TypeOK, inbox
    <3>2. CASE status[h] # "duplicate" /\ Stores
      BY <1>2, <3>2, ReceiptStored
    <3>3. QED
      BY <1>4, <3>1, <3>2
  <2>4. itemBatch' \in [Item -> Batch \cup {Nothing}]
    <3>1. CASE UNCHANGED inbox
      BY <1>1, <3>1 DEF TypeOK, inbox
    <3>2. CASE status[h] # "duplicate" /\ Stores
      BY <1>1, <1>5, <3>2 DEF TypeOK
    <3>3. QED
      BY <1>4, <3>1, <3>2
  <2>5. QED
    BY <1>1, <1>6, <2>1, <2>2, <2>3, <2>4
    DEF StoreReceipt, TypeOK, results, request, promotion, outside
<1>10. RequestOK(h)' /\ PromotionOK(h)'
  <2>1. inserts[h] = {}
    BY <1>1, <1>2 DEF RequestInv, PromotionOK, Promoting
  <2>2. QED
    BY <1>1, <1>2, <1>7, <2>1 DEF RequestInv, InOrder, RequestOK, PromotionOK, Receiving, Promoting
<1>11. ReceptionOK(h)'
  BY <1>7 DEF ReceptionOK, NoStatus
<1>12. HoldsOK(h)'
  BY <1>6, <1>7, LockKinds DEF HoldsOK, Receiving
<1>13. AnswerOK(h)'
  <2>1. CASE Clashed /\ kind[h] = "receive" /\ ListsTwice(listing[h])
    BY <1>2, <1>7, <2>1 DEF AnswerOK, ClashExplained, ListsTwice
  <2>2. CASE \/ Went /\ status[h] = "duplicate" /\ UNCHANGED inbox
             \/ Went /\ status[h] # "duplicate" /\ Stores
    <3>1. status[h] = "duplicate" => batchRow[payload[h]] # "none" /\ UNCHANGED inbox
      BY <1>1, <1>2, <2>2 DEF RequestInv, ReceptionOK
    <3>2. status[h] = "accepted" => batchRow'[payload[h]] = "accepted"
      BY <1>2, <2>2, ReceiptStored
    <3>3. pc'[h] = "reply" /\ kind[h] = "internal" => status[h] \notin {"accepted", "duplicate"}
      BY <1>7, <2>2 DEF GoesOn
    <3>4. status'[h] = status[h] /\ status[h] # "clash"
      BY <1>7, <2>2 DEF Verdict
    <3>5. QED
      BY <1>2, <1>7, <3>1, <3>2, <3>3, <3>4 DEF AnswerOK, inbox
  <2>3. QED
    BY <1>4, <2>1, <2>2
<1>14. CASE UNCHANGED inbox
  BY <1>2, <1>8, <1>9, <1>10, <1>11, <1>12, <1>13, <1>14, QuietStep
  DEF SameTables, inbox, RequestInv
<1>15. CASE status[h] # "duplicate" /\ Stores
  <2>1. /\ batchRow[payload[h]] = "none" /\ batchRow'[payload[h]] = status[h]
        /\ \A p \in Payload : p # payload[h] => batchRow'[p] = batchRow[p] /\ listed'[p] = listed[p]
        /\ listed'[payload[h]] \in Listings[payload[h]]
        /\ \A i \in Item : itemRow'[i] # itemRow[i] => i \in ItemsOf(payload[h])
        /\ \A i \in Item : itemRow[i] # "none" => itemRow'[i] # "none"
        /\ \A i \in ItemsOf(payload[h]) : itemRow'[i] # "none"
        /\ status[h] \in Stored
    BY <1>2, <1>15, ReceiptStored
  <2>2. \A p \in Payload : /\ batchRow[p] # "none" => batchRow'[p] = batchRow[p]
                           /\ batchRow[p] # "none" => batchRow'[p] # "none"
    BY <2>1
  <2>3. status[h] = "accepted" => \A p \in Payload : BatchOf[p] = batch[h] => batchRow[p] = "none"
    BY <1>1, <1>2 DEF RequestInv, ReceptionOK, Received
  <2>4. TablesOK'
    <3>1. \A p, q \in Payload : batchRow'[p] = "accepted" /\ batchRow'[q] = "accepted"
                                /\ BatchOf[p] = BatchOf[q] => p = q
      BY <1>1, <1>5, <2>1, <2>3 DEF TablesOK
    <3>2. \A p \in Payload : batchRow'[p] # "none" =>
            listed'[p] \in Listings[p] /\ \A i \in ItemsOf(p) : itemRow'[i] # "none"
      <4>1. \A p \in Payload : ItemsOf(p) \subseteq Item
        BY <1>1, Typed
      <4>2. QED
        BY <1>1, <2>1, <4>1 DEF TablesOK
    <3>3. \A a \in artifacts :
            \E p \in Payload : /\ BatchOf[p] = a[1] /\ batchRow'[p] = "accepted"
                               /\ a[2] \in ItemsOf(p) \cap Promotable[a[3]]
      BY <1>1, <2>2 DEF TablesOK
    <3>4. \A p \in Payload : delivery[p] = "delivered" => batchRow'[p] # "none"
      BY <1>1, <2>2 DEF TablesOK
    <3>5. \A p : ItemsOf(p)' = ItemsOf(p)
      BY DEF ItemsOf
    <3>6. QED
      BY <1>2, <3>1, <3>2, <3>3, <3>4, <3>5 DEF TablesOK
  <2>5. \A p, v : Promoted(p, v)' = Promoted(p, v)
    BY <1>2 DEF Promoted, HasArtifact, ItemsOf
  <2>6. DeliveredMeansPromoted'
    BY <1>1, <1>2, <2>2, <2>5 DEF DeliveredMeansPromoted, TablesOK
  <2>7. ASSUME NEW g \in Handler, g # h PROVE RequestInv(g)'
    <3>1. SameRequest(g) /\ SameHolds(g) /\ RequestInv(g)
      BY <1>8, <2>7 DEF Others, IInv, RequestInv
    <3>2. RequestOK(g)' /\ HoldsOK(g)'
      BY <1>1, <3>1, RequestFrame, HoldsFrame DEF RequestInv
    <3>3. ReceptionOK(g)'
      <4>1. CASE pc[g] # "receive_items"
        BY <3>1, <4>1 DEF RequestInv, ReceptionOK, SameRequest
      <4>2. CASE pc[g] = "receive_items"
        <5>1. /\ batch[g] # batch[h] /\ payload[g] # payload[h]
              /\ EventsOf(payload[g]) \cap EventsOf(payload[h]) = {}
              /\ payload[g] \in Payload
          BY <1>2, <2>7, <3>1, <4>2, ReceiptsApart DEF RequestInv, InOrder, RequestOK, Receiving
        <5>2. Received(batch[g])' = Received(batch[g])
          BY <1>5, <2>1, <3>1, <5>1 DEF Received, SameRequest
        <5>3. ASSUME NEW i \in Item, i \in ItemsOf(payload[g])
              PROVE  ReceivedOf(EventOf[i])' = ReceivedOf(EventOf[i])
          <6>1. EventOf[i] \in EventsOf(payload[g])
            BY <5>3 DEF EventsOf
          <6>2. \A j \in Item : EventOf[j] = EventOf[i] => itemRow'[j] = itemRow[j]
            BY <2>1, <5>1, <6>1 DEF EventsOf
          <6>3. QED
            BY <6>2 DEF ReceivedOf
        <5>4. ItemsOf(payload[g])' = ItemsOf(payload[g])
          BY <3>1 DEF ItemsOf, SameRequest
        <5>5. \A i \in Item : itemStatus[g][i] # "none" => i \in ItemsOf(payload[g])
          BY <3>1 DEF RequestInv, ReceptionOK
        <5>6. \A i \in Item : itemStatus[g][i] = "accepted" => ReceivedOf(EventOf[i])' = {}
          BY <3>1, <4>2, <5>3, <5>5 DEF RequestInv, ReceptionOK
        <5>7. QED
          BY <2>1, <3>1, <4>2, <5>1, <5>2, <5>4, <5>5, <5>6
          DEF RequestInv, ReceptionOK, SameRequest
      <4>3. QED
        BY <4>1, <4>2
    <3>4. PromotionOK(g)'
      <4>1. Accepted(batch[g]) \subseteq Accepted(batch[g])'
        BY <2>2, <3>1 DEF Accepted, Received, SameRequest
      <4>2. \A b, e, v : HasArtifact(b, e, v)' = HasArtifact(b, e, v)
        BY <1>2 DEF HasArtifact
      <4>3. QED
        BY <1>2, <3>1, <4>1, <4>2 DEF RequestInv, PromotionOK, Found, SameRequest, ItemsOf
    <3>5. AnswerOK(g)'
      <4>1. pc[g] # "idle" /\ kind[g] = "internal" => payload[g] \in Payload
        BY <3>1 DEF RequestInv, InOrder, RequestOK
      <4>2. QED
        BY <1>2, <2>2, <2>5, <3>1, <4>1
        DEF RequestInv, AnswerOK, ClashExplained, ListsTwice, SameRequest, Promoting
    <3>6. QED
      BY <3>2, <3>3, <3>4, <3>5 DEF RequestInv
  <2>8. QED
    BY <1>9, <1>10, <1>11, <1>12, <1>13, <2>4, <2>6, <2>7 DEF IInv, RequestInv
<1>16. QED
  BY <1>4, <1>14, <1>15

-----------------------------------------------------------------------------
(* ---------------------------- the promotion ---------------------------- *)
LEMMA ReadContextStep ==
  ASSUME IInv, NEW h \in Handler, ReadContext(h)
  PROVE  IInv'
<1>1. TypeOK /\ RequestInv(h) /\ TablesOK
  BY DEF IInv, RequestInv
<1>2. /\ SameTables /\ UNCHANGED <<kind, payload, batch, pending, at, itemStatus, inserts, owner>>
      /\ pc[h] = "context"
  BY DEF ReadContext, SameTables, inbox, results, request, outside
<1>3. /\ inserts[h] = {} /\ at[h] = 1 /\ batch[h] \in Batch /\ status[h] # "clash"
      /\ payload[h] \in Payload => batch[h] = BatchOf[payload[h]]
      /\ kind[h] = "internal" => payload[h] \in Payload
      /\ kind[h] = "internal" /\ status[h] \in {"accepted", "duplicate"}
           => batchRow[payload[h]] # "none"
  BY <1>1, <1>2 DEF RequestInv, InOrder, RequestOK, PromotionOK, AnswerOK, Promoting
<1>4. /\ pc' \in [Handler -> Step] /\ status' \in [Handler -> Answer]
      /\ source' \in [Handler -> Payload \cup {Nothing}] /\ into' \in [Handler -> 0 .. MaxVersions]
      /\ listing' \in [Handler -> Seq(Item)]
  <2>1. pc' \in [Handler -> Step]
    <3>1. \/ pc' = [pc EXCEPT ![h] = "reply"]
          \/ pc' = [pc EXCEPT ![h] = "lock_accepted"]
      BY DEF ReadContext
    <3>2. QED
      BY <1>1, <3>1 DEF TypeOK, Step
  <2>2. status' \in [Handler -> Answer]
    <3>1. \E a \in {status[h], "unknown", "unresolved"} : status' = [status EXCEPT ![h] = a]
      BY <1>1 DEF ReadContext, TypeOK
    <3>2. QED
      BY <1>1, <3>1 DEF TypeOK, Answer
  <2>3. into' \in [Handler -> 0 .. MaxVersions]
    <3>1. into' = into \/ into' = [into EXCEPT ![h] = version]
      BY DEF ReadContext
    <3>2. QED
      BY <1>1, <3>1 DEF TypeOK
  <2>4. source' \in [Handler -> Payload \cup {Nothing}] /\ listing' \in [Handler -> Seq(Item)]
    <3>1. \A p \in Accepted(batch[h]) : p \in Payload /\ listed[p] \in Seq(Item)
      <4>1. Accepted(batch[h]) \subseteq Payload
        BY <1>1, Typed
      <4>2. QED
        BY <1>1, <4>1 DEF TypeOK
    <3>2. CASE source' = source /\ listing' = listing
      BY <1>1, <3>2 DEF TypeOK
    <3>3. ASSUME NEW p \in Accepted(batch[h]),
                 source' = [source EXCEPT ![h] = p], listing' = [listing EXCEPT ![h] = listed[p]]
          PROVE  source' \in [Handler -> Payload \cup {Nothing}] /\ listing' \in [Handler -> Seq(Item)]
      BY <1>1, <3>1, <3>3 DEF TypeOK
    <3>4. QED
      BY <3>2, <3>3 DEF ReadContext
  <2>5. QED
    BY <2>1, <2>2, <2>3, <2>4
<1>5. TypeOK'
  BY <1>1, <1>2, <1>4 DEF ReadContext, TypeOK, inbox, results, request, outside
<1>6. Others(h)
  BY <1>1, <1>2 DEF ReadContext, Others, SameRequest, SameHolds, TypeOK
<1>7. \/ /\ pc'[h] = "reply" /\ into' = into
         /\ status'[h] = status[h] \/ status'[h] \in {"unknown", "unresolved"}
         /\ Accepted(batch[h]) = {} \/ status'[h] = "unresolved"
      \/ /\ pc'[h] = "lock_accepted" /\ status' = status /\ version > 0
         /\ source'[h] \in Accepted(batch[h]) /\ into'[h] = version
         /\ listing'[h] = listed[source'[h]]
  BY <1>1 DEF ReadContext, TypeOK
<1>8. RequestOK(h)' /\ ReceptionOK(h)'
  BY <1>1, <1>2, <1>3, <1>7 DEF RequestInv, InOrder, RequestOK, ReceptionOK, Receiving
<1>9. HoldsOK(h)'
  BY <1>1, <1>2, <1>7 DEF RequestInv, HoldsOK, Receiving
<1>10. PromotionOK(h)'
  <2>1. Accepted(batch[h])' = Accepted(batch[h])
    BY <1>2 DEF SameTables, Accepted, Received
  <2>2. version \in Nat
    BY <1>1, BoundAssumption DEF TypeOK
  <2>3. \A p \in Accepted(batch[h]) : listed[p] \in Listings[p]
    BY <1>1 DEF TablesOK, Accepted, Received
  <2>4. QED
    BY <1>2, <1>3, <1>7, <2>1, <2>2, <2>3 DEF PromotionOK, Promoting, SameTables
<1>11. AnswerOK(h)'
  <2>1. kind[h] = "internal" /\ batchRow[payload[h]] = "accepted" => Accepted(batch[h]) # {}
    BY <1>3 DEF Accepted, Received
  <2>2. status'[h] # "clash" /\ (status'[h] \in {"accepted", "duplicate"} => status'[h] = status[h])
    BY <1>1, <1>3, <1>7 DEF TypeOK
  <2>3. pc'[h] = "reply" /\ status'[h] \in {"accepted", "duplicate"} => Accepted(batch[h]) = {}
    BY <1>7
  <2>4. QED
    BY <1>2, <1>3, <2>1, <2>2, <2>3 DEF AnswerOK, Promoting, SameTables
<1>12. QED
  BY <1>2, <1>5, <1>6, <1>8, <1>9, <1>10, <1>11, QuietStep DEF RequestInv

(* The row to lock is the one whose payload was read: no other is accepted. *)
LEMMA LockAcceptedStep ==
  ASSUME IInv, NEW h \in Handler, LockAccepted(h)
  PROVE  IInv'
<1>1. TypeOK /\ RequestInv(h) /\ TablesOK
  BY DEF IInv, RequestInv
<1>2. /\ SameTables
      /\ UNCHANGED <<kind, payload, listing, batch, pending, at, status, itemStatus, source, into, inserts>>
      /\ pc[h] = "lock_accepted" /\ pc' = [pc EXCEPT ![h] = "promote_items"]
  BY DEF LockAccepted, SameTables, inbox, results, request, reception, promotion, outside
<1>3. /\ source[h] \in Accepted(batch[h]) /\ source[h] \in Payload /\ at[h] = 1
      /\ inserts[h] = {}
  BY <1>1, <1>2, Typed DEF RequestInv, PromotionOK, RequestOK, Promoting
<1>4. Accepted(batch[h]) = {source[h]}
  BY <1>1, <1>3 DEF Accepted, Received, TablesOK
<1>5. /\ owner' \in [Lock -> Handler \cup {Nobody}]
      /\ \A g \in Handler : g # h => SameHolds(g)
      /\ \A l \in Lock : owner'[l] # owner[l] => l = RowLock(source[h])
      /\ owner'[RowLock(source[h])] = h
  <2>1. Awaited(h) \in SUBSET Lock /\ TakeOneOf(h, Awaited(h))
    BY <1>1, AwaitedAreLocks DEF RequestInv, LockAccepted
  <2>2. Awaited(h) = {RowLock(source[h])} /\ RowLock(source[h]) \in Lock
    BY <1>2, <1>3, <1>4, LockKinds DEF Awaited
  <2>3. QED
    BY <1>1, <2>1, <2>2, TakeOneEffect
<1>6. TypeOK'
  <2>1. pc' \in [Handler -> Step]
    BY <1>1, <1>2 DEF TypeOK, Step
  <2>2. QED
    BY <1>1, <1>5, <2>1
    DEF LockAccepted, TypeOK, inbox, results, request, reception, promotion, outside
<1>7. Others(h)
  BY <1>1, <1>2, <1>5 DEF Others, SameRequest, TypeOK
<1>8. pc'[h] = "promote_items"
  BY <1>1, <1>2 DEF TypeOK
<1>9. RequestOK(h)' /\ ReceptionOK(h)'
  BY <1>1, <1>2, <1>8 DEF RequestInv, InOrder, RequestOK, ReceptionOK, Receiving
<1>10. AnswerOK(h)'
  <2>1. \A p, v : Promoted(p, v)' = Promoted(p, v)
    BY <1>2 DEF SameTables, Promoted, HasArtifact, ItemsOf
  <2>2. QED
    BY <1>1, <1>2, <1>8, <2>1 DEF RequestInv, AnswerOK, Promoting, SameTables
<1>11. PromotionOK(h)'
  <2>1. \A k \in DOMAIN listing[h] : ~ (k < 1)
    BY <1>1 DEF TypeOK
  <2>2. Accepted(batch[h])' = Accepted(batch[h])
    BY <1>2 DEF SameTables, Accepted, Received
  <2>3. into[h] \in 1 .. version /\ listing[h] \in Listings[source[h]]
    BY <1>1, <1>2 DEF RequestInv, PromotionOK, Promoting
  <2>4. QED
    BY <1>2, <1>3, <1>8, <2>1, <2>2, <2>3 DEF PromotionOK, Promoting, SameTables
<1>12. HoldsOK(h)'
  <2>1. \A l \in Lock : owner[l] = h => FALSE
    BY <1>1, <1>2 DEF RequestInv, HoldsOK, Receiving, Lock
  <2>2. \A l \in Lock : owner'[l] = h <=> l = RowLock(source[h])
    BY <1>5, <2>1
  <2>3. /\ \A b \in Batch : owner'[BatchLock(b)] # h
        /\ \A e \in Event : owner'[EventLock(e)] # h
    BY <2>2, LockKinds
  <2>4. ASSUME NEW i \in Item PROVE owner'[ItemLock(i)] # h
    <3>1. ItemLock(i) \in Lock /\ \A p : ItemLock(i) # RowLock(p)
      BY LockKinds
    <3>2. QED
      BY <2>2, <3>1
  <2>5. QED
    BY <1>2, <1>5, <1>8, <2>3, <2>4 DEF HoldsOK, Receiving
<1>13. QED
  BY <1>2, <1>6, <1>7, <1>9, <1>10, <1>11, <1>12, QuietStep DEF RequestInv

LEMMA PromoteItemStep ==
  ASSUME IInv, NEW h \in Handler, PromoteItem(h)
  PROVE  IInv'
<1> DEFINE i == ItemNow(h)
           new == IF ToPromote(h) /\ ~ Found(h, EventOf[i])
                  THEN inserts[h] \cup {i} ELSE inserts[h]
           Covered(e) == HasArtifact(batch[h], e, into[h]) \/ \E j \in new : EventOf[j] = e
<1>1. TypeOK /\ RequestInv(h)
  BY DEF IInv, RequestInv
<1>2. /\ SameTables
      /\ UNCHANGED <<pc, kind, payload, listing, batch, pending, status, itemStatus, source, into>>
      /\ pc[h] = "promote_items" /\ at[h] <= Len(listing[h])
      /\ inserts' = [inserts EXCEPT ![h] = new]
      /\ at' = [at EXCEPT ![h] = @ + 1]
  BY DEF PromoteItem, SameTables, inbox, results, request, reception, outside
<1>3. /\ source[h] \in Payload /\ at[h] \in Nat \ {0}
      /\ listing[h] \in Listings[source[h]] /\ listing[h] \in Seq(Item)
  BY <1>1, <1>2, Typed DEF RequestInv, PromotionOK, Promoting, TypeOK
<1>4. at[h] \in DOMAIN listing[h] /\ i = listing[h][at[h]]
  BY <1>1, <1>2, <1>3, Typed DEF ItemNow
<1>5. i \in ItemsOf(source[h]) /\ i \in Item
  BY <1>1, <1>3, <1>4, Typed
<1>6. /\ owner' \in [Lock -> Handler \cup {Nobody}]
      /\ \A g \in Handler : g # h => SameHolds(g)
      /\ \A l \in Lock : owner'[l] # owner[l] => owner'[l] = h
           /\ \E j \in Item : l = ItemLock(j) /\ EventOf[j] = EventOf[i]
  <2>1. Awaited(h) \in SUBSET Lock /\ TakeAllOf(h, Awaited(h))
    BY <1>1, AwaitedAreLocks DEF RequestInv, PromoteItem
  <2>2. \A j \in ItemsToMark(batch[h], i) : j \in Item /\ EventOf[j] = EventOf[i]
    BY <1>5 DEF ItemsToMark, ReceivedOf
  <2>3. Awaited(h) \subseteq {ItemLock(j) : j \in ItemsToMark(batch[h], i)}
    BY <1>2 DEF Awaited
  <2>4. \A l \in Awaited(h) : \E j \in Item : l = ItemLock(j) /\ EventOf[j] = EventOf[i]
    BY <2>2, <2>3
  <2>5. QED
    BY <1>1, <2>1, <2>4, TakeAllEffect
<1>7. TypeOK'
  <2>1. inserts' \in [Handler -> SUBSET Item]
    BY <1>1, <1>2, <1>5 DEF TypeOK
  <2>2. at' \in [Handler -> Nat \ {0}]
    BY <1>1, <1>2, <1>3 DEF TypeOK
  <2>3. QED
    BY <1>1, <1>6, <2>1, <2>2 DEF PromoteItem, TypeOK, inbox, results, request, reception, outside
<1>8. Others(h)
  BY <1>1, <1>2, <1>6 DEF Others, SameRequest, TypeOK
<1>9. at'[h] = at[h] + 1 /\ inserts'[h] = new
  BY <1>1, <1>2 DEF TypeOK
<1>10. RequestOK(h)' /\ ReceptionOK(h)'
  BY <1>1, <1>2 DEF RequestInv, InOrder, RequestOK, ReceptionOK, Receiving
<1>11. AnswerOK(h)'
  BY <1>1, <1>2 DEF RequestInv, AnswerOK, Promoting, SameTables
<1>12. PromotionOK(h)'
  <2>1. /\ \A b : Accepted(b)' = Accepted(b)
        /\ \A b, e, v : HasArtifact(b, e, v)' = HasArtifact(b, e, v)
    BY <1>2 DEF SameTables, Accepted, Received, HasArtifact
  <2>2. ItemsOf(source[h])' = ItemsOf(source[h])
    BY <1>2 DEF ItemsOf
  <2>3. new \subseteq ItemsOf(source[h]) \cap Promotable[into[h]]
    BY <1>1, <1>2, <1>5 DEF RequestInv, PromotionOK, Promoting, ToPromote
  <2>4. \A j \in new : ~ HasArtifact(batch[h], EventOf[j], into[h])
    BY <1>1, <1>2 DEF RequestInv, PromotionOK, Promoting, Found
  <2>5. \A k \in DOMAIN listing[h] : k < at'[h] =>
          (listing[h][k] \in Promotable[into[h]] => Covered(EventOf[listing[h][k]]))
    <3>1. \A k \in DOMAIN listing[h] : k < at'[h] => k < at[h] \/ k = at[h]
      BY <1>3, <1>4, <1>9, Later
    <3>2. \A k \in DOMAIN listing[h] : k < at[h] =>
            (listing[h][k] \in Promotable[into[h]] => Found(h, EventOf[listing[h][k]]))
      BY <1>1, <1>2 DEF RequestInv, PromotionOK
    <3>3. i \in Promotable[into[h]] => Found(h, EventOf[i]) \/ i \in new
      BY DEF ToPromote
    <3>4. \A e : Found(h, e) => Covered(e)
      BY DEF Found
    <3>5. i \in Promotable[into[h]] => Covered(EventOf[i])
      BY <3>3, <3>4
    <3>6. QED
      BY <1>4, <3>1, <3>2, <3>4, <3>5
  <2>6. /\ source[h] \in Accepted(batch[h]) /\ into[h] \in 1 .. version
        /\ listing[h] \in Listings[source[h]]
    BY <1>1, <1>2 DEF RequestInv, PromotionOK, Promoting
  <2>7. QED
    BY <1>2, <1>9, <2>1, <2>2, <2>3, <2>4, <2>5, <2>6 DEF PromotionOK, Promoting, Found, SameTables
<1>13. HoldsOK(h)'
  <2>1. \A p \in Payload : owner'[RowLock(p)] = owner[RowLock(p)]
    BY <1>6, LockKinds
  <2>2. /\ \A b \in Batch : owner'[BatchLock(b)] = owner[BatchLock(b)]
        /\ \A e \in Event : owner'[EventLock(e)] = owner[EventLock(e)]
    BY <1>6, LockKinds
  <2>3. \A j \in Item : owner'[ItemLock(j)] = h => EventOf[j] \in EventsBefore(listing[h], at[h] + 1)
    <3>1. \A j \in Item : owner[ItemLock(j)] = h => EventOf[j] \in EventsBefore(listing[h], at[h])
      BY <1>1, <1>2 DEF RequestInv, HoldsOK
    <3>2. \A j \in Item : owner'[ItemLock(j)] # owner[ItemLock(j)] => EventOf[j] = EventOf[i]
      BY <1>6, LockKinds
    <3>3. QED
      BY <1>3, <1>4, <3>1, <3>2, Later
  <2>4. EventsBefore(listing[h], at[h])' = EventsBefore(listing[h], at[h] + 1)
    BY <1>2, <1>9 DEF EventsBefore
  <2>5. QED
    BY <1>1, <1>2, <1>3, <2>1, <2>2, <2>3, <2>4 DEF RequestInv, HoldsOK, Receiving
<1>14. QED
  BY <1>2, <1>7, <1>8, <1>10, <1>11, <1>12, <1>13, QuietStep DEF RequestInv

(* A clash is with another version: in this one the result was looked for. *)
LEMMA ClashElsewhere ==
  ASSUME IInv, NEW h \in Handler, pc[h] = "promote_items", PromotionClashes(h)
  PROVE  \E i \in Item, v \in 1 .. MaxVersions : v # into[h] /\ <<batch[h], i, v>> \in artifacts
<1>1. PromotionOK(h)
  BY DEF IInv
<1>2. PICK i \in inserts[h], v \in 1 .. MaxVersions : HasArtifact(batch[h], EventOf[i], v)
  BY DEF PromotionClashes
<1>3. ~ HasArtifact(batch[h], EventOf[i], into[h])
  BY <1>1 DEF PromotionOK, Promoting
<1>4. PICK j \in Item : EventOf[j] = EventOf[i] /\ <<batch[h], j, v>> \in artifacts
  BY <1>2 DEF HasArtifact
<1>5. QED
  BY <1>2, <1>3, <1>4

(* Nobody else promotes the same batch meanwhile. *)
LEMMA PromotionsApart ==
  ASSUME IInv, NEW h \in Handler, NEW g \in Handler, g # h,
         pc[h] = "promote_items", pc[g] = "promote_items"
  PROVE  batch[g] # batch[h]
<1>1. /\ TypeOK /\ TablesOK /\ HoldsOK(h) /\ HoldsOK(g) /\ PromotionOK(h) /\ PromotionOK(g)
  BY DEF IInv
<1>2. /\ source[h] \in Accepted(batch[h]) /\ owner[RowLock(source[h])] = h
      /\ source[g] \in Accepted(batch[g]) /\ owner[RowLock(source[g])] = g
  BY <1>1 DEF PromotionOK, HoldsOK, Promoting
<1>3. batch[g] = batch[h] => source[g] = source[h]
  BY <1>1, <1>2 DEF Accepted, Received, TablesOK
<1>4. QED
  BY <1>2, <1>3

LEMMA SavePromotionsStep ==
  ASSUME IInv, NEW h \in Handler, SavePromotions(h)
  PROVE  IInv'
<1>1. TypeOK /\ RequestInv(h) /\ TablesOK /\ DeliveredMeansPromoted
  BY DEF IInv, RequestInv
<1>2. /\ UNCHANGED <<kind, payload, listing, batch, pending, at, itemStatus, source, into, inserts>>
      /\ UNCHANGED <<batchRow, listed, itemRow, itemBatch, version, delivery, requests, failures>>
      /\ pc[h] = "promote_items" /\ at[h] > Len(listing[h])
      /\ pc' = [pc EXCEPT ![h] = "reply"]
      /\ Release(h)
  BY DEF SavePromotions, Ended, inbox, request, promotion, outside
<1>3. /\ owner' \in [Lock -> Handler \cup {Nobody}]
      /\ \A g \in Handler : g # h => SameHolds(g)
      /\ \A l \in Lock : owner'[l] # h
  BY <1>1, <1>2, ReleaseEffect
<1>4. /\ source[h] \in Payload /\ source[h] \in Accepted(batch[h]) /\ batch[h] \in Batch
      /\ into[h] \in 1 .. version /\ into[h] \in 1 .. MaxVersions
      /\ inserts[h] \subseteq ItemsOf(source[h]) \cap Promotable[into[h]]
      /\ BatchOf[source[h]] = batch[h] /\ batchRow[source[h]] = "accepted"
  <2>1. source[h] \in Accepted(batch[h]) /\ into[h] \in 1 .. version /\ batch[h] \in Batch
    BY <1>1, <1>2 DEF RequestInv, PromotionOK, RequestOK, Promoting
  <2>2. into[h] \in 1 .. MaxVersions
    BY <1>1, <2>1, BoundAssumption DEF TypeOK
  <2>3. QED
    BY <1>1, <1>2, <2>1, <2>2 DEF RequestInv, PromotionOK, Promoting, Accepted, Received
<1>5. inserts[h] \subseteq Item
  BY <1>1 DEF TypeOK
<1>6. \/ /\ PromotionClashes(h) /\ status' = [status EXCEPT ![h] = "clash"]
         /\ UNCHANGED artifacts /\ UNCHANGED <<batchMark, itemMark>>
      \/ /\ \/ status' = [status EXCEPT ![h] = status[h]]
            \/ kind[h] = "promote" /\ status' = [status EXCEPT ![h] = "promoted"]
         /\ artifacts' = artifacts \cup {<<batch[h], i, into[h]>> : i \in inserts[h]}
         /\ batchMark' \subseteq batchMark \cup Payload
         /\ itemMark' \subseteq itemMark \cup Item
  BY DEF SavePromotions, Ended, results
<1>7. artifacts \subseteq artifacts' /\ artifacts' \subseteq
        artifacts \cup {<<batch[h], i, into[h]>> : i \in inserts[h]}
  BY <1>6
<1>8. TypeOK'
  <2>1. pc' \in [Handler -> Step] /\ status' \in [Handler -> Answer]
    BY <1>1, <1>2, <1>6 DEF TypeOK, Step, Answer
  <2>2. artifacts' \subseteq Batch \X Item \X (1 .. MaxVersions)
    BY <1>1, <1>4, <1>5, <1>7 DEF TypeOK
  <2>3. batchMark' \subseteq Payload /\ itemMark' \subseteq Item
    BY <1>1, <1>6 DEF TypeOK
  <2>4. QED
    BY <1>1, <1>2, <1>3, <2>1, <2>2, <2>3 DEF TypeOK
<1>9. Others(h)
  BY <1>1, <1>2, <1>3, <1>6 DEF Others, SameRequest, TypeOK
<1>10. pc'[h] = "reply"
  BY <1>1, <1>2 DEF TypeOK
<1>11. /\ \A b, e, v : HasArtifact(b, e, v) => HasArtifact(b, e, v)'
       /\ \A p, v : Promoted(p, v) => Promoted(p, v)'
  <2>1. \A b, e, v : HasArtifact(b, e, v) => HasArtifact(b, e, v)'
    BY <1>7 DEF HasArtifact
  <2>2. QED
    BY <1>2, <2>1 DEF Promoted, ItemsOf
<1>12. TablesOK'
  <2>1. \A a \in artifacts' :
          \E p \in Payload : /\ BatchOf[p] = a[1] /\ batchRow[p] = "accepted"
                             /\ a[2] \in ItemsOf(p) \cap Promotable[a[3]]
    <3>1. SUFFICES ASSUME NEW a \in artifacts'
                   PROVE  \E p \in Payload : /\ BatchOf[p] = a[1] /\ batchRow[p] = "accepted"
                                             /\ a[2] \in ItemsOf(p) \cap Promotable[a[3]]
      OBVIOUS
    <3>2. CASE a \in artifacts
      BY <1>1, <3>2 DEF TablesOK
    <3>3. CASE a \notin artifacts
      <4>1. PICK i \in inserts[h] : a = <<batch[h], i, into[h]>>
        BY <1>7, <3>3
      <4>2. QED
        BY <1>4, <4>1
    <3>4. QED
      BY <3>2, <3>3
  <2>2. \A p : ItemsOf(p)' = ItemsOf(p)
    BY DEF ItemsOf
  <2>3. QED
    BY <1>1, <1>2, <2>1, <2>2 DEF TablesOK
<1>13. DeliveredMeansPromoted'
  BY <1>1, <1>2, <1>11 DEF DeliveredMeansPromoted
<1>14. RequestOK(h)' /\ ReceptionOK(h)' /\ PromotionOK(h)'
  BY <1>1, <1>2, <1>10 DEF RequestInv, InOrder, RequestOK, ReceptionOK, PromotionOK, Receiving, Promoting
<1>15. HoldsOK(h)'
  BY <1>3, <1>10, LockKinds DEF HoldsOK, Receiving
<1>16. AnswerOK(h)'
  <2>1. CASE PromotionClashes(h) /\ status' = [status EXCEPT ![h] = "clash"] /\ UNCHANGED artifacts
    <3>1. status'[h] = "clash"
      BY <1>1, <2>1 DEF TypeOK
    <3>2. \E i \in Item, v \in 1 .. MaxVersions :
            v # into[h] /\ <<batch[h], i, v>> \in artifacts
      BY <1>2, <2>1, ClashElsewhere
    <3>3. QED
      BY <1>2, <1>10, <2>1, <3>1, <3>2 DEF AnswerOK, ClashExplained, Promoting
  <2>2. CASE kind[h] = "promote" /\ status' = [status EXCEPT ![h] = "promoted"]
    <3>1. status'[h] = "promoted"
      BY <1>1, <2>2 DEF TypeOK
    <3>2. QED
      BY <1>2, <2>2, <3>1 DEF AnswerOK, Promoting
  <2>3. CASE /\ status' = [status EXCEPT ![h] = status[h]]
             /\ artifacts' = artifacts \cup {<<batch[h], i, into[h]>> : i \in inserts[h]}
    <3>1. status'[h] = status[h] /\ status[h] # "clash"
      BY <1>1, <1>2, <2>3 DEF TypeOK, RequestInv, AnswerOK
    <3>2. kind[h] = "internal" /\ status[h] \in {"accepted", "duplicate"} =>
            batchRow[payload[h]] # "none"
      BY <1>1, <1>2 DEF RequestInv, AnswerOK, Promoting
    <3>3. kind[h] = "internal" /\ batchRow[payload[h]] = "accepted" => payload[h] = source[h]
      BY <1>1, <1>2, <1>4 DEF RequestInv, InOrder, RequestOK, TablesOK
    <3>4. Promoted(source[h], into[h])'
      <4>1. SUFFICES ASSUME NEW i \in ItemsOf(source[h]), i \in Promotable[into[h]]
                     PROVE  HasArtifact(batch[h], EventOf[i], into[h])'
        BY <1>2, <1>4 DEF Promoted, ItemsOf
      <4>2. PICK k \in DOMAIN listing[h] : i = listing[h][k]
        <5>1. listing[h] \in Listings[source[h]]
          BY <1>1, <1>2 DEF RequestInv, PromotionOK, Promoting
        <5>2. QED
          BY <1>1, <1>4, <5>1, Typed
      <4>3. k < at[h] /\ i \in Item
        <5>1. listing[h] \in Seq(Item) /\ at[h] \in Nat
          BY <1>1 DEF TypeOK
        <5>2. QED
          BY <1>2, <4>2, <5>1
      <4>4. (\E j \in inserts[h] : EventOf[j] = EventOf[i]) \/ HasArtifact(batch[h], EventOf[i], into[h])
        BY <1>1, <1>2, <4>1, <4>2, <4>3 DEF RequestInv, PromotionOK, Found
      <4>5. CASE \E j \in inserts[h] : EventOf[j] = EventOf[i]
        BY <1>2, <1>5, <2>3, <4>5 DEF HasArtifact
      <4>6. QED
        BY <1>11, <1>2, <4>4, <4>5
    <3>5. QED
      BY <1>2, <1>4, <1>10, <3>1, <3>2, <3>3, <3>4 DEF AnswerOK, Promoting
  <2>4. QED
    BY <1>6, <2>1, <2>2, <2>3
<1>17. ASSUME NEW g \in Handler, g # h PROVE RequestInv(g)'
  <2>1. SameRequest(g) /\ SameHolds(g) /\ RequestInv(g)
    BY <1>9, <1>17 DEF Others, IInv, RequestInv
  <2>2. RequestOK(g)' /\ HoldsOK(g)'
    BY <1>1, <2>1, RequestFrame, HoldsFrame DEF RequestInv
  <2>3. ReceptionOK(g)'
    BY <1>2, <2>1 DEF RequestInv, ReceptionOK, SameRequest, Received, ReceivedOf, ItemsOf
  <2>4. PromotionOK(g)'
    <3>1. /\ \A b : Accepted(b)' = Accepted(b)
          /\ \A p : ItemsOf(p)' = ItemsOf(p)
      BY <1>2 DEF Accepted, Received, ItemsOf
    <3>2. pc[g] \in Promoting => \A i \in inserts[g] : ~ HasArtifact(batch[g], EventOf[i], into[g])'
      <4>1. SUFFICES ASSUME pc[g] \in Promoting, NEW i \in inserts[g]
                     PROVE  ~ HasArtifact(batch[g], EventOf[i], into[g])'
        OBVIOUS
      <4>2. pc[g] = "promote_items"
        BY <2>1, <4>1 DEF RequestInv, PromotionOK, Promoting
      <4>3. batch[g] # batch[h]
        BY <1>2, <1>17, <4>2, PromotionsApart
      <4>4. ~ HasArtifact(batch[g], EventOf[i], into[g])
        BY <2>1, <4>1 DEF RequestInv, PromotionOK
      <4>5. \A j : <<batch[g], j, into[g]>> \in artifacts' => <<batch[g], j, into[g]>> \in artifacts
        BY <1>7, <4>3
      <4>6. QED
        BY <2>1, <4>4, <4>5 DEF HasArtifact, SameRequest
    <3>3. QED
      BY <1>2, <1>11, <2>1, <3>1, <3>2 DEF RequestInv, PromotionOK, Found, SameRequest
  <2>5. AnswerOK(g)'
    BY <1>2, <1>7, <1>11, <2>1 DEF RequestInv, AnswerOK, ClashExplained, ListsTwice, SameRequest
  <2>6. QED
    BY <2>2, <2>3, <2>4, <2>5 DEF RequestInv
<1>18. QED
  BY <1>8, <1>12, <1>13, <1>14, <1>15, <1>16, <1>17 DEF IInv, RequestInv

-----------------------------------------------------------------------------
(* ------------------------ answers and failures ------------------------- *)
LEMMA ForgetEffect ==
  ASSUME TypeOK, NEW h \in Handler, Forget(h)
  PROVE  /\ pc' \in [Handler -> Step]
         /\ kind' \in [Handler -> {"none", "internal", "receive", "promote"}]
         /\ payload' \in [Handler -> Payload \cup {Nothing}]
         /\ batch' \in [Handler -> Batch \cup {Nothing}] /\ listing' \in [Handler -> Seq(Item)]
         /\ pending' \in [Handler -> SUBSET Event] /\ at' \in [Handler -> Nat \ {0}]
         /\ status' \in [Handler -> Answer]
         /\ itemStatus' \in [Handler -> [Item -> Verdict \cup {"none"}]]
         /\ source' \in [Handler -> Payload \cup {Nothing}]
         /\ into' \in [Handler -> 0 .. MaxVersions] /\ inserts' \in [Handler -> SUBSET Item]
         /\ \A g \in Handler \ {h} : SameRequest(g)
         /\ pc'[h] = "idle" /\ kind'[h] = "none" /\ payload'[h] = Nothing /\ at'[h] = 1
         /\ status'[h] = "none" /\ itemStatus'[h] = NoStatus /\ inserts'[h] = {}
<1>1. /\ pc' \in [Handler -> Step]
      /\ kind' \in [Handler -> {"none", "internal", "receive", "promote"}]
      /\ payload' \in [Handler -> Payload \cup {Nothing}]
      /\ batch' \in [Handler -> Batch \cup {Nothing}] /\ listing' \in [Handler -> Seq(Item)]
  BY DEF Forget, TypeOK, Step
<1>2. pending' \in [Handler -> SUBSET Event] /\ at' \in [Handler -> Nat \ {0}]
  BY DEF Forget, TypeOK
<1>3. NoStatus \in [Item -> Verdict \cup {"none"}] /\ "none" \in Answer
  BY DEF NoStatus, Answer
<1>4. /\ status' \in [Handler -> Answer]
      /\ itemStatus' \in [Handler -> [Item -> Verdict \cup {"none"}]]
  BY <1>3 DEF Forget, TypeOK
<1>5. /\ source' \in [Handler -> Payload \cup {Nothing}]
      /\ into' \in [Handler -> 0 .. MaxVersions] /\ inserts' \in [Handler -> SUBSET Item]
  BY BoundAssumption DEF Forget, TypeOK
<1>6. \A g \in Handler \ {h} : SameRequest(g)
  BY DEF Forget, TypeOK, SameRequest
<1>7. /\ pc'[h] = "idle" /\ kind'[h] = "none" /\ payload'[h] = Nothing /\ at'[h] = 1
      /\ status'[h] = "none" /\ itemStatus'[h] = NoStatus /\ inserts'[h] = {}
  BY DEF Forget, TypeOK
<1>8. QED
  BY <1>1, <1>2, <1>4, <1>5, <1>6, <1>7

(* An idle request that holds nothing has nothing to answer for. *)
LEMMA IdleRequest ==
  ASSUME NEW h \in Handler, Forget(h), TypeOK, \A l \in Lock : owner'[l] # h
  PROVE  RequestInv(h)'
<1>1. /\ pc'[h] = "idle" /\ kind'[h] = "none" /\ payload'[h] = Nothing /\ at'[h] = 1
      /\ status'[h] = "none" /\ itemStatus'[h] = NoStatus /\ inserts'[h] = {}
      /\ Nothing \notin Payload
  BY ForgetEffect, NameAssumption
<1>2. RequestOK(h)' /\ ReceptionOK(h)'
  BY <1>1 DEF RequestOK, ReceptionOK, Receiving, NoStatus
<1>3. PromotionOK(h)' /\ AnswerOK(h)'
  BY <1>1 DEF PromotionOK, AnswerOK, Promoting
<1>4. HoldsOK(h)'
  BY <1>1, LockKinds DEF HoldsOK, Receiving
<1>5. QED
  BY <1>2, <1>3, <1>4 DEF RequestInv

LEMMA DiesStep ==
  ASSUME IInv, NEW h \in Handler, Dies(h)
  PROVE  IInv'
<1>1. TypeOK
  BY DEF IInv
<1>2. /\ SameTables /\ UNCHANGED <<itemBatch, batchMark, itemMark, requests>>
      /\ Release(h) /\ Forget(h) /\ failures < MaxFailures /\ failures' = failures + 1
  BY DEF Dies, SameTables, inbox, results
<1>3. /\ owner' \in [Lock -> Handler \cup {Nobody}]
      /\ \A g \in Handler : g # h => SameHolds(g)
      /\ \A l \in Lock : owner'[l] # h
  BY <1>1, <1>2, ReleaseEffect
<1>4. TypeOK'
  <2>1. failures' \in 0 .. MaxFailures
    BY <1>1, <1>2, BoundAssumption DEF TypeOK
  <2>2. QED
    BY <1>1, <1>2, <1>3, <2>1, ForgetEffect DEF TypeOK, SameTables
<1>5. Others(h)
  BY <1>1, <1>2, <1>3, ForgetEffect DEF Others
<1>6. RequestInv(h)'
  BY <1>1, <1>2, <1>3, IdleRequest
<1>7. QED
  BY <1>2, <1>4, <1>5, <1>6, QuietStep

LEMMA ReplyStep ==
  ASSUME IInv, NEW h \in Handler, Reply(h)
  PROVE  IInv'
<1>1. TypeOK /\ RequestInv(h) /\ TablesOK /\ DeliveredMeansPromoted
  BY DEF IInv, RequestInv
<1>2. /\ UNCHANGED <<batchRow, listed, itemRow, itemBatch, batchMark, itemMark, artifacts, version>>
      /\ UNCHANGED <<owner, requests, failures>> /\ Forget(h) /\ pc[h] = "reply"
      /\ delivery' = IF kind[h] = "internal"
                     THEN [delivery EXCEPT ![payload[h]] = Told(@, status[h])] ELSE delivery
  BY DEF Reply, inbox, results
<1>3. \A l \in Lock : owner[l] # h
  BY <1>1, <1>2 DEF RequestInv, HoldsOK, Receiving, Lock
<1>4. /\ delivery' \in [Payload -> {"open", "delivered", "refused"}]
      /\ \A p \in Payload : delivery'[p] = "delivered" =>
           \/ delivery[p] = "delivered"
           \/ /\ p = payload[h] /\ kind[h] = "internal"
              /\ status[h] \in {"accepted", "duplicate"}
  <2>1. kind[h] = "internal" => payload[h] \in Payload
    BY <1>1, <1>2 DEF RequestInv, InOrder, RequestOK
  <2>2. CASE kind[h] = "internal"
    <3>1. Told(delivery[payload[h]], status[h]) \in {"open", "delivered", "refused"}
      BY <1>1, <2>1, <2>2 DEF Told, TypeOK
    <3>2. \A p \in Payload :
            delivery'[p] = IF p = payload[h] THEN Told(delivery[p], status[h]) ELSE delivery[p]
      BY <1>1, <1>2, <2>1, <2>2 DEF TypeOK
    <3>3. \A old : Told(old, status[h]) = "delivered" =>
            old = "delivered" \/ status[h] \in {"accepted", "duplicate"}
      BY DEF Told
    <3>4. QED
      BY <1>1, <1>2, <2>1, <2>2, <3>1, <3>2, <3>3 DEF TypeOK
  <2>3. CASE kind[h] # "internal"
    BY <1>1, <1>2, <2>3 DEF TypeOK
  <2>4. QED
    BY <2>2, <2>3
<1>5. TypeOK'
  BY <1>1, <1>2, <1>4, ForgetEffect DEF TypeOK
<1>6. /\ \A p : ItemsOf(p)' = ItemsOf(p)
      /\ \A b, e, v : HasArtifact(b, e, v)' = HasArtifact(b, e, v)
      /\ \A p, v : Promoted(p, v)' = Promoted(p, v)
      /\ \A b : Accepted(b)' = Accepted(b) /\ Received(b)' = Received(b)
      /\ \A e : ReceivedOf(e)' = ReceivedOf(e)
  BY <1>2 DEF ItemsOf, HasArtifact, Promoted, Accepted, Received, ReceivedOf
<1>7. TablesOK'
  <2>1. \A p \in Payload : delivery'[p] = "delivered" => batchRow[p] # "none"
    BY <1>1, <1>2, <1>4 DEF TablesOK, RequestInv, AnswerOK
  <2>2. QED
    BY <1>1, <1>2, <1>6, <2>1 DEF TablesOK
<1>8. DeliveredMeansPromoted'
  <2>1. \A p \in Payload : delivery'[p] = "delivered" /\ batchRow[p] = "accepted" =>
          \E v \in 1 .. version : Promoted(p, v)
    BY <1>1, <1>2, <1>4 DEF DeliveredMeansPromoted, RequestInv, AnswerOK
  <2>2. QED
    BY <1>2, <1>6, <2>1 DEF DeliveredMeansPromoted
<1>9. RequestInv(h)'
  BY <1>1, <1>2, <1>3, IdleRequest
<1>10. ASSUME NEW g \in Handler, g # h PROVE RequestInv(g)'
  <2>1. SameRequest(g) /\ SameHolds(g) /\ RequestInv(g)
    BY <1>1, <1>2, <1>10, ForgetEffect DEF SameHolds, IInv, RequestInv
  <2>2. RequestOK(g)' /\ HoldsOK(g)'
    BY <1>1, <2>1, RequestFrame, HoldsFrame DEF RequestInv
  <2>3. ReceptionOK(g)'
    BY <1>2, <1>6, <2>1 DEF RequestInv, ReceptionOK, SameRequest
  <2>4. PromotionOK(g)' /\ AnswerOK(g)'
    BY <1>2, <1>6, <2>1
    DEF RequestInv, PromotionOK, Found, AnswerOK, ClashExplained, ListsTwice, SameRequest
  <2>5. QED
    BY <2>2, <2>3, <2>4 DEF RequestInv
<1>11. QED
  BY <1>5, <1>7, <1>8, <1>9, <1>10 DEF IInv, RequestInv

LEMMA RegisterVersionStep ==
  ASSUME IInv, RegisterVersion
  PROVE  IInv'
<1>1. TypeOK /\ TablesOK /\ DeliveredMeansPromoted
  BY DEF IInv
<1>2. /\ UNCHANGED <<batchRow, listed, itemRow, itemBatch, batchMark, itemMark, artifacts, delivery,
                     owner, requests, failures>>
      /\ UNCHANGED <<pc, kind, payload, listing, batch, pending, at, status, itemStatus, source, into, inserts>>
      /\ version < MaxVersions /\ version' = version + 1
  BY DEF RegisterVersion, inbox, results, request, reception, promotion
<1>3. version' \in 0 .. MaxVersions /\ 1 .. version \subseteq 1 .. version'
  BY <1>1, <1>2, BoundAssumption DEF TypeOK
<1>4. TypeOK'
  BY <1>1, <1>2, <1>3 DEF TypeOK
<1>5. /\ \A p : ItemsOf(p)' = ItemsOf(p)
      /\ \A b, e, v : HasArtifact(b, e, v)' = HasArtifact(b, e, v)
      /\ \A b : Accepted(b)' = Accepted(b) /\ Received(b)' = Received(b)
      /\ \A e : ReceivedOf(e)' = ReceivedOf(e)
  BY <1>2 DEF ItemsOf, HasArtifact, Accepted, Received, ReceivedOf
<1>6. \A p, v : Promoted(p, v) => Promoted(p, v)'
  BY <1>3, <1>5 DEF Promoted
<1>7. TablesOK' /\ DeliveredMeansPromoted'
  BY <1>1, <1>2, <1>3, <1>5, <1>6 DEF TablesOK, DeliveredMeansPromoted
<1>8. ASSUME NEW g \in Handler PROVE RequestInv(g)'
  <2>1. SameRequest(g) /\ SameHolds(g) /\ RequestInv(g)
    BY <1>2 DEF SameRequest, SameHolds, IInv, RequestInv
  <2>2. RequestOK(g)' /\ HoldsOK(g)'
    BY <1>1, <2>1, RequestFrame, HoldsFrame DEF RequestInv
  <2>3. ReceptionOK(g)'
    BY <1>2, <1>5, <2>1 DEF RequestInv, ReceptionOK, SameRequest
  <2>4. PromotionOK(g)'
    BY <1>2, <1>3, <1>5, <2>1 DEF RequestInv, PromotionOK, Found, SameRequest
  <2>5. AnswerOK(g)'
    BY <1>2, <1>3, <1>6, <2>1 DEF RequestInv, AnswerOK, ClashExplained, ListsTwice, SameRequest
  <2>6. QED
    BY <2>2, <2>3, <2>4, <2>5 DEF RequestInv
<1>9. QED
  BY <1>4, <1>7, <1>8 DEF IInv, RequestInv

-----------------------------------------------------------------------------
(* ------------------------------ invariance ----------------------------- *)
LEMMA InitIInv == Init => IInv
<1> SUFFICES ASSUME Init PROVE IInv
  OBVIOUS
<1>1. TypeOK
  <2>1. NoStatus \in [Item -> Verdict \cup {"none"}]
    BY DEF NoStatus
  <2>2. requests \in 0 .. MaxRequests /\ failures \in 0 .. MaxFailures /\ version \in 0 .. MaxVersions
        /\ 0 \in 0 .. MaxVersions
    BY BoundAssumption DEF Init
  <2>3. QED
    BY <2>1, <2>2 DEF Init, TypeOK, Step, Answer
<1>2. TablesOK /\ DeliveredMeansPromoted
  BY DEF Init, TablesOK, DeliveredMeansPromoted
<1>3. ASSUME NEW h \in Handler PROVE RequestInv(h)
  <2>1. /\ pc[h] = "idle" /\ kind[h] = "none" /\ payload[h] = Nothing /\ at[h] = 1
        /\ status[h] = "none" /\ itemStatus[h] = NoStatus /\ inserts[h] = {}
        /\ Nothing \notin Payload
    BY NameAssumption DEF Init
  <2>2. \A l \in Lock : owner[l] # h
    BY NameAssumption DEF Init
  <2>3. RequestOK(h) /\ ReceptionOK(h)
    BY <2>1 DEF RequestOK, ReceptionOK, Receiving, NoStatus
  <2>4. PromotionOK(h) /\ AnswerOK(h)
    BY <2>1 DEF PromotionOK, AnswerOK, Promoting
  <2>5. HoldsOK(h)
    BY <2>1, <2>2, LockKinds DEF HoldsOK, Receiving
  <2>6. QED
    BY <2>3, <2>4, <2>5 DEF RequestInv
<1>4. QED
  BY <1>1, <1>2, <1>3 DEF IInv, RequestInv

LEMMA NextIInv == IInv /\ [Next]_vars => IInv'
<1> SUFFICES ASSUME IInv, [Next]_vars PROVE IInv'
  OBVIOUS
<1>1. ASSUME NEW h \in Handler, NEW p \in Payload, Post(h, p) \/ Submit(h, p) PROVE IInv'
  <2>1. BatchOf[p] \in Batch /\ \A s \in Listings[p] : s \in Seq(Item)
    BY PayloadAssumption
  <2>2. PICK s \in Listings[p] :
          \/ InOrder(s) /\ Begin(h, "internal", p, s, BatchOf[p], "lock_batch")
          \/ Begin(h, "receive", p, s, BatchOf[p], "lock_batch")
    BY <1>1 DEF Post, Submit
  <2>3. CASE InOrder(s) /\ Begin(h, "internal", p, s, BatchOf[p], "lock_batch")
    BY <2>1, <2>3, BeginStep
  <2>4. CASE Begin(h, "receive", p, s, BatchOf[p], "lock_batch")
    BY <2>1, <2>4, BeginStep
  <2>5. QED
    BY <2>2, <2>3, <2>4
<1>2. ASSUME NEW h \in Handler, NEW b \in Batch, Promote(h, b) PROVE IInv'
  <2>1. <<>> \in Seq(Item)
    OBVIOUS
  <2>2. QED
    BY <1>2, <2>1, BeginStep DEF Promote
<1>3. ASSUME NEW h \in Handler,
             LockBatch(h) \/ LockEvent(h) \/ EventsLocked(h) \/ ReceiveBatch(h)
               \/ ReceiveItem(h) \/ StoreReceipt(h)
      PROVE  IInv'
  BY <1>3, LockBatchStep, LockEventStep, EventsLockedStep, ReceiveBatchStep, ReceiveItemStep,
     StoreReceiptStep
<1>4. ASSUME NEW h \in Handler,
             ReadContext(h) \/ LockAccepted(h) \/ PromoteItem(h) \/ SavePromotions(h)
               \/ Reply(h) \/ Dies(h)
      PROVE  IInv'
  BY <1>4, ReadContextStep, LockAcceptedStep, PromoteItemStep, SavePromotionsStep, ReplyStep,
     DiesStep
<1>5. CASE RegisterVersion
  BY <1>5, RegisterVersionStep
<1>6. CASE UNCHANGED vars
  <2>1. /\ UNCHANGED <<batchRow, listed, itemRow, itemBatch, batchMark, itemMark, artifacts, version,
                       owner, delivery, requests, failures>>
        /\ UNCHANGED <<pc, kind, payload, listing, batch, pending, at, status, itemStatus, source, into, inserts>>
    BY <1>6 DEF vars, inbox, results, request, reception, promotion, outside
  <2>2. TypeOK' /\ SameTables
    BY <2>1 DEF IInv, TypeOK, SameTables
  <2>3. TablesOK' /\ DeliveredMeansPromoted'
    BY <2>2, QuietTables DEF IInv
  <2>4. ASSUME NEW g \in Handler PROVE RequestInv(g)'
    <3>1. SameRequest(g) /\ SameHolds(g) /\ RequestInv(g) /\ TypeOK
      BY <2>1 DEF SameRequest, SameHolds, IInv, RequestInv
    <3>2. QED
      BY <2>2, <3>1, RequestFrame, HoldsFrame, QuietFrame DEF RequestInv
  <2>5. QED
    BY <2>2, <2>3, <2>4 DEF IInv, RequestInv
<1>7. QED
  BY <1>1, <1>2, <1>3, <1>4, <1>5, <1>6 DEF Next

LEMMA Invariant == Spec => []IInv
<1>1. QED
  BY InitIInv, NextIInv, PTL DEF Spec

-----------------------------------------------------------------------------
(* ---------------------------- one lock order --------------------------- *)
(* Each lock has a level; a request waits only for locks of a lower level  *)
(* than all it holds.                                                      *)
N == Cardinality(Event)
IsLevel(l, n) ==
  \/ \E b \in Batch : l = BatchLock(b) /\ n = 2 * N + 1
  \/ \E e \in Event : l = EventLock(e) /\ n = 2 * N + 1 - IdOrder[e]
  \/ \E p \in Payload : l = RowLock(p) /\ n = N
  \/ \E i \in Item : l = ItemLock(i) /\ n = N - ResultOrder[EventOf[i]]

LEMMA EventOrders ==
  /\ N \in Nat
  /\ \A e \in Event : IdOrder[e] \in 1 .. N /\ ResultOrder[e] \in 1 .. N
BY OrderAssumption, FS_CardinalityType DEF N

LEMMA LevelsExist ==
  ASSUME NEW l \in Lock
  PROVE  \E n \in Nat : IsLevel(l, n)
<1>1. CASE \E b \in Batch : l = BatchLock(b)
  BY <1>1, EventOrders DEF IsLevel
<1>2. CASE \E e \in Event : l = EventLock(e)
  <2>1. PICK e \in Event : l = EventLock(e)
    BY <1>2
  <2>2. 2 * N + 1 - IdOrder[e] \in Nat
    BY EventOrders
  <2>3. QED
    BY <2>1, <2>2 DEF IsLevel
<1>3. CASE \E p \in Payload : l = RowLock(p)
  BY <1>3, EventOrders DEF IsLevel
<1>4. CASE \E i \in Item : l = ItemLock(i)
  <2>1. PICK i \in Item : l = ItemLock(i)
    BY <1>4
  <2>2. N - ResultOrder[EventOf[i]] \in Nat
    BY EventOrders, PayloadAssumption
  <2>3. QED
    BY <2>1, <2>2 DEF IsLevel
<1>5. QED
  BY <1>1, <1>2, <1>3, <1>4 DEF Lock

LEMMA LevelOf ==
  /\ \A b, n : IsLevel(BatchLock(b), n) => n = 2 * N + 1
  /\ \A e, n : IsLevel(EventLock(e), n) => e \in Event /\ n = 2 * N + 1 - IdOrder[e]
  /\ \A p, n : IsLevel(RowLock(p), n) => n = N
  /\ \A i, n : IsLevel(ItemLock(i), n) => i \in Item /\ n = N - ResultOrder[EventOf[i]]
<1>1. ASSUME NEW b, NEW n, IsLevel(BatchLock(b), n) PROVE n = 2 * N + 1
  BY <1>1, LockKinds DEF IsLevel
<1>2. ASSUME NEW e, NEW n, IsLevel(EventLock(e), n)
      PROVE  e \in Event /\ n = 2 * N + 1 - IdOrder[e]
  BY <1>2, LockKinds DEF IsLevel
<1>3. ASSUME NEW p, NEW n, IsLevel(RowLock(p), n) PROVE n = N
  BY <1>3, LockKinds DEF IsLevel
<1>4. ASSUME NEW i, NEW n, IsLevel(ItemLock(i), n)
      PROVE  i \in Item /\ n = N - ResultOrder[EventOf[i]]
  BY <1>4, LockKinds DEF IsLevel
<1>5. QED
  BY <1>1, <1>2, <1>3, <1>4

(* Where the results come in their order. *)
LEMMA EarlierEvents ==
  ASSUME NEW s \in Seq(Item), InOrder(s), NEW k \in DOMAIN s, NEW e \in EventsBefore(s, k)
  PROVE  e \in Event /\ ResultOrder[e] < ResultOrder[EventOf[s[k]]]
<1>1. PICK j \in DOMAIN s : j < k /\ e = EventOf[s[j]]
  BY DEF EventsBefore
<1>2. s[j] \in Item
  BY <1>1
<1>3. QED
  BY <1>1, <1>2, PayloadAssumption DEF InOrder

LEMMA LocksInOrder ==
  ASSUME IInv, NEW h \in Handler, InOrder(listing[h]),
         NEW l \in Awaited(h), NEW m \in Lock, owner[m] = h,
         NEW x \in Nat, IsLevel(l, x), NEW y \in Nat, IsLevel(m, y)
  PROVE  x < y
<1>1. /\ TypeOK /\ RequestOK(h) /\ PromotionOK(h) /\ HoldsOK(h)
      /\ listing[h] \in Seq(Item) /\ at[h] \in Nat \ {0}
  BY DEF IInv, TypeOK
<1>2. \/ \E b \in Batch : m = BatchLock(b)
      \/ \E e \in Event : m = EventLock(e)
      \/ \E p \in Payload : m = RowLock(p)
      \/ \E i \in Item : m = ItemLock(i)
  BY DEF Lock
<1>3. pc[h] \in {"lock_events", "receive_batch", "receive_items", "promote_items"}
  <2>1. pc[h] \notin {"lock_batch", "lock_accepted"}
    BY <1>1, <1>2 DEF HoldsOK, Receiving
  <2>2. pc[h] \notin {"idle", "context", "reply"}
    BY DEF Awaited
  <2>3. QED
    BY <1>1, <2>1, <2>2 DEF TypeOK, Step
<1>4. CASE pc[h] = "lock_events"
  <2>1. PICK d \in NextEvents(h) : l = EventLock(d)
    BY <1>4 DEF Awaited
  <2>2. d \in pending[h] /\ d \in Event /\ x = 2 * N + 1 - IdOrder[d]
    BY <1>1, <2>1, LevelOf DEF NextEvents, TypeOK
  <2>3. CASE \E b \in Batch : m = BatchLock(b)
    BY <2>2, <2>3, LevelOf, EventOrders
  <2>4. CASE \E e \in Event : m = EventLock(e)
    <3>1. PICK e \in Event : m = EventLock(e)
      BY <2>4
    <3>2. e \in EventsOf(payload[h]) \ pending[h]
      BY <1>1, <1>4, <3>1 DEF HoldsOK
    <3>3. IdOrder[e] < IdOrder[d] /\ y = 2 * N + 1 - IdOrder[e]
      BY <1>1, <1>4, <2>2, <3>1, <3>2, LevelOf DEF HoldsOK
    <3>4. QED
      BY <2>2, <3>1, <3>3, EventOrders
  <2>5. QED
    BY <1>1, <1>2, <1>4, <2>3, <2>4 DEF HoldsOK
<1>5. CASE pc[h] = "receive_batch"
  <2>1. x = N
    BY <1>5, LevelOf DEF Awaited
  <2>2. CASE \E b \in Batch : m = BatchLock(b)
    BY <2>1, <2>2, LevelOf, EventOrders
  <2>3. CASE \E e \in Event : m = EventLock(e)
    BY <2>1, <2>3, LevelOf, EventOrders
  <2>4. QED
    BY <1>1, <1>2, <1>5, <2>2, <2>3 DEF HoldsOK
<1>6. ASSUME NEW k \in DOMAIN listing[h],
             NEW j \in Item, EventOf[j] = EventOf[listing[h][k]], l = ItemLock(j),
             \A i \in Item : owner[ItemLock(i)] = h => EventOf[i] \in EventsBefore(listing[h], k)
      PROVE  x < y
  <2>1. x = N - ResultOrder[EventOf[j]] /\ EventOf[j] \in Event
    BY <1>6, LevelOf, PayloadAssumption
  <2>2. CASE \E b \in Batch : m = BatchLock(b)
    BY <2>1, <2>2, LevelOf, EventOrders
  <2>3. CASE \E e \in Event : m = EventLock(e)
    BY <2>1, <2>3, LevelOf, EventOrders
  <2>4. CASE \E q \in Payload : m = RowLock(q)
    BY <2>1, <2>4, LevelOf, EventOrders
  <2>5. CASE \E i \in Item : m = ItemLock(i)
    <3>1. PICK i \in Item : m = ItemLock(i)
      BY <2>5
    <3>2. EventOf[i] \in EventsBefore(listing[h], k) /\ y = N - ResultOrder[EventOf[i]]
      BY <1>6, <3>1, LevelOf
    <3>3. EventOf[i] \in Event /\ ResultOrder[EventOf[i]] < ResultOrder[EventOf[j]]
      BY <1>1, <1>6, <3>2, EarlierEvents
    <3>4. QED
      BY <2>1, <3>2, <3>3, EventOrders
  <2>6. QED
    BY <1>2, <2>2, <2>3, <2>4, <2>5
<1>7. CASE pc[h] = "receive_items"
  <2>1. at[h] <= Len(listing[h]) /\ l \in {ItemLock(i) : i \in ItemsToRead(ItemNow(h))}
    BY <1>7 DEF Awaited
  <2>2. at[h] \in DOMAIN listing[h] /\ ItemNow(h) \in Item
    BY <1>1, <2>1 DEF ItemNow
  <2>3. \E j \in Item : l = ItemLock(j) /\ EventOf[j] = EventOf[listing[h][at[h]]]
    BY <2>1, <2>2 DEF ItemsToRead, ReceivedOf, ItemNow
  <2>4. \A i \in Item : owner[ItemLock(i)] = h => EventOf[i] \in EventsBefore(listing[h], at[h])
    BY <1>1, <1>7 DEF HoldsOK
  <2>5. QED
    BY <1>6, <2>2, <2>3, <2>4
<1>8. CASE pc[h] = "promote_items"
  <2>1. /\ at[h] <= Len(listing[h])
        /\ l \in {ItemLock(i) : i \in ItemsToMark(batch[h], ItemNow(h))}
    BY <1>8 DEF Awaited
  <2>2. at[h] \in DOMAIN listing[h]
    BY <1>1, <2>1
  <2>3. \E j \in Item : l = ItemLock(j) /\ EventOf[j] = EventOf[listing[h][at[h]]]
    BY <2>1 DEF ItemsToMark, ReceivedOf, ItemNow
  <2>4. \A i \in Item : owner[ItemLock(i)] = h => EventOf[i] \in EventsBefore(listing[h], at[h])
    BY <1>1, <1>8 DEF HoldsOK
  <2>5. QED
    BY <1>6, <2>2, <2>3, <2>4
<1>9. QED
  BY <1>3, <1>4, <1>5, <1>7, <1>8

Less == {s \in Nat \X Nat : s[1] < s[2]}

LEMMA LeastNatural ==
  ASSUME NEW T \in SUBSET Nat, T # {}
  PROVE  \E n \in T : \A m \in T : ~ (m < n)
<1>1. OpToRel(<, Nat) = Less
  BY DEF OpToRel, Less
<1>2. IsWellFoundedOn(Less, Nat)
  BY <1>1, NatLessThanWellFounded, Zenon
<1>3. PICK n \in T : \A m \in T : ~ (<<m, n>> \in Less)
  BY <1>2, WFMin
<1>4. \A m \in T : m < n => <<m, n>> \in Less
  BY DEF Less
<1>5. QED
  BY <1>3, <1>4

WaitedIn(S) == {l \in UNION {Awaited(h) : h \in S} : owner[l] \in S}
LevelsIn(S) == {n \in Nat : \E l \in WaitedIn(S) : IsLevel(l, n)}

LEMMA NoCircle == IInv => NoCircularWait
<1> SUFFICES ASSUME IInv, NEW S \in (SUBSET {h \in Handler : InOrder(listing[h])}) \ {{}},
                    \A h \in S : \E l \in Awaited(h) : owner[l] \in S \ {h}
             PROVE  FALSE
  BY DEF NoCircularWait
<1>1. \A h \in S : h \in Handler /\ InOrder(listing[h]) /\ Awaited(h) \in SUBSET Lock
  BY AwaitedAreLocks DEF IInv
<1>2. \A h \in S : \E l \in Awaited(h), n \in Nat : l \in WaitedIn(S) /\ IsLevel(l, n)
  BY <1>1, LevelsExist DEF WaitedIn
<1>3. PICK n \in LevelsIn(S) : \A m \in LevelsIn(S) : ~ (m < n)
  <2>1. LevelsIn(S) \in SUBSET Nat /\ LevelsIn(S) # {}
    BY <1>2 DEF LevelsIn
  <2>2. QED
    BY <2>1, LeastNatural
<1>4. PICK l \in WaitedIn(S) : n \in Nat /\ IsLevel(l, n)
  BY <1>3 DEF LevelsIn
<1>5. owner[l] \in S /\ owner[l] \in Handler /\ InOrder(listing[owner[l]]) /\ l \in Lock
  BY <1>1, <1>4 DEF WaitedIn
<1>6. PICK k \in Awaited(owner[l]), m \in Nat : k \in WaitedIn(S) /\ IsLevel(k, m)
  BY <1>2, <1>5
<1>7. m \in LevelsIn(S)
  BY <1>6 DEF LevelsIn
<1>8. m < n
  BY <1>4, <1>5, <1>6, LocksInOrder
<1>9. QED
  BY <1>3, <1>7, <1>8

-----------------------------------------------------------------------------
(* ------------------------------ theorems ------------------------------- *)
(* The tables, the requests and the locks keep their types.                *)
THEOREM TypeCorrect == Spec => []TypeOK
<1>1. IInv => TypeOK
  BY DEF IInv
<1>2. QED
  BY <1>1, Invariant, PTL

(* Receptions and promotions of any batches, side by side, never wait for  *)
(* each other in a circle if all go through results in the generator's     *)
(* order (the locks of diagnosis_runtime_repository.py, the order of       *)
(* sort_prediction_result_items).                                          *)
THEOREM NeverDeadlocked == Spec => []NoCircularWait
<1>1. QED
  BY NoCircle, Invariant, PTL

(* A batch id has one accepted content, and only that is promoted (the     *)
(* unique index of 0036_prediction_result_inbox.sql is never needed).      *)
THEOREM OneContentPromoted == Spec => []PromotedIsAccepted
<1>1. IInv => PromotedIsAccepted
  BY DEF IInv, TablesOK, PromotedIsAccepted
<1>2. QED
  BY <1>1, Invariant, PTL

(* A request fails on a unique index only where a result of its batch was  *)
(* promoted into another version of the dataset, or where an operator      *)
(* submitted a batch that lists an event twice; never because of what runs *)
(* beside it or came before it.                                            *)
THEOREM ClashesExplained == Spec => []OnlyExplainedClashes
<1>1. IInv => OnlyExplainedClashes
  BY DEF IInv, AnswerOK, OnlyExplainedClashes
<1>2. QED
  BY <1>1, Invariant, PTL

(* A delivery the generator counts as done is promoted, if accepted,       *)
(* whatever requests died between its reception and its promotion.         *)
THEOREM DeliveredIsPromoted == Spec => []DeliveredMeansPromoted
<1>1. IInv => DeliveredMeansPromoted
  BY DEF IInv
<1>2. QED
  BY <1>1, Invariant, PTL

-----------------------------------------------------------------------------
(* ------------------------- the end-to-end delivery --------------------- *)
(* A refusal the generator may be answered is the one that was stored; the *)
(* request that got it goes no further.                                    *)
RefusalOK(h) ==
  /\ pc[h] \notin Receiving \cup {"idle"}
  /\ kind[h] = "internal"
  /\ status[h] \in {"conflict", "rejected"}
  => pc[h] = "reply" /\ batchRow[payload[h]] = status[h]

RefusalInv == \A h \in Handler : RefusalOK(h)

(* Rows and results are never taken back. *)
LEMMA TablesGrow ==
  ASSUME IInv, [Next]_vars
  PROVE  /\ \A p \in Payload : batchRow[p] # "none" => batchRow'[p] = batchRow[p]
         /\ artifacts \subseteq artifacts'
         /\ 1 .. version \subseteq 1 .. version'
<1>1. TypeOK
  BY DEF IInv
<1>2. CASE UNCHANGED <<batchRow, artifacts, version>>
  BY <1>2
<1>3. ASSUME NEW h \in Handler, StoreReceipt(h)
      PROVE  /\ \A p \in Payload : batchRow[p] # "none" => batchRow'[p] = batchRow[p]
             /\ UNCHANGED <<artifacts, version>>
  <2>1. /\ UNCHANGED <<artifacts, version>>
        /\ pc[h] = "receive_items" /\ at[h] > Len(listing[h])
    BY <1>3 DEF StoreReceipt, results, outside
  <2>2. CASE UNCHANGED batchRow
    BY <2>1, <2>2
  <2>3. CASE /\ status[h] # "duplicate"
             /\ batchRow' = [batchRow EXCEPT ![payload[h]] = status[h]]
             /\ listed' = [listed EXCEPT ![payload[h]] = listing[h]]
             /\ itemRow' = [i \in Item |-> IF i \in NewItems(h)
                                           THEN itemStatus[h][i] ELSE itemRow[i]]
    BY <2>1, <2>3, ReceiptStored
  <2>4. QED
    BY <1>3, <2>2, <2>3 DEF StoreReceipt, inbox
<1>4. ASSUME NEW h \in Handler, SavePromotions(h)
      PROVE  UNCHANGED <<batchRow, version>> /\ artifacts \subseteq artifacts'
  BY <1>4 DEF SavePromotions, inbox, results, outside
<1>5. CASE RegisterVersion
  <2>1. UNCHANGED <<batchRow, artifacts>> /\ version' = version + 1 /\ version \in Nat
    BY <1>1, <1>5, BoundAssumption DEF RegisterVersion, inbox, results, TypeOK
  <2>2. QED
    BY <2>1
<1>6. ASSUME NEW h \in Handler,
             \/ \E p \in Payload : Post(h, p) \/ Submit(h, p)
             \/ \E b \in Batch : Promote(h, b)
             \/ LockBatch(h) \/ LockEvent(h) \/ EventsLocked(h)
             \/ ReceiveBatch(h) \/ ReceiveItem(h)
             \/ ReadContext(h) \/ LockAccepted(h) \/ PromoteItem(h)
             \/ Reply(h) \/ Dies(h)
      PROVE  UNCHANGED <<batchRow, artifacts, version>>
  BY <1>6 DEF Post, Submit, Promote, Begin, LockBatch, LockEvent, EventsLocked, ReceiveBatch,
     ReceiveItem, ReadContext, LockAccepted, PromoteItem, Reply, Dies, inbox, results, outside
<1>7. CASE UNCHANGED vars
  BY <1>7 DEF vars, inbox, results, outside
<1>8. QED
  BY <1>2, <1>3, <1>4, <1>5, <1>6, <1>7 DEF Next

(* The refusal of another request stays stored. *)
LEMMA RefusalFrame ==
  ASSUME IInv, [Next]_vars, NEW g \in Handler, RefusalOK(g),
         pc'[g] = pc[g], kind'[g] = kind[g], payload'[g] = payload[g], status'[g] = status[g]
  PROVE  RefusalOK(g)'
<1>1. pc[g] # "idle" /\ kind[g] = "internal" => payload[g] \in Payload
  BY DEF IInv, RequestOK
<1>2. \A p \in Payload : batchRow[p] # "none" => batchRow'[p] = batchRow[p]
  BY TablesGrow
<1>3. QED
  BY <1>1, <1>2 DEF RefusalOK

LEMMA InitRefusal == Init => RefusalInv
BY DEF Init, RefusalInv, RefusalOK

LEMMA NextRefusal ==
  ASSUME IInv, RefusalInv, [Next]_vars
  PROVE  RefusalInv'
<1>1. TypeOK
  BY DEF IInv
<1>2. ASSUME NEW h \in Handler, RefusalOK(h)',
             \A g \in Handler \ {h} : /\ pc'[g] = pc[g] /\ kind'[g] = kind[g]
                                      /\ payload'[g] = payload[g] /\ status'[g] = status[g]
      PROVE  RefusalInv'
  BY <1>2, RefusalFrame DEF RefusalInv
<1>3. ASSUME NEW h \in Handler, NEW k \in {"internal", "receive", "promote"},
             NEW p, NEW s, NEW b \in Batch, NEW step \in {"lock_batch", "context"},
             step = "context" => k = "promote", Begin(h, k, p, s, b, step)
      PROVE  RefusalInv'
  <2>1. /\ pc' = [pc EXCEPT ![h] = step] /\ kind' = [kind EXCEPT ![h] = k]
        /\ payload' = [payload EXCEPT ![h] = p] /\ status' = status
    BY <1>3 DEF Begin, reception
  <2>2. RefusalOK(h)'
    BY <1>1, <1>3, <2>1 DEF RefusalOK, Receiving, TypeOK
  <2>3. QED
    BY <1>1, <1>2, <2>1, <2>2 DEF TypeOK
<1>4. ASSUME NEW h \in Handler, LockBatch(h) \/ LockEvent(h) \/ EventsLocked(h)
      PROVE  RefusalInv'
  <2>1. /\ \/ pc' = [pc EXCEPT ![h] = "lock_events"]
           \/ pc' = [pc EXCEPT ![h] = "receive_batch"]
           \/ pc' = pc /\ pc[h] = "lock_events"
        /\ UNCHANGED <<kind, payload, listing, status>>
    BY <1>4 DEF LockBatch, LockEvent, EventsLocked, request, reception
  <2>2. RefusalOK(h)'
    BY <1>1, <2>1 DEF RefusalOK, Receiving, TypeOK
  <2>3. QED
    BY <1>1, <1>2, <2>1, <2>2 DEF TypeOK
<1>5. ASSUME NEW h \in Handler, ReceiveBatch(h) \/ ReceiveItem(h) PROVE RefusalInv'
  <2>1. /\ \/ pc' = [pc EXCEPT ![h] = "receive_items"]
           \/ pc' = pc /\ pc[h] = "receive_items"
        /\ UNCHANGED <<kind, payload>>
    BY <1>5 DEF ReceiveBatch, ReceiveItem, request
  <2>2. \A g \in Handler \ {h} : status'[g] = status[g]
    BY <1>1, <1>5 DEF ReceiveBatch, ReceiveItem, TypeOK
  <2>3. RefusalOK(h)'
    BY <1>1, <2>1 DEF RefusalOK, Receiving, TypeOK
  <2>4. QED
    BY <1>1, <1>2, <2>1, <2>2, <2>3 DEF TypeOK
<1>6. ASSUME NEW h \in Handler, StoreReceipt(h) PROVE RefusalInv'
  <2>1. pc[h] = "receive_items" /\ at[h] > Len(listing[h]) /\ UNCHANGED <<kind, payload>>
    BY <1>6 DEF StoreReceipt, request
  <2>2. CASE /\ status' = [status EXCEPT ![h] = "clash"]
             /\ pc' = [pc EXCEPT ![h] = "reply"]
    <3>1. RefusalOK(h)'
      BY <1>1, <2>2 DEF RefusalOK, TypeOK
    <3>2. QED
      BY <1>1, <1>2, <2>1, <2>2, <3>1 DEF TypeOK
  <2>3. CASE /\ status' = [status EXCEPT ![h] = status[h]]
             /\ pc' = [pc EXCEPT ![h] = IF GoesOn(kind[h], status[h]) THEN "context" ELSE "reply"]
             /\ \/ status[h] = "duplicate"
                \/ /\ status[h] # "duplicate"
                   /\ batchRow' = [batchRow EXCEPT ![payload[h]] = status[h]]
                   /\ listed' = [listed EXCEPT ![payload[h]] = listing[h]]
                   /\ itemRow' = [i \in Item |-> IF i \in NewItems(h)
                                                 THEN itemStatus[h][i] ELSE itemRow[i]]
    <3>1. status[h] # "duplicate" => batchRow'[payload[h]] = status[h]
      BY <2>1, <2>3, ReceiptStored
    <3>2. RefusalOK(h)'
      BY <1>1, <2>1, <2>3, <3>1 DEF RefusalOK, TypeOK, GoesOn
    <3>3. QED
      BY <1>1, <1>2, <2>1, <2>3, <3>2 DEF TypeOK
  <2>4. QED
    BY <1>6, <2>2, <2>3 DEF StoreReceipt, Ended
<1>7. ASSUME NEW h \in Handler,
             ReadContext(h) \/ LockAccepted(h) \/ PromoteItem(h) \/ SavePromotions(h)
      PROVE  RefusalInv'
  <2>1. pc[h] \in {"context"} \cup Promoting /\ UNCHANGED <<kind, payload>>
    BY <1>7 DEF ReadContext, LockAccepted, PromoteItem, SavePromotions, request, Promoting
  <2>2. \E s \in {status[h], "unknown", "unresolved", "clash", "promoted"} :
          status' = [status EXCEPT ![h] = s]
    BY <1>1, <1>7 DEF ReadContext, LockAccepted, PromoteItem, SavePromotions, Ended, reception,
       TypeOK
  <2>3. \E step \in Step : pc' = [pc EXCEPT ![h] = step]
    BY <1>1, <1>7 DEF ReadContext, LockAccepted, PromoteItem, SavePromotions, TypeOK, Step
  <2>4. kind[h] = "internal" => status[h] \notin {"conflict", "rejected"}
    BY <2>1 DEF RefusalInv, RefusalOK, Receiving, Promoting
  <2>5. kind'[h] = kind[h] /\ (kind[h] = "internal" => status'[h] \notin {"conflict", "rejected"})
    BY <1>1, <2>1, <2>2, <2>4 DEF TypeOK
  <2>6. RefusalOK(h)'
    BY <2>5 DEF RefusalOK
  <2>7. QED
    BY <1>1, <1>2, <2>1, <2>2, <2>3, <2>6 DEF TypeOK
<1>8. ASSUME NEW h \in Handler, Reply(h) \/ Dies(h) PROVE RefusalInv'
  <2>1. pc'[h] = "idle" /\ \A g \in Handler \ {h} : SameRequest(g)
    BY <1>1, <1>8, ForgetEffect DEF Reply, Dies
  <2>2. RefusalOK(h)'
    BY <2>1 DEF RefusalOK
  <2>3. QED
    BY <1>2, <2>1, <2>2 DEF SameRequest
<1>9. CASE RegisterVersion \/ UNCHANGED vars
  <2>1. UNCHANGED <<pc, kind, payload, listing, status>>
    BY <1>9 DEF RegisterVersion, vars, request, reception
  <2>2. QED
    BY <2>1, RefusalFrame DEF RefusalInv
<1>10. ASSUME NEW h \in Handler, NEW p \in Payload, Post(h, p) \/ Submit(h, p)
       PROVE  RefusalInv'
  <2>1. BatchOf[p] \in Batch
    BY PayloadAssumption
  <2>2. QED
    BY <1>3, <1>10, <2>1 DEF Post, Submit
<1>11. ASSUME NEW h \in Handler, NEW b \in Batch, Promote(h, b) PROVE RefusalInv'
  BY <1>3, <1>11 DEF Promote
<1>12. QED
  BY <1>4, <1>5, <1>6, <1>7, <1>8, <1>9, <1>10, <1>11 DEF Next

(* A receipt goes the way of BatchDelivery, whatever becomes of requests. *)
LEMMA ReceiptAdvances ==
  ASSUME IInv, [Next]_vars, NEW p \in Payload
  PROVE  /\ Receipt(p) \in Delivery!Receipt
         /\ Receipt(p)' \in Delivery!Receipt
         /\ Receipt(p)' \in Delivery!Becomes(Receipt(p))
<1>1. batchRow[p] \in Stored \cup {"none"}
  BY DEF IInv, TypeOK
<1>2. IInv'
  BY NextIInv
<1>3. batchRow'[p] \in Stored \cup {"none"}
  BY <1>2 DEF IInv, TypeOK
<1>4. batchRow[p] # "none" => batchRow'[p] = batchRow[p]
  BY TablesGrow
<1>5. \A v : Promoted(p, v) => Promoted(p, v)'
  <2>1. \A b, e, v : HasArtifact(b, e, v) => HasArtifact(b, e, v)'
    BY TablesGrow DEF HasArtifact
  <2>2. QED
    BY <2>1, TablesGrow DEF Promoted, ItemsOf
<1>6. (\E v \in 1 .. version : Promoted(p, v)) => (\E v \in 1 .. version : Promoted(p, v))'
  BY <1>5, TablesGrow
<1> DEFINE isPromoted == \E v \in 1 .. version : Promoted(p, v)
<1>7. /\ Receipt(p) = CASE batchRow[p] = "none" -> "none"
                        [] batchRow[p] \in {"conflict", "rejected"} -> "refused"
                        [] OTHER -> IF isPromoted THEN "promoted" ELSE "accepted"
      /\ Receipt(p)' = CASE batchRow'[p] = "none" -> "none"
                         [] batchRow'[p] \in {"conflict", "rejected"} -> "refused"
                         [] OTHER -> IF isPromoted' THEN "promoted" ELSE "accepted"
  BY DEF Receipt
<1>8. isPromoted => isPromoted'
  BY <1>6
<1> HIDE DEF isPromoted
<1>9. QED
  BY <1>1, <1>3, <1>4, <1>7, <1>8
  DEF Delivery!Receipt, Delivery!Becomes, Stored, Verdict

(* What a request may tell the generator of its batch. *)
LEMMA AnswerTells ==
  ASSUME IInv, RefusalInv, NEW h \in Handler, pc[h] = "reply", kind[h] = "internal"
  PROVE  /\ payload[h] \in Payload
         /\ status[h] \in {"accepted", "duplicate"} => Receipt(payload[h]) \in Delivery!Closed
         /\ status[h] \in {"conflict", "rejected"} => Receipt(payload[h]) = "refused"
<1>1. payload[h] \in Payload
  BY DEF IInv, RequestOK
<1>2. batchRow[payload[h]] \in Stored \cup {"none"}
  BY <1>1 DEF IInv, TypeOK
<1>3. ASSUME status[h] \in {"accepted", "duplicate"}
      PROVE  Receipt(payload[h]) \in Delivery!Closed
  <2>1. /\ batchRow[payload[h]] # "none"
        /\ batchRow[payload[h]] = "accepted" => \E v \in 1 .. version : Promoted(payload[h], v)
    BY <1>3 DEF IInv, AnswerOK
  <2>2. QED
    BY <1>2, <2>1 DEF Receipt, Delivery!Closed, Stored, Verdict
<1>4. ASSUME status[h] \in {"conflict", "rejected"}
      PROVE  Receipt(payload[h]) = "refused"
  <2>1. batchRow[payload[h]] = status[h]
    BY <1>4 DEF RefusalInv, RefusalOK, Receiving
  <2>2. QED
    BY <1>4, <2>1 DEF Receipt
<1>5. QED
  BY <1>1, <1>3, <1>4

LEMMA DeliveryStep ==
  ASSUME IInv, RefusalInv, [Next]_vars
  PROVE  [Delivery!Next]_(Delivery!vars)
<1> DEFINE receipts == [p \in Payload |-> Receipt(p)]
<1>1. TypeOK
  BY DEF IInv
<1>2. CASE UNCHANGED delivery
  <2>1. /\ receipts' \in [Payload -> Delivery!Receipt]
        /\ \A p \in Payload : receipts'[p] \in Delivery!Becomes(receipts[p])
    BY ReceiptAdvances
  <2>2. Delivery!Advance
    BY <1>2, <2>1 DEF Delivery!Advance
  <2>3. QED
    BY <2>2 DEF Delivery!Next
<1>3. ASSUME NEW h \in Handler, Reply(h) PROVE [Delivery!Next]_(Delivery!vars)
  <2>1. /\ UNCHANGED <<batchRow, artifacts, version>> /\ pc[h] = "reply"
        /\ delivery' = IF kind[h] = "internal"
                       THEN [delivery EXCEPT ![payload[h]] = Told(@, status[h])] ELSE delivery
    BY <1>3 DEF Reply, inbox, results
  <2>2. UNCHANGED receipts
    BY <2>1 DEF Receipt, Promoted, HasArtifact, ItemsOf
  <2>3. CASE kind[h] = "internal" /\ delivery[payload[h]] = "open"
             /\ status[h] \in {"accepted", "duplicate"}
    <3>1. payload[h] \in Payload /\ receipts[payload[h]] \in Delivery!Closed
      BY <2>1, <2>3, AnswerTells
    <3>2. delivery' = [delivery EXCEPT ![payload[h]] = "delivered"]
      BY <2>1, <2>3 DEF Told
    <3>3. Delivery!Deliver(payload[h])
      BY <2>2, <2>3, <3>1, <3>2 DEF Delivery!Deliver, Delivery!Settle
    <3>4. QED
      BY <3>1, <3>3 DEF Delivery!Next
  <2>4. CASE kind[h] = "internal" /\ delivery[payload[h]] = "open"
             /\ status[h] \in {"conflict", "rejected"}
    <3>1. payload[h] \in Payload /\ receipts[payload[h]] = "refused"
      BY <2>1, <2>4, AnswerTells
    <3>2. delivery' = [delivery EXCEPT ![payload[h]] = "refused"]
      BY <2>1, <2>4 DEF Told
    <3>3. Delivery!Refuse(payload[h])
      BY <2>2, <2>4, <3>1, <3>2 DEF Delivery!Refuse, Delivery!Settle
    <3>4. QED
      BY <3>1, <3>3 DEF Delivery!Next
  <2>5. CASE \/ kind[h] # "internal" \/ delivery[payload[h]] # "open"
             \/ status[h] \notin {"accepted", "duplicate", "conflict", "rejected"}
    <3>1. delivery' = delivery
      BY <1>1, <2>1, <2>5 DEF Told, TypeOK
    <3>2. QED
      BY <1>2, <3>1
  <2>6. QED
    BY <2>3, <2>4, <2>5
<1>4. ASSUME NEW h \in Handler,
             \/ \E p \in Payload : Post(h, p) \/ Submit(h, p)
             \/ \E b \in Batch : Promote(h, b)
             \/ LockBatch(h) \/ LockEvent(h) \/ EventsLocked(h)
             \/ ReceiveBatch(h) \/ ReceiveItem(h) \/ StoreReceipt(h)
             \/ ReadContext(h) \/ LockAccepted(h) \/ PromoteItem(h) \/ SavePromotions(h)
             \/ Dies(h)
      PROVE  UNCHANGED delivery
  BY <1>4 DEF Post, Submit, Promote, Begin, LockBatch, LockEvent, EventsLocked, ReceiveBatch,
     ReceiveItem, StoreReceipt, ReadContext, LockAccepted, PromoteItem, SavePromotions, Dies,
     outside
<1>5. CASE RegisterVersion \/ UNCHANGED vars
  BY <1>2, <1>5 DEF RegisterVersion, vars, outside
<1>6. QED
  BY <1>2, <1>3, <1>4, <1>5 DEF Next

(* The Backend keeps its side of the delivery, for any requests, batches   *)
(* and results: whatever dies, is repeated or runs side by side, a receipt *)
(* never goes back, the generator is told "delivered" only of a batch that *)
(* is promoted or refused, and "refused" only of a refused one.            *)
THEOREM DeliveryImplemented == Spec => ImplementsDelivery
<1>1. Init => Delivery!Init
  BY DEF Init, Delivery!Init, Receipt
<1>2. IInv /\ RefusalInv /\ [Next]_vars => RefusalInv'
  BY NextRefusal
<1>3. Spec => [](IInv /\ RefusalInv)
  BY <1>2, InitIInv, InitRefusal, NextIInv, PTL DEF Spec
<1>4. IInv /\ RefusalInv /\ [Next]_vars => [Delivery!Next]_(Delivery!vars)
  BY DeliveryStep
<1>5. QED
  BY <1>1, <1>3, <1>4, PTL DEF Spec, ImplementsDelivery, Delivery!Spec
===============================================================================
