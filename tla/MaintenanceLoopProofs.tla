----------------------- MODULE MaintenanceLoopProofs -----------------------
(* Proofs about MaintenanceLoop, for every set of cases, machines, operators, *)
(* request threads and idempotency keys, on both stores.                      *)
EXTENDS MaintenanceLoop, FiniteSetTheorems, SequenceTheorems, TLAPS

USE RecordsAssumption, LoopAssumption

-----------------------------------------------------------------------------
(* Between the check of its rows and its end a transaction relies on what *)
(* it has read and on the rows it has locked.                             *)
Inside(t) == pc[t] \in {"write", "equipment", "commit"}

RequestOK(t) == Working(t) => req[t] \in Requests /\ key[t] \in Keys

ReadOK(t) ==
  Inside(t) =>
    /\ req[t].op = "recommend" => outcome[req[t].case] = "maintenance_recommended"
    /\ req[t].op = "decide" =>
         readStatus[t] \in {"proposed"} \cup (IF req[t].choice = "defer" THEN {} ELSE {"deferred"})
    /\ req[t].op = "replay" => readVersion[t] < 3

(* A row a transaction has locked still meets the condition of its update. *)
HeldOK(t) ==
  /\ held[t] # {} => Inside(t)
  /\ "equipment" \in held[t] => "action" \in held[t]
  /\ \A table \in held[t] :
       /\ table \in TablesOf(req[t].op)
       /\ lock[RowOf(req[t], table)] = t
       /\ WhereHolds(t, table)

FullOK(t) == pc[t] = "commit" => held[t] = TablesOf(req[t].op) \/ Deduplicated(t)

(* The equipment row a completion has read is the row of that version. *)
StateOK(t) ==
  pc[t] \in {"write", "commit"} /\ req[t].op = "complete" /\ "action" \in held[t] =>
    LET s == equipmentState[EquipmentOf[req[t].case]] IN
    /\ readState[t].version <= s.version
    /\ readState[t].version = s.version => readState[t] = s

ThreadOK(t) == RequestOK(t) /\ ReadOK(t) /\ HeldOK(t) /\ FullOK(t) /\ StateOK(t)

RecordsInv == RecordsTypeOK /\ ChainAgrees /\ EquipmentCounts

IInv == TypeOK /\ RecordsInv /\ AnswersHold /\ \A t \in Threads : ThreadOK(t)

-----------------------------------------------------------------------------
(* The history of the first n versions, and one more. *)
LEMMA AppendVersion ==
  ASSUME NEW n \in 0 .. 2
  PROVE  Append([i \in 1 .. n |-> i], n + 1) = [i \in 1 .. (n + 1) |-> i]
  <1> DEFINE s == [i \in 1 .. n |-> i]
  <1>1. s \in Seq(Nat) /\ Len(s) = n
    OBVIOUS
  <1>2. Append(s, n + 1) \in Seq(Nat) /\ Len(Append(s, n + 1)) = n + 1
    BY <1>1
  <1>3. \A i \in 1 .. (n + 1) : Append(s, n + 1)[i] = i
    BY <1>1
  <1>4. Append(s, n + 1) = [i \in 1 .. (n + 1) |-> Append(s, n + 1)[i]]
    BY <1>2
  <1>5. QED
    BY <1>3, <1>4

(* What is known of a request. *)
LEMMA RequestShape ==
  ASSUME NEW r \in Requests
  PROVE  /\ r.op \in Ops /\ r.case \in Cases /\ r.by \in Operators \cup {Nobody}
         /\ r.op \in {"assign", "begin", "record"} <=> r.by # Nobody
         /\ r.op = "record" => r.choice \in Outcomes
         /\ r.op = "decide" => r.choice \in Dispositions
         /\ r # NoRequest
  BY DEF Requests, NoRequest, Ops, Outcomes, Dispositions

(* ---------------- the commands keep the rows in agreement -------------- *)
(* A command writes the rows of one case. *)
OnlyCase(c) ==
  \A x \in Cases \ {c} :
    /\ inspection'[x] = inspection[x] /\ assignee'[x] = assignee[x] /\ outcome'[x] = outcome[x]
    /\ recommendation'[x] = recommendation[x] /\ decisions'[x] = decisions[x]
    /\ workOrder'[x] = workOrder[x] /\ action'[x] = action[x] /\ version'[x] = version[x]
    /\ outbox'[x] = outbox[x]

LEMMA OneCase ==
  ASSUME ChainAgrees, NEW c \in Cases, OnlyCase(c), CaseAgrees(c)'
  PROVE  ChainAgrees'
  <1>1. ASSUME NEW x \in Cases, x # c PROVE CaseAgrees(x)'
    BY <1>1 DEF ChainAgrees, CaseAgrees, OnlyCase
  <1>2. QED
    BY <1>1 DEF ChainAgrees

LEMMA SameCompletions ==
  ASSUME EquipmentCounts, equipmentState' = equipmentState,
         \A x \in Cases : action'[x] = "completed" <=> action[x] = "completed"
  PROVE  EquipmentCounts'
  <1>1. \A e : CompletedOn(e)' = CompletedOn(e)
    BY DEF CompletedOn
  <1>2. QED
    BY <1>1 DEF EquipmentCounts

LEMMA RequestStep ==
  ASSUME RecordsInv, NEW c \in Cases, inspection[c] = "none", RequestInspection(c)
  PROVE  RecordsInv'
  <1> USE DEF RequestInspection, RecordsInv
  <1>1. RecordsTypeOK'
    BY DEF RecordsTypeOK, WorkStatus
  <1>2. OnlyCase(c) /\ inspection'[c] = "requested"
    BY DEF OnlyCase, RecordsTypeOK
  <1>3. CaseAgrees(c)'
    BY <1>2 DEF ChainAgrees, CaseAgrees
  <1>4. QED
    BY <1>1, <1>2, <1>3, OneCase, SameCompletions

LEMMA AssignStep ==
  ASSUME RecordsInv, NEW c \in Cases, NEW who \in Operators,
         inspection[c] = "requested", AssignInspection(c, who)
  PROVE  RecordsInv'
  <1> USE DEF AssignInspection, RecordsInv
  <1>1. RecordsTypeOK'
    BY DEF RecordsTypeOK, WorkStatus
  <1>2. OnlyCase(c) /\ inspection'[c] = "approved" /\ assignee'[c] = who
    BY DEF OnlyCase, RecordsTypeOK
  <1>3. CaseAgrees(c)'
    BY <1>2 DEF ChainAgrees, CaseAgrees
  <1>4. QED
    BY <1>1, <1>2, <1>3, OneCase, SameCompletions

LEMMA BeginStep ==
  ASSUME RecordsInv, NEW c \in Cases, inspection[c] = "approved", BeginInspection(c)
  PROVE  RecordsInv'
  <1> USE DEF BeginInspection, RecordsInv
  <1>1. RecordsTypeOK'
    BY DEF RecordsTypeOK, WorkStatus
  <1>2. OnlyCase(c) /\ inspection'[c] = "in_progress"
    BY DEF OnlyCase, RecordsTypeOK
  <1>3. CaseAgrees(c)'
    BY <1>2 DEF ChainAgrees, CaseAgrees
  <1>4. QED
    BY <1>1, <1>2, <1>3, OneCase, SameCompletions

LEMMA RecordStep ==
  ASSUME RecordsInv, NEW c \in Cases, NEW found \in Outcomes,
         inspection[c] = "in_progress", CompleteInspection(c, found)
  PROVE  RecordsInv'
  <1> USE DEF CompleteInspection, RecordsInv
  <1>1. RecordsTypeOK'
    BY DEF RecordsTypeOK, WorkStatus
  <1>2. OnlyCase(c) /\ inspection'[c] = "completed" /\ outcome'[c] = found
    BY DEF OnlyCase, RecordsTypeOK
  <1>3. found # "none"
    BY DEF Outcomes
  <1>4. CaseAgrees(c)'
    BY <1>2, <1>3 DEF ChainAgrees, CaseAgrees
  <1>5. QED
    BY <1>1, <1>2, <1>4, OneCase, SameCompletions

LEMMA RecommendStep ==
  ASSUME RecordsInv, NEW c \in Cases,
         outcome[c] = "maintenance_recommended", recommendation[c] = "none", CreateRecommendation(c)
  PROVE  RecordsInv'
  <1> USE DEF CreateRecommendation, RecordsInv
  <1>1. RecordsTypeOK'
    BY DEF RecordsTypeOK, RecommendationStatus
  <1>2. OnlyCase(c) /\ recommendation'[c] = "proposed"
    BY DEF OnlyCase, RecordsTypeOK
  <1>3. Trails("none") = Trails("proposed")
    BY DEF Trails
  <1>4. CaseAgrees(c)'
    BY <1>2, <1>3 DEF ChainAgrees, CaseAgrees
  <1>5. QED
    BY <1>1, <1>2, <1>4, OneCase, SameCompletions

(* A decision moves the history of a recommendation to one of the next status. *)
LEMMA DecideStep ==
  ASSUME RecordsInv, NEW c \in Cases, NEW d \in Dispositions,
         Decidable(c, d), DecideRecommendation(c, d)
  PROVE  RecordsInv'
  <1> USE DEF Decidable, DecideRecommendation, RecordsInv
  <1>1. Decided(d) \in {"accepted", "rejected", "deferred"}
    BY DEF Decided, Dispositions
  <1>2. RecordsTypeOK'
    BY <1>1 DEF RecordsTypeOK, RecommendationStatus, WorkStatus
  <1>3. CaseAgrees(c)
    BY DEF ChainAgrees
  <1>4. Append(decisions[c], d) \in Trails(Decided(d))
    <2>1. CASE recommendation[c] = "proposed"
      <3>1. decisions[c] = <<>>
        BY <1>3, <2>1 DEF Trails, CaseAgrees
      <3>2. Append(decisions[c], d) = <<d>>
        BY <3>1
      <3>3. QED
        BY <3>2 DEF Trails, Decided, Dispositions
    <2>2. CASE recommendation[c] = "deferred" /\ d # "defer"
      <3>1. decisions[c] = <<"defer">>
        BY <1>3, <2>2 DEF Trails, CaseAgrees
      <3>2. Append(<<"defer">>, d) = <<"defer", d>>
        <4>1. <<"defer">> \in Seq(Dispositions) /\ Len(<<"defer">>) = 1
          BY DEF Dispositions
        <4>2. /\ Append(<<"defer">>, d) \in Seq(Dispositions)
              /\ Len(Append(<<"defer">>, d)) = 2
              /\ \A i \in 1 .. 2 : Append(<<"defer">>, d)[i] = <<"defer", d>>[i]
          BY <4>1
        <4>3. <<"defer", d>> \in Seq(Dispositions) /\ Len(<<"defer", d>>) = 2
          BY DEF Dispositions
        <4>4. \A p, q \in Seq(Dispositions) :
                Len(p) = Len(q) /\ (\A i \in 1 .. Len(p) : p[i] = q[i]) => p = q
          BY SeqEqual
        <4>5. QED
          BY <4>2, <4>3, <4>4
      <3>3. QED
        BY <2>2, <3>1, <3>2 DEF Trails, Decided, Dispositions
    <2>3. QED
      BY <2>1, <2>2
  <1>5. workOrder[c] = "none" /\ action[c] = "none" /\ version[c] = 0
    BY <1>3 DEF CaseAgrees, Stages
  <1>6. OnlyCase(c) /\ recommendation'[c] = Decided(d) /\ decisions'[c] = Append(decisions[c], d)
    BY DEF OnlyCase, RecordsTypeOK
  <1>7. workOrder'[c] = IF d = "accept" THEN "requested" ELSE "none"
    BY <1>5 DEF RecordsTypeOK
  <1>8. Decided(d) = "accepted" <=> d = "accept"
    BY DEF Decided, Dispositions
  <1>9. CaseAgrees(c)'
    BY <1>1, <1>3, <1>4, <1>5, <1>6, <1>7, <1>8 DEF CaseAgrees, Stages
  <1>10. QED
    BY <1>2, <1>6, <1>9, OneCase, SameCompletions

LEMMA ApproveStep ==
  ASSUME RecordsInv, NEW c \in Cases, workOrder[c] = "requested", ApproveWorkOrder(c)
  PROVE  RecordsInv'
  <1> USE DEF ApproveWorkOrder, RecordsInv
  <1>1. RecordsTypeOK'
    BY DEF RecordsTypeOK, WorkStatus, ActionStatus
  <1>2. action[c] = "none" /\ version[c] = 0
    BY DEF ChainAgrees, CaseAgrees, Stages
  <1>3. OnlyCase(c) /\ workOrder'[c] = "approved" /\ action'[c] = "planned"
    BY DEF OnlyCase, RecordsTypeOK
  <1>4. CaseAgrees(c)'
    BY <1>2, <1>3 DEF ChainAgrees, CaseAgrees, Stages
  <1>5. \A x \in Cases : action'[x] = "completed" <=> action[x] = "completed"
    BY <1>2, <1>3 DEF OnlyCase
  <1>6. QED
    BY <1>1, <1>3, <1>4, <1>5, OneCase, SameCompletions

(* The next version is enqueued behind those before it. *)
LEMMA EnqueueStep ==
  ASSUME RecordsTypeOK, NEW c \in Cases, NEW v \in 1 .. 3, version[c] = v - 1,
         outbox[c] = [i \in 1 .. version[c] |-> i], Enqueue(c, v)
  PROVE  /\ version' \in [Cases -> 0 .. 3]
         /\ outbox' \in [Cases -> Seq(1 .. 3)]
         /\ version'[c] = v
         /\ outbox'[c] = [i \in 1 .. version'[c] |-> i]
         /\ \A x \in Cases \ {c} : version'[x] = version[x] /\ outbox'[x] = outbox[x]
  <1> USE DEF Enqueue, RecordsTypeOK
  <1>1. version' \in [Cases -> 0 .. 3] /\ version'[c] = v
    OBVIOUS
  <1>2. outbox' \in [Cases -> Seq(1 .. 3)] /\ outbox'[c] = Append(outbox[c], v)
    OBVIOUS
  <1>3. outbox'[c] = [i \in 1 .. v |-> i]
    <2>1. Append([i \in 1 .. (v - 1) |-> i], (v - 1) + 1) = [i \in 1 .. ((v - 1) + 1) |-> i]
      BY AppendVersion
    <2>2. (v - 1) + 1 = v
      OBVIOUS
    <2>3. QED
      BY <1>2, <2>1, <2>2
  <1>4. QED
    BY <1>1, <1>2, <1>3

LEMMA StartStep ==
  ASSUME RecordsInv, NEW c \in Cases,
         workOrder[c] = "approved", action[c] = "planned", StartMaintenance(c)
  PROVE  RecordsInv'
  <1> USE DEF StartMaintenance, RecordsInv
  <1>1. CaseAgrees(c) /\ version[c] = 0 /\ version[c] = 1 - 1 /\ Enqueue(c, 1)
    BY DEF ChainAgrees, CaseAgrees, Stages
  <1>2. outbox[c] = [i \in 1 .. version[c] |-> i] /\ 1 \in 1 .. 3
    BY <1>1 DEF CaseAgrees
  <1>3. /\ version' \in [Cases -> 0 .. 3]
        /\ outbox' \in [Cases -> Seq(1 .. 3)]
        /\ version'[c] = 1
        /\ outbox'[c] = [i \in 1 .. version'[c] |-> i]
        /\ \A x \in Cases \ {c} : version'[x] = version[x] /\ outbox'[x] = outbox[x]
    BY <1>1, <1>2, EnqueueStep DEF RecordsInv
  <1>4. RecordsTypeOK'
    BY <1>3 DEF RecordsTypeOK, WorkStatus, ActionStatus
  <1>5. OnlyCase(c) /\ workOrder'[c] = "in_progress" /\ action'[c] = "in_progress"
    BY <1>3 DEF OnlyCase, RecordsTypeOK
  <1>6. CaseAgrees(c)'
    BY <1>1, <1>3, <1>5 DEF CaseAgrees, Stages
  <1>7. \A x \in Cases : action'[x] = "completed" <=> action[x] = "completed"
    BY <1>5 DEF OnlyCase
  <1>8. QED
    BY <1>4, <1>5, <1>6, <1>7, OneCase, SameCompletions

(* The machine's row gains the patch of the case, which it did not have. *)
LEMMA CompleteStep ==
  ASSUME RecordsInv, NEW c \in Cases, workOrder[c] = "in_progress", action[c] = "in_progress",
         CompleteMaintenance(c, equipmentState[EquipmentOf[c]])
  PROVE  RecordsInv'
  <1> USE DEF CompleteMaintenance, RecordsInv
  <1> DEFINE e0 == EquipmentOf[c]
             s == equipmentState[e0]
  <1>1. CaseAgrees(c) /\ version[c] = 1 /\ version[c] = 2 - 1 /\ Enqueue(c, 2)
    BY DEF ChainAgrees, CaseAgrees, Stages
  <1>2. outbox[c] = [i \in 1 .. version[c] |-> i] /\ 2 \in 1 .. 3
    BY <1>1 DEF CaseAgrees
  <1>3. /\ version' \in [Cases -> 0 .. 3]
        /\ outbox' \in [Cases -> Seq(1 .. 3)]
        /\ version'[c] = 2
        /\ outbox'[c] = [i \in 1 .. version'[c] |-> i]
        /\ \A x \in Cases \ {c} : version'[x] = version[x] /\ outbox'[x] = outbox[x]
    BY <1>1, <1>2, EnqueueStep DEF RecordsInv
  <1>4. e0 \in Equipment /\ s \in [version : Nat, patches : SUBSET Cases]
    BY DEF RecordsTypeOK
  <1>5. Patched(s, c) \in [version : Nat, patches : SUBSET Cases]
    BY <1>4 DEF Patched
  <1>6. /\ equipmentState' \in [Equipment -> [version : Nat, patches : SUBSET Cases]]
        /\ equipmentState'[e0] = Patched(s, c)
        /\ \A e \in Equipment \ {e0} : equipmentState'[e] = equipmentState[e]
    BY <1>4, <1>5 DEF RecordsTypeOK
  <1>7. RecordsTypeOK'
    BY <1>3, <1>6 DEF RecordsTypeOK, WorkStatus, ActionStatus
  <1>8. OnlyCase(c) /\ workOrder'[c] = "completed" /\ action'[c] = "completed"
    BY <1>3 DEF OnlyCase, RecordsTypeOK
  <1>9. CaseAgrees(c)'
    BY <1>1, <1>3, <1>8 DEF CaseAgrees, Stages
  <1>10. EquipmentCounts'
    <2>1. CompletedOn(e0)' = CompletedOn(e0) \cup {c} /\ c \notin CompletedOn(e0)
      BY <1>8 DEF CompletedOn, OnlyCase
    <2>2. \A e \in Equipment \ {e0} : CompletedOn(e)' = CompletedOn(e)
      BY <1>8 DEF CompletedOn, OnlyCase
    <2>3. IsFiniteSet(CompletedOn(e0))
      BY FS_Subset DEF CompletedOn
    <2>4. Cardinality(CompletedOn(e0)') = Cardinality(CompletedOn(e0)) + 1
      BY <2>1, <2>3, FS_AddElement
    <2>5. s.patches = CompletedOn(e0) /\ s.version = Cardinality(CompletedOn(e0))
      BY <1>4 DEF EquipmentCounts
    <2>6. /\ equipmentState'[e0].patches = CompletedOn(e0)'
          /\ equipmentState'[e0].version = Cardinality(CompletedOn(e0)')
      BY <1>6, <2>1, <2>4, <2>5 DEF Patched
    <2>7. QED
      BY <1>6, <2>2, <2>6 DEF EquipmentCounts
  <1>11. QED
    BY <1>7, <1>8, <1>9, <1>10, OneCase

LEMMA ReplayStep ==
  ASSUME RecordsInv, NEW c \in Cases, action[c] = "completed", version[c] = 2, RequestReplay(c)
  PROVE  RecordsInv'
  <1> USE DEF RequestReplay, RecordsInv
  <1>1. CaseAgrees(c) /\ version[c] = 3 - 1 /\ Enqueue(c, 3)
    BY DEF ChainAgrees
  <1>2. outbox[c] = [i \in 1 .. version[c] |-> i] /\ 3 \in 1 .. 3
    BY <1>1 DEF CaseAgrees
  <1>3. /\ version' \in [Cases -> 0 .. 3]
        /\ outbox' \in [Cases -> Seq(1 .. 3)]
        /\ version'[c] = 3
        /\ outbox'[c] = [i \in 1 .. version'[c] |-> i]
        /\ \A x \in Cases \ {c} : version'[x] = version[x] /\ outbox'[x] = outbox[x]
    BY <1>1, <1>2, EnqueueStep DEF RecordsInv
  <1>4. RecordsTypeOK'
    BY <1>3 DEF RecordsTypeOK
  <1>5. OnlyCase(c)
    BY <1>3 DEF OnlyCase
  <1>6. CaseAgrees(c)'
    BY <1>1, <1>3 DEF CaseAgrees, Stages
  <1>7. QED
    BY <1>4, <1>5, <1>6, OneCase, SameCompletions

LEMMA InitRecords ==
  ASSUME RecordsInit
  PROVE  RecordsInv
  <1>1. PICK o \in Openings :
          /\ inspection = [c \in Cases |-> IF o[c] = "new" THEN "none" ELSE "completed"]
          /\ \E who \in Operators : assignee = [c \in Cases |-> IF o[c] = "new" THEN Nobody ELSE who]
          /\ outcome = [c \in Cases |-> IF o[c] = "new" THEN "none" ELSE "maintenance_recommended"]
          /\ recommendation = [c \in Cases |-> IF o[c] = "new" THEN "none" ELSE o[c]]
          /\ decisions = [c \in Cases |-> CASE o[c] = "new" -> <<>>
                                            [] o[c] = "rejected" -> <<"reject">>
                                            [] o[c] = "accepted" -> <<"accept">>]
          /\ workOrder = [c \in Cases |-> IF o[c] = "accepted" THEN "requested" ELSE "none"]
          /\ action = [c \in Cases |-> "none"]
          /\ version = [c \in Cases |-> 0]
          /\ outbox = [c \in Cases |-> <<>>]
          /\ equipmentState = [e \in Equipment |-> NoState]
    BY DEF RecordsInit
  <1>2. \A c \in Cases : o[c] \in {"new", "rejected", "accepted"}
    BY DEF Opening
  <1>3. PICK who \in Operators : assignee = [c \in Cases |-> IF o[c] = "new" THEN Nobody ELSE who]
    BY <1>1
  <1>4. RecordsTypeOK
    <2>1. /\ inspection \in [Cases -> WorkStatus] /\ outcome \in [Cases -> Outcomes \cup {"none"}]
          /\ workOrder \in [Cases -> WorkStatus] /\ action \in [Cases -> ActionStatus]
      BY <1>1 DEF WorkStatus, Outcomes, ActionStatus
    <2>2. recommendation \in [Cases -> RecommendationStatus]
      BY <1>1, <1>2 DEF RecommendationStatus
    <2>3. decisions \in [Cases -> Seq(Dispositions)]
      <3>1. <<>> \in Seq(Dispositions) /\ <<"reject">> \in Seq(Dispositions)
            /\ <<"accept">> \in Seq(Dispositions)
        BY DEF Dispositions
      <3>2. QED
        BY <1>1, <1>2, <3>1
    <2>4. assignee \in [Cases -> Operators \cup {Nobody}]
      BY <1>3
    <2>5. version \in [Cases -> 0 .. 3] /\ outbox \in [Cases -> Seq(1 .. 3)]
      BY <1>1
    <2>6. equipmentState \in [Equipment -> [version : Nat, patches : SUBSET Cases]]
      BY <1>1 DEF NoState
    <2>7. QED
      BY <2>1, <2>2, <2>3, <2>4, <2>5, <2>6 DEF RecordsTypeOK
  <1>5. ASSUME NEW c \in Cases PROVE CaseAgrees(c)
    <2>1. /\ inspection[c] \in {"none", "requested"} <=> assignee[c] = Nobody
          /\ inspection[c] = "completed" <=> outcome[c] # "none"
          /\ recommendation[c] # "none" => outcome[c] = "maintenance_recommended"
          /\ workOrder[c] # "none" <=> recommendation[c] = "accepted"
      BY <1>1, <1>2, <1>3
    <2>2. decisions[c] \in Trails(recommendation[c])
      BY <1>1, <1>2 DEF Trails
    <2>3. <<workOrder[c], action[c], version[c]>> \in Stages
      BY <1>1 DEF Stages
    <2>4. outbox[c] = [i \in 1 .. version[c] |-> i]
      BY <1>1
    <2>5. QED
      BY <2>1, <2>2, <2>3, <2>4 DEF CaseAgrees
  <1>6. EquipmentCounts
    <2>1. \A e \in Equipment : CompletedOn(e) = {}
      BY <1>1 DEF CompletedOn
    <2>2. QED
      BY <1>1, <2>1, FS_EmptySet DEF EquipmentCounts, NoState
  <1>7. QED
    BY <1>4, <1>5, <1>6 DEF RecordsInv, ChainAgrees

-----------------------------------------------------------------------------
(* A command takes effect, at one instant and where it is allowed. *)
Applied(r) ==
  LET c == r.case IN
  \/ r.op = "request" /\ inspection[c] = "none" /\ RequestInspection(c)
  \/ r.op = "assign" /\ inspection[c] = "requested" /\ AssignInspection(c, r.by)
  \/ r.op = "begin" /\ inspection[c] = "approved" /\ assignee[c] = r.by /\ BeginInspection(c)
  \/ r.op = "record" /\ inspection[c] = "in_progress" /\ assignee[c] = r.by
     /\ CompleteInspection(c, r.choice)
  \/ r.op = "recommend" /\ outcome[c] = "maintenance_recommended" /\ recommendation[c] = "none"
     /\ CreateRecommendation(c)
  \/ r.op = "decide" /\ Decidable(c, r.choice) /\ DecideRecommendation(c, r.choice)
  \/ r.op = "approve" /\ workOrder[c] = "requested" /\ ApproveWorkOrder(c)
  \/ r.op = "start" /\ workOrder[c] = "approved" /\ action[c] = "planned" /\ StartMaintenance(c)
  \/ r.op = "complete" /\ workOrder[c] = "in_progress" /\ action[c] = "in_progress"
     /\ CompleteMaintenance(c, equipmentState[EquipmentOf[c]])
  \/ r.op = "replay" /\ action[c] = "completed" /\ version[c] = 2 /\ RequestReplay(c)

(* A recommendation that exists is answered without a change. *)
Repeated(r) ==
  r.op = "recommend" /\ recommendation[r.case] # "none" /\ UNCHANGED records

LEMMA AppliedKeepsRecords ==
  ASSUME RecordsInv, NEW r \in Requests, Applied(r)
  PROVE  RecordsInv'
  <1> USE DEF Applied
  <1>1. /\ r.op \in Ops /\ r.case \in Cases
        /\ r.op = "assign" => r.by \in Operators
        /\ r.op = "record" => r.choice \in Outcomes
        /\ r.op = "decide" => r.choice \in Dispositions
    BY RequestShape
  <1>2. CASE r.op \in {"request", "assign", "begin", "record"}
    BY <1>1, <1>2, RequestStep, AssignStep, BeginStep, RecordStep
  <1>3. CASE r.op \in {"recommend", "decide"}
    BY <1>1, <1>3, RecommendStep, DecideStep
  <1>4. CASE r.op \in {"approve", "start", "complete", "replay"}
    BY <1>1, <1>4, ApproveStep, StartStep, CompleteStep, ReplayStep
  <1>5. QED
    BY <1>1, <1>2, <1>3, <1>4 DEF Ops

LEMMA AppliedImplements ==
  ASSUME NEW r \in Requests, Applied(r)
  PROVE  Lifecycle!Next
  <1>1. /\ r.op \in Ops /\ r.case \in Cases
        /\ r.op = "assign" => r.by \in Operators
        /\ r.op = "record" => r.choice \in Outcomes
        /\ r.op = "decide" => r.choice \in Dispositions
    BY RequestShape
  <1> DEFINE c == r.case
  <1>2. CASE r.op = "request"
    <2>1. Lifecycle!Request(c)
      BY <1>2 DEF Applied, Lifecycle!Request, Lifecycle!RequestInspection, RequestInspection
    <2>2. QED
      BY <1>1, <2>1 DEF Lifecycle!Next
  <1>3. CASE r.op = "assign"
    <2>1. Lifecycle!Assign(c, r.by)
      BY <1>3 DEF Applied, Lifecycle!Assign, Lifecycle!AssignInspection, AssignInspection
    <2>2. QED
      BY <1>1, <1>3, <2>1 DEF Lifecycle!Next
  <1>4. CASE r.op = "begin"
    <2>1. Lifecycle!Begin(c)
      BY <1>4 DEF Applied, Lifecycle!Begin, Lifecycle!BeginInspection, BeginInspection
    <2>2. QED
      BY <1>1, <2>1 DEF Lifecycle!Next
  <1>5. CASE r.op = "record"
    <2>1. Lifecycle!Record(c, r.choice)
      BY <1>5 DEF Applied, Lifecycle!Record, Lifecycle!CompleteInspection, CompleteInspection
    <2>2. Lifecycle!Outcomes = Outcomes
      BY DEF Lifecycle!Outcomes, Outcomes
    <2>3. QED
      BY <1>1, <1>5, <2>1, <2>2 DEF Lifecycle!Next
  <1>6. CASE r.op = "recommend"
    <2>1. Lifecycle!Recommend(c)
      BY <1>6 DEF Applied, Lifecycle!Recommend, Lifecycle!CreateRecommendation, CreateRecommendation
    <2>2. QED
      BY <1>1, <2>1 DEF Lifecycle!Next
  <1>7. CASE r.op = "decide"
    <2>1. Lifecycle!Decided(r.choice) = Decided(r.choice)
      BY DEF Lifecycle!Decided, Decided
    <2>2. Lifecycle!Decide(c, r.choice)
      BY <1>7, <2>1 DEF Applied, Decidable, Lifecycle!Decide, Lifecycle!DecideRecommendation, DecideRecommendation
    <2>3. Lifecycle!Dispositions = Dispositions
      BY DEF Lifecycle!Dispositions, Dispositions
    <2>4. QED
      BY <1>1, <1>7, <2>2, <2>3 DEF Lifecycle!Next
  <1>8. CASE r.op = "approve"
    <2>1. Lifecycle!Approve(c)
      BY <1>8 DEF Applied, Lifecycle!Approve, Lifecycle!ApproveWorkOrder, ApproveWorkOrder
    <2>2. QED
      BY <1>1, <2>1 DEF Lifecycle!Next
  <1>9. CASE r.op = "start"
    <2>1. Lifecycle!Start(c)
      BY <1>9 DEF Applied, Lifecycle!Start, Lifecycle!StartMaintenance, StartMaintenance,
                  Lifecycle!Enqueue, Enqueue
    <2>2. QED
      BY <1>1, <2>1 DEF Lifecycle!Next
  <1>10. CASE r.op = "complete"
    <2>1. Lifecycle!Patched(equipmentState[EquipmentOf[c]], c) = Patched(equipmentState[EquipmentOf[c]], c)
      BY DEF Lifecycle!Patched, Patched
    <2>2. Lifecycle!Complete(c)
      BY <1>10, <2>1 DEF Applied, Lifecycle!Complete, Lifecycle!CompleteMaintenance, CompleteMaintenance,
                         Lifecycle!Enqueue, Enqueue
    <2>3. QED
      BY <1>1, <2>2 DEF Lifecycle!Next
  <1>11. CASE r.op = "replay"
    <2>1. Lifecycle!Replay(c)
      BY <1>11 DEF Applied, Lifecycle!Replay, Lifecycle!RequestReplay, RequestReplay,
                   Lifecycle!Enqueue, Enqueue
    <2>2. QED
      BY <1>1, <2>1 DEF Lifecycle!Next
  <1>12. QED
    BY <1>1, <1>2, <1>3, <1>4, <1>5, <1>6, <1>7, <1>8, <1>9, <1>10, <1>11 DEF Ops

(* ------------------------- answers stay true -------------------------- *)
LEMMA AppliedTakes ==
  ASSUME RecordsInv, NEW r \in Requests, Applied(r)
  PROVE  TookEffect(r)'
  <1>1. /\ r.op \in Ops /\ r.case \in Cases
        /\ r.op \in {"assign", "begin", "record"} <=> r.by # Nobody
        /\ r.op = "record" => r.choice \in Outcomes
        /\ r.op = "decide" => r.choice \in Dispositions
    BY RequestShape
  <1> DEFINE c == r.case
  <1>2. RecordsTypeOK
    BY DEF RecordsInv
  <1>3. CASE r.op = "request"
    BY <1>1, <1>2, <1>3 DEF Applied, TookEffect, RecordsTypeOK, RequestInspection
  <1>4. CASE r.op = "assign"
    BY <1>1, <1>2, <1>4 DEF Applied, TookEffect, RecordsTypeOK, AssignInspection
  <1>5. CASE r.op = "begin"
    BY <1>1, <1>2, <1>5 DEF Applied, TookEffect, RecordsTypeOK, BeginInspection
  <1>6. CASE r.op = "record"
    BY <1>1, <1>2, <1>6 DEF Applied, TookEffect, RecordsTypeOK, CompleteInspection
  <1>7. CASE r.op = "recommend"
    BY <1>1, <1>2, <1>7 DEF Applied, TookEffect, RecordsTypeOK, CreateRecommendation
  <1>8. CASE r.op = "decide"
    <2>1. decisions[c] \in Seq(Dispositions) /\ decisions'[c] = Append(decisions[c], r.choice)
      BY <1>1, <1>2, <1>8 DEF Applied, RecordsTypeOK, DecideRecommendation
    <2>2. /\ Len(decisions[c]) + 1 \in DOMAIN Append(decisions[c], r.choice)
          /\ Append(decisions[c], r.choice)[Len(decisions[c]) + 1] = r.choice
      BY <1>1, <1>8, <2>1
    <2>3. QED
      BY <1>8, <2>1, <2>2 DEF TookEffect
  <1>9. CASE r.op = "approve"
    BY <1>1, <1>2, <1>9 DEF Applied, TookEffect, RecordsTypeOK, ApproveWorkOrder
  <1>10. CASE r.op = "start"
    BY <1>1, <1>2, <1>10 DEF Applied, TookEffect, RecordsTypeOK, StartMaintenance, Enqueue
  <1>11. CASE r.op = "complete"
    BY <1>1, <1>2, <1>11 DEF Applied, TookEffect, RecordsTypeOK, CompleteMaintenance, Patched
  <1>12. CASE r.op = "replay"
    BY <1>1, <1>2, <1>12 DEF Applied, TookEffect, RecordsTypeOK, RequestReplay, Enqueue
  <1>13. QED
    BY <1>1, <1>3, <1>4, <1>5, <1>6, <1>7, <1>8, <1>9, <1>10, <1>11, <1>12 DEF Ops

(* How a command moves the rows an answer is about. *)
Forward ==
  \A x \in Cases :
    /\ inspection[x] # inspection'[x] =>
         \/ <<inspection[x], inspection'[x]>> \in
              {<<"none", "requested">>, <<"requested", "approved">>}
         \/ /\ <<inspection[x], inspection'[x]>> \in
                 {<<"approved", "in_progress">>, <<"in_progress", "completed">>}
            /\ assignee'[x] = assignee[x]
    /\ assignee'[x] # assignee[x] => assignee[x] = Nobody
    /\ outcome'[x] # outcome[x] => outcome[x] = "none"
    /\ recommendation[x] # "none" => recommendation'[x] # "none"
    /\ \A i \in DOMAIN decisions[x] : i \in DOMAIN decisions'[x] /\ decisions'[x][i] = decisions[x][i]
    /\ action[x] # "none" => action'[x] # "none"
    /\ version[x] <= version'[x] /\ version'[x] \in 0 .. 3
    /\ \A e \in Equipment : equipmentState[e].patches \subseteq equipmentState'[e].patches

LEMMA AppliedForward ==
  ASSUME RecordsInv, NEW r \in Requests, Applied(r)
  PROVE  Forward
  <1>1. /\ r.op \in Ops /\ r.case \in Cases
        /\ r.op = "decide" => r.choice \in Dispositions
    BY RequestShape
  <1> DEFINE c == r.case
  <1>2. RecordsTypeOK /\ ChainAgrees
    BY DEF RecordsInv
  <1>3. CaseAgrees(c)
    BY <1>1, <1>2 DEF ChainAgrees
  <1>4. \A x \in Cases : version[x] \in 0 .. 3
    BY <1>2 DEF RecordsTypeOK
  <1>5. CASE r.op = "request"
    BY <1>1, <1>2, <1>4, <1>5 DEF Applied, Forward, RecordsTypeOK, RequestInspection
  <1>6. CASE r.op = "assign"
    BY <1>1, <1>2, <1>3, <1>4, <1>6 DEF Applied, Forward, RecordsTypeOK, AssignInspection, CaseAgrees
  <1>7. CASE r.op = "begin"
    BY <1>1, <1>2, <1>4, <1>7 DEF Applied, Forward, RecordsTypeOK, BeginInspection
  <1>8. CASE r.op = "record"
    BY <1>1, <1>2, <1>3, <1>4, <1>8 DEF Applied, Forward, RecordsTypeOK, CompleteInspection, CaseAgrees
  <1>9. CASE r.op = "recommend"
    BY <1>1, <1>2, <1>4, <1>9 DEF Applied, Forward, RecordsTypeOK, CreateRecommendation
  <1>10. CASE r.op = "decide"
    <2>1. recommendation'[c] # "none"
      BY <1>1, <1>2, <1>10 DEF Applied, DecideRecommendation, RecordsTypeOK, Decided, Dispositions
    <2>2. decisions[c] \in Seq(Dispositions) /\ decisions'[c] = Append(decisions[c], r.choice)
      BY <1>1, <1>2, <1>10 DEF Applied, RecordsTypeOK, DecideRecommendation
    <2>3. \A i \in DOMAIN decisions[c] : i \in DOMAIN decisions'[c] /\ decisions'[c][i] = decisions[c][i]
      BY <1>1, <1>10, <2>2
    <2>4. \A x \in Cases \ {c} : decisions'[x] = decisions[x] /\ recommendation'[x] = recommendation[x]
      BY <1>1, <1>2, <1>10 DEF Applied, DecideRecommendation, RecordsTypeOK
    <2>5. UNCHANGED <<inspection, assignee, outcome, action, version, equipmentState>>
      BY <1>10 DEF Applied, DecideRecommendation
    <2>6. QED
      BY <1>4, <2>1, <2>3, <2>4, <2>5 DEF Forward
  <1>11. CASE r.op = "approve"
    BY <1>1, <1>2, <1>4, <1>11 DEF Applied, Forward, RecordsTypeOK, ApproveWorkOrder
  <1>12. CASE r.op = "start"
    <2>1. version'[c] = 1 /\ version[c] = 0 /\ action'[c] = "in_progress"
      BY <1>1, <1>2, <1>3, <1>12 DEF Applied, RecordsTypeOK, StartMaintenance, Enqueue, CaseAgrees, Stages
    <2>2. \A x \in Cases \ {c} : version'[x] = version[x] /\ action'[x] = action[x]
      BY <1>1, <1>2, <1>12 DEF Applied, RecordsTypeOK, StartMaintenance, Enqueue
    <2>3. UNCHANGED <<inspection, assignee, outcome, recommendation, decisions, equipmentState>>
      BY <1>12 DEF Applied, StartMaintenance
    <2>4. QED
      BY <1>4, <2>1, <2>2, <2>3 DEF Forward
  <1>13. CASE r.op = "complete"
    <2>1. version'[c] = 2 /\ version[c] = 1 /\ action'[c] = "completed"
      BY <1>1, <1>2, <1>3, <1>13 DEF Applied, RecordsTypeOK, CompleteMaintenance, Enqueue, CaseAgrees, Stages
    <2>2. \A x \in Cases \ {c} : version'[x] = version[x] /\ action'[x] = action[x]
      BY <1>1, <1>2, <1>13 DEF Applied, RecordsTypeOK, CompleteMaintenance, Enqueue
    <2>3. UNCHANGED <<inspection, assignee, outcome, recommendation, decisions>>
      BY <1>13 DEF Applied, CompleteMaintenance
    <2>4. \A e \in Equipment : equipmentState[e].patches \subseteq equipmentState'[e].patches
      <3>1. equipmentState' = [equipmentState EXCEPT ![EquipmentOf[c]] = Patched(equipmentState[EquipmentOf[c]], c)]
        BY <1>13 DEF Applied, CompleteMaintenance
      <3>2. equipmentState[EquipmentOf[c]].patches \subseteq Patched(equipmentState[EquipmentOf[c]], c).patches
        BY DEF Patched
      <3>3. QED
        BY <1>2, <3>1, <3>2 DEF RecordsTypeOK
    <2>5. QED
      BY <1>4, <2>1, <2>2, <2>3, <2>4 DEF Forward
  <1>14. CASE r.op = "replay"
    <2>1. version'[c] = 3 /\ version[c] = 2
      BY <1>1, <1>2, <1>14 DEF Applied, RecordsTypeOK, RequestReplay, Enqueue
    <2>2. \A x \in Cases \ {c} : version'[x] = version[x]
      BY <1>1, <1>2, <1>14 DEF Applied, RecordsTypeOK, RequestReplay, Enqueue
    <2>3. UNCHANGED <<inspection, assignee, outcome, recommendation, decisions, action, equipmentState>>
      BY <1>14 DEF Applied, RequestReplay
    <2>4. QED
      BY <1>4, <2>1, <2>2, <2>3 DEF Forward
  <1>15. QED
    BY <1>1, <1>5, <1>6, <1>7, <1>8, <1>9, <1>10, <1>11, <1>12, <1>13, <1>14 DEF Ops

LEMMA EffectStays ==
  ASSUME RecordsInv, Forward, NEW q \in Requests, TookEffect(q)
  PROVE  TookEffect(q)'
  <1>1. /\ q.op \in Ops /\ q.case \in Cases /\ EquipmentOf[q.case] \in Equipment
        /\ q.op \in {"assign", "begin", "record"} <=> q.by # Nobody
        /\ q.op = "record" => q.choice \in Outcomes
    BY RequestShape
  <1> DEFINE c == q.case
  <1>2. version[c] \in 0 .. 3
    BY <1>1 DEF RecordsInv, RecordsTypeOK
  <1>3. CASE q.op \in {"request", "assign", "begin"}
    <2>1. /\ inspection[c] # inspection'[c] =>
               \/ <<inspection[c], inspection'[c]>> \in
                    {<<"none", "requested">>, <<"requested", "approved">>}
               \/ <<inspection[c], inspection'[c]>> \in
                    {<<"approved", "in_progress">>, <<"in_progress", "completed">>}
          /\ assignee'[c] # assignee[c] => assignee[c] = Nobody
      BY <1>1 DEF Forward
    <2>2. CASE q.op = "request"
      BY <2>1, <2>2 DEF TookEffect
    <2>3. CASE q.op = "assign"
      BY <1>1, <2>1, <2>3 DEF TookEffect
    <2>4. CASE q.op = "begin"
      BY <1>1, <2>1, <2>4 DEF TookEffect
    <2>5. QED
      BY <1>3, <2>2, <2>3, <2>4
  <1>4. CASE q.op = "record"
    BY <1>1, <1>4 DEF TookEffect, Forward, Outcomes
  <1>5. CASE q.op = "decide"
    BY <1>1, <1>5 DEF TookEffect, Forward
  <1>6. CASE q.op \in {"recommend", "approve"}
    BY <1>1, <1>6 DEF TookEffect, Forward
  <1>7. CASE q.op \in {"start", "replay"}
    <2>1. version[c] <= version'[c] /\ version'[c] \in 0 .. 3
      BY <1>1 DEF Forward
    <2>2. CASE q.op = "start"
      BY <1>2, <2>1, <2>2 DEF TookEffect
    <2>3. CASE q.op = "replay"
      BY <1>2, <2>1, <2>3 DEF TookEffect
    <2>4. QED
      BY <1>7, <2>2, <2>3
  <1>8. CASE q.op = "complete"
    BY <1>1, <1>8 DEF TookEffect, Forward
  <1>9. QED
    BY <1>1, <1>3, <1>4, <1>5, <1>6, <1>7, <1>8 DEF Ops

-----------------------------------------------------------------------------
(* -------------------- a commit and the other threads ------------------- *)
(* A command changes only rows of the tables it locks, except that it may *)
(* insert a work order or an action where there is none.                  *)
Writes(q, table) == table \in TablesOf(q.op)

Footprint(q) ==
  /\ \A y \in Cases : ~ (Writes(q, "inspection") /\ y = q.case) =>
       inspection'[y] = inspection[y] /\ assignee'[y] = assignee[y] /\ outcome'[y] = outcome[y]
  /\ \A y \in Cases : ~ (Writes(q, "recommendation") /\ y = q.case) =>
       recommendation'[y] = recommendation[y]
  /\ \A y \in Cases : ~ (Writes(q, "work_order") /\ y = q.case) =>
       (workOrder[y] # "none" => workOrder'[y] = workOrder[y])
  /\ \A y \in Cases : ~ (Writes(q, "action") /\ y = q.case) =>
       /\ action[y] # "none" => action'[y] = action[y]
       /\ version'[y] = version[y]
  /\ \A e \in Equipment : ~ (Writes(q, "equipment") /\ e = EquipmentOf[q.case]) =>
       equipmentState'[e] = equipmentState[e]
  /\ \A e \in Equipment :
       \/ equipmentState'[e] = equipmentState[e]
       \/ equipmentState'[e].version = equipmentState[e].version + 1

LEMMA AppliedFootprint ==
  ASSUME RecordsInv, NEW q \in Requests, Applied(q)
  PROVE  Footprint(q)
  <1>1. q.op \in Ops /\ q.case \in Cases
    BY RequestShape
  <1> DEFINE x == q.case
  <1>2. RecordsTypeOK /\ CaseAgrees(x)
    BY <1>1 DEF RecordsInv, ChainAgrees
  <1> USE DEF Footprint, Writes, TablesOf
  <1>3. CASE q.op = "request"
    BY <1>1, <1>2, <1>3 DEF Applied, RecordsTypeOK, RequestInspection
  <1>4. CASE q.op = "assign"
    BY <1>1, <1>2, <1>4 DEF Applied, RecordsTypeOK, AssignInspection
  <1>5. CASE q.op = "begin"
    BY <1>1, <1>2, <1>5 DEF Applied, RecordsTypeOK, BeginInspection
  <1>6. CASE q.op = "record"
    BY <1>1, <1>2, <1>6 DEF Applied, RecordsTypeOK, CompleteInspection
  <1>7. CASE q.op = "recommend"
    BY <1>1, <1>2, <1>7 DEF Applied, RecordsTypeOK, CreateRecommendation
  <1>8. CASE q.op = "decide"
    <2>1. workOrder[x] = "none"
      BY <1>2, <1>8 DEF Applied, CaseAgrees, Decidable
    <2>2. \A y \in Cases \ {x} : recommendation'[y] = recommendation[y] /\ workOrder'[y] = workOrder[y]
      BY <1>2, <1>8 DEF Applied, RecordsTypeOK, DecideRecommendation
    <2>3. UNCHANGED <<inspection, assignee, outcome, action, version, equipmentState>>
      BY <1>8 DEF Applied, DecideRecommendation
    <2>4. QED
      BY <1>1, <1>8, <2>1, <2>2, <2>3
  <1>9. CASE q.op = "approve"
    <2>1. action[x] = "none"
      BY <1>2, <1>9 DEF Applied, CaseAgrees, Stages
    <2>2. QED
      BY <1>1, <1>2, <1>9, <2>1 DEF Applied, RecordsTypeOK, ApproveWorkOrder
  <1>10. CASE q.op = "start"
    <2>1. \A y \in Cases \ {x} : workOrder'[y] = workOrder[y] /\ action'[y] = action[y] /\ version'[y] = version[y]
      BY <1>2, <1>10 DEF Applied, RecordsTypeOK, StartMaintenance, Enqueue
    <2>2. UNCHANGED <<inspection, assignee, outcome, recommendation, equipmentState>>
      BY <1>10 DEF Applied, StartMaintenance
    <2>3. QED
      BY <1>1, <1>10, <2>1, <2>2
  <1>11. CASE q.op = "complete"
    <2>1. \A y \in Cases \ {x} : workOrder'[y] = workOrder[y] /\ action'[y] = action[y] /\ version'[y] = version[y]
      BY <1>2, <1>11 DEF Applied, RecordsTypeOK, CompleteMaintenance, Enqueue
    <2>2. UNCHANGED <<inspection, assignee, outcome, recommendation>>
      BY <1>11 DEF Applied, CompleteMaintenance
    <2>3. /\ equipmentState'[EquipmentOf[x]].version = equipmentState[EquipmentOf[x]].version + 1
          /\ \A e \in Equipment \ {EquipmentOf[x]} : equipmentState'[e] = equipmentState[e]
      BY <1>1, <1>2, <1>11 DEF Applied, RecordsTypeOK, CompleteMaintenance, Patched
    <2>4. QED
      BY <1>1, <1>11, <2>1, <2>2, <2>3
  <1>12. CASE q.op = "replay"
    <2>1. \A y \in Cases \ {x} : version'[y] = version[y]
      BY <1>2, <1>12 DEF Applied, RecordsTypeOK, RequestReplay, Enqueue
    <2>2. UNCHANGED <<inspection, assignee, outcome, recommendation, workOrder, action, equipmentState>>
      BY <1>12 DEF Applied, RequestReplay
    <2>3. QED
      BY <1>1, <1>12, <2>1, <2>2
  <1>13. QED
    BY <1>1, <1>3, <1>4, <1>5, <1>6, <1>7, <1>8, <1>9, <1>10, <1>11, <1>12 DEF Ops

(* A thread takes no step. *)
Rests(u) ==
  /\ pc'[u] = pc[u] /\ req'[u] = req[u] /\ key'[u] = key[u] /\ held'[u] = held[u]
  /\ readStatus'[u] = readStatus[u] /\ readVersion'[u] = readVersion[u] /\ readState'[u] = readState[u]
  /\ \A w \in Rows : lock[w] = u => lock'[w] = u

LEMMA HeldRows ==
  ASSUME TypeOK, NEW u \in Threads, ThreadOK(u), NEW table \in held[u]
  PROVE  req[u] \in Requests /\ req[u].case \in Cases /\ RowOf(req[u], table) \in Rows
  <1>1. Inside(u)
    BY DEF ThreadOK, HeldOK
  <1>2. req[u] \in Requests
    BY <1>1 DEF ThreadOK, RequestOK, Inside, Working
  <1>3. req[u].case \in Cases /\ EquipmentOf[req[u].case] \in Equipment
    BY <1>2, RequestShape
  <1>4. table \in Tables
    BY DEF TypeOK
  <1>5. QED
    BY <1>2, <1>3, <1>4 DEF RowOf, Rows

LEMMA RestsAmongRows ==
  ASSUME TypeOK, NEW u \in Threads, ThreadOK(u), Rests(u), UNCHANGED records
  PROVE  ThreadOK(u)'
  <1> USE DEF Rests, records
  <1>1. RequestOK(u)'
    BY DEF ThreadOK, RequestOK, Working
  <1>2. ReadOK(u)'
    BY DEF ThreadOK, ReadOK, Inside
  <1>3. HeldOK(u)'
    <2>1. \A table : WhereHolds(u, table)' <=> WhereHolds(u, table)
      BY DEF WhereHolds, Unassigned, StatusUnchanged, EquipmentUnchanged, NotReplayed
    <2>2. \A table : RowOf(req[u], table)' = RowOf(req[u], table)
      BY DEF RowOf
    <2>3. \A table \in held[u] : RowOf(req[u], table) \in Rows
      BY HeldRows
    <2>4. QED
      BY <2>1, <2>2, <2>3 DEF ThreadOK, HeldOK, Inside
  <1>4. FullOK(u)'
    BY DEF ThreadOK, FullOK, Deduplicated
  <1>5. StateOK(u)'
    BY DEF ThreadOK, StateOK
  <1>6. QED
    BY <1>1, <1>2, <1>3, <1>4, <1>5 DEF ThreadOK

LEMMA HeldRowsStand ==
  ASSUME TypeOK, RecordsInv, NEW q \in Requests, Applied(q),
         NEW u \in Threads, ThreadOK(u), Rests(u), NEW table \in held[u],
         Writes(q, table) => RowOf(q, table) # RowOf(req[u], table)
  PROVE  WhereHolds(u, table)'
  <1> DEFINE r == req[u]
             c == r.case
  <1>1. /\ r \in Requests /\ r.op \in Ops /\ c \in Cases /\ EquipmentOf[c] \in Equipment
        /\ table \in TablesOf(r.op) /\ WhereHolds(u, table)
    BY HeldRows, RequestShape DEF ThreadOK, HeldOK
  <1>2. Footprint(q)
    BY AppliedFootprint
  <1>3. /\ req'[u] = r /\ readStatus'[u] = readStatus[u] /\ readVersion'[u] = readVersion[u]
        /\ readState'[u] = readState[u]
    BY DEF Rests
  <1>4. CASE r.op \in {"request", "assign", "begin", "record"}
    <2>1. table = "inspection"
      BY <1>1, <1>4 DEF TablesOf
    <2>2. ~ (Writes(q, "inspection") /\ c = q.case)
      BY <2>1 DEF RowOf
    <2>3. inspection'[c] = inspection[c] /\ assignee'[c] = assignee[c]
      BY <1>1, <1>2, <2>2 DEF Footprint
    <2>4. QED
      BY <1>1, <1>3, <1>4, <2>3 DEF WhereHolds, Unassigned
  <1>5. CASE r.op \in {"recommend", "decide"}
    <2>1. table = "recommendation"
      BY <1>1, <1>5 DEF TablesOf
    <2>2. ~ (Writes(q, "recommendation") /\ c = q.case)
      BY <2>1 DEF RowOf
    <2>3. recommendation'[c] = recommendation[c]
      BY <1>1, <1>2, <2>2 DEF Footprint
    <2>4. QED
      BY <1>1, <1>3, <1>5, <2>3 DEF WhereHolds, StatusUnchanged
  <1>6. CASE r.op \in {"approve", "start", "complete", "replay"}
    <2>1. table \in {"work_order", "action", "equipment"}
      BY <1>1, <1>6 DEF TablesOf
    <2>2. CASE table = "work_order"
      <3>1. ~ (Writes(q, "work_order") /\ c = q.case)
        BY <2>2 DEF RowOf
      <3>2. r.op # "replay"
        BY <1>1, <2>2 DEF TablesOf
      <3>3. workOrder[c] # "none"
        BY <1>1, <1>6, <2>2, <3>2 DEF WhereHolds
      <3>4. workOrder'[c] = workOrder[c]
        BY <1>1, <1>2, <3>1, <3>3 DEF Footprint
      <3>5. QED
        BY <1>1, <1>3, <1>6, <2>2, <3>2, <3>4 DEF WhereHolds
    <2>3. CASE table = "action"
      <3>1. ~ (Writes(q, "action") /\ c = q.case)
        BY <2>3 DEF RowOf
      <3>2. r.op # "approve"
        BY <1>1, <2>3 DEF TablesOf
      <3>3. action[c] # "none"
        BY <1>1, <1>6, <2>3, <3>2 DEF WhereHolds, NotReplayed
      <3>4. action'[c] = action[c] /\ version'[c] = version[c]
        BY <1>1, <1>2, <3>1, <3>3 DEF Footprint
      <3>5. QED
        BY <1>1, <1>3, <1>6, <2>3, <3>2, <3>4 DEF WhereHolds, NotReplayed
    <2>4. CASE table = "equipment"
      <3>1. ~ (Writes(q, "equipment") /\ EquipmentOf[c] = EquipmentOf[q.case])
        BY <2>4 DEF RowOf
      <3>2. r.op = "complete"
        BY <1>1, <1>6, <2>4 DEF TablesOf
      <3>3. equipmentState'[EquipmentOf[c]] = equipmentState[EquipmentOf[c]]
        BY <1>1, <1>2, <3>1 DEF Footprint
      <3>4. QED
        BY <1>1, <1>3, <2>4, <3>2, <3>3 DEF WhereHolds, EquipmentUnchanged
    <2>5. QED
      BY <2>1, <2>2, <2>3, <2>4
  <1>7. QED
    BY <1>1, <1>4, <1>5, <1>6 DEF Ops

LEMMA RestsBesideCommit ==
  ASSUME TypeOK, RecordsInv, NEW q \in Requests, Applied(q),
         NEW u \in Threads, ThreadOK(u), Rests(u),
         \A table \in held[u] : Writes(q, table) => RowOf(q, table) # RowOf(req[u], table)
  PROVE  ThreadOK(u)'
  <1>1. Forward /\ Footprint(q)
    BY AppliedForward, AppliedFootprint
  <1>2. RequestOK(u)'
    BY DEF ThreadOK, RequestOK, Working, Rests
  <1>3. ASSUME Working(u) PROVE req[u] \in Requests /\ req[u].case \in Cases /\ EquipmentOf[req[u].case] \in Equipment
    BY <1>3, RequestShape DEF ThreadOK, RequestOK
  <1>4. ReadOK(u)'
    <2>1. CASE Inside(u) /\ req[u].op = "recommend"
      <3>1. req[u].case \in Cases /\ outcome[req[u].case] = "maintenance_recommended"
        BY <1>3, <2>1 DEF ThreadOK, ReadOK, Inside, Working
      <3>2. outcome'[req[u].case] = "maintenance_recommended"
        BY <1>1, <3>1 DEF Forward
      <3>3. QED
        BY <2>1, <3>2 DEF ReadOK, Rests
    <2>2. CASE ~ (Inside(u) /\ req[u].op = "recommend")
      BY <2>2 DEF ThreadOK, ReadOK, Inside, Rests
    <2>3. QED
      BY <2>1, <2>2
  <1>5. HeldOK(u)'
    <2>1. \A table \in held[u] : RowOf(req[u], table) \in Rows
      BY HeldRows
    <2>2. \A table \in held[u] : WhereHolds(u, table)'
      BY HeldRowsStand
    <2>3. QED
      BY <2>1, <2>2 DEF ThreadOK, HeldOK, Inside, Rests, RowOf
  <1>6. FullOK(u)'
    <2>1. CASE pc[u] = "commit"
      <3>1. req[u].case \in Cases
        BY <1>3, <2>1 DEF Working
      <3>2. Deduplicated(u) => Deduplicated(u)'
        BY <1>1, <3>1 DEF Forward, Deduplicated, Rests
      <3>3. QED
        BY <2>1, <3>2 DEF ThreadOK, FullOK, Rests
    <2>2. QED
      BY <2>1 DEF FullOK, Rests
  <1>7. StateOK(u)'
    <2> SUFFICES ASSUME pc[u] \in {"write", "commit"}, req[u].op = "complete", "action" \in held[u]
                 PROVE  LET e == EquipmentOf[req[u].case] IN
                        /\ readState[u].version <= equipmentState'[e].version
                        /\ readState[u].version = equipmentState'[e].version => readState[u] = equipmentState'[e]
      BY DEF StateOK, Rests
    <2> DEFINE e0 == EquipmentOf[req[u].case]
    <2>1. e0 \in Equipment
      BY <1>3 DEF Working
    <2>2. /\ readState[u].version <= equipmentState[e0].version
          /\ readState[u].version = equipmentState[e0].version => readState[u] = equipmentState[e0]
      BY DEF ThreadOK, StateOK
    <2>3. \/ equipmentState'[e0] = equipmentState[e0]
          \/ equipmentState'[e0].version = equipmentState[e0].version + 1
      BY <1>1, <2>1 DEF Footprint
    <2>4. readState[u].version \in Nat /\ equipmentState[e0].version \in Nat
      BY <2>1 DEF TypeOK, RecordsTypeOK
    <2>5. QED
      BY <2>2, <2>3, <2>4
  <1>8. QED
    BY <1>2, <1>4, <1>5, <1>6, <1>7 DEF ThreadOK

(* What a transaction that commits has made sure of. *)
LEMMA CommitApplies ==
  ASSUME IInv, NEW t \in Threads, Commit(t)
  PROVE  /\ pc[t] = "commit" /\ req[t] \in Requests /\ key[t] \in Keys
         /\ idem' = [idem EXCEPT ![key[t]] = req[t]]
         /\ Finish(t) /\ UNCHANGED engine
         /\ \/ Applied(req[t]) /\ held[t] = TablesOf(req[t].op)
            \/ Repeated(req[t])
  <1> DEFINE r == req[t]
             c == r.case
  <1>1. /\ pc[t] = "commit" /\ idem' = [idem EXCEPT ![key[t]] = req[t]]
        /\ Finish(t) /\ UNCHANGED engine
    BY DEF Commit, Commits, CommitRequest, CommitAssign, CommitBegin, CommitRecord, CommitRecommend,
           CommitDecide, CommitApprove, CommitStart, CommitComplete, CommitReplay
  <1>2. ThreadOK(t) /\ Inside(t)
    BY <1>1 DEF IInv, Inside
  <1>3. r \in Requests /\ key[t] \in Keys /\ c \in Cases /\ EquipmentOf[c] \in Equipment
    BY <1>2, RequestShape DEF ThreadOK, RequestOK, Inside, Working
  <1>4. /\ held[t] = TablesOf(r.op) \/ Deduplicated(t)
        /\ \A table \in held[t] : WhereHolds(t, table)
    BY <1>1, <1>2 DEF ThreadOK, FullOK, HeldOK
  <1>5. r.op # "recommend" => held[t] = TablesOf(r.op)
    BY <1>4 DEF Deduplicated
  <1>6. CASE CommitRequest(t)
    <2>1. r.op = "request" /\ WhereHolds(t, "inspection") /\ RequestInspection(c)
      BY <1>4, <1>5, <1>6 DEF CommitRequest, Commits, TablesOf
    <2>2. QED
      BY <1>1, <1>3, <1>5, <2>1 DEF Applied, WhereHolds
  <1>7. CASE CommitAssign(t)
    <2>1. r.op = "assign" /\ WhereHolds(t, "inspection") /\ AssignInspection(c, r.by)
      BY <1>4, <1>5, <1>7 DEF CommitAssign, Commits, TablesOf
    <2>2. QED
      BY <1>1, <1>3, <1>5, <2>1 DEF Applied, WhereHolds, Unassigned
  <1>8. CASE CommitBegin(t)
    <2>1. r.op = "begin" /\ WhereHolds(t, "inspection") /\ BeginInspection(c)
      BY <1>4, <1>5, <1>8 DEF CommitBegin, Commits, TablesOf
    <2>2. QED
      BY <1>1, <1>3, <1>5, <2>1 DEF Applied, WhereHolds
  <1>9. CASE CommitRecord(t)
    <2>1. r.op = "record" /\ WhereHolds(t, "inspection") /\ CompleteInspection(c, r.choice)
      BY <1>4, <1>5, <1>9 DEF CommitRecord, Commits, TablesOf
    <2>2. QED
      BY <1>1, <1>3, <1>5, <2>1 DEF Applied, WhereHolds
  <1>10. CASE CommitRecommend(t)
    <2>1. r.op = "recommend"
      BY <1>10 DEF CommitRecommend, Commits
    <2>2. CASE recommendation[c] # "none"
      BY <1>1, <1>3, <1>10, <2>1, <2>2 DEF CommitRecommend, Deduplicated, Repeated
    <2>3. CASE recommendation[c] = "none"
      <3>1. held[t] = TablesOf(r.op) /\ CreateRecommendation(c)
        BY <1>4, <1>10, <2>3 DEF CommitRecommend, Deduplicated
      <3>2. outcome[c] = "maintenance_recommended"
        BY <1>2, <2>1 DEF ThreadOK, ReadOK
      <3>3. QED
        BY <1>1, <1>3, <2>1, <2>3, <3>1, <3>2 DEF Applied
    <2>4. QED
      BY <2>2, <2>3
  <1>11. CASE CommitDecide(t)
    <2>1. r.op = "decide" /\ WhereHolds(t, "recommendation") /\ DecideRecommendation(c, r.choice)
      BY <1>4, <1>5, <1>11 DEF CommitDecide, Commits, TablesOf
    <2>2. Decidable(c, r.choice)
      BY <1>2, <2>1 DEF ThreadOK, ReadOK, WhereHolds, StatusUnchanged, Decidable
    <2>3. QED
      BY <1>1, <1>3, <1>5, <2>1, <2>2 DEF Applied
  <1>12. CASE CommitApprove(t)
    <2>1. r.op = "approve" /\ WhereHolds(t, "work_order") /\ ApproveWorkOrder(c)
      BY <1>4, <1>5, <1>12 DEF CommitApprove, Commits, TablesOf
    <2>2. QED
      BY <1>1, <1>3, <1>5, <2>1 DEF Applied, WhereHolds
  <1>13. CASE CommitStart(t)
    <2>1. /\ r.op = "start" /\ WhereHolds(t, "work_order") /\ WhereHolds(t, "action")
          /\ StartMaintenance(c)
      BY <1>4, <1>5, <1>13 DEF CommitStart, Commits, TablesOf
    <2>2. QED
      BY <1>1, <1>3, <1>5, <2>1 DEF Applied, WhereHolds
  <1>14. CASE CommitComplete(t)
    <2>1. /\ r.op = "complete" /\ WhereHolds(t, "work_order") /\ WhereHolds(t, "action")
          /\ WhereHolds(t, "equipment") /\ CompleteMaintenance(c, readState[t])
      BY <1>4, <1>5, <1>14 DEF CommitComplete, Commits, TablesOf
    <2>2. "action" \in held[t]
      BY <1>5, <2>1 DEF TablesOf
    <2>3. readState[t] = equipmentState[EquipmentOf[c]]
      BY <1>1, <1>2, <2>1, <2>2 DEF ThreadOK, StateOK, WhereHolds, EquipmentUnchanged
    <2>4. QED
      BY <1>1, <1>3, <1>5, <2>1, <2>3 DEF Applied, WhereHolds
  <1>15. CASE CommitReplay(t)
    <2>1. r.op = "replay" /\ WhereHolds(t, "action") /\ RequestReplay(c)
      BY <1>4, <1>5, <1>15 DEF CommitReplay, Commits, TablesOf
    <2>2. action[c] = "completed" /\ version[c] = readVersion[t] /\ readVersion[t] < 3
      BY <1>2, <2>1 DEF ThreadOK, ReadOK, WhereHolds, NotReplayed
    <2>3. version[c] = 2
      <3>1. <<workOrder[c], action[c], version[c]>> \in Stages
        BY <1>3 DEF IInv, RecordsInv, ChainAgrees, CaseAgrees
      <3>2. version[c] \in {2, 3}
        BY <2>2, <3>1 DEF Stages
      <3>3. QED
        BY <2>2, <3>2
    <2>4. QED
      BY <1>1, <1>3, <1>5, <2>1, <2>2, <2>3 DEF Applied
  <1>16. QED
    BY <1>6, <1>7, <1>8, <1>9, <1>10, <1>11, <1>12, <1>13, <1>14, <1>15 DEF Commit

-----------------------------------------------------------------------------
(* --------------------- a thread's own, local steps --------------------- *)
LEMMA IdleOK ==
  ASSUME NEW t \in Threads, pc[t] = "idle", held[t] = {}
  PROVE  ThreadOK(t)
  BY DEF ThreadOK, RequestOK, ReadOK, HeldOK, FullOK, StateOK, Working, Inside

LEMMA FinishTypes ==
  ASSUME TypeOK, NEW t \in Threads, Finish(t)
  PROVE  /\ keyLock' \in [Keys -> Threads \cup {Free}]
         /\ lock' \in [Rows -> Threads \cup {Free}]
         /\ pc' \in [Threads -> Phases]
         /\ req' \in [Threads -> Requests \cup {NoRequest}]
         /\ key' \in [Threads -> Keys \cup {NoKey}]
         /\ readStatus' \in [Threads -> RecommendationStatus]
         /\ readVersion' \in [Threads -> 0 .. 3]
         /\ readState' \in [Threads -> [version : Nat, patches : SUBSET Cases]]
         /\ held' \in [Threads -> SUBSET Tables]
  BY DEF TypeOK, Finish, Phases, RecommendationStatus, NoState

LEMMA FinishThreads ==
  ASSUME TypeOK, NEW t \in Threads, Finish(t)
  PROVE  /\ ThreadOK(t)'
         /\ \A u \in Threads \ {t} : Rests(u)
  <1>1. pc'[t] = "idle" /\ held'[t] = {}
    BY DEF TypeOK, Finish
  <1>2. ThreadOK(t)'
    BY <1>1 DEF ThreadOK, RequestOK, ReadOK, HeldOK, FullOK, StateOK, Working, Inside
  <1>3. ASSUME NEW u \in Threads \ {t} PROVE Rests(u)
    BY DEF TypeOK, Finish, Rests
  <1>4. QED
    BY <1>2, <1>3

LEMMA RecordsStay ==
  ASSUME RecordsInv, UNCHANGED records
  PROVE  RecordsInv'
  <1>1. RecordsTypeOK'
    BY DEF RecordsInv, RecordsTypeOK, records
  <1>2. ASSUME NEW c \in Cases PROVE CaseAgrees(c)'
    BY DEF RecordsInv, ChainAgrees, CaseAgrees, records
  <1>3. EquipmentCounts'
    BY DEF RecordsInv, EquipmentCounts, CompletedOn, records
  <1>4. QED
    BY <1>1, <1>2, <1>3 DEF RecordsInv, ChainAgrees

(* The rows and the answers are as before, and one thread moves. *)
LEMMA LocalStep ==
  ASSUME IInv, TypeOK', UNCHANGED records,
         \A k \in Keys : idem'[k] \in {idem[k], NoRequest},
         NEW t \in Threads, ThreadOK(t)', \A u \in Threads \ {t} : Rests(u)
  PROVE  IInv'
  <1>1. RecordsInv'
    BY RecordsStay DEF IInv
  <1>2. AnswersHold'
    <2>1. \A r : TookEffect(r)' <=> TookEffect(r)
      BY DEF TookEffect, records
    <2>2. QED
      BY <2>1 DEF IInv, AnswersHold
  <1>3. \A u \in Threads \ {t} : ThreadOK(u)'
    BY RestsAmongRows DEF IInv
  <1>4. QED
    BY <1>1, <1>2, <1>3 DEF IInv

LEMMA EndsStep ==
  ASSUME IInv, NEW t \in Threads, Ends(t)
  PROVE  IInv'
  <1>1. TypeOK /\ Finish(t) /\ UNCHANGED records /\ UNCHANGED <<engine, idem>>
    BY DEF IInv, Ends
  <1>2. RecordsTypeOK'
    BY <1>1 DEF TypeOK, RecordsTypeOK, records
  <1>3. TypeOK'
    BY <1>1, <1>2, FinishTypes DEF TypeOK
  <1>4. ThreadOK(t)' /\ \A u \in Threads \ {t} : Rests(u)
    BY <1>1, FinishThreads
  <1>5. QED
    BY <1>1, <1>3, <1>4, LocalStep

LEMMA CommitStep ==
  ASSUME IInv, NEW t \in Threads, Commit(t)
  PROVE  IInv'
  <1>0. PICK r \in Requests : r = req[t]
    BY CommitApplies
  <1>1. /\ TypeOK /\ pc[t] = "commit" /\ key[t] \in Keys
        /\ idem' = [idem EXCEPT ![key[t]] = r]
        /\ Finish(t) /\ UNCHANGED engine
        /\ \/ Applied(r) /\ held[t] = TablesOf(r.op)
           \/ Repeated(r)
    BY <1>0, CommitApplies DEF IInv
  <1>2. ThreadOK(t)' /\ \A u \in Threads \ {t} : Rests(u)
    BY <1>1, FinishThreads
  <1>3. idem' \in [Keys -> Requests \cup {NoRequest}]
    BY <1>1 DEF TypeOK
  <1>4. ASSUME RecordsInv', TookEffect(r)',
               \A q \in Requests : TookEffect(q) => TookEffect(q)',
               \A u \in Threads \ {t} : ThreadOK(u)'
        PROVE  IInv'
    <2>1. TypeOK'
      BY <1>1, <1>3, <1>4, FinishTypes DEF TypeOK, RecordsInv
    <2>2. AnswersHold'
      <3>1. ASSUME NEW k \in Keys, idem'[k] # NoRequest PROVE TookEffect(idem[k])'
        <4>1. CASE k = key[t]
          <5>1. idem'[k] = r
            BY <1>1, <4>1 DEF TypeOK
          <5>2. QED
            BY <1>4, <5>1 DEF TookEffect
        <4>2. CASE k # key[t]
          <5>1. idem'[k] = idem[k]
            BY <1>1, <4>2 DEF TypeOK
          <5>2. PICK q : q = idem[k]
            OBVIOUS
          <5>3. q \in Requests /\ TookEffect(q)
            BY <3>1, <5>1, <5>2 DEF IInv, AnswersHold, TypeOK
          <5>4. TookEffect(q)'
            BY <1>4, <5>3
          <5>5. idem'[k] = q
            BY <5>1, <5>2
          <5>6. QED
            BY <5>4, <5>5 DEF TookEffect
        <4>3. QED
          BY <4>1, <4>2
      <3>2. QED
        BY <3>1 DEF AnswersHold
    <2>3. QED
      BY <1>2, <1>4, <2>1, <2>2 DEF IInv
  <1>5. CASE Applied(r) /\ held[t] = TablesOf(r.op)
    <2>1. RecordsInv' /\ TookEffect(r)' /\ Forward
      BY <1>1, <1>5, AppliedKeepsRecords, AppliedTakes, AppliedForward DEF IInv
    <2>2. \A q \in Requests : TookEffect(q) => TookEffect(q)'
      BY <2>1, EffectStays DEF IInv
    <2>3. ASSUME NEW u \in Threads \ {t} PROVE ThreadOK(u)'
      <3>1. \A table \in held[u] : Writes(r, table) => RowOf(r, table) # RowOf(req[u], table)
        <4>1. \A table \in held[u] : lock[RowOf(req[u], table)] = u
          BY DEF IInv, ThreadOK, HeldOK
        <4>2. \A table : Writes(r, table) => lock[RowOf(r, table)] = t
          BY <1>0, <1>5 DEF IInv, ThreadOK, HeldOK, Writes
        <4>3. QED
          BY <4>1, <4>2
      <3>2. ThreadOK(u) /\ Rests(u) /\ RecordsInv
        BY <1>2 DEF IInv
      <3>3. QED
        BY <1>1, <1>5, <3>1, <3>2, RestsBesideCommit
    <2>4. QED
      BY <1>4, <2>1, <2>2, <2>3
  <1>6. CASE Repeated(r)
    <2>1. RecordsInv' /\ UNCHANGED records
      BY <1>6, RecordsStay DEF Repeated, IInv
    <2>2. \A q : TookEffect(q)' <=> TookEffect(q)
      BY <2>1 DEF TookEffect, records
    <2>3. TookEffect(r)
      BY <1>6 DEF Repeated, TookEffect
    <2>4. \A u \in Threads \ {t} : ThreadOK(u)'
      BY <1>1, <1>2, <2>1, RestsAmongRows DEF IInv
    <2>5. QED
      BY <1>4, <2>1, <2>2, <2>3, <2>4
  <1>7. QED
    BY <1>1, <1>5, <1>6

LEMMA AcceptStep ==
  ASSUME IInv, NEW t \in Threads, Accept(t)
  PROVE  IInv'
  <1>1. PICK r \in Requests, k \in Keys :
          /\ ~ Working(t)
          /\ idem' = idem \/ idem' = [idem EXCEPT ![k] = NoRequest]
          /\ pc' = [pc EXCEPT ![t] = "called"]
          /\ req' = [req EXCEPT ![t] = r]
          /\ key' = [key EXCEPT ![t] = k]
          /\ UNCHANGED records
          /\ UNCHANGED <<engine, keyLock, lock, readStatus, readVersion, readState, held>>
    BY DEF Accept
  <1>2. TypeOK /\ RecordsTypeOK'
    BY <1>1 DEF IInv, TypeOK, RecordsTypeOK, records
  <1>3. TypeOK'
    BY <1>1, <1>2 DEF TypeOK, Phases, Transaction
  <1>4. held[t] = {}
    BY <1>1 DEF IInv, ThreadOK, HeldOK, Inside, Working
  <1>5. pc'[t] = "called" /\ req'[t] = r /\ key'[t] = k /\ held'[t] = {}
    BY <1>1, <1>2, <1>4 DEF TypeOK
  <1>6. ThreadOK(t)'
    BY <1>5 DEF ThreadOK, RequestOK, ReadOK, HeldOK, FullOK, StateOK, Inside
  <1>7. \A u \in Threads \ {t} : Rests(u)
    BY <1>1, <1>2 DEF TypeOK, Rests
  <1>8. \A x \in Keys : idem'[x] \in {idem[x], NoRequest}
    BY <1>1, <1>2 DEF TypeOK
  <1>9. QED
    BY <1>1, <1>3, <1>6, <1>7, <1>8, LocalStep

(* The rows a transaction checks are the ground it acts on. *)
LEMMA EnterStep ==
  ASSUME IInv, NEW t \in Threads, pc[t] \in {"called", "keywait"}, Enter(t)
  PROVE  IInv'
  <1>1. CASE ~ Checked(req[t]) /\ Ends(t)
    BY <1>1, EndsStep
  <1>2. CASE /\ Checked(req[t])
             /\ Goes(t, "write")
             /\ keyLock' = [keyLock EXCEPT ![key[t]] = t]
             /\ readStatus' = [readStatus EXCEPT ![t] =
                                 IF req[t].op = "decide" THEN recommendation[req[t].case] ELSE @]
             /\ readVersion' = [readVersion EXCEPT ![t] =
                                  IF req[t].op \in {"start", "complete", "replay"}
                                  THEN version[req[t].case] ELSE @]
             /\ UNCHANGED <<lock, readState, held>>
    <2>1. TypeOK /\ UNCHANGED records /\ UNCHANGED <<engine, idem, req, key>>
          /\ pc' = [pc EXCEPT ![t] = "write"]
      BY <1>2 DEF IInv, Goes
    <2>2. req[t] \in Requests /\ req[t].case \in Cases /\ key[t] \in Keys
      BY RequestShape DEF IInv, ThreadOK, RequestOK, Working
    <2>3. recommendation[req[t].case] \in RecommendationStatus /\ version[req[t].case] \in 0 .. 3
      BY <2>1, <2>2 DEF TypeOK, RecordsTypeOK
    <2>4. RecordsTypeOK'
      BY <2>1 DEF TypeOK, RecordsTypeOK, records
    <2>5. TypeOK'
      BY <1>2, <2>1, <2>2, <2>3, <2>4 DEF TypeOK, Phases, Transaction
    <2>6. held'[t] = {}
      BY <1>2 DEF IInv, ThreadOK, HeldOK, Inside
    <2>7. pc'[t] = "write" /\ req'[t] = req[t] /\ key'[t] = key[t]
      BY <2>1 DEF TypeOK
    <2>8. ReadOK(t)'
      <3>1. /\ req[t].op = "decide" => readStatus'[t] = recommendation[req[t].case]
            /\ req[t].op = "replay" => readVersion'[t] = version[req[t].case]
        BY <1>2, <2>1 DEF TypeOK
      <3>2. CASE req[t].op = "recommend"
        BY <1>2, <2>1, <2>7, <3>2 DEF Checked, Loadable, ReadOK, records
      <3>3. CASE req[t].op = "decide"
        BY <1>2, <2>7, <3>1, <3>3 DEF Checked, Loadable, Decidable, ReadOK
      <3>4. CASE req[t].op = "replay"
        BY <1>2, <2>7, <3>1, <3>4 DEF Checked, ReadOK
      <3>5. QED
        BY <2>7, <3>2, <3>3, <3>4 DEF ReadOK
    <2>9. ThreadOK(t)'
      BY <2>2, <2>6, <2>7, <2>8 DEF ThreadOK, RequestOK, HeldOK, FullOK, StateOK, Inside
    <2>10. \A u \in Threads \ {t} : Rests(u)
      BY <1>2, <2>1 DEF TypeOK, Rests
    <2>11. QED
      BY <2>1, <2>5, <2>9, <2>10, LocalStep
  <1>3. QED
    BY <1>1, <1>2 DEF Enter

LEMMA ReserveStep ==
  ASSUME IInv, NEW t \in Threads, Reserve(t) \/ KeyDecided(t)
  PROVE  IInv'
  <1>1. CASE Ends(t)
    BY <1>1, EndsStep
  <1>2. CASE pc[t] \in {"called", "keywait"} /\ Enter(t)
    BY <1>2, EnterStep
  <1>3. CASE /\ pc[t] = "called" /\ Goes(t, "keywait")
             /\ UNCHANGED <<keyLock, lock, readStatus, readVersion, readState, held>>
    <2>1. TypeOK /\ UNCHANGED records /\ UNCHANGED <<engine, idem, req, key>>
          /\ pc' = [pc EXCEPT ![t] = "keywait"]
      BY <1>3 DEF IInv, Goes
    <2>2. RecordsTypeOK'
      BY <2>1 DEF TypeOK, RecordsTypeOK, records
    <2>3. TypeOK'
      BY <1>3, <2>1, <2>2 DEF TypeOK, Phases, Transaction
    <2>4. held[t] = {} /\ pc'[t] = "keywait"
      BY <1>3, <2>1 DEF IInv, ThreadOK, HeldOK, Inside, TypeOK
    <2>5. req[t] \in Requests /\ key[t] \in Keys
      BY <1>3 DEF IInv, ThreadOK, RequestOK, Working
    <2>6. ThreadOK(t)'
      BY <1>3, <2>1, <2>4, <2>5 DEF ThreadOK, RequestOK, ReadOK, HeldOK, FullOK, StateOK, Inside
    <2>7. \A u \in Threads \ {t} : Rests(u)
      BY <1>3, <2>1 DEF TypeOK, Rests
    <2>8. QED
      BY <2>1, <2>3, <2>6, <2>7, LocalStep
  <1>4. QED
    BY <1>1, <1>2, <1>3 DEF Reserve, KeyDecided

LEMMA DeduplicateStep ==
  ASSUME IInv, NEW t \in Threads, Deduplicate(t)
  PROVE  IInv'
  <1>1. CASE Ends(t)
    BY <1>1, EndsStep
  <1>2. CASE /\ pc[t] = "write" /\ Deduplicated(t) /\ Goes(t, "commit")
             /\ UNCHANGED <<keyLock, lock, readStatus, readVersion, readState, held>>
    <2>1. TypeOK /\ UNCHANGED records /\ UNCHANGED <<engine, idem, req, key>>
          /\ pc' = [pc EXCEPT ![t] = "commit"] /\ ThreadOK(t)
      BY <1>2 DEF IInv, Goes
    <2>2. RecordsTypeOK'
      BY <2>1 DEF TypeOK, RecordsTypeOK, records
    <2>3. TypeOK'
      BY <1>2, <2>1, <2>2 DEF TypeOK, Phases, Transaction
    <2>4. pc'[t] = "commit" /\ Inside(t) /\ Inside(t)'
      BY <1>2, <2>1 DEF TypeOK, Inside
    <2>5. RequestOK(t)' /\ ReadOK(t)'
      BY <1>2, <2>1, <2>4 DEF ThreadOK, RequestOK, ReadOK, Inside, Working, records
    <2>6. HeldOK(t)'
      <3>1. \A table : WhereHolds(t, table)' <=> WhereHolds(t, table)
        BY <1>2, <2>1 DEF WhereHolds, Unassigned, StatusUnchanged, EquipmentUnchanged, NotReplayed, records
      <3>2. QED
        BY <1>2, <2>1, <2>4, <3>1 DEF ThreadOK, HeldOK, RowOf
    <2>7. FullOK(t)' /\ StateOK(t)'
      BY <1>2, <2>1 DEF FullOK, StateOK, Deduplicated, records
    <2>8. ThreadOK(t)'
      BY <2>5, <2>6, <2>7 DEF ThreadOK
    <2>9. \A u \in Threads \ {t} : Rests(u)
      BY <1>2, <2>1 DEF TypeOK, Rests
    <2>10. QED
      BY <2>1, <2>3, <2>8, <2>9, LocalStep
  <1>3. QED
    BY <1>1, <1>2 DEF Deduplicate

LEMMA UpdateRowStep ==
  ASSUME IInv, NEW t \in Threads, UpdateRow(t)
  PROVE  IInv'
  <1> DEFINE c == req[t].case
  <1>1. PICK table \in Tables :
          /\ pc[t] = "write"
          /\ ~ Deduplicated(t)
          /\ NextTable(t, table)
          /\ WhereHolds(t, table)
          /\ lock[RowOf(req[t], table)] = Free
          /\ lock' = [lock EXCEPT ![RowOf(req[t], table)] = t]
          /\ held' = [held EXCEPT ![t] = held[t] \cup {table}]
          /\ Goes(t, IF held[t] \cup {table} = TablesOf(req[t].op) THEN "commit"
                     ELSE IF table = "action" THEN "equipment" ELSE "write")
          /\ UNCHANGED <<keyLock, readStatus, readVersion, readState>>
    BY DEF UpdateRow
  <1> DEFINE row == RowOf(req[t], table)
             updated == held[t] \cup {table}
             phase == IF updated = TablesOf(req[t].op) THEN "commit"
                      ELSE IF table = "action" THEN "equipment" ELSE "write"
  <1>2. /\ TypeOK /\ ThreadOK(t) /\ UNCHANGED records /\ UNCHANGED <<engine, idem, req, key>>
        /\ pc' = [pc EXCEPT ![t] = phase]
    BY <1>1 DEF IInv, Goes
  <1>3. req[t] \in Requests /\ c \in Cases /\ EquipmentOf[c] \in Equipment
    BY <1>1, <1>2, RequestShape DEF ThreadOK, RequestOK, Working
  <1>4. row \in Rows
    BY <1>3 DEF RowOf, Rows
  <1>5. phase \in {"write", "equipment", "commit"} /\ phase \in Phases
    BY DEF Phases, Transaction
  <1>6. RecordsTypeOK'
    BY <1>2 DEF TypeOK, RecordsTypeOK, records
  <1>7. lock' \in [Rows -> Threads \cup {Free}] /\ held' \in [Threads -> SUBSET Tables]
    BY <1>1, <1>2, <1>4 DEF TypeOK
  <1>8. pc' \in [Threads -> Phases]
    BY <1>2, <1>5 DEF TypeOK
  <1>9. TypeOK'
    BY <1>1, <1>2, <1>6, <1>7, <1>8 DEF TypeOK
  <1>10. pc'[t] = phase /\ held'[t] = updated /\ lock'[row] = t
    BY <1>1, <1>2, <1>4 DEF TypeOK
  <1> HIDE DEF phase
  <1>11. Inside(t) /\ Inside(t)'
    BY <1>1, <1>5, <1>10 DEF Inside
  <1>12. RequestOK(t)' /\ ReadOK(t)'
    BY <1>1, <1>2, <1>11 DEF ThreadOK, RequestOK, ReadOK, Inside, Working, records
  <1>13. table \in TablesOf(req[t].op) /\ table \notin held[t]
         /\ \A a \in TablesOf(req[t].op) : Precedes(a, table) => a \in held[t]
    BY <1>1 DEF NextTable
  <1>14. table = "equipment" => "action" \in held[t]
    <2>1. table = "equipment" => req[t].op = "complete"
      BY <1>3, <1>13, RequestShape DEF TablesOf, Ops
    <2>2. table = "equipment" => "action" \in TablesOf(req[t].op) /\ Precedes("action", table)
      BY <2>1 DEF TablesOf, Precedes
    <2>3. QED
      BY <1>13, <2>2
  <1>15. HeldOK(t)'
    <2>1. \A tab : WhereHolds(t, tab)' <=> WhereHolds(t, tab)
      BY <1>1, <1>2 DEF WhereHolds, Unassigned, StatusUnchanged, EquipmentUnchanged, NotReplayed, records
    <2>2. \A tab : RowOf(req[t], tab)' = RowOf(req[t], tab)
      BY <1>2 DEF RowOf
    <2>3. ASSUME NEW tab \in updated
          PROVE  tab \in TablesOf(req[t].op) /\ lock'[RowOf(req[t], tab)] = t /\ WhereHolds(t, tab)
      <3>1. CASE tab = table
        BY <1>1, <1>10, <1>13, <3>1
      <3>2. CASE tab \in held[t]
        <4>1. tab \in TablesOf(req[t].op) /\ lock[RowOf(req[t], tab)] = t /\ WhereHolds(t, tab)
          BY <1>2, <3>2 DEF ThreadOK, HeldOK
        <4>2. RowOf(req[t], tab) \in Rows
          BY <1>2, <3>2, HeldRows
        <4>3. lock'[RowOf(req[t], tab)] = t
          BY <1>1, <1>2, <1>4, <4>1, <4>2 DEF TypeOK
        <4>4. QED
          BY <4>1, <4>3
      <3>3. QED
        BY <3>1, <3>2
    <2>4. "equipment" \in updated => "action" \in updated
      BY <1>2, <1>14 DEF ThreadOK, HeldOK
    <2>5. req'[t] = req[t]
      BY <1>2
    <2>6. QED
      BY <1>10, <1>11, <2>1, <2>2, <2>3, <2>4, <2>5 DEF HeldOK
  <1>16. FullOK(t)'
    BY <1>2, <1>10 DEF FullOK, phase
  <1>17. StateOK(t)'
    <2> SUFFICES ASSUME phase \in {"write", "commit"}, req[t].op = "complete", "action" \in updated
                 PROVE  "action" \in held[t]
      BY <1>1, <1>2, <1>10 DEF ThreadOK, StateOK, records
    <2>1. table = "action" => "equipment" \notin updated
      BY <1>2, <1>13 DEF ThreadOK, HeldOK
    <2>2. "equipment" \in TablesOf("complete")
      BY DEF TablesOf
    <2>3. table # "action"
      BY <2>1, <2>2 DEF phase
    <2>4. QED
      BY <2>3
  <1>18. ThreadOK(t)'
    BY <1>12, <1>15, <1>16, <1>17 DEF ThreadOK
  <1>19. \A u \in Threads \ {t} : Rests(u)
    <2>1. \A u \in Threads : u # Free
      BY DEF LoopAssumption
    <2>2. \A u \in Threads \ {t} : \A w \in Rows : lock[w] = u => lock'[w] = u
      BY <1>1, <1>2, <2>1 DEF TypeOK
    <2>3. QED
      BY <1>1, <1>2, <2>2 DEF TypeOK, Rests
  <1>20. QED
    BY <1>2, <1>9, <1>18, <1>19, LocalStep

LEMMA ReadEquipmentStep ==
  ASSUME IInv, NEW t \in Threads, ReadEquipment(t)
  PROVE  IInv'
  <1> DEFINE s == equipmentState[EquipmentOf[req[t].case]]
  <1>1. /\ TypeOK /\ ThreadOK(t) /\ UNCHANGED records /\ UNCHANGED <<engine, idem, req, key>>
        /\ pc[t] = "equipment" /\ pc' = [pc EXCEPT ![t] = "write"]
        /\ readState' = [readState EXCEPT ![t] = s]
        /\ UNCHANGED <<keyLock, lock, readStatus, readVersion, held>>
    BY DEF IInv, ReadEquipment, Goes
  <1>2. req[t] \in Requests /\ EquipmentOf[req[t].case] \in Equipment
    BY <1>1, RequestShape DEF ThreadOK, RequestOK, Working
  <1>3. s \in [version : Nat, patches : SUBSET Cases]
    BY <1>1, <1>2 DEF TypeOK, RecordsTypeOK
  <1>4. RecordsTypeOK'
    BY <1>1 DEF TypeOK, RecordsTypeOK, records
  <1>5. TypeOK'
    BY <1>1, <1>3, <1>4 DEF TypeOK, Phases, Transaction
  <1>6. pc'[t] = "write" /\ readState'[t] = s /\ Inside(t) /\ Inside(t)'
    BY <1>1 DEF TypeOK, Inside
  <1>7. RequestOK(t)' /\ ReadOK(t)'
    BY <1>1, <1>6 DEF ThreadOK, RequestOK, ReadOK, Inside, Working, records
  <1>8. HeldOK(t)'
    <2>1. readState'[t].version = equipmentState'[EquipmentOf[req'[t].case]].version
      BY <1>1, <1>6 DEF records
    <2>2. ASSUME NEW tab, WhereHolds(t, tab) PROVE WhereHolds(t, tab)'
      <3>1. CASE req[t].op = "complete"
        BY <1>1, <2>1, <2>2, <3>1 DEF WhereHolds, EquipmentUnchanged, records
      <3>2. CASE req[t].op # "complete"
        <4>1. req[t].op \in Ops
          BY <1>2, RequestShape
        <4>2. req'[t] = req[t] /\ readStatus' = readStatus /\ readVersion' = readVersion
          BY <1>1
        <4>3. QED
          BY <1>1, <2>2, <3>2, <4>1, <4>2
          DEF WhereHolds, Unassigned, StatusUnchanged, NotReplayed, EquipmentUnchanged, Ops, records
      <3>3. QED
        BY <3>1, <3>2
    <2>3. QED
      BY <1>1, <1>6, <2>2 DEF ThreadOK, HeldOK, RowOf
  <1>9. FullOK(t)' /\ StateOK(t)'
    BY <1>1, <1>3, <1>6 DEF FullOK, StateOK, records
  <1>10. ThreadOK(t)'
    BY <1>7, <1>8, <1>9 DEF ThreadOK
  <1>11. \A u \in Threads \ {t} : Rests(u)
    BY <1>1 DEF TypeOK, Rests
  <1>12. QED
    BY <1>1, <1>5, <1>10, <1>11, LocalStep

-----------------------------------------------------------------------------
LEMMA Initially == Init => IInv
  <1> SUFFICES ASSUME Init PROVE IInv
    OBVIOUS
  <1>1. RecordsInv
    BY InitRecords DEF Init
  <1>2. TypeOK
    <2>1. RecordsTypeOK /\ engine \in {"sqlite", "postgresql"}
      BY <1>1 DEF Init, RecordsInv
    <2>2. QED
      BY <2>1 DEF Init, TypeOK, Phases, RecommendationStatus, NoState
  <1>3. AnswersHold
    BY DEF Init, AnswersHold
  <1>4. \A t \in Threads : ThreadOK(t)
    BY IdleOK DEF Init
  <1>5. QED
    BY <1>1, <1>2, <1>3, <1>4 DEF IInv

LEMMA Inductive == IInv /\ [Next]_vars => IInv'
  <1> SUFFICES ASSUME IInv, [Next]_vars PROVE IInv'
    OBVIOUS
  <1>1. ASSUME NEW t \in Threads, Accept(t) PROVE IInv'
    BY <1>1, AcceptStep
  <1>2. ASSUME NEW t \in Threads, Step(t) PROVE IInv'
    <2>1. CASE Reserve(t) \/ KeyDecided(t)
      BY <2>1, ReserveStep
    <2>2. CASE Deduplicate(t)
      BY <2>2, DeduplicateStep
    <2>3. CASE UpdateRow(t)
      BY <2>3, UpdateRowStep
    <2>4. CASE UpdateFails(t)
      BY <2>4, EndsStep DEF UpdateFails
    <2>5. CASE ReadEquipment(t)
      BY <2>5, ReadEquipmentStep
    <2>6. CASE Commit(t)
      BY <2>6, CommitStep
    <2>7. QED
      BY <1>2, <2>1, <2>2, <2>3, <2>4, <2>5, <2>6 DEF Step
  <1>3. ASSUME NEW t \in Threads, Dies(t) PROVE IInv'
    BY <1>3, EndsStep DEF Dies
  <1>4. CASE UNCHANGED vars
    <2>1. UNCHANGED records /\ RecordsInv'
      BY <1>4, RecordsStay DEF vars, IInv
    <2>2. TypeOK'
      BY <1>4, <2>1 DEF vars, IInv, TypeOK, RecordsInv
    <2>3. AnswersHold'
      <3>1. \A r : TookEffect(r)' <=> TookEffect(r)
        BY <2>1 DEF TookEffect, records
      <3>2. QED
        BY <1>4, <3>1 DEF IInv, AnswersHold, vars
    <2>4. \A t \in Threads : ThreadOK(t)'
      BY <1>4, <2>1, RestsAmongRows DEF IInv, Rests, vars
    <2>5. QED
      BY <2>1, <2>2, <2>3, <2>4 DEF IInv
  <1>5. QED
    BY <1>1, <1>2, <1>3, <1>4 DEF Next

LEMMA Invariance == Spec => []IInv
  BY Initially, Inductive, PTL DEF Spec

(* Every variable keeps the shape of the rows and locals of the code. *)
THEOREM TypeCorrect == Spec => []TypeOK
  <1>1. IInv => TypeOK
    BY DEF IInv
  <1>2. QED
    BY <1>1, Invariance, PTL

(* The four tables of a case tell one story, whatever transactions on *)
(* either store interleave, fail or are repeated.                     *)
THEOREM RowsAgree == Spec => []ChainAgrees
  <1>1. IInv => ChainAgrees
    BY DEF IInv, RecordsInv
  <1>2. QED
    BY <1>1, Invariance, PTL

(* The row of a machine reflects every completed maintenance, although   *)
(* completions read it before they write it (_persist_equipment_state).  *)
THEOREM NoMaintenanceLost == Spec => []EquipmentCounts
  <1>1. IInv => EquipmentCounts
    BY DEF IInv, RecordsInv
  <1>2. QED
    BY <1>1, Invariance, PTL

(* What was answered under an idempotency key has happened and stays so. *)
THEOREM AnswersStay == Spec => []AnswersHold
  <1>1. IInv => AnswersHold
    BY DEF IInv
  <1>2. QED
    BY <1>1, Invariance, PTL

LEMMA StepImplements == IInv /\ [Next]_vars => [Lifecycle!Next]_records
  <1> SUFFICES ASSUME IInv, [Next]_vars PROVE Lifecycle!Next \/ UNCHANGED records
    OBVIOUS
  <1>1. ASSUME NEW t \in Threads, Commit(t) PROVE Lifecycle!Next \/ UNCHANGED records
    <2>1. req[t] \in Requests /\ (Applied(req[t]) \/ Repeated(req[t]))
      BY <1>1, CommitApplies
    <2>2. QED
      BY <2>1, AppliedImplements DEF Repeated
  <1>2. ASSUME NEW t \in Threads, ~ Commit(t), Accept(t) \/ Step(t) \/ Dies(t)
        PROVE  UNCHANGED records
    BY <1>2 DEF Accept, Step, Dies, Reserve, KeyDecided, Enter, Deduplicate, UpdateRow, UpdateFails,
                ReadEquipment, Ends, Goes
  <1>3. CASE UNCHANGED vars
    BY <1>3 DEF vars
  <1>4. QED
    BY <1>1, <1>2, <1>3 DEF Next

(* Interleaved transactions with their reads, locks, refusals and crashes *)
(* implement the lifecycle in which every command is a single step.       *)
THEOREM LifecycleImplemented == Spec => ImplementsLifecycle
  <1>1. Init => Lifecycle!RecordsInit
    BY DEF Init, RecordsInit, Lifecycle!RecordsInit, NoState, Lifecycle!NoState
  <1>2. IInv /\ [Next]_vars => [Lifecycle!Next]_(Lifecycle!records)
    BY StepImplements DEF Lifecycle!records, records
  <1>3. QED
    BY <1>1, <1>2, Invariance, PTL DEF Spec, ImplementsLifecycle, Lifecycle!Spec
=============================================================================
