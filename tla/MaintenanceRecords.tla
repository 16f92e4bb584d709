------------------------- MODULE MaintenanceRecords -------------------------
(***************************************************************************)
(* The rows of the maintenance closed loop and what each command writes    *)
(* (systems/backend/app/infra/db/maintenance_repository.py).  A case is an *)
(* operational event with the rows that grow out of it: its inspection     *)
(* work order, the manual recommendation of an action code, the            *)
(* maintenance work order and the maintenance action.  Their ids are       *)
(* hashes of what they come from, so a case has at most one of each.  An   *)
(* operator below is the effect of a command alone; who may apply it, and  *)
(* when, is for the modules that extend this one.                          *)
(***************************************************************************)
EXTENDS Naturals, Sequences, FiniteSets

CONSTANTS
  Cases,
  Operators,     \* the people who assign themselves to an inspection
  Nobody,
  Equipment,
  EquipmentOf,   \* the machine a case is about
  Openings       \* how far the cases have come when the model begins

VARIABLES
  inspection,      \* status of the inspection work order
  assignee,        \* its assigned_to
  outcome,         \* outcome of the inspection result
  recommendation,  \* status of the recommendation
  decisions,       \* the dispositions recorded for it, in order
  workOrder,       \* status of the maintenance work order
  action,          \* status of the maintenance action
  version,         \* its lifecycle_state_version
  outbox,          \* versions of its events in transactional_outbox, in order
  equipmentState   \* the equipment row: its version and the cases it reflects

records == <<inspection, assignee, outcome, recommendation, decisions,
             workOrder, action, version, outbox, equipmentState>>

WorkStatus == {"none", "requested", "approved", "in_progress", "completed"}
ActionStatus == {"none", "planned", "in_progress", "completed"}
RecommendationStatus == {"none", "proposed", "deferred", "accepted", "rejected"}
Outcomes == {"maintenance_recommended", "no_action_required"}  \* data_check_required as the second
Dispositions == {"accept", "reject", "defer"}
Opening == {"new", "rejected", "accepted"}

ASSUME RecordsAssumption ==
  /\ IsFiniteSet(Cases)
  /\ Nobody \notin Operators
  /\ EquipmentOf \in [Cases -> Equipment]
  /\ Openings \subseteq [Cases -> Opening]

NoState == [version |-> 0, patches |-> {}]

(* A case is new, or was inspected before and its recommendation rejected or *)
(* accepted.                                                                 *)
RecordsInit ==
  \E o \in Openings :
    /\ inspection = [c \in Cases |-> IF o[c] = "new" THEN "none" ELSE "completed"]
    /\ \E who \in Operators : assignee = [c \in Cases |-> IF o[c] = "new" THEN Nobody ELSE who]
    /\ outcome = [c \in Cases |-> IF o[c] = "new" THEN "none" ELSE "maintenance_recommended"]
    /\ recommendation = [c \in Cases |-> IF o[c] = "new" THEN "none" ELSE o[c]]
    /\ decisions = [c \in Cases |-> CASE o[c] = "new" -> <<>>
                                      [] o[c] = "rejected" -> <<"reject">>
                                      [] o[c] = "accepted" -> <<"accept">>]
    /\ workOrder = [c \in Cases |-> IF o[c] = "accepted" THEN "requested" ELSE "none"]
    /\ action = [c \in Cases |-> "none"]
    /\ version = [c \in Cases |-> 0]
    /\ outbox = [c \in Cases |-> <<>>]
    /\ equipmentState = [e \in Equipment |-> NoState]

-----------------------------------------------------------------------------
RequestInspection(c) ==
  /\ inspection' = [inspection EXCEPT ![c] = "requested"]
  /\ UNCHANGED <<assignee, outcome, recommendation, decisions, workOrder, action, version,
                 outbox, equipmentState>>

(* Approving an inspection assigns it to the operator who approves. *)
AssignInspection(c, who) ==
  /\ inspection' = [inspection EXCEPT ![c] = "approved"]
  /\ assignee' = [assignee EXCEPT ![c] = who]
  /\ UNCHANGED <<outcome, recommendation, decisions, workOrder, action, version, outbox,
                 equipmentState>>

BeginInspection(c) ==
  /\ inspection' = [inspection EXCEPT ![c] = "in_progress"]
  /\ UNCHANGED <<assignee, outcome, recommendation, decisions, workOrder, action, version,
                 outbox, equipmentState>>

CompleteInspection(c, found) ==
  /\ inspection' = [inspection EXCEPT ![c] = "completed"]
  /\ outcome' = [outcome EXCEPT ![c] = found]
  /\ UNCHANGED <<assignee, recommendation, decisions, workOrder, action, version, outbox,
                 equipmentState>>

CreateRecommendation(c) ==
  /\ recommendation' = [recommendation EXCEPT ![c] = "proposed"]
  /\ UNCHANGED <<inspection, assignee, outcome, decisions, workOrder, action, version, outbox,
                 equipmentState>>

Decided(d) == CASE d = "accept" -> "accepted" [] d = "reject" -> "rejected" [] d = "defer" -> "deferred"

(* A decision is appended; an acceptance creates the maintenance work order. *)
DecideRecommendation(c, d) ==
  /\ recommendation' = [recommendation EXCEPT ![c] = Decided(d)]
  /\ decisions' = [decisions EXCEPT ![c] = Append(@, d)]
  /\ workOrder' = [workOrder EXCEPT ![c] = IF d = "accept" THEN "requested" ELSE @]
  /\ UNCHANGED <<inspection, assignee, outcome, action, version, outbox, equipmentState>>

(* Approving the work order plans the maintenance action. *)
ApproveWorkOrder(c) ==
  /\ workOrder' = [workOrder EXCEPT ![c] = "approved"]
  /\ action' = [action EXCEPT ![c] = "planned"]
  /\ UNCHANGED <<inspection, assignee, outcome, recommendation, decisions, version, outbox,
                 equipmentState>>

(* The event of a lifecycle step goes to the outbox with its version. *)
Enqueue(c, v) ==
  /\ version' = [version EXCEPT ![c] = v]
  /\ outbox' = [outbox EXCEPT ![c] = Append(@, v)]

StartMaintenance(c) ==
  /\ workOrder' = [workOrder EXCEPT ![c] = "in_progress"]
  /\ action' = [action EXCEPT ![c] = "in_progress"]
  /\ Enqueue(c, 1)
  /\ UNCHANGED <<inspection, assignee, outcome, recommendation, decisions, equipmentState>>

(* The patch of the case is applied to the equipment state that was read. *)
Patched(s, c) == [version |-> s.version + 1, patches |-> s.patches \cup {c}]

CompleteMaintenance(c, s) ==
  /\ workOrder' = [workOrder EXCEPT ![c] = "completed"]
  /\ action' = [action EXCEPT ![c] = "completed"]
  /\ Enqueue(c, 2)
  /\ equipmentState' = [equipmentState EXCEPT ![EquipmentOf[c]] = Patched(s, c)]
  /\ UNCHANGED <<inspection, assignee, outcome, recommendation, decisions>>

RequestReplay(c) ==
  /\ Enqueue(c, 3)
  /\ UNCHANGED <<inspection, assignee, outcome, recommendation, decisions, workOrder, action,
                 equipmentState>>

-----------------------------------------------------------------------------
RecordsTypeOK ==
  /\ inspection \in [Cases -> WorkStatus]
  /\ assignee \in [Cases -> Operators \cup {Nobody}]
  /\ outcome \in [Cases -> Outcomes \cup {"none"}]
  /\ recommendation \in [Cases -> RecommendationStatus]
  /\ decisions \in [Cases -> Seq(Dispositions)]
  /\ workOrder \in [Cases -> WorkStatus]
  /\ action \in [Cases -> ActionStatus]
  /\ version \in [Cases -> 0 .. 3]
  /\ outbox \in [Cases -> Seq(1 .. 3)]
  /\ equipmentState \in [Equipment -> [version : Nat, patches : SUBSET Cases]]

(* The decision history a status of a recommendation can have. *)
Trails(s) ==
  CASE s \in {"none", "proposed"} -> {<<>>}
    [] s = "deferred" -> {<<"defer">>}
    [] s = "accepted" -> {<<"accept">>, <<"defer", "accept">>}
    [] s = "rejected" -> {<<"reject">>, <<"defer", "reject">>}

(* The maintenance work order, its action and the version of the lifecycle *)
(* move together, once per step.                                           *)
Stages ==
  {<<"none", "none", 0>>, <<"requested", "none", 0>>, <<"approved", "planned", 0>>,
   <<"in_progress", "in_progress", 1>>, <<"completed", "completed", 2>>,
   <<"completed", "completed", 3>>}

(* A recommendation follows an inspection that asked for maintenance, one *)
(* final decision ends its history, a work order exists exactly when it   *)
(* was accepted, and the outbox holds the event of every lifecycle step   *)
(* taken, once and in order.                                              *)
CaseAgrees(c) ==
  /\ inspection[c] \in {"none", "requested"} <=> assignee[c] = Nobody
  /\ inspection[c] = "completed" <=> outcome[c] # "none"
  /\ recommendation[c] # "none" => outcome[c] = "maintenance_recommended"
  /\ decisions[c] \in Trails(recommendation[c])
  /\ workOrder[c] # "none" <=> recommendation[c] = "accepted"
  /\ <<workOrder[c], action[c], version[c]>> \in Stages
  /\ outbox[c] = [i \in 1 .. version[c] |-> i]

(* The rows of a case tell one story although four tables and many        *)
(* transactions write it.                                                 *)
ChainAgrees == \A c \in Cases : CaseAgrees(c)

CompletedOn(e) == {c \in Cases : EquipmentOf[c] = e /\ action[c] = "completed"}

(* No maintenance is lost from the state of a machine: it reflects the    *)
(* patch of every completed case of the machine, and its version counts   *)
(* them, although completions read the row first and write it later.      *)
EquipmentCounts ==
  \A e \in Equipment :
    /\ equipmentState[e].patches = CompletedOn(e)
    /\ equipmentState[e].version = Cardinality(CompletedOn(e))
=============================================================================
