------------------------ MODULE MaintenanceLifecycle ------------------------
(***************************************************************************)
(* What the maintenance closed loop promises: every command takes effect   *)
(* at one instant, and only where the transition tables of                 *)
(* systems/backend/app/maintenance/maintenance_domain.py and the lineage   *)
(* of the case allow it.                                                   *)
(***************************************************************************)
EXTENDS MaintenanceRecords

Request(c) ==
  /\ inspection[c] = "none"
  /\ RequestInspection(c)

Assign(c, who) ==
  /\ inspection[c] = "requested"
  /\ AssignInspection(c, who)

Begin(c) ==
  /\ inspection[c] = "approved"
  /\ BeginInspection(c)

Record(c, found) ==
  /\ inspection[c] = "in_progress"
  /\ CompleteInspection(c, found)

Recommend(c) ==
  /\ outcome[c] = "maintenance_recommended"
  /\ recommendation[c] = "none"
  /\ CreateRecommendation(c)

(* A deferred recommendation can still be accepted or rejected, once. *)
Decide(c, d) ==
  /\ recommendation[c] \in {"proposed"} \cup (IF d = "defer" THEN {} ELSE {"deferred"})
  /\ DecideRecommendation(c, d)

Approve(c) ==
  /\ workOrder[c] = "requested"
  /\ ApproveWorkOrder(c)

Start(c) ==
  /\ workOrder[c] = "approved"
  /\ action[c] = "planned"
  /\ StartMaintenance(c)

Complete(c) ==
  /\ workOrder[c] = "in_progress"
  /\ action[c] = "in_progress"
  /\ CompleteMaintenance(c, equipmentState[EquipmentOf[c]])

Replay(c) ==
  /\ action[c] = "completed"
  /\ version[c] = 2
  /\ RequestReplay(c)

Next ==
  \E c \in Cases :
    \/ Request(c)
    \/ \E who \in Operators : Assign(c, who)
    \/ Begin(c)
    \/ \E found \in Outcomes : Record(c, found)
    \/ Recommend(c)
    \/ \E d \in Dispositions : Decide(c, d)
    \/ Approve(c) \/ Start(c) \/ Complete(c) \/ Replay(c)

Spec == RecordsInit /\ [][Next]_records
=============================================================================
