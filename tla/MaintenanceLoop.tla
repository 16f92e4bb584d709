-------------------------- MODULE MaintenanceLoop --------------------------
(***************************************************************************)
(* The maintenance closed loop under concurrent and repeated requests:     *)
(* MaintenanceLoopService (systems/backend/app/maintenance/service.py)     *)
(* reads the case and refuses what it can before any transaction, then     *)
(* MaintenanceRepository runs the command in one transaction: reserve the  *)
(* idempotency key, check the rows again, update them one by one under     *)
(* WHERE conditions on what was read, and commit.  On SQLite BEGIN         *)
(* IMMEDIATE lets one transaction run at a time.  On PostgreSQL the        *)
(* adapter drops that statement (postgresql_compat.py), so transactions    *)
(* interleave at READ COMMITTED: an update waits for the row lock of       *)
(* another transaction and evaluates its condition again when it gets it,  *)
(* and an insert of a key that is being inserted waits for its outcome.    *)
(*                                                                         *)
(* A transaction's writes are the operators of MaintenanceRecords, applied *)
(* when it commits: until then nobody else sees the rows it has locked.    *)
(***************************************************************************)
EXTENDS MaintenanceRecords

CONSTANTS
  Threads,    \* request threads of the backend
  Keys,       \* Idempotency-Keys in circulation (see Accept)
  Engines     \* which of {"sqlite", "postgresql"} the store may be

Ops == {"request", "assign", "begin", "record", "recommend", "decide", "approve", "start",
        "complete", "replay"}

(* A request: the command, the case, who asks where the code tells people *)
(* apart, and the outcome or disposition it carries.  Two requests are    *)
(* equal when command type and fingerprint are.                           *)
Requests ==
  {r \in [op : Ops, case : Cases, by : Operators \cup {Nobody},
          choice : Outcomes \cup Dispositions \cup {"none"}] :
     /\ r.by # Nobody <=> r.op \in {"assign", "begin", "record"}
     /\ r.choice \in CASE r.op = "record" -> Outcomes
                       [] r.op = "decide" -> Dispositions
                       [] OTHER -> {"none"}}

NoRequest == [op |-> "none"]
NoKey == "none"
Free == "free"

ASSUME LoopAssumption ==
  /\ Engines \subseteq {"sqlite", "postgresql"}
  /\ Free \notin Threads
  /\ NoKey \notin Keys

Tables == {"inspection", "recommendation", "work_order", "action", "equipment"}
Rows == Tables \X (Cases \cup Equipment)

VARIABLES
  engine,       \* the store of this deployment
  idem,         \* the succeeded idempotency record of a key, as its request
  keyLock,      \* the transaction that is inserting the record of a key
  lock,         \* the transaction that holds a row
  pc,           \* what a thread is doing
  req,          \* the request it handles
  key,          \* the Idempotency-Key of that request
  readStatus,   \* the recommendation status its transaction has read
  readVersion,  \* the lifecycle version it has read
  readState,    \* the equipment row it has read
  held          \* the tables whose row it has updated and locked

vars == <<records, engine, idem, keyLock, lock, pc, req, key,
          readStatus, readVersion, readState, held>>

Transaction == {"keywait", "write", "equipment", "commit"}
Phases == {"idle", "called"} \cup Transaction
Working(t) == pc[t] # "idle"

Init ==
  /\ RecordsInit
  /\ engine \in Engines
  /\ idem = [k \in Keys |-> NoRequest]
  /\ keyLock = [k \in Keys |-> Free]
  /\ lock = [w \in Rows |-> Free]
  /\ pc = [t \in Threads |-> "idle"]
  /\ req = [t \in Threads |-> NoRequest]
  /\ key = [t \in Threads |-> NoKey]
  /\ readStatus = [t \in Threads |-> "none"]
  /\ readVersion = [t \in Threads |-> 0]
  /\ readState = [t \in Threads |-> NoState]
  /\ held = [t \in Threads |-> {}]

-----------------------------------------------------------------------------
(* The transition tables, for the status a command finds. *)
Decidable(c, d) ==
  recommendation[c] \in {"proposed"} \cup (IF d = "defer" THEN {} ELSE {"deferred"})

(* What the service checks on the rows it reads before the transaction.   *)
(* Inspection steps and decisions compute their target status here.       *)
Loadable(r) ==
  LET c == r.case IN
  CASE r.op = "request"   -> TRUE
    [] r.op = "assign"    -> inspection[c] = "requested"
    [] r.op = "begin"     -> inspection[c] = "approved" /\ assignee[c] = r.by
    [] r.op = "record"    -> inspection[c] = "in_progress" /\ assignee[c] = r.by
    [] r.op = "recommend" -> outcome[c] = "maintenance_recommended"
    [] r.op = "decide"    -> Decidable(c, r.choice)
    [] r.op = "approve"   -> workOrder[c] # "none"
    [] r.op = "start"     -> action[c] # "none"
    [] r.op = "complete"  -> action[c] \in {"in_progress", "completed"}
    [] r.op = "replay"    -> action[c] = "completed"

(* What the transaction checks on the rows it reads again. *)
Checked(r) ==
  LET c == r.case IN
  CASE r.op \in {"assign", "begin", "record", "recommend", "decide", "request"} -> Loadable(r)
    [] r.op = "approve"  -> workOrder[c] = "requested"
    [] r.op = "start"    -> workOrder[c] = "approved" /\ action[c] = "planned" /\ version[c] < 1
    [] r.op = "complete" -> workOrder[c] = "in_progress" /\ action[c] = "in_progress" /\ version[c] < 2
    [] r.op = "replay"   -> action[c] = "completed" /\ version[c] < 3

(* The tables a command updates a row of, or inserts one into under a      *)
(* unique key; where there are several, in the order of Precedes.          *)
TablesOf(op) ==
  CASE op \in {"request", "assign", "begin", "record"} -> {"inspection"}
    [] op \in {"recommend", "decide"} -> {"recommendation"}
    [] op = "approve"  -> {"work_order"}
    [] op = "start"    -> {"work_order", "action"}
    [] op = "complete" -> {"work_order", "action", "equipment"}
    [] op = "replay"   -> {"action"}

Precedes(a, b) == <<a, b>> \in {<<"work_order", "action">>, <<"action", "equipment">>}

RowOf(r, table) == <<table, IF table = "equipment" THEN EquipmentOf[r.case] ELSE r.case>>

NextTable(t, table) ==
  /\ table \in TablesOf(req[t].op) \ held[t]
  /\ \A a \in TablesOf(req[t].op) : Precedes(a, table) => a \in held[t]

(* The conditions of the updates that other transactions can get ahead of. *)
UnassignedOnceChecked(t) == inspection[req[t].case] # "none"

Unassigned(t) ==
  LET c == req[t].case IN inspection[c] = "requested" /\ assignee[c] = Nobody

StatusUnconditional(t) == recommendation[req[t].case] # "none"

StatusUnchanged(t) == recommendation[req[t].case] = readStatus[t]

EquipmentPresent(t) == equipmentState[EquipmentOf[req[t].case]].version >= 0

EquipmentUnchanged(t) ==
  equipmentState[EquipmentOf[req[t].case]].version = readState[t].version

ReplayCompleted(t) == action[req[t].case] = "completed"

NotReplayed(t) ==
  LET c == req[t].case IN action[c] = "completed" /\ version[c] = readVersion[t]

(* The WHERE condition of an update, or the absence of the row to insert. *)
WhereHolds(t, table) ==
  LET r == req[t]
      c == r.case IN
  CASE r.op = "request"   -> inspection[c] = "none"
    [] r.op = "assign"    -> Unassigned(t)
    [] r.op = "begin"     -> inspection[c] = "approved" /\ assignee[c] = r.by
    [] r.op = "record"    -> inspection[c] = "in_progress" /\ assignee[c] = r.by
    [] r.op = "recommend" -> recommendation[c] = "none"
    [] r.op = "decide"    -> StatusUnchanged(t)
    [] r.op = "approve"   -> workOrder[c] = "requested"
    [] r.op = "start"     ->
         \/ table = "work_order" /\ workOrder[c] = "approved"
         \/ table = "action" /\ action[c] = "planned" /\ version[c] = readVersion[t]
    [] r.op = "complete"  ->
         \/ table = "work_order" /\ workOrder[c] = "in_progress"
         \/ table = "action" /\ action[c] = "in_progress" /\ version[c] = readVersion[t]
         \/ table = "equipment" /\ EquipmentUnchanged(t)
    [] r.op = "replay"    -> NotReplayed(t)

-----------------------------------------------------------------------------
(* A thread is done with its request: its locks go with its transaction. *)
Finish(t) ==
  /\ keyLock' = [k \in Keys |-> IF keyLock[k] = t THEN Free ELSE keyLock[k]]
  /\ lock' = [w \in Rows |-> IF lock[w] = t THEN Free ELSE lock[w]]
  /\ pc' = [pc EXCEPT ![t] = "idle"]
  /\ req' = [req EXCEPT ![t] = NoRequest]
  /\ key' = [key EXCEPT ![t] = NoKey]
  /\ readStatus' = [readStatus EXCEPT ![t] = "none"]
  /\ readVersion' = [readVersion EXCEPT ![t] = 0]
  /\ readState' = [readState EXCEPT ![t] = NoState]
  /\ held' = [held EXCEPT ![t] = {}]

(* An answer without an effect: a stored response, or a refusal after *)
(* which the transaction rolls back.                                  *)
Ends(t) ==
  /\ Finish(t)
  /\ UNCHANGED <<records, engine, idem>>

Goes(t, phase) ==
  /\ pc' = [pc EXCEPT ![t] = phase]
  /\ UNCHANGED <<records, engine, idem, req, key>>

(* A request arrives and the service, having read the rows, builds the     *)
(* command; a request it refuses changes nothing.  The key is one in       *)
(* circulation (a retry, a duplicate, or another request by mistake) or    *)
(* was never used before; a new key takes the place of one that nobody     *)
(* will send again.                                                        *)
Accept(t) ==
  \E r \in Requests, k \in Keys :
    /\ ~ Working(t)
    /\ Loadable(r)
    /\ \/ UNCHANGED idem
       \/ /\ \A u \in Threads : key[u] # k
          /\ idem' = [idem EXCEPT ![k] = NoRequest]
    /\ pc' = [pc EXCEPT ![t] = "called"]
    /\ req' = [req EXCEPT ![t] = r]
    /\ key' = [key EXCEPT ![t] = k]
    /\ UNCHANGED <<records, engine, keyLock, lock, readStatus, readVersion, readState, held>>

(* The key is reserved and the rows are checked.  The recommendation or    *)
(* the action is read ahead of the reservation: if the reservation waited, *)
(* what was read may be old, and then the conditions of the updates fail.  *)
Enter(t) ==
  \/ /\ Checked(req[t])
     /\ Goes(t, "write")
     /\ keyLock' = [keyLock EXCEPT ![key[t]] = t]
     /\ readStatus' = [readStatus EXCEPT ![t] =
                         IF req[t].op = "decide" THEN recommendation[req[t].case] ELSE @]
     /\ readVersion' = [readVersion EXCEPT ![t] =
                          IF req[t].op \in {"start", "complete", "replay"} THEN version[req[t].case] ELSE @]
     /\ UNCHANGED <<lock, readState, held>>
  \/ /\ ~ Checked(req[t])
     /\ Ends(t)

(* The transaction begins; a key that has a record answers at once, with  *)
(* the stored response for the same request and a conflict for another.   *)
Reserve(t) ==
  /\ pc[t] = "called"
  /\ engine = "sqlite" => \A u \in Threads : pc[u] \notin Transaction
  /\ \/ /\ idem[key[t]] = req[t]
        /\ Ends(t)
     \/ /\ idem[key[t]] \notin {req[t], NoRequest}
        /\ Ends(t)
     \/ /\ idem[key[t]] = NoRequest
        /\ keyLock[key[t]] = Free
        /\ Enter(t)
     \/ /\ idem[key[t]] = NoRequest
        /\ keyLock[key[t]] # Free
        /\ Goes(t, "keywait")
        /\ UNCHANGED <<keyLock, lock, readStatus, readVersion, readState, held>>

(* The insert of the key waited for another one: a unique violation if    *)
(* that one committed, the reservation if it rolled back.                 *)
KeyDecided(t) ==
  /\ pc[t] = "keywait"
  /\ keyLock[key[t]] = Free
  /\ \/ /\ idem[key[t]] # NoRequest
        /\ Ends(t)
     \/ /\ idem[key[t]] = NoRequest
        /\ Enter(t)

(* INSERT OR IGNORE of a recommendation that exists: the stored one is    *)
(* the answer if it agrees with the command's.                            *)
Deduplicated(t) == req[t].op = "recommend" /\ recommendation[req[t].case] # "none"

Deduplicate(t) ==
  /\ pc[t] = "write"
  /\ Deduplicated(t)
  /\ \/ /\ Goes(t, "commit")
        /\ UNCHANGED <<keyLock, lock, readStatus, readVersion, readState, held>>
     \/ Ends(t)

(* The next row is updated and locked, once no other transaction holds it. *)
UpdateRow(t) ==
  \E table \in Tables :
    LET row == RowOf(req[t], table)
        updated == held[t] \cup {table} IN
    /\ pc[t] = "write"
    /\ ~ Deduplicated(t)
    /\ NextTable(t, table)
    /\ WhereHolds(t, table)
    /\ lock[row] = Free
    /\ lock' = [lock EXCEPT ![row] = t]
    /\ held' = [held EXCEPT ![t] = updated]
    /\ Goes(t, IF updated = TablesOf(req[t].op) THEN "commit"
               ELSE IF table = "action" THEN "equipment" ELSE "write")
    /\ UNCHANGED <<keyLock, readStatus, readVersion, readState>>

(* rowcount is not 1: the row was changed concurrently. *)
UpdateFails(t) ==
  /\ pc[t] = "write"
  /\ ~ Deduplicated(t)
  /\ \E table \in Tables : NextTable(t, table) /\ ~ WhereHolds(t, table)
  /\ Ends(t)

(* The completion reads the equipment row it will patch. *)
ReadEquipment(t) ==
  /\ pc[t] = "equipment"
  /\ readState' = [readState EXCEPT ![t] = equipmentState[EquipmentOf[req[t].case]]]
  /\ Goes(t, "write")
  /\ UNCHANGED <<keyLock, lock, readStatus, readVersion, held>>

(* The request's thread, its process or its connection dies: rollback. *)
Dies(t) ==
  /\ Working(t)
  /\ Ends(t)

-----------------------------------------------------------------------------
(* The command's writes and its idempotency record become visible at once. *)
Commits(t, op) ==
  /\ pc[t] = "commit"
  /\ req[t].op = op
  /\ idem' = [idem EXCEPT ![key[t]] = req[t]]
  /\ Finish(t)
  /\ UNCHANGED engine

CommitRequest(t) == Commits(t, "request") /\ RequestInspection(req[t].case)
CommitAssign(t) == Commits(t, "assign") /\ AssignInspection(req[t].case, req[t].by)
CommitBegin(t) == Commits(t, "begin") /\ BeginInspection(req[t].case)
CommitRecord(t) == Commits(t, "record") /\ CompleteInspection(req[t].case, req[t].choice)

CommitRecommend(t) ==
  /\ Commits(t, "recommend")
  /\ IF Deduplicated(t) THEN UNCHANGED records ELSE CreateRecommendation(req[t].case)

CommitDecide(t) == Commits(t, "decide") /\ DecideRecommendation(req[t].case, req[t].choice)
CommitApprove(t) == Commits(t, "approve") /\ ApproveWorkOrder(req[t].case)
CommitStart(t) == Commits(t, "start") /\ StartMaintenance(req[t].case)
CommitComplete(t) == Commits(t, "complete") /\ CompleteMaintenance(req[t].case, readState[t])
CommitReplay(t) == Commits(t, "replay") /\ RequestReplay(req[t].case)

Commit(t) ==
  \/ CommitRequest(t) \/ CommitAssign(t) \/ CommitBegin(t) \/ CommitRecord(t)
  \/ CommitRecommend(t) \/ CommitDecide(t) \/ CommitApprove(t)
  \/ CommitStart(t) \/ CommitComplete(t) \/ CommitReplay(t)

Step(t) ==
  \/ Reserve(t) \/ KeyDecided(t)
  \/ Deduplicate(t) \/ UpdateRow(t) \/ UpdateFails(t) \/ ReadEquipment(t)
  \/ Commit(t)

Next ==
  \E t \in Threads :
    \/ Accept(t)
    \/ Step(t)
    \/ Dies(t)

Spec == Init /\ [][Next]_vars

-----------------------------------------------------------------------------
TypeOK ==
  /\ RecordsTypeOK
  /\ engine \in {"sqlite", "postgresql"}
  /\ idem \in [Keys -> Requests \cup {NoRequest}]
  /\ keyLock \in [Keys -> Threads \cup {Free}]
  /\ lock \in [Rows -> Threads \cup {Free}]
  /\ pc \in [Threads -> Phases]
  /\ req \in [Threads -> Requests \cup {NoRequest}]
  /\ key \in [Threads -> Keys \cup {NoKey}]
  /\ readStatus \in [Threads -> RecommendationStatus]
  /\ readVersion \in [Threads -> 0 .. 3]
  /\ readState \in [Threads -> [version : Nat, patches : SUBSET Cases]]
  /\ held \in [Threads -> SUBSET Tables]

(* The effect a succeeded request must have had. *)
TookEffect(r) ==
  LET c == r.case IN
  CASE r.op = "request"   -> inspection[c] # "none"
    [] r.op = "assign"    -> inspection[c] \notin {"none", "requested"} /\ assignee[c] = r.by
    [] r.op = "begin"     -> inspection[c] \in {"in_progress", "completed"} /\ assignee[c] = r.by
    [] r.op = "record"    -> outcome[c] = r.choice /\ assignee[c] = r.by
    [] r.op = "recommend" -> recommendation[c] # "none"
    [] r.op = "decide"    -> \E i \in DOMAIN decisions[c] : decisions[c][i] = r.choice
    [] r.op = "approve"   -> action[c] # "none"
    [] r.op = "start"     -> version[c] >= 1
    [] r.op = "complete"  -> c \in equipmentState[EquipmentOf[c]].patches
    [] r.op = "replay"    -> version[c] = 3

(* An answer stored under an idempotency key is true: the command took     *)
(* effect, for the person who asked, and nothing that came later, of any   *)
(* thread on either store, took it back.                                   *)
AnswersHold == \A k \in Keys : idem[k] # NoRequest => TookEffect(idem[k])

(* Whatever the interleaving of transactions, crashes and retries, the     *)
(* rows change only by whole commands, each applied at one instant where   *)
(* the transition tables allow it.                                         *)
Lifecycle == INSTANCE MaintenanceLifecycle
ImplementsLifecycle == Lifecycle!Spec
=============================================================================
