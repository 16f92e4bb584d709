---------------------------- MODULE BatchDelivery ----------------------------
(***************************************************************************)
(* What the delivery of prediction batches promises, from end to end: the  *)
(* receipt the Backend has of a batch, and what the generator has come to  *)
(* know of it.  DiagnosisInbox implements this with its tables, locks and  *)
(* requests, PredictionDelivery with its outbox, attempts and restarts;    *)
(* what each of them assumes of the other end is a step of this module.    *)
(***************************************************************************)

CONSTANT Payload

VARIABLES
  receipt,   \* receipt[p]: how far the Backend is with p
  told       \* told[p]: what the generator makes of the answers to p

vars == <<receipt, told>>

Receipt == {"none", "accepted", "promoted", "refused"}

(* A batch is accepted before it is promoted, and refused for good. *)
Becomes(r) ==
  CASE r = "none"     -> Receipt
    [] r = "accepted" -> {"accepted", "promoted"}
    [] OTHER          -> {r}

(* The Backend is done with the batch. *)
Closed == {"promoted", "refused"}

TypeOK ==
  /\ receipt \in [Payload -> Receipt]
  /\ told \in [Payload -> {"open", "delivered", "refused", "abandoned"}]

Init ==
  /\ receipt = [p \in Payload |-> "none"]
  /\ told = [p \in Payload |-> "open"]

(* The Backend gets further, perhaps with several batches at once. *)
Advance ==
  /\ receipt' \in [Payload -> Receipt]
  /\ \A p \in Payload : receipt'[p] \in Becomes(receipt[p])
  /\ UNCHANGED told

(* What the generator has settled it never opens again. *)
Settle(p, outcome) ==
  /\ told[p] = "open"
  /\ told' = [told EXCEPT ![p] = outcome]
  /\ UNCHANGED receipt

(* It takes for delivered only what the Backend is done with -- a refused  *)
(* batch too, whose refusal was lost with the first answer and which is a  *)
(* duplicate since -- and may give up at any time.                         *)
Deliver(p) == receipt[p] \in Closed /\ Settle(p, "delivered")
Refuse(p)  == receipt[p] = "refused" /\ Settle(p, "refused")
Abandon(p) == Settle(p, "abandoned")

Next ==
  \/ Advance
  \/ \E p \in Payload : Deliver(p) \/ Refuse(p) \/ Abandon(p)

Spec == Init /\ [][Next]_vars
=============================================================================
