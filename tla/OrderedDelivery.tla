--------------------------- MODULE OrderedDelivery ---------------------------
(***************************************************************************)
(* What the outbox promises to the producer of a lifecycle's events,       *)
(* whatever happens to its workers: an event is delivered once, only after *)
(* every earlier version of its lifecycle, and for good; an event that is  *)
(* given up waits for an operator and holds the later ones back.           *)
(***************************************************************************)
EXTENDS Naturals

CONSTANTS Events, Lifecycle, Version

VARIABLE state

DeliveryState == {"none", "waiting", "delivered", "dead"}

Earlier(e) == {f \in Events : Lifecycle[f] = Lifecycle[e] /\ Version[f] < Version[e]}

Init == state = [e \in Events |-> "none"]

Submit(e) ==
  /\ state[e] = "none"
  /\ \A f \in Earlier(e) : state[f] # "none"
  /\ state' = [state EXCEPT ![e] = "waiting"]

Deliver(e) ==
  /\ state[e] = "waiting"
  /\ \A f \in Earlier(e) : state[f] = "delivered"
  /\ state' = [state EXCEPT ![e] = "delivered"]

GiveUp(e) ==
  /\ state[e] = "waiting"
  /\ \A f \in Earlier(e) : state[f] = "delivered"
  /\ state' = [state EXCEPT ![e] = "dead"]

Replay(e) ==
  /\ state[e] = "dead"
  /\ state' = [state EXCEPT ![e] = "waiting"]

Next == \E e \in Events : Submit(e) \/ Deliver(e) \/ GiveUp(e) \/ Replay(e)

Spec == Init /\ [][Next]_state
=============================================================================
