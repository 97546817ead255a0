-------------------------- MODULE MCDeliveryQueue --------------------------
(* Instances of the delivery queue for TLC. *)
EXTENDS DeliveryQueue, TLC

(* No endpoint has a limit. *)
NoLimits == [e \in Endpoint |-> Null]

(* Endpoint 1 takes one delivery per period, the others any number. *)
OneLimited == [e \in Endpoint |-> IF e = 1 THEN 1 ELSE Null]

(* Workers of one process are alike, and so are messages. *)
SlotSymmetry == Permutations(Slot)
Symmetry == Permutations(Message) \cup SlotSymmetry
=============================================================================
