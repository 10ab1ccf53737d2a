-------------------------- MODULE MCOutputDelivery --------------------------
(* An instance of OutputDelivery for TLC. *)
EXTENDS OutputDelivery, TLC

Deliveries == Permutations(Delivery)
=============================================================================
