----------------------------- MODULE MCDelivery -----------------------------
(* An instance of Delivery for TLC. *)
EXTENDS Delivery

CONSTANTS handler, empty

TwoHandlers == {handler, empty}

=============================================================================
