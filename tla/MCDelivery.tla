----------------------------- MODULE MCDelivery -----------------------------
(***************************************************************************)
(* Delivery for TLC.  The bounds are in the configurations; the second     *)
(* span offered is the invalid one, so that its immediate ack can overtake *)
(* the publish of its neighbours.                                          *)
(***************************************************************************)
EXTENDS Delivery

MCInvalid == {2}
=============================================================================
