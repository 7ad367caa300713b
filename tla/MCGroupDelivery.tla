-------------------------- MODULE MCGroupDelivery --------------------------
(***************************************************************************)
(* GroupDelivery on small instances.                                       *)
(***************************************************************************)
EXTENDS GroupDelivery

=============================================================================
