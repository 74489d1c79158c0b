-------------------------- MODULE MCEmailDelivery --------------------------
(* The instance of EmailDelivery that TLC checks. *)
EXTENDS EmailDelivery
=============================================================================
