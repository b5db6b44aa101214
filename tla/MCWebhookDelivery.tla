-------------------------- MODULE MCWebhookDelivery --------------------------
(* An event that is delivered and delivered again, and another one. *)
EXTENDS WebhookDelivery

CONSTANTS first, again, other

MCKeyOf == [d \in Delivery |-> IF d = other THEN "k2" ELSE "k1"]
=============================================================================
