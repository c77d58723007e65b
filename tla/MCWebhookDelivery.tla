------------------------ MODULE MCWebhookDelivery ------------------------
(* Instances for TLC: two deliveries of one payload, and a request.        *)
EXTENDS WebhookDelivery, TLC

CONSTANTS e1, e2, r1, p1, p2, w1, w2

\* e1 and e2 share a payload, the request has its own.
MCPayloadOf == [d \in Deliveries |-> IF d \in Requests THEN p2 ELSE p1]

MCSymmetry == Permutations(Workers)
==========================================================================
