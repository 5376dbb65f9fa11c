------------------------- MODULE MCWebhookRecovery ------------------------
(* Liveness: one job, two processes, crashes, failures and stalls up to    *)
(* the horizon, and a lease after it in which everything left expires.     *)
EXTENDS WebhookDispatch

MCSubscriptions == [x \in Endpoint |-> Event]
=============================================================================
