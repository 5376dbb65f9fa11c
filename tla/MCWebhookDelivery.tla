------------------------- MODULE MCWebhookDelivery ------------------------
(* One event goes through several jobs: two endpoints in waves of one,     *)
(* registered at any time, with retries, faults and restarts of two        *)
(* processes that never sleep past a lease.                                *)
EXTENDS WebhookDispatch, TLC

MCSubscriptions == [x \in Endpoint |-> Event]
MCSymmetry == Permutations(Worker) \cup Permutations(Endpoint)
=============================================================================
