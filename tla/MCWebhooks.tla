----------------------------- MODULE MCWebhooks -----------------------------
(* Two deliveries of one event, and a worker on each of two processes.     *)
EXTENDS Webhooks, TLC

CONSTANTS d1, d2, w1, w2, e1, p1, p2

MCDeliveries == {d1, d2}
MCEventOf == [d \in MCDeliveries |-> e1]
MCWorkers == {w1, w2}
MCProcOf == [w \in MCWorkers |-> IF w = w1 THEN p1 ELSE p2]
=============================================================================
