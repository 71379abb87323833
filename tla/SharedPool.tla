------------------------------ MODULE SharedPool ------------------------------
(* EmailDelivery and Pool side by side: its tasks run in the threads, and use  *)
(* the connections, that Pool says every request shares.                       *)
EXTENDS EmailDelivery

CONSTANTS Request, Threads, Capacity, Transactions

VARIABLES early, phase, kind, left, held, tasked, sending, result, late, crowded

P == INSTANCE Pool WITH outcome <- result

pool == <<early, phase, kind, left, held, tasked, sending, result, late, crowded>>

(* config/settings.py: there are threads and connections; a handler has at     *)
(* least one transaction.                                                      *)
ASSUME PoolParameters ==
    Threads \in Nat \ {0} /\ Capacity \in Nat \ {0} /\ Transactions \in Nat \ {0}

-----------------------------------------------------------------------------
(* Connections come back, and nobody waits in vain while there are enough of   *)
(* them (Pool).                                                               *)
ConnectionsComeBack == P!ConnectionsComeBack

(* Every background task and every request ends (EmailDelivery, Pool). *)
EverythingEnds == TasksEnd /\ P!RequestsServed
=============================================================================
