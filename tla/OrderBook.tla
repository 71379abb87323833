------------------------------ MODULE OrderBook ------------------------------
(***************************************************************************)
(* What order conversion promises: an order, once made, is about one       *)
(* request for ever, and no request is ever behind two orders.  OrderFlow  *)
(* implements it.                                                          *)
(***************************************************************************)
CONSTANTS Source, Order, Nil

VARIABLES
    received,   \* the requests buyers have made
    deal        \* the request behind each order, Nil while there is no order

Init == received = {} /\ deal = [o \in Order |-> Nil]

Receive(x) ==
    /\ x \in Source \ received
    /\ received' = received \cup {x}
    /\ UNCHANGED deal

Convert(x, o) ==
    /\ x \in received
    /\ deal[o] = Nil
    /\ \A p \in Order : deal[p] # x
    /\ deal' = [deal EXCEPT ![o] = x]
    /\ UNCHANGED received

Next ==
    \/ \E x \in Source : Receive(x)
    \/ \E x \in Source, o \in Order : Convert(x, o)

Spec == Init /\ [][Next]_<<received, deal>>
=============================================================================
