------------------------------ MODULE MCRealtime ------------------------------
(* Realtime on small sets for TLC. *)
EXTENDS Realtime, TLC

CONSTANTS s1, m1

(* The row is meant for the staff, and so are both connections. *)
MCAccount == [k \in Socket |-> s1]
MCAddressee == m1 :> s1

(* Bound: the log cannot be written only once the rows have been published and  *)
(* delivered: it and the deliveries have nothing in common.                     *)
Quiet ==
    /\ \A m \in Message : pub[m] \in {"done", "lost"} /\ \A i \in Instance : m \notin heard[i]
    /\ \A t \in Task : Idle(t)

MCSpec == Init /\ [][Next /\ (lost' # lost => Quiet)]_vars /\ Fairness
=============================================================================
