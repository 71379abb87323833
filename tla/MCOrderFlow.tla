----------------------------- MODULE MCOrderFlow -----------------------------
(* OrderFlow on small sets for TLC. *)
EXTENDS OrderFlow, TLC

(* Rows of one kind and handlers are interchangeable. *)
Symmetry == Permutations(Quote) \cup Permutations(Sourcing)
            \cup Permutations(Order) \cup Permutations(Request)
=============================================================================
