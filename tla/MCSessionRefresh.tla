--------------------------- MODULE MCSessionRefresh ---------------------------
(* QuietBrowser on small sets for TLC. *)
EXTENDS QuietBrowser, TLC

(* Bound: one refresh token has run out and one account is closed at a time. *)
FewRunOut ==
    /\ Cardinality({t \in Token : expired[t]}) <= 1
    /\ Cardinality({u \in User : status[u] # "active"}) <= 1

MCSpec == QuietInit /\ [][QuietNext /\ FewRunOut']_<<svars, disturbed>>

FairMCSpec == MCSpec /\ \A r \in Request : WF_svars(Progress(r))

(* Interchangeable values; not for a liveness run. *)
Symmetry == Permutations(Token) \cup Permutations(Family)
            \cup Permutations(Request) \cup Permutations(User)
=============================================================================
