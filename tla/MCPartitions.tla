----------------------------- MODULE MCPartitions -----------------------------
(* Partitions on small sets for TLC: from November 2026, so that the year ends *)
(* within the bound, with retentions short enough to expire within it.        *)
EXTENDS Partitions, TLC

CONSTANTS t1, t2

Months == t1 :> 1 @@ t2 :> 2
November == 12 * 2026 + 10
Later == November + 3

Symmetry == Permutations(Job)
=============================================================================
