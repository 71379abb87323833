------------------------------- MODULE MCSignIn -------------------------------
(* SignIn on small sets for TLC. *)
EXTENDS SignIn, TLC

CONSTANT e1

(* e2 is e1 in capital letters: one address to the script, two to the rest. *)
Spelling == [e \in Email |-> e1]

(* Requests, rows, links and Google accounts are interchangeable. *)
Symmetry ==
    Permutations(Request) \cup Permutations(User) \cup Permutations(Link)
        \cup Permutations(Google)
=============================================================================
