--------------------------- MODULE MCRefreshTokens ---------------------------
(* SerialRotations on small sets for TLC. *)
EXTENDS SerialRotations, TLC

(* Tokens, families, handlers and users are interchangeable. *)
Symmetry == Permutations(Token) \cup Permutations(Family)
            \cup Permutations(Request) \cup Permutations(User)
=============================================================================
