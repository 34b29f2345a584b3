------------------------------ MODULE MCTokens ------------------------------
(* Instances of Tokens for TLC: refresh tokens live longer than access tokens. *)
EXTENDS Tokens, TLC

MCTTL == [t \in TokenType |-> IF t = "access" THEN 1 ELSE 2]
Symmetry == Permutations(Key) \cup Permutations(Operator) \cup Permutations(Handler)
=============================================================================
