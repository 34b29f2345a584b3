--------------------------- MODULE MCPasswordReset ---------------------------
(* Instances of PasswordReset for TLC.                                      *)
EXTENDS PasswordReset, TLC

Symmetry == Permutations(User) \cup Permutations(Token) \cup Permutations(Email)
            \cup Permutations(Request)
=============================================================================
