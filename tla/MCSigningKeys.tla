--------------------------- MODULE MCSigningKeys ---------------------------
(* Instances of SigningKeys for TLC. *)
EXTENDS SigningKeys

MCTTL == [t \in TokenType |-> 1]
=============================================================================
