--------------------------- MODULE MCRegistration ---------------------------
(* Instances of Registration for TLC.                                       *)
EXTENDS Registration, TLC

Symmetry == Permutations(User) \cup Permutations(Invite) \cup Permutations(Email)
            \cup Permutations(Visitor) \cup Permutations(Mailer)
=============================================================================
