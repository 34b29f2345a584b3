----------------------------- MODULE MCDrynnCLI -----------------------------
(* Instance of DrynnCLI for TLC: two games by one login; one game, when the  *)
(* commands name servers, by one run at a time; two logins; init-config by   *)
(* itself, and with logins one run at a time.                                *)
EXTENDS DrynnCLI, TLC

Load(l, g, n, c, a) ==
    [logins |-> l, games |-> g, named |-> n, configs |-> c, alone |-> a]

MCWorkloads == {Load(1, 2, FALSE, FALSE, FALSE), Load(1, 1, TRUE, FALSE, TRUE),
                Load(2, 0, FALSE, FALSE, FALSE), Load(0, 0, FALSE, TRUE, FALSE),
                Load(1, 0, FALSE, TRUE, TRUE)}

Symmetry == Permutations(Runs) \cup Permutations(Server)
=============================================================================
