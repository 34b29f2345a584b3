----------------------------- MODULE TokenBucket -----------------------------
(***************************************************************************)
(* What a rate limiter keyed by client promises: each key has one bucket    *)
(* for ever, which refills with time up to Cap, and a call is allowed when  *)
(* it can pay Cost.  Amounts are counted in what flows in during one tick.  *)
(***************************************************************************)
EXTENDS Naturals

CONSTANTS Key, Cap, Cost

VARIABLES level, answer

Init ==
    /\ level = [k \in Key |-> Cap]
    /\ answer = [k \in Key |-> TRUE]

Allow(k) ==
    /\ level[k] >= Cost
    /\ level' = [level EXCEPT ![k] = @ - Cost]
    /\ answer' = [answer EXCEPT ![k] = TRUE]

Refuse(k) ==
    /\ level[k] < Cost
    /\ answer' = [answer EXCEPT ![k] = FALSE]
    /\ UNCHANGED level

Flow ==
    /\ level' = [k \in Key |-> IF level[k] < Cap THEN level[k] + 1 ELSE Cap]
    /\ UNCHANGED answer

Next == (\E k \in Key : Allow(k) \/ Refuse(k)) \/ Flow

Spec == Init /\ [][Next]_<<level, answer>>
=============================================================================
