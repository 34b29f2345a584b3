---------------------------- MODULE KeyLifecycle ----------------------------
(***************************************************************************)
(* What the table jwt_signing_keys promises its readers, whatever the      *)
(* interleaving of the transactions that write it: every key goes through  *)
(* unborn, active, retired, deleted in that order; a rotation installs the *)
(* new key and retires the one it replaces in one step; and the            *)
(* verification deadline of a retired key moves only when an operator      *)
(* expires that very key again.  SigningKeys implements this module.       *)
(***************************************************************************)
EXTENDS Naturals

CONSTANTS Key, TokenType, Null

VARIABLES life,      \* the stage of each key
          kind,      \* the token type of each key that has been created
          deadline   \* until when a retired key still verifies

vars == <<life, kind, deadline>>

Active(t) == {k \in Key : life[k] = "active" /\ kind[k] = t}

Init ==
    /\ life = [k \in Key |-> "unborn"]
    /\ kind = [k \in Key |-> Null]
    /\ deadline = [k \in Key |-> Null]

(* The deadlines of the keys in K, which are being retired, become times;  *)
(* those of all other keys stay what they are.                             *)
SetDeadlines(K) ==
    /\ deadline' \in [Key -> Nat \cup {Null}]
    /\ \A k \in Key : IF k \in K THEN deadline'[k] \in Nat
                                 ELSE deadline'[k] = deadline[k]

(* The new key k becomes the active key of its type; its predecessor, if   *)
(* there is one, is retired in the same step.                              *)
Install(t, k) ==
    /\ life[k] = "unborn"
    /\ life' = [j \in Key |-> IF j = k THEN "active"
                              ELSE IF j \in Active(t) THEN "retired"
                              ELSE life[j]]
    /\ kind' = [kind EXCEPT ![k] = t]
    /\ SetDeadlines(Active(t))

(* An operator retires key k, or moves the deadline of a retired key.      *)
Expire(k) ==
    /\ life[k] \in {"active", "retired"}
    /\ life' = [life EXCEPT ![k] = "retired"]
    /\ SetDeadlines({k})
    /\ UNCHANGED kind

(* Only a retired key is ever removed.                                     *)
Delete(k) ==
    /\ life[k] = "retired"
    /\ life' = [life EXCEPT ![k] = "deleted"]
    /\ UNCHANGED <<kind, deadline>>

Next ==
    \E k \in Key :
        \/ \E t \in TokenType : Install(t, k)
        \/ Expire(k)
        \/ Delete(k)

Spec == Init /\ [][Next]_vars
=============================================================================
