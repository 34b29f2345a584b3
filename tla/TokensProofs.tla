---------------------------- MODULE TokensProofs ----------------------------
(***************************************************************************)
(* Theorems about SigningKeys, for any number of operators, servers, keys  *)
(* and any grace periods: type correctness, at most one active key per     *)
(* token type, that a server which serves has keys, and that the key       *)
(* store implements KeyLifecycle.  And about Tokens, which runs on top of  *)
(* it: where tokens come from, that a rotation with the default grace      *)
(* period outlasts every token its key has signed so far, and that a grace *)
(* period of zero revokes at once.                                         *)
(***************************************************************************)
EXTENDS Tokens, TLAPS

USE NullAssumption, TimeAssumption

(* What the next statement of a call may rely on in the call's locals.     *)
CallShape == \A p \in Proc :
    /\ pc[p] \in {"select", "lock", "insert"} => tx[p].op = "create"
    /\ pc[p] = "byid" => tx[p].op \in {"expire", "delete"}
    /\ pc[p] = "retire" => tx[p].op \in {"create", "expire"}
    /\ pc[p] = "commit" => tx[p].op # "none"
    /\ tx[p].op = "create" => tx[p].type \in TokenType
    /\ pc[p] \in {"check", "select"} => tx[p].key = Null
    /\ pc[p] \in {"lock", "byid", "retire"} => tx[p].key \in Key
    /\ pc[p] = "commit" /\ tx[p].op # "create" => tx[p].key \in Key
    /\ pc[p] = "commit" /\ tx[p].op = "create" => tx[p].new \in Key
    /\ pc[p] \in {"insert", "commit"} /\ tx[p].op # "delete" /\ tx[p].key # Null
          => tx[p].until \in Nat
    /\ tx[p].new # Null => tx[p].op = "create"
    /\ pc[p] = "lock" => /\ keyState[tx[p].key] # "unborn"
                         /\ keyType[tx[p].key] = tx[p].type

(* A row has a type once it exists, and a deadline once it is retired.     *)
RowShape == \A k \in Key :
    /\ keyState[k] # "unborn" => keyType[k] \in TokenType
    /\ keyState[k] = "retired" => verifyUntil[k] \in Nat

IInv ==
    /\ TypeOK
    /\ CallShape
    /\ RowShape
    /\ HeldRowIsCurrent
    /\ PendingInsertIsAlone
    /\ OneActivePerType

-----------------------------------------------------------------------------
(* A call that returns leaves the row locks of every other call alone.     *)
LEMMA UnlockedOthers ==
    ASSUME TypeOK, NEW p \in Proc
    PROVE  /\ Unlocked(p) \in [Key -> Proc \cup {Null}]
           /\ \A q \in Proc \ {p}, k \in Key : lock[k] = q => Unlocked(p)[k] = q
BY DEF TypeOK, Unlocked, Proc

LEMMA NoCallType == NoCall \in Call
BY DEF NoCall, Call

(* Assignments to the locals of a call keep their types.                   *)
LEMMA CallFields ==
    ASSUME NEW c \in Call
    PROVE  /\ \A k \in Key \cup {Null} : [c EXCEPT !.key = k] \in Call
           /\ \A k \in Key \cup {Null} : [c EXCEPT !.new = k] \in Call
           /\ \A d \in Nat \cup {Null} : [c EXCEPT !.until = d] \in Call
           /\ \A t \in TokenType \cup {Null} :
                 [c EXCEPT !.op = "create", !.type = t] \in Call
BY DEF Call

LEMMA ReturnShape ==
    ASSUME TypeOK, NEW p \in Proc, Return(p)
    PROVE  /\ pc' \in [Proc -> {"idle", "check", "select", "lock", "byid",
                                "retire", "insert", "commit", "ready"}]
           /\ tx' \in [Proc -> Call]
           /\ lock' \in [Key -> Proc \cup {Null}]
           /\ pc'[p] = "idle" /\ tx'[p] = NoCall
           /\ \A q \in Proc \ {p} : /\ pc'[q] = pc[q] /\ tx'[q] = tx[q]
                                    /\ \A k \in Key : lock[k] = q => lock'[k] = q
BY UnlockedOthers, NoCallType DEF TypeOK, Return

LEMMA ProceedShape ==
    ASSUME TypeOK, NEW p \in Proc, NEW t, Proceed(p, t)
    PROVE  /\ pc' \in [Proc -> {"idle", "check", "select", "lock", "byid",
                                "retire", "insert", "commit", "ready"}]
           /\ tx' \in [Proc -> Call]
           /\ lock' \in [Key -> Proc \cup {Null}]
           /\ pc'[p] \in {"idle", "check", "ready"}
           /\ tx'[p] = [NoCall EXCEPT !.todo = tx[p].todo \ {t}]
           /\ \A q \in Proc \ {p} : /\ pc'[q] = pc[q] /\ tx'[q] = tx[q]
                                    /\ \A k \in Key : lock[k] = q => lock'[k] = q
<1> DEFINE rest == tx[p].todo \ {t}
           new  == [NoCall EXCEPT !.todo = rest]
<1>1. rest \in SUBSET TokenType
  BY DEF TypeOK, Call
<1>2. new \in Call
  BY <1>1, NoCallType DEF Call, NoCall
<1>3. /\ pc' = [pc EXCEPT ![p] = IF rest # {} THEN "check"
                              ELSE IF p \in Server THEN "ready" ELSE "idle"]
      /\ tx' = [tx EXCEPT ![p] = new]
      /\ lock' = Unlocked(p)
  BY DEF Proceed
<1>4. QED
  BY <1>2, <1>3, UnlockedOthers DEF TypeOK

-----------------------------------------------------------------------------
LEMMA InitInv == Init => IInv
BY NoCallType DEF Init, IInv, TypeOK, CallShape, RowShape, HeldRowIsCurrent,
   PendingInsertIsAlone, OneActivePerType, ActiveKeys, NoCall

(* Steps that leave the rows and the locks of other calls alone, and whose *)
(* own call is not yet, or no more, writing: the parts of the invariant    *)
(* about rows and other calls carry over.                                  *)
LEMMA LocalStep ==
    ASSUME IInv, NEW p \in Proc,
           UNCHANGED rows, TypeOK',
           \A q \in Proc \ {p} : /\ pc'[q] = pc[q] /\ tx'[q] = tx[q]
                                /\ \A k \in Key : lock[k] = q => lock'[k] = q,
           tx'[p].new = Null, pc'[p] \notin {"retire", "insert", "commit"},
           /\ pc'[p] \in {"select", "lock"} => tx'[p].op = "create"
           /\ pc'[p] = "byid" => tx'[p].op \in {"expire", "delete"}
           /\ tx'[p].op = "create" => tx'[p].type \in TokenType
           /\ pc'[p] \in {"lock", "byid"} => tx'[p].key \in Key
           /\ pc'[p] \in {"check", "select"} => tx'[p].key = Null
           /\ pc'[p] = "lock" => /\ keyState[tx'[p].key] # "unborn"
                                 /\ keyType[tx'[p].key] = tx'[p].type
    PROVE  IInv'
<1>1. CallShape'
  BY DEF IInv, CallShape, rows
<1>2. RowShape' /\ OneActivePerType'
  BY DEF IInv, RowShape, OneActivePerType, rows
<1>3. HeldRowIsCurrent'
  BY DEF IInv, TypeOK, Call, HeldRowIsCurrent, ActiveKeys, RowExists, rows
<1>4. PendingInsertIsAlone'
  BY DEF IInv, PendingInsertIsAlone, ActiveKeys, rows
<1>5. QED
  BY <1>1, <1>2, <1>3, <1>4 DEF IInv

LEMMA ReturnStep ==
    ASSUME IInv, NEW p \in Proc, Return(p), UNCHANGED <<rows, clock, expired>>
    PROVE  IInv'
<1>1. TypeOK'
  BY ReturnShape DEF IInv, TypeOK, rows
<1>2. QED
  BY <1>1, ReturnShape, LocalStep DEF IInv, NoCall

LEMMA RequestInv ==
    ASSUME IInv, NEW p \in Proc,
           \/ EnsureReady(p)
           \/ Request(p)
           \/ CheckFindsNone(p)
    PROVE  IInv'
<1>1. CASE EnsureReady(p)
  <2>1. TypeOK'
    BY <1>1, NoCallType DEF EnsureReady, IInv, TypeOK, Call, NoCall, rows
  <2>2. QED
    BY <1>1, <2>1, LocalStep DEF EnsureReady, IInv, TypeOK, NoCall
<1>2. CASE CheckFindsNone(p)
  <2>1. TypeOK'
    <3>1. TypeToCheck(p) \in TokenType
      BY DEF TypeToCheck, TokenType
    <3>2. [tx[p] EXCEPT !.op = "create", !.type = TypeToCheck(p)] \in Call
      BY <3>1, CallFields DEF IInv, TypeOK
    <3>3. QED
      BY <1>2, <3>2 DEF CheckFindsNone, IInv, TypeOK, rows
  <2>2. /\ tx'[p] = [tx[p] EXCEPT !.op = "create", !.type = TypeToCheck(p)]
        /\ pc'[p] = "select"
    BY <1>2 DEF CheckFindsNone, IInv, TypeOK
  <2>3. tx[p].new = Null
    BY <1>2 DEF CheckFindsNone, IInv, PendingInsertIsAlone
  <2>4. /\ tx'[p].op = "create" /\ tx'[p].type \in TokenType
        /\ tx'[p].new = Null /\ tx'[p].key = Null
    BY <1>2, <2>2, <2>3
       DEF CheckFindsNone, TypeToCheck, IInv, TypeOK, Call, TokenType, CallShape
  <2>5. QED
    BY <1>2, <2>1, <2>2, <2>4, LocalStep DEF CheckFindsNone, IInv, TypeOK
<1>3. CASE Request(p)
  <2>1. PICK g \in Nat :
           \/ \E t \in TokenType : CreateSigningKey(p, t, g)
           \/ \E k \in Key : ExpireSigningKey(p, k, g)
           \/ \E k \in Key : DeleteSigningKey(p, k)
    BY <1>3 DEF Request
  <2>2. ASSUME NEW t \in TokenType, CreateSigningKey(p, t, g)
        PROVE  IInv'
    <3>1. TypeOK'
      BY <2>2, NoCallType DEF CreateSigningKey, IInv, TypeOK, Call, NoCall, rows
    <3>2. QED
      BY <2>2, <3>1, LocalStep DEF CreateSigningKey, IInv, TypeOK, NoCall
  <2>3. ASSUME NEW k \in Key, ExpireSigningKey(p, k, g)
        PROVE  IInv'
    <3>1. TypeOK'
      BY <2>3, NoCallType DEF ExpireSigningKey, IInv, TypeOK, Call, NoCall, rows
    <3>2. QED
      BY <2>3, <3>1, LocalStep DEF ExpireSigningKey, IInv, TypeOK, NoCall
  <2>4. ASSUME NEW k \in Key, DeleteSigningKey(p, k)
        PROVE  IInv'
    <3>1. TypeOK'
      BY <2>4, NoCallType DEF DeleteSigningKey, IInv, TypeOK, Call, NoCall, rows
    <3>2. QED
      BY <2>4, <3>1, LocalStep DEF DeleteSigningKey, IInv, TypeOK, NoCall
  <2>5. QED
    BY <2>1, <2>2, <2>3, <2>4
<1>4. QED
  BY <1>1, <1>2, <1>3

LEMMA CheckFindsKeyInv ==
    ASSUME IInv, NEW p \in Proc, CheckFindsKey(p)
    PROVE  IInv'
<1>1. TypeOK'
  BY ProceedShape DEF CheckFindsKey, IInv, TypeOK, rows
<1>2. /\ pc'[p] \in {"idle", "check", "ready"}
      /\ tx'[p].op = "none" /\ tx'[p].new = Null /\ tx'[p].key = Null
  <2>1. /\ pc'[p] \in {"idle", "check", "ready"}
        /\ tx'[p] = [NoCall EXCEPT !.todo = tx[p].todo \ {TypeToCheck(p)}]
    BY ProceedShape DEF CheckFindsKey, IInv
  <2>2. QED
    BY <2>1 DEF NoCall
<1>3. /\ UNCHANGED rows
      /\ \A q \in Proc \ {p} : /\ pc'[q] = pc[q] /\ tx'[q] = tx[q]
                               /\ \A k \in Key : lock[k] = q => lock'[k] = q
  BY ProceedShape DEF CheckFindsKey, IInv
<1>4. QED
  BY <1>1, <1>2, <1>3, LocalStep

LEMMA SelectActiveInv ==
    ASSUME IInv, NEW p \in Proc, SelectActive(p)
    PROVE  IInv'
<1>1. tx[p].op = "create" /\ tx[p].new = Null /\ tx[p].type \in TokenType
  BY DEF SelectActive, IInv, CallShape, PendingInsertIsAlone
<1>2. CASE pc'[p] = "lock"
  <2>1. PICK k \in ActiveKeys(tx[p].type) :
           /\ pc' = [pc EXCEPT ![p] = "lock"]
           /\ tx' = [tx EXCEPT ![p].key = k]
    BY <1>2 DEF SelectActive, IInv, TypeOK
  <2>2. TypeOK'
    BY <2>1, SMTT(30) DEF SelectActive, IInv, TypeOK, Call, rows, ActiveKeys
  <2>3. tx'[p] = [tx[p] EXCEPT !.key = k]
    BY <2>1 DEF IInv, TypeOK
  <2>4. /\ tx'[p].op = "create" /\ tx'[p].new = Null /\ tx'[p].key = k
        /\ tx'[p].type = tx[p].type
        /\ k \in Key /\ keyState[k] = "active" /\ keyType[k] = tx[p].type
    BY <1>1, <2>3 DEF ActiveKeys, IInv, TypeOK, Call
  <2>5. QED
    BY <1>1, <1>2, <2>1, <2>2, <2>4, LocalStep DEF SelectActive, IInv, TypeOK
<1>3. CASE pc'[p] # "lock"
  <2>1. /\ ActiveKeys(tx[p].type) = {}
        /\ pc' = [pc EXCEPT ![p] = "insert"]
        /\ UNCHANGED tx
    BY <1>3 DEF SelectActive, IInv, TypeOK
  <2>2. tx[p].key = Null /\ TypeOK'
    BY <2>1 DEF SelectActive, IInv, TypeOK, CallShape, rows
  <2>3. CallShape'
    BY <1>1, <2>1, <2>2 DEF SelectActive, IInv, TypeOK, CallShape, rows
  <2>4. HeldRowIsCurrent'
    BY <2>1, <2>2
       DEF SelectActive, IInv, TypeOK, HeldRowIsCurrent, ActiveKeys, RowExists, rows
  <2>5. PendingInsertIsAlone'
    BY <1>1, <2>1
       DEF SelectActive, IInv, TypeOK, PendingInsertIsAlone, ActiveKeys, rows
  <2>6. RowShape' /\ OneActivePerType'
    BY DEF SelectActive, IInv, RowShape, OneActivePerType, rows
  <2>7. QED
    BY <2>2, <2>3, <2>4, <2>5, <2>6 DEF IInv
<1>4. QED
  BY <1>2, <1>3

LEMMA LockActiveInv ==
    ASSUME IInv, NEW p \in Proc, LockActive(p)
    PROVE  IInv'
<1> USE DEF LockActive
<1>1. /\ tx[p].op = "create" /\ tx[p].new = Null
      /\ tx[p].type \in TokenType /\ tx[p].key \in Key
      /\ keyType[tx[p].key] = tx[p].type
  BY DEF IInv, CallShape, PendingInsertIsAlone
<1>2. TypeOK'
  <2>1. [tx[p] EXCEPT !.key = Null] \in Call
    BY CallFields DEF IInv, TypeOK
  <2>2. QED
    BY <1>1, <2>1 DEF IInv, TypeOK, rows
<1>3. /\ tx'[p] \in {tx[p], [tx[p] EXCEPT !.key = Null]}
      /\ pc'[p] \in {"retire", "insert"}
      /\ pc'[p] = "retire" => tx'[p] = tx[p] /\ lock'[tx[p].key] = p
                              /\ keyState[tx[p].key] = "active"
      /\ pc'[p] = "insert" => tx'[p].key = Null
      /\ \A q \in Proc \ {p} : /\ pc'[q] = pc[q] /\ tx'[q] = tx[q]
                               /\ \A k \in Key : lock[k] = q => lock'[k] = q
  BY <1>1 DEF IInv, TypeOK, Call
<1>4. CallShape'
  BY <1>1, <1>3 DEF IInv, TypeOK, Call, CallShape, rows
<1>5. HeldRowIsCurrent'
  BY <1>1, <1>3 DEF IInv, TypeOK, Call, HeldRowIsCurrent, ActiveKeys, RowExists, rows
<1>6. PendingInsertIsAlone'
  BY <1>1, <1>3 DEF IInv, TypeOK, Call, PendingInsertIsAlone, ActiveKeys, rows
<1>7. RowShape' /\ OneActivePerType'
  BY DEF IInv, RowShape, OneActivePerType, rows
<1>8. QED
  BY <1>2, <1>4, <1>5, <1>6, <1>7 DEF IInv

LEMMA LockByIDInv ==
    ASSUME IInv, NEW p \in Proc, LockByID(p)
    PROVE  IInv'
<1> USE DEF LockByID
<1>1. /\ tx[p].op \in {"expire", "delete"} /\ tx[p].new = Null
      /\ tx[p].key \in Key
  BY DEF IInv, CallShape, PendingInsertIsAlone
<1>2. TypeOK'
  BY <1>1 DEF IInv, TypeOK, rows
<1>3. /\ pc'[p] = (IF tx[p].op = "expire" THEN "retire" ELSE "commit")
      /\ lock'[tx[p].key] = p
      /\ \A q \in Proc \ {p} : /\ pc'[q] = pc[q]
                               /\ \A k \in Key : lock[k] = q => lock'[k] = q
  BY <1>1 DEF IInv, TypeOK
<1>4. CallShape'
  BY <1>1, <1>3 DEF IInv, CallShape, rows
<1>5. HeldRowIsCurrent'
  BY <1>1, <1>3 DEF IInv, HeldRowIsCurrent, ActiveKeys, RowExists, rows
<1>6. PendingInsertIsAlone'
  BY <1>1, <1>3 DEF IInv, PendingInsertIsAlone, ActiveKeys, rows
<1>7. RowShape' /\ OneActivePerType'
  BY DEF IInv, RowShape, OneActivePerType, rows
<1>8. QED
  BY <1>2, <1>4, <1>5, <1>6, <1>7 DEF IInv

LEMMA RetireInv ==
    ASSUME IInv, NEW p \in Proc, RetireSigningKey(p)
    PROVE  IInv'
<1> USE DEF RetireSigningKey
<1>1. /\ tx[p].op \in {"create", "expire"} /\ tx[p].new = Null
      /\ tx[p].key \in Key
  BY DEF IInv, CallShape, PendingInsertIsAlone
<1>2. tx'[p] = [tx[p] EXCEPT !.until = clock + tx[p].grace]
  BY DEF IInv, TypeOK
<1>3. TypeOK'
  BY <1>1, SMTT(30) DEF IInv, TypeOK, Call, rows
<1>4. /\ pc'[p] = (IF tx[p].op = "create" THEN "insert" ELSE "commit")
      /\ \A q \in Proc \ {p} : pc'[q] = pc[q] /\ tx'[q] = tx[q]
  BY DEF IInv, TypeOK
<1>5. tx'[p].until \in Nat
  BY <1>2 DEF IInv, TypeOK, Call
<1>6. CallShape'
  BY <1>1, <1>2, <1>4, <1>5 DEF IInv, TypeOK, Call, CallShape, rows
<1>7. HeldRowIsCurrent'
  BY <1>1, <1>2, <1>4 DEF IInv, TypeOK, Call, HeldRowIsCurrent, ActiveKeys, RowExists, rows
<1>8. PendingInsertIsAlone'
  BY <1>1, <1>2, <1>4 DEF IInv, TypeOK, Call, PendingInsertIsAlone, ActiveKeys, rows
<1>9. RowShape' /\ OneActivePerType'
  BY DEF IInv, RowShape, OneActivePerType, rows
<1>10. QED
  BY <1>3, <1>6, <1>7, <1>8, <1>9 DEF IInv

LEMMA InsertInv ==
    ASSUME IInv, NEW p \in Proc, InsertKey(p)
    PROVE  IInv'
<1> USE DEF InsertKey
<1>1. PICK n \in FreshKeys : tx' = [tx EXCEPT ![p].new = n]
  OBVIOUS
<1>2. /\ n \in Key /\ keyState[n] = "unborn"
      /\ \A q \in Proc : tx[q].new # n
  BY DEF FreshKeys
<1>3. tx[p].op = "create" /\ tx[p].type \in TokenType
  BY DEF IInv, CallShape
<1>4. tx'[p] = [tx[p] EXCEPT !.new = n] /\ pc'[p] = "commit"
  BY <1>1 DEF IInv, TypeOK
<1>5. \A q \in Proc \ {p} : pc'[q] = pc[q] /\ tx'[q] = tx[q]
  BY <1>1 DEF IInv, TypeOK
<1>6. TypeOK'
  BY <1>1, <1>2, SMTT(30) DEF IInv, TypeOK, Call, rows
<1>7. CallShape'
  BY <1>2, <1>3, <1>4, <1>5 DEF IInv, TypeOK, Call, CallShape, rows
<1>8. HeldRowIsCurrent'
  BY <1>3, <1>4, <1>5 DEF IInv, TypeOK, Call, HeldRowIsCurrent, ActiveKeys, RowExists, rows
<1>9. PendingInsertIsAlone'
  <2>1. \A q \in Proc \ {p} : tx[q].new # Null => tx[q].type # tx[p].type
    BY DEF IndexBusy
  <2>2. ActiveKeys(tx[p].type) \subseteq {tx[p].key}
    BY DEF IndexTaken
  <2>3. /\ tx'[p].type = tx[p].type /\ tx'[p].key = tx[p].key /\ tx'[p].new = n
        /\ \A t : ActiveKeys(t)' = ActiveKeys(t)
        /\ keyState' = keyState
    BY <1>4 DEF ActiveKeys, rows, IInv, TypeOK, Call
  <2>4. ASSUME NEW q \in Proc, tx'[q].new # Null
        PROVE  /\ pc'[q] = "commit"
               /\ keyState[tx'[q].new] = "unborn"
               /\ ActiveKeys(tx'[q].type) \subseteq {tx'[q].key}
               /\ \A r \in Proc \ {q} : tx'[r].new # Null =>
                      tx'[r].type # tx'[q].type /\ tx'[r].new # tx'[q].new
    <3>1. CASE q = p
      BY <1>2, <1>4, <1>5, <2>1, <2>2, <2>3, <3>1
    <3>2. CASE q # p
      <4>1. /\ tx[q].new # Null /\ tx'[q] = tx[q] /\ pc'[q] = pc[q]
        BY <1>5, <2>4, <3>2
      <4>2. tx'[p].type # tx[q].type /\ tx'[p].new # tx[q].new
        BY <1>2, <2>1, <2>3, <3>2, <4>1
      <4>3. QED
        <5>1. /\ pc[q] = "commit" /\ keyState[tx[q].new] = "unborn"
              /\ ActiveKeys(tx[q].type) \subseteq {tx[q].key}
              /\ \A r \in Proc \ {q} : tx[r].new # Null =>
                    tx[r].type # tx[q].type /\ tx[r].new # tx[q].new
          BY <4>1 DEF IInv, PendingInsertIsAlone
        <5>2. ActiveKeys(tx'[q].type) = ActiveKeys(tx[q].type)
          BY <4>1
        <5>3. QED
          BY <1>5, <3>2, <4>1, <4>2, <5>1, <5>2
    <3>3. QED
      BY <3>1, <3>2
  <2>5. QED
    BY <2>3, <2>4, Zenon DEF PendingInsertIsAlone
<1>10. RowShape' /\ OneActivePerType'
  BY DEF IInv, RowShape, OneActivePerType, rows
<1>11. QED
  BY <1>6, <1>7, <1>8, <1>9, <1>10 DEF IInv

LEMMA CommitCreateInv ==
    ASSUME IInv, NEW p \in Proc, CommitCreate(p)
    PROVE  IInv'
<1> USE DEF CommitCreate
<1> DEFINE n == tx[p].new
           o == tx[p].key
           t == tx[p].type
<1>1. /\ n \in Key /\ keyState[n] = "unborn" /\ t \in TokenType
      /\ ActiveKeys(t) \subseteq {o}
      /\ o # Null => o \in ActiveKeys(t) /\ lock[o] = p /\ tx[p].until \in Nat
      /\ o \in Key \cup {Null}
  <2>1. n \in Key /\ n # Null /\ t \in TokenType /\ o \in Key \cup {Null}
    BY DEF IInv, TypeOK, Call, CallShape
  <2>2. keyState[n] = "unborn" /\ ActiveKeys(t) \subseteq {o}
    BY <2>1 DEF IInv, PendingInsertIsAlone
  <2>3. o # Null => o \in ActiveKeys(t) /\ lock[o] = p /\ tx[p].until \in Nat
    BY DEF IInv, CallShape, HeldRowIsCurrent
  <2>4. QED
    BY <2>1, <2>2, <2>3
<1>2. o # n
  BY <1>1 DEF ActiveKeys
<1>3. /\ \A k \in Key : keyState'[k] = IF k = n THEN "active"
                                     ELSE IF k = o THEN "retired" ELSE keyState[k]
      /\ \A k \in Key : keyType'[k] = IF k = n THEN t ELSE keyType[k]
  BY <1>1 DEF IInv, TypeOK
<1>4. /\ pc'[p] \in {"idle", "check", "ready"}
      /\ tx'[p] = [NoCall EXCEPT !.todo = tx[p].todo \ {t}]
      /\ \A q \in Proc \ {p} : /\ pc'[q] = pc[q] /\ tx'[q] = tx[q]
                               /\ \A k \in Key : lock[k] = q => lock'[k] = q
  BY ProceedShape DEF IInv
<1>5. /\ tx'[p].op = "none" /\ tx'[p].key = Null /\ tx'[p].new = Null
  BY <1>4 DEF NoCall
<1>6. TypeOK'
  <2>1. keyState' \in [Key -> {"unborn", "active", "retired", "deleted"}]
    BY DEF IInv, TypeOK
  <2>2. keyType' \in [Key -> TokenType \cup {Null}]
    BY <1>1 DEF IInv, TypeOK
  <2>3. verifyUntil' \in [Key -> Nat \cup {Null}]
    BY <1>1 DEF IInv, TypeOK
  <2>4. QED
    BY <2>1, <2>2, <2>3, ProceedShape DEF IInv, TypeOK
<1>7. ASSUME NEW q \in Proc \ {p}
      PROVE  /\ tx[q].new # n
             /\ tx[q].new # Null => tx[q].type # t /\ tx[q].new # o
  BY <1>1 DEF IInv, PendingInsertIsAlone, ActiveKeys
<1>8. ASSUME NEW q \in Proc \ {p},
             pc[q] \in {"retire", "insert", "commit"}, tx[q].key # Null
      PROVE  tx[q].key # o /\ tx[q].key # n
  BY <1>1, <1>8, NullAssumption
     DEF IInv, HeldRowIsCurrent, CallShape, ActiveKeys, RowExists, TypeOK, Call, Proc
<1>9. CallShape'
  <2>1. ASSUME NEW q \in Proc \ {p}, pc[q] = "lock"
        PROVE  /\ keyState'[tx[q].key] # "unborn"
               /\ keyType'[tx[q].key] = tx[q].type
    BY <1>1, <1>3, <2>1 DEF IInv, CallShape
  <2>2. QED
    BY <1>4, <1>5, <2>1 DEF IInv, CallShape, NoCall
<1>10. RowShape'
  <2>1. \A k \in Key : verifyUntil'[k] = IF k = o THEN tx[p].until ELSE verifyUntil[k]
    OBVIOUS
  <2>2. QED
    BY <1>1, <1>2, <1>3, <2>1, NullAssumption DEF IInv, RowShape, ActiveKeys
<1>11. HeldRowIsCurrent'
  BY <1>3, <1>4, <1>5, <1>8
     DEF IInv, HeldRowIsCurrent, ActiveKeys, RowExists, TypeOK, Call
<1>12. PendingInsertIsAlone'
  <2>1. ASSUME NEW q \in Proc \ {p}, tx[q].new # Null
        PROVE  /\ keyState'[tx[q].new] = "unborn"
               /\ ActiveKeys(tx[q].type)' \subseteq {tx[q].key}
    BY <1>1, <1>3, <1>4, <1>7, <2>1
       DEF IInv, PendingInsertIsAlone, ActiveKeys, TypeOK, Call
  <2>2. ASSUME NEW q \in Proc, tx'[q].new # Null
        PROVE  /\ pc'[q] = "commit"
               /\ keyState'[tx'[q].new] = "unborn"
               /\ ActiveKeys(tx[q].type)' \subseteq {tx'[q].key}
               /\ \A r \in Proc \ {q} : tx'[r].new # Null =>
                      tx'[r].type # tx'[q].type /\ tx'[r].new # tx'[q].new
    <3>1. q # p
      BY <1>5, <2>2
    <3>2. /\ pc'[q] = pc[q] /\ tx'[q] = tx[q]
          /\ \A r \in Proc : tx'[r].new # Null => tx'[r] = tx[r]
      BY <1>4, <1>5, <3>1
    <3>3. /\ pc[q] = "commit"
          /\ \A r \in Proc \ {q} : tx[r].new # Null =>
                tx[r].type # tx[q].type /\ tx[r].new # tx[q].new
      BY <2>2, <3>2 DEF IInv, PendingInsertIsAlone
    <3>4. keyState'[tx[q].new] = "unborn" /\ ActiveKeys(tx[q].type)' \subseteq {tx[q].key}
      BY <2>1, <2>2, <3>1, <3>2
    <3>5. QED
      BY <3>2, <3>3, <3>4
  <2>3. QED
    BY <2>2, Zenon DEF PendingInsertIsAlone
<1>13. OneActivePerType'
  <2>1. \A k \in Key : keyState'[k] = "active" /\ keyType'[k] = t => k = n
    BY <1>1, <1>2, <1>3 DEF ActiveKeys
  <2>2. \A k \in Key : keyState'[k] = "active" /\ keyType'[k] # t
           => keyState[k] = "active" /\ keyType[k] = keyType'[k]
    BY <1>1, <1>3
  <2>3. QED
    BY <2>1, <2>2 DEF IInv, OneActivePerType
<1>14. QED
  BY <1>6, <1>9, <1>10, <1>11, <1>12, <1>13 DEF IInv

LEMMA CommitExpireInv ==
    ASSUME IInv, NEW p \in Proc, CommitExpire(p)
    PROVE  IInv'
<1> USE DEF CommitExpire
<1> DEFINE o == tx[p].key
<1>1. /\ o \in Key /\ keyState[o] \in {"active", "retired"} /\ lock[o] = p
      /\ tx[p].until \in Nat
  BY NullAssumption DEF IInv, CallShape, HeldRowIsCurrent, RowExists
<1>2. /\ \A k \in Key : keyState'[k] = IF k = o THEN "retired" ELSE keyState[k]
      /\ UNCHANGED keyType
  BY <1>1 DEF IInv, TypeOK
<1>3. /\ pc'[p] = "idle" /\ tx'[p] = NoCall
      /\ \A q \in Proc \ {p} : /\ pc'[q] = pc[q] /\ tx'[q] = tx[q]
                               /\ \A k \in Key : lock[k] = q => lock'[k] = q
  BY ReturnShape DEF IInv
<1>4. tx'[p].op = "none" /\ tx'[p].key = Null /\ tx'[p].new = Null
  BY <1>3 DEF NoCall
<1>5. TypeOK'
  BY <1>1, ReturnShape DEF IInv, TypeOK
<1>6. ASSUME NEW q \in Proc \ {p},
             pc[q] \in {"retire", "insert", "commit"}, tx[q].key # Null
      PROVE  tx[q].key # o
  BY <1>1, <1>6, NullAssumption DEF IInv, HeldRowIsCurrent
<1>7. CallShape'
  BY <1>2, <1>3, <1>4 DEF IInv, CallShape
<1>8. RowShape' /\ OneActivePerType'
  <2>1. verifyUntil' = [verifyUntil EXCEPT ![o] = tx[p].until]
    OBVIOUS
  <2>2. QED
    BY <1>1, <1>2, <2>1 DEF IInv, TypeOK, RowShape, OneActivePerType
<1>9. HeldRowIsCurrent'
  BY <1>2, <1>3, <1>4, <1>6
     DEF IInv, HeldRowIsCurrent, ActiveKeys, RowExists, TypeOK, Call
<1>10. PendingInsertIsAlone'
  <2>1. \A u : ActiveKeys(u)' \subseteq ActiveKeys(u)
    BY <1>2 DEF ActiveKeys
  <2>2. ASSUME NEW q \in Proc \ {p}, tx[q].new # Null
        PROVE  keyState'[tx[q].new] = "unborn"
    BY <1>1, <1>2, <2>2, NullAssumption DEF IInv, PendingInsertIsAlone, TypeOK, Call
  <2>3. QED
    BY <1>3, <1>4, <2>1, <2>2 DEF IInv, PendingInsertIsAlone
<1>11. QED
  BY <1>5, <1>7, <1>8, <1>9, <1>10 DEF IInv

LEMMA CommitDeleteInv ==
    ASSUME IInv, NEW p \in Proc, CommitDelete(p)
    PROVE  IInv'
<1> USE DEF CommitDelete
<1> DEFINE o == tx[p].key
<1>1. o \in Key /\ keyState[o] = "retired" /\ lock[o] = p
  BY NullAssumption DEF IInv, CallShape, HeldRowIsCurrent
<1>2. /\ \A k \in Key : keyState'[k] = IF k = o THEN "deleted" ELSE keyState[k]
      /\ UNCHANGED keyType
  BY <1>1 DEF IInv, TypeOK
<1>3. /\ pc'[p] = "idle" /\ tx'[p] = NoCall
      /\ \A q \in Proc \ {p} : /\ pc'[q] = pc[q] /\ tx'[q] = tx[q]
                               /\ \A k \in Key : lock[k] = q => lock'[k] = q
  BY ReturnShape DEF IInv
<1>4. tx'[p].op = "none" /\ tx'[p].key = Null /\ tx'[p].new = Null
  BY <1>3 DEF NoCall
<1>5. TypeOK'
  BY <1>1, ReturnShape DEF IInv, TypeOK
<1>6. ASSUME NEW q \in Proc \ {p},
             pc[q] \in {"retire", "insert", "commit"}, tx[q].key # Null
      PROVE  tx[q].key # o
  BY <1>1, <1>6, NullAssumption DEF IInv, HeldRowIsCurrent
<1>7. CallShape'
  BY <1>2, <1>3, <1>4 DEF IInv, CallShape
<1>8. RowShape' /\ OneActivePerType'
  BY <1>1, <1>2 DEF IInv, RowShape, OneActivePerType
<1>9. HeldRowIsCurrent'
  BY <1>2, <1>3, <1>4, <1>6
     DEF IInv, HeldRowIsCurrent, ActiveKeys, RowExists, TypeOK, Call
<1>10. PendingInsertIsAlone'
  <2>1. \A u : ActiveKeys(u)' \subseteq ActiveKeys(u)
    BY <1>2 DEF ActiveKeys
  <2>2. ASSUME NEW q \in Proc \ {p}, tx[q].new # Null
        PROVE  keyState'[tx[q].new] = "unborn"
    BY <1>1, <1>2, <2>2, NullAssumption DEF IInv, PendingInsertIsAlone, TypeOK, Call
  <2>3. QED
    BY <1>3, <1>4, <2>1, <2>2 DEF IInv, PendingInsertIsAlone
<1>11. QED
  BY <1>5, <1>7, <1>8, <1>9, <1>10 DEF IInv

LEMMA TickInv == IInv /\ Tick => IInv'
BY DEF Tick, IInv, TypeOK, CallShape, RowShape, HeldRowIsCurrent, RowExists,
   PendingInsertIsAlone, OneActivePerType, ActiveKeys, rows

LEMMA StepInv ==
    ASSUME IInv, NEW p \in Proc, Step(p) \/ Abort(p)
    PROVE  IInv'
BY RequestInv, CheckFindsKeyInv, SelectActiveInv, LockActiveInv, LockByIDInv,
   RetireInv, InsertInv, CommitCreateInv, CommitExpireInv, CommitDeleteInv, ReturnStep
   DEF Step, RefuseByID, InsertFails, Abort

LEMMA NextInv == IInv /\ [Next]_vars => IInv'
<1>1. ASSUME IInv, Next
      PROVE  IInv'
  <2>1. CASE \E s \in Server : EnsureReady(s)
    BY <1>1, <2>1, RequestInv DEF Proc
  <2>2. CASE \E o \in Operator : Request(o)
    BY <1>1, <2>2, RequestInv DEF Proc
  <2>3. CASE \E p \in Proc : Step(p) \/ Abort(p)
    BY <1>1, <2>3, StepInv
  <2>4. CASE Tick
    BY <1>1, <2>4, TickInv
  <2>5. QED
    BY <1>1, <2>1, <2>2, <2>3, <2>4 DEF Next
<1>2. IInv /\ UNCHANGED vars => IInv'
  BY DEF vars, rows, IInv, TypeOK, CallShape, RowShape, HeldRowIsCurrent, RowExists,
     PendingInsertIsAlone, OneActivePerType, ActiveKeys
<1>3. QED
  BY <1>1, <1>2

-----------------------------------------------------------------------------
(* The inductive invariant: IInv holds in every reachable state.           *)
THEOREM Invariance == Spec => []IInv
BY InitInv, NextInv, PTL DEF Spec

(* Every variable of the key store keeps its type.                         *)
THEOREM TypeCorrect == Spec => []TypeOK
<1>1. IInv => TypeOK
  BY DEF IInv
<1>2. QED
  BY <1>1, Invariance, PTL

(* However many operators and starting servers run CreateSigningKey and    *)
(* ExpireSigningKey at the same time, a token type never has two active    *)
(* signing keys.                                                           *)
THEOREM AtMostOneActiveKey == Spec => []OneActivePerType
<1>1. IInv => OneActivePerType
  BY DEF IInv
<1>2. QED
  BY <1>1, Invariance, PTL

(* The row that a CreateSigningKey, ExpireSigningKey or DeleteSigningKey   *)
(* transaction is about to write is locked by it and still in the state in *)
(* which it was read.                                                      *)
THEOREM HeldRowsAreCurrent == Spec => []HeldRowIsCurrent
<1>1. IInv => HeldRowIsCurrent
  BY DEF IInv
<1>2. QED
  BY <1>1, Invariance, PTL

(* The calls of a server only create keys: expire and delete are for       *)
(* operators.                                                              *)
OperatorsExpire == \A s \in Server : tx[s].op \in {"none", "create"}

LEMMA ServersNeverExpire == Spec => []OperatorsExpire
<1>1. Init => OperatorsExpire
  BY DEF Init, OperatorsExpire, NoCall, Proc
<1>2. ASSUME IInv, OperatorsExpire, [Next]_vars
      PROVE  OperatorsExpire'
  <2> SUFFICES ASSUME NEW s \in Server
               PROVE  tx'[s].op \in {"none", "create"}
    BY DEF OperatorsExpire
  <2>1. s \in Proc /\ s \notin Operator /\ tx[s].op \in {"none", "create"}
    BY <1>2, ProcAssumption DEF OperatorsExpire, Proc
  <2>2. tx \in [Proc -> Call]
    BY <1>2 DEF IInv, TypeOK
  <2>3. ASSUME NEW p \in Proc, Return(p) \/ Proceed(p, TypeToCheck(p)) \/ Proceed(p, tx[p].type)
        PROVE  tx'[s].op \in {"none", "create"}
    BY <2>1, <2>2, <2>3 DEF Return, Proceed, NoCall
  <2>4. CASE \E o \in Operator : Request(o)
    BY <2>1, <2>2, <2>4 DEF Request, CreateSigningKey, ExpireSigningKey, DeleteSigningKey, Proc
  <2>5. CASE \E q \in Server : EnsureReady(q)
    BY <2>1, <2>2, <2>5 DEF EnsureReady, NoCall, Proc
  <2>6. CASE \E p \in Proc : Step(p)
    <3>1. PICK p \in Proc : Step(p)
      BY <2>6
    <3>2. CASE CheckFindsKey(p) \/ RefuseByID(p) \/ InsertFails(p)
               \/ CommitCreate(p) \/ CommitExpire(p) \/ CommitDelete(p)
      BY <2>3, <3>2 DEF CheckFindsKey, RefuseByID, InsertFails,
         CommitCreate, CommitExpire, CommitDelete
    <3>3. CASE CheckFindsNone(p)
      BY <2>1, <2>2, <3>3 DEF CheckFindsNone
    <3>4. CASE SelectActive(p) \/ LockActive(p) \/ LockByID(p)
               \/ RetireSigningKey(p) \/ InsertKey(p)
      <4>1. tx[s] \in Call /\ tx[p] \in Call
        BY <2>1, <2>2, <3>1
      <4>2. CASE SelectActive(p)
        BY <2>1, <2>2, <4>1, <4>2 DEF SelectActive, Call
      <4>3. CASE LockActive(p)
        BY <2>1, <2>2, <4>1, <4>3 DEF LockActive, Call
      <4>4. CASE LockByID(p)
        BY <2>1, <4>4 DEF LockByID
      <4>5. CASE RetireSigningKey(p)
        BY <2>1, <2>2, <4>1, <4>5 DEF RetireSigningKey, Call
      <4>6. CASE InsertKey(p)
        BY <2>1, <2>2, <4>1, <4>6 DEF InsertKey, Call
      <4>7. QED
        BY <3>4, <4>2, <4>3, <4>4, <4>5, <4>6
    <3>5. QED
      BY <3>1, <3>2, <3>3, <3>4 DEF Step
  <2>7. CASE \E p \in Proc : Abort(p)
    BY <2>3, <2>7 DEF Abort
  <2>8. CASE Tick \/ UNCHANGED vars
    BY <2>1, <2>8 DEF Tick, vars
  <2>9. QED
    BY <1>2, <2>4, <2>5, <2>6, <2>7, <2>8 DEF Next
<1>3. QED
  BY <1>1, <1>2, Invariance, PTL DEF Spec

(* A key that no longer verifies is given a new grace period by an         *)
(* operator's expire command only; a rotation that read the key as active  *)
(* before it was retired does not touch it.                                *)
THEOREM LapsedKeysStayLapsed == Spec => LapsedStaysLapsed
<1> DEFINE Stays == \A k \in Key : Lapsed(k) /\ ~Lapsed(k)' =>
              \/ keyState'[k] = "deleted"
              \/ \E p \in Proc : CommitExpire(p) /\ tx[p].key = k
<1>1. ASSUME IInv, Next
      PROVE  Stays
  <2> SUFFICES ASSUME NEW k \in Key, keyState[k] = "retired", clock >= verifyUntil[k],
                      ~Lapsed(k)', keyState'[k] # "deleted"
               PROVE  \E p \in Proc : CommitExpire(p) /\ tx[p].key = k
    BY DEF Lapsed
  <2>1. CASE \E p \in Proc : CommitCreate(p)
    <3>1. PICK p \in Proc : CommitCreate(p)
      BY <2>1
    <3>2. tx[p].key # k /\ tx[p].new # k
      BY <1>1, <3>1, NullAssumption DEF CommitCreate, IInv, CallShape,
         HeldRowIsCurrent, PendingInsertIsAlone, ActiveKeys
    <3>3. keyState'[k] = keyState[k] /\ verifyUntil'[k] = verifyUntil[k] /\ clock' = clock
      BY <3>1, <3>2 DEF CommitCreate
    <3>4. QED
      BY <3>3 DEF Lapsed
  <2>2. CASE \E p \in Proc : CommitExpire(p) \/ CommitDelete(p)
    <3>1. PICK p \in Proc : CommitExpire(p) \/ CommitDelete(p)
      BY <2>2
    <3>2. CASE tx[p].key = k
      BY <1>1, <3>1, <3>2 DEF CommitExpire, CommitDelete, IInv, TypeOK
    <3>3. CASE tx[p].key # k
      <4>1. keyState'[k] = keyState[k] /\ verifyUntil'[k] = verifyUntil[k] /\ clock' = clock
        BY <1>1, <3>1, <3>3 DEF CommitExpire, CommitDelete, IInv, TypeOK
      <4>2. QED
        BY <4>1 DEF Lapsed
    <3>4. QED
      BY <3>2, <3>3
  <2>3. CASE Tick
    <3>1. clock \in Nat /\ clock' = clock + 1 /\ UNCHANGED rows
      BY <1>1, <2>3 DEF Tick, IInv, TypeOK
    <3>2. verifyUntil[k] \in Nat
      BY <1>1 DEF IInv, RowShape
    <3>3. QED
      BY <3>1, <3>2 DEF Lapsed, rows
  <2>4. CASE UNCHANGED <<rows, clock>>
    BY <2>4 DEF Lapsed, rows
  <2>5. QED
    BY <1>1, <2>1, <2>2, <2>3, <2>4
       DEF Next, Request, CreateSigningKey, ExpireSigningKey, DeleteSigningKey,
           EnsureReady, Step, CheckFindsKey, CheckFindsNone, SelectActive, LockActive,
           LockByID, RefuseByID, RetireSigningKey, InsertKey, InsertFails, Abort
<1>2. IInv /\ [Next]_vars => [Stays]_vars
  BY <1>1
<1>3. QED
  BY <1>2, Invariance, PTL DEF Spec, LapsedStaysLapsed

(* The commit of a new key leaves its type with an active key.             *)
LEMMA NewKeyIsActive ==
    ASSUME IInv, NEW p \in Proc, CommitCreate(p), NEW t, t = tx[p].type
    PROVE  t \in TokenType /\ ActiveKeys(t)' # {}
<1>1. tx[p].new \in Key /\ tx[p].type \in TokenType
  BY DEF CommitCreate, IInv, CallShape
<1>2. keyState'[tx[p].new] = "active" /\ keyType'[tx[p].new] = tx[p].type
  BY <1>1 DEF CommitCreate, IInv, TypeOK
<1>3. QED
  BY <1>1, <1>2 DEF ActiveKeys

(* Which step can leave a type without an active key.                      *)
LEMMA GapStep ==
    ASSUME IInv, OperatorsExpire, Next, NEW t \in TokenType,
           ActiveKeys(t) # {}, ActiveKeys(t)' = {}
    PROVE  \E o \in Operator : CommitExpire(o) /\ tx[o].key \in ActiveKeys(t)
<1> PICK k \in ActiveKeys(t) : TRUE
  OBVIOUS
<1>0. k \in Key /\ keyState[k] = "active" /\ keyType[k] = t
  BY DEF ActiveKeys
<1>1. CASE \E p \in Proc : CommitCreate(p)
  <2>1. PICK p \in Proc : CommitCreate(p)
    BY <1>1
  <2>2. tx[p].new \in Key /\ tx[p].type \in TokenType /\ keyState[tx[p].new] = "unborn"
    BY <2>1, NullAssumption DEF CommitCreate, IInv, CallShape, PendingInsertIsAlone
  <2>3. keyState'[tx[p].new] = "active" /\ keyType'[tx[p].new] = tx[p].type
    BY <2>1, <2>2 DEF CommitCreate, IInv, TypeOK
  <2>4. CASE t = tx[p].type
    BY <2>2, <2>3, <2>4 DEF ActiveKeys
  <2>5. CASE t # tx[p].type
    <3>1. tx[p].key # k /\ tx[p].new # k
      BY <1>0, <2>1, <2>2, <2>5, NullAssumption
         DEF CommitCreate, IInv, HeldRowIsCurrent, ActiveKeys
    <3>2. keyState'[k] = "active" /\ keyType'[k] = t
      BY <1>0, <2>1, <3>1 DEF CommitCreate, IInv, TypeOK
    <3>3. QED
      BY <1>0, <3>2 DEF ActiveKeys
  <2>6. QED
    BY <2>4, <2>5
<1>2. CASE \E p \in Proc : CommitExpire(p)
  <2>1. PICK p \in Proc : CommitExpire(p)
    BY <1>2
  <2>2. p \in Operator
    BY <2>1 DEF CommitExpire, OperatorsExpire, Proc
  <2>3. CASE tx[p].key = k
    BY <2>1, <2>2, <2>3
  <2>4. CASE tx[p].key # k
    <3>1. keyState'[k] = "active" /\ keyType'[k] = t
      BY <1>0, <2>1, <2>4 DEF CommitExpire, IInv, TypeOK
    <3>2. QED
      BY <1>0, <3>1 DEF ActiveKeys
  <2>5. QED
    BY <2>3, <2>4
<1>3. CASE \E p \in Proc : CommitDelete(p)
  <2>1. PICK p \in Proc : CommitDelete(p)
    BY <1>3
  <2>2. tx[p].key \in Key /\ keyState[tx[p].key] = "retired"
    BY <2>1, NullAssumption DEF CommitDelete, IInv, CallShape, HeldRowIsCurrent
  <2>3. keyState'[k] = "active" /\ keyType'[k] = t
    BY <1>0, <2>1, <2>2 DEF CommitDelete, IInv, TypeOK
  <2>4. QED
    BY <1>0, <2>3 DEF ActiveKeys
<1>4. CASE UNCHANGED rows
  BY <1>0, <1>4 DEF ActiveKeys, rows
<1>5. QED
  BY <1>1, <1>2, <1>3, <1>4
     DEF Next, Request, CreateSigningKey, ExpireSigningKey, DeleteSigningKey,
         EnsureReady, Step, CheckFindsKey, CheckFindsNone, SelectActive, LockActive,
         LockByID, RefuseByID, RetireSigningKey, InsertKey, InsertFails, Abort, Tick

(* A type loses its active key by an operator's expire of that key only:   *)
(* the commit of a rotation brings the new key in the step that retires    *)
(* the old one, and a deletion holds a key that is retired.                *)
THEOREM OnlyExpiryLeavesAGap == Spec => OnlyExpireLeavesGap
<1> DEFINE Gap == \A t \in TokenType : ActiveKeys(t) # {} /\ ActiveKeys(t)' = {} =>
              \E o \in Operator : CommitExpire(o) /\ tx[o].key \in ActiveKeys(t)
<1>1. IInv /\ OperatorsExpire /\ [Next]_vars => [Gap]_vars
  BY GapStep
<1>2. QED
  BY <1>1, Invariance, ServersNeverExpire, PTL DEF Spec, OnlyExpireLeavesGap

(* The locals of a call other than EnsureReady's list of types.            *)
LEMMA TodoKept ==
    ASSUME IInv, NEW p \in Proc, NEW s \in Proc,
           \/ CheckFindsNone(p) \/ SelectActive(p) \/ LockActive(p) \/ LockByID(p)
           \/ RetireSigningKey(p) \/ InsertKey(p)
    PROVE  tx'[s].todo = tx[s].todo
<1>1. tx \in [Proc -> Call]
  BY DEF IInv, TypeOK
<1>2. tx[p] \in Call /\ tx[s] \in Call
  BY <1>1
<1>3. CASE CheckFindsNone(p)
  BY <1>1, <1>2, <1>3 DEF CheckFindsNone, Call
<1>4. CASE SelectActive(p) \/ LockActive(p)
  BY <1>1, <1>2, <1>4 DEF SelectActive, LockActive, Call
<1>5. CASE LockByID(p)
  BY <1>5 DEF LockByID
<1>6. CASE RetireSigningKey(p) \/ InsertKey(p)
  BY <1>1, <1>2, <1>6 DEF RetireSigningKey, InsertKey, Call
<1>7. QED
  BY <1>3, <1>4, <1>5, <1>6

(* Type t has a key to sign with, or an operator expired it and nobody has *)
(* created another.                                                        *)
HasKey(t) == ActiveKeys(t) # {} \/ t \in expired

(* This stays so whoever does what: only an expire takes the active key    *)
(* away, and only the commit of a new key ends what the expire left.       *)
LEMMA KeyOrExpired ==
    ASSUME IInv, OperatorsExpire, [Next]_vars, NEW t \in TokenType, HasKey(t)
    PROVE  HasKey(t)'
<1>1. CASE UNCHANGED vars
  BY <1>1 DEF vars, rows, HasKey, ActiveKeys
<1>2. CASE Next /\ ActiveKeys(t) # {} /\ ActiveKeys(t)' = {}
  <2>1. PICK o \in Operator : CommitExpire(o) /\ tx[o].key \in ActiveKeys(t)
    BY <1>2, GapStep
  <2>2. t \in expired'
    BY <2>1 DEF CommitExpire
  <2>3. QED
    BY <2>2 DEF HasKey
<1>3. CASE \E p \in Proc : CommitCreate(p)
  <2>1. PICK p \in Proc : CommitCreate(p)
    BY <1>3
  <2>2. CASE t = tx[p].type
    BY <2>1, <2>2, NewKeyIsActive DEF HasKey
  <2>3. CASE t # tx[p].type /\ t \in expired
    BY <2>1, <2>3 DEF CommitCreate, HasKey
  <2>4. CASE t # tx[p].type /\ t \notin expired
    BY <1>2, <2>1, <2>4, GapStep DEF HasKey, Next, Step
  <2>5. QED
    BY <2>2, <2>3, <2>4
<1>4. CASE Next /\ t \in expired /\ ~ \E p \in Proc : CommitCreate(p)
  <2>1. expired \subseteq expired'
    BY <1>4
       DEF Next, Request, CreateSigningKey, ExpireSigningKey, DeleteSigningKey,
           EnsureReady, Step, CheckFindsKey, CheckFindsNone, SelectActive, LockActive,
           LockByID, RefuseByID, RetireSigningKey, InsertKey, InsertFails, Abort, Tick,
           CommitExpire, CommitDelete
  <2>2. QED
    BY <1>4, <2>1 DEF HasKey
<1>5. QED
  BY <1>1, <1>2, <1>3, <1>4 DEF HasKey

(* A server in EnsureReady, or past it, has a key for each type that it    *)
(* has dealt with; one that serves has dealt with all of them.             *)
DealtWith == \A s \in Server :
    /\ pc[s] = "ready" => tx[s].todo = {}
    /\ \A t \in TokenType : pc[s] # "idle" /\ t \notin tx[s].todo => HasKey(t)

LEMMA DealtWithStep ==
    ASSUME IInv, OperatorsExpire, DealtWith, [Next]_vars
    PROVE  DealtWith'
<1> SUFFICES ASSUME NEW s \in Server
             PROVE  /\ pc'[s] = "ready" => tx'[s].todo = {}
                    /\ \A t \in TokenType :
                          pc'[s] # "idle" /\ t \notin tx'[s].todo => HasKey(t)'
  BY DEF DealtWith
<1>1. s \in Proc /\ s \notin Operator
  BY ProcAssumption DEF Proc
<1>2. /\ tx \in [Proc -> Call] /\ tx[s] \in Call
      /\ pc \in [Proc -> {"idle", "check", "select", "lock", "byid",
                          "retire", "insert", "commit", "ready"}]
  BY <1>1 DEF IInv, TypeOK
<1>3. CASE pc'[s] = pc[s] /\ tx'[s].todo = tx[s].todo
  BY <1>3, KeyOrExpired DEF DealtWith
<1>4. CASE pc'[s] = "idle"
  BY <1>4
<1>5. ASSUME NEW u \in TokenType, pc[s] # "idle", Proceed(s, u), HasKey(u)'
      PROVE  /\ pc'[s] = "ready" => tx'[s].todo = {}
             /\ \A t \in TokenType : t \notin tx'[s].todo => HasKey(t)'
  <2> DEFINE rest == tx[s].todo \ {u}
  <2>1. tx'[s] = [NoCall EXCEPT !.todo = rest]
    BY <1>1, <1>2, <1>5 DEF Proceed
  <2>2. tx'[s].todo = rest
    BY <2>1 DEF NoCall
  <2>3. pc'[s] = IF rest # {} THEN "check" ELSE "ready"
    BY <1>1, <1>2, <1>5 DEF Proceed
  <2>4. ASSUME NEW t \in TokenType, t \notin rest
        PROVE  HasKey(t)'
    BY <1>5, <2>4, KeyOrExpired DEF DealtWith
  <2>5. QED
    BY <2>2, <2>3, <2>4
<1>6. ASSUME NEW p \in Proc, p # s, Return(p) \/ \E u : Proceed(p, u)
      PROVE  pc'[s] = pc[s] /\ tx'[s].todo = tx[s].todo
  BY <1>1, <1>2, <1>6 DEF Return, Proceed
<1>7. CASE \E o \in Operator : Request(o)
  BY <1>1, <1>2, <1>3, <1>7
     DEF Request, CreateSigningKey, ExpireSigningKey, DeleteSigningKey
<1>8. CASE \E q \in Server : EnsureReady(q)
  <2>1. PICK q \in Server : EnsureReady(q)
    BY <1>8
  <2>2. CASE q = s
    <3>1. pc'[s] = "check" /\ tx'[s] = [NoCall EXCEPT !.todo = TokenType]
      BY <1>1, <1>2, <2>1, <2>2 DEF EnsureReady
    <3>2. tx'[s].todo = TokenType
      BY <3>1 DEF NoCall
    <3>3. QED
      BY <3>1, <3>2
  <2>3. CASE q # s
    BY <1>1, <1>2, <1>3, <2>1, <2>3 DEF EnsureReady
  <2>4. QED
    BY <2>2, <2>3
<1>9. ASSUME NEW p \in Proc, Step(p)
      PROVE  \/ pc'[s] = pc[s] /\ tx'[s].todo = tx[s].todo
             \/ pc'[s] = "idle"
             \/ \E u \in TokenType : pc[s] # "idle" /\ Proceed(s, u) /\ HasKey(u)'
             \/ pc'[s] \notin {"idle", "ready"} /\ pc[s] # "idle"
                   /\ tx'[s].todo = tx[s].todo
  <2>1. CASE CheckFindsNone(p) \/ SelectActive(p) \/ LockActive(p) \/ LockByID(p)
             \/ RetireSigningKey(p) \/ InsertKey(p)
    <3>1. tx'[s].todo = tx[s].todo
      BY <1>1, <2>1, TodoKept
    <3>2. \/ pc'[s] = pc[s]
          \/ pc'[s] \notin {"idle", "ready"} /\ pc[s] # "idle"
      BY <1>1, <1>2, <2>1
         DEF CheckFindsNone, SelectActive, LockActive, LockByID, RetireSigningKey, InsertKey
    <3>3. QED
      BY <3>1, <3>2
  <2>2. CASE RefuseByID(p) \/ InsertFails(p) \/ CommitExpire(p) \/ CommitDelete(p)
    <3>1. Return(p)
      BY <2>2 DEF RefuseByID, InsertFails, CommitExpire, CommitDelete
    <3>2. QED
      BY <1>1, <1>2, <1>6, <3>1 DEF Return
  <2>3. CASE CheckFindsKey(p)
    <3>1. CASE p = s
      <4>1. TypeToCheck(s) \in TokenType
        BY DEF TypeToCheck, TokenType
      <4>2. ActiveKeys(TypeToCheck(s)) # {} /\ UNCHANGED rows /\ Proceed(s, TypeToCheck(s))
        BY <2>3, <3>1 DEF CheckFindsKey
      <4>3. \A u : HasKey(u)' <=> ActiveKeys(u) # {} \/ u \in expired'
        BY <4>2 DEF HasKey, ActiveKeys, rows
      <4>4. pc[s] # "idle"
        BY <2>3, <3>1 DEF CheckFindsKey
      <4>5. QED
        BY <4>1, <4>2, <4>3, <4>4
    <3>2. CASE p # s
      BY <1>6, <2>3, <3>2 DEF CheckFindsKey
    <3>3. QED
      BY <3>1, <3>2
  <2>4. CASE CommitCreate(p)
    <3>1. CASE p = s
      <4>1. PICK u : u = tx[s].type
        OBVIOUS
      <4>2. pc[s] # "idle" /\ Proceed(s, tx[s].type)
        BY <2>4, <3>1 DEF CommitCreate
      <4>3. u \in TokenType /\ ActiveKeys(u)' # {}
        BY <2>4, <3>1, <4>1, NewKeyIsActive
      <4>4. QED
        BY <4>1, <4>2, <4>3 DEF HasKey
    <3>2. CASE p # s
      BY <1>6, <2>4, <3>2 DEF CommitCreate
    <3>3. QED
      BY <3>1, <3>2
  <2>5. QED
    BY <1>9, <2>1, <2>2, <2>3, <2>4 DEF Step
<1>10. CASE \E p \in Proc : Step(p)
  <2>1. CASE pc'[s] \notin {"idle", "ready"} /\ pc[s] # "idle" /\ tx'[s].todo = tx[s].todo
    BY <2>1, KeyOrExpired DEF DealtWith
  <2>2. QED
    BY <1>3, <1>4, <1>5, <1>9, <1>10, <2>1
<1>11. CASE \E p \in Proc : Abort(p)
  <2>1. PICK p \in Proc : Return(p)
    BY <1>11 DEF Abort
  <2>2. QED
    BY <1>1, <1>2, <1>3, <1>6, <2>1 DEF Return
<1>12. CASE Tick \/ UNCHANGED vars
  BY <1>3, <1>12 DEF Tick, vars
<1>13. QED
  BY <1>7, <1>8, <1>10, <1>11, <1>12 DEF Next

(* A server that EnsureReady let start has an active key of every token    *)
(* type for as long as it serves, but for the types whose key an operator  *)
(* has expired: neither the other servers that start, nor rotations and    *)
(* deletions, nor failures half way ever leave it without one.             *)
THEOREM ServersHaveKeys == Spec => []ServingHasKeys
<1>1. Init => DealtWith
  BY DEF Init, DealtWith, Proc
<1>2. IInv /\ OperatorsExpire /\ DealtWith /\ [Next]_vars => DealtWith'
  BY DealtWithStep
<1>3. DealtWith => ServingHasKeys
  BY DEF DealtWith, ServingHasKeys, HasKey
<1>4. QED
  BY <1>1, <1>2, <1>3, Invariance, ServersNeverExpire, PTL DEF Spec

-----------------------------------------------------------------------------
(* A rotation's commit is one Install step of the life cycle.              *)
LEMMA CommitCreateInstalls ==
    ASSUME IInv, NEW p \in Proc, CommitCreate(p)
    PROVE  Lifecycle!Next
<1> USE DEF CommitCreate
<1> DEFINE n == tx[p].new
           o == tx[p].key
           t == tx[p].type
<1>1. n \in Key /\ n # Null /\ t \in TokenType
  BY DEF IInv, CallShape
<1>2. keyState[n] = "unborn" /\ ActiveKeys(t) \subseteq {o}
  BY <1>1 DEF IInv, PendingInsertIsAlone
<1>3. o # Null => o \in ActiveKeys(t) /\ tx[p].until \in Nat
  BY DEF IInv, CallShape, HeldRowIsCurrent
<1>4. \A k \in Key : k = o <=> k \in ActiveKeys(t)
  BY <1>2, <1>3, NullAssumption
<1>5. Lifecycle!Active(t) = ActiveKeys(t)
  BY DEF Lifecycle!Active, ActiveKeys
<1>6. keyState' = [j \in Key |-> IF j = n THEN "active"
                                 ELSE IF j \in Lifecycle!Active(t) THEN "retired"
                                 ELSE keyState[j]]
  BY <1>4, <1>5
<1>7. Lifecycle!SetDeadlines(Lifecycle!Active(t))
  <2>1. verifyUntil' \in [Key -> Nat \cup {Null}]
    BY <1>3 DEF IInv, TypeOK
  <2>2. ASSUME NEW k \in Key
        PROVE  IF k \in ActiveKeys(t) THEN verifyUntil'[k] \in Nat
                                       ELSE verifyUntil'[k] = verifyUntil[k]
    BY <1>3, <1>4, NullAssumption
  <2>3. QED
    BY <1>5, <2>1, <2>2 DEF Lifecycle!SetDeadlines
<1>8. Lifecycle!Install(t, n)
  BY <1>2, <1>6, <1>7 DEF Lifecycle!Install
<1>9. QED
  BY <1>1, <1>8 DEF Lifecycle!Next

LEMMA CommitExpireExpires ==
    ASSUME IInv, NEW p \in Proc, CommitExpire(p)
    PROVE  Lifecycle!Next
<1>1. /\ tx[p].key \in Key /\ RowExists(tx[p].key) /\ tx[p].until \in Nat
  BY NullAssumption DEF CommitExpire, IInv, CallShape, HeldRowIsCurrent
<1>2. Lifecycle!SetDeadlines({tx[p].key})
  BY <1>1 DEF CommitExpire, Lifecycle!SetDeadlines, IInv, TypeOK
<1>3. Lifecycle!Expire(tx[p].key)
  BY <1>1, <1>2 DEF CommitExpire, Lifecycle!Expire, RowExists
<1>4. QED
  BY <1>1, <1>3 DEF Lifecycle!Next

LEMMA CommitDeleteDeletes ==
    ASSUME IInv, NEW p \in Proc, CommitDelete(p)
    PROVE  Lifecycle!Next
<1>1. tx[p].key \in Key /\ keyState[tx[p].key] = "retired"
  BY NullAssumption DEF CommitDelete, IInv, CallShape, HeldRowIsCurrent
<1>2. Lifecycle!Delete(tx[p].key)
  BY <1>1 DEF CommitDelete, Lifecycle!Delete
<1>3. QED
  BY <1>1, <1>2 DEF Lifecycle!Next

LEMMA StepRefines == IInv /\ [Next]_vars => [Lifecycle!Next]_(Lifecycle!vars)
<1>1. ASSUME IInv, [Next]_vars
      PROVE  Lifecycle!Next \/ UNCHANGED rows
  <2>1. CASE \E p \in Proc : CommitCreate(p) \/ CommitExpire(p) \/ CommitDelete(p)
    BY <1>1, <2>1, CommitCreateInstalls, CommitExpireExpires, CommitDeleteDeletes
  <2>2. CASE ~ \E p \in Proc : CommitCreate(p) \/ CommitExpire(p) \/ CommitDelete(p)
    BY <1>1, <2>2
       DEF Next, vars, Request, CreateSigningKey, ExpireSigningKey, DeleteSigningKey,
           EnsureReady, Step, CheckFindsKey, CheckFindsNone, SelectActive, LockActive,
           LockByID, RefuseByID, RetireSigningKey, InsertKey, InsertFails, Abort, Tick
  <2>3. QED
    BY <2>1, <2>2
<1>2. QED
  BY <1>1 DEF Lifecycle!vars, rows

(* The key store implements KeyLifecycle: a rotation retires the old key   *)
(* and activates the new one in one step, the deadline of a retired key    *)
(* moves only when it is expired again, and no active key is deleted.      *)
THEOREM Refinement == Spec => RefinesLifecycle
<1>1. Init => Lifecycle!Init
  BY DEF Init, Lifecycle!Init
<1>2. QED
  BY <1>1, StepRefines, Invariance, PTL DEF Spec, RefinesLifecycle, Lifecycle!Spec
-----------------------------------------------------------------------------
(* A handler between its two reads has read a key of the access type.      *)
IssueShape == \A h \in Handler :
    /\ issue[h].pc # "idle" => issue[h].now <= clock
    /\ issue[h].pc = "refresh" =>
          /\ issue[h].key \in Key
          /\ keyState[issue[h].key] # "unborn"
          /\ keyType[issue[h].key] = "access"

TInv == IInv /\ TokenTypeOK /\ IssueShape /\ TokenOrigin

(* No step of the key store takes a row's type away or turns time back.    *)
LEMMA RowsOnlyAge ==
    ASSUME IInv, [Next]_vars
    PROVE  /\ clock \in Nat /\ clock' \in Nat /\ clock <= clock'
           /\ \A k \in Key : keyState[k] # "unborn" =>
                 keyState'[k] # "unborn" /\ keyType'[k] = keyType[k]
<1>1. clock \in Nat /\ clock' \in Nat /\ clock <= clock'
  <2>1. clock' \in {clock, clock + 1}
    BY DEF Next, vars, Request, CreateSigningKey, ExpireSigningKey, DeleteSigningKey,
       EnsureReady, Step, CheckFindsKey, CheckFindsNone, SelectActive, LockActive,
       LockByID, RefuseByID, RetireSigningKey, InsertKey, InsertFails, Abort, Tick,
       CommitCreate, CommitExpire, CommitDelete
  <2>2. QED
    BY <2>1 DEF IInv, TypeOK
<1>2. ASSUME NEW k \in Key, keyState[k] # "unborn"
      PROVE  keyState'[k] # "unborn" /\ keyType'[k] = keyType[k]
  <2>1. CASE UNCHANGED rows
    BY <1>2, <2>1 DEF rows
  <2>2. CASE Lifecycle!Next
    BY <1>2, <2>2 DEF Lifecycle!Next, Lifecycle!Install, Lifecycle!Expire,
       Lifecycle!Delete, IInv, TypeOK
  <2>3. QED
    BY <2>1, <2>2, StepRefines DEF Lifecycle!vars, rows
<1>3. QED
  BY <1>1, <1>2

LEMMA NewTokenOrigin ==
    ASSUME IInv, NEW t \in TokenType, NEW k \in Key, NEW now \in Nat, now <= clock
    PROVE  NewToken(k, t, now) \in Token /\ NewToken(k, t, now).exp <= clock + TTL[t]
BY TimeAssumption DEF NewToken, Token, IInv, TypeOK

LEMMA TInitInv == TInit => TInv
BY InitInv DEF TInit, TInv, TokenTypeOK, IssueShape, TokenOrigin, Idle

(* The steps of the key store keep what is known of handlers and tokens.   *)
LEMMA KeyStoreStep ==
    ASSUME TInv, [Next]_vars, UNCHANGED tokenVars
    PROVE  TInv'
<1>1. IInv' /\ TokenTypeOK'
  BY NextInv DEF TInv, TokenTypeOK, tokenVars
<1>2. IssueShape'
  <2> SUFFICES ASSUME NEW h \in Handler
               PROVE  /\ issue[h].pc # "idle" => issue[h].now <= clock'
                      /\ issue[h].pc = "refresh" =>
                            /\ issue[h].key \in Key
                            /\ keyState'[issue[h].key] # "unborn"
                            /\ keyType'[issue[h].key] = "access"
    BY DEF IssueShape, tokenVars
  <2>1. issue[h].now \in Nat
    BY DEF TInv, TokenTypeOK
  <2>2. QED
    BY <2>1, RowsOnlyAge DEF TInv, IssueShape
<1>3. TokenOrigin'
  <2> SUFFICES ASSUME NEW tok \in tokens
               PROVE  /\ keyState'[tok.kid] # "unborn"
                      /\ keyType'[tok.kid] = tok.type
                      /\ tok.exp <= clock' + TTL[tok.type]
    BY DEF TokenOrigin, tokenVars
  <2>1. tok.kid \in Key /\ tok.exp \in Nat /\ TTL[tok.type] \in Nat
    BY TimeAssumption DEF TInv, TokenTypeOK, Token
  <2>2. QED
    BY <2>1, RowsOnlyAge DEF TInv, TokenOrigin
<1>4. QED
  BY <1>1, <1>2, <1>3 DEF TInv

LEMMA IssueTokensInv ==
    ASSUME TInv, NEW h \in Handler, IssueTokens(h)
    PROVE  TInv'
<1> USE DEF IssueTokens
<1>1. UNCHANGED vars /\ UNCHANGED tokens
  OBVIOUS
<1>2. clock \in Nat
  BY DEF TInv, IInv, TypeOK
<1>3. /\ issue'[h].pc = "access" /\ issue'[h].now = clock
      /\ \A g \in Handler \ {h} : issue'[g] = issue[g]
  BY DEF TInv, TokenTypeOK
<1>4. IInv'
  BY <1>1, NextInv DEF TInv
<1>5. TokenTypeOK' /\ IssueShape'
  <2>1. TokenTypeOK'
    BY <1>1, <1>2 DEF TInv, TokenTypeOK
  <2>2. IssueShape'
    BY <1>1, <1>2, <1>3 DEF TInv, IssueShape, vars, rows
  <2>3. QED
    BY <2>1, <2>2
<1>6. TokenOrigin'
  BY <1>1 DEF TInv, TokenOrigin, vars, rows
<1>7. QED
  BY <1>4, <1>5, <1>6 DEF TInv

LEMMA SignAccessInv ==
    ASSUME TInv, NEW h \in Handler, SignAccess(h)
    PROVE  TInv'
<1>1. UNCHANGED vars /\ UNCHANGED tokens /\ issue[h].pc = "access"
  BY DEF SignAccess
<1>2. IInv'
  BY <1>1, NextInv DEF TInv
<1>3. TokenOrigin'
  BY <1>1 DEF TInv, TokenOrigin, vars, rows
<1>4. CASE issue' = [issue EXCEPT ![h] = Idle]
  BY <1>1, <1>2, <1>3, <1>4 DEF TInv, TokenTypeOK, IssueShape, Idle, vars, rows
<1>5. ASSUME NEW k \in ActiveKeys("access"),
             issue' = [issue EXCEPT ![h].pc = "refresh", ![h].key = k]
      PROVE  TInv'
  <2>1. k \in Key /\ keyState[k] # "unborn" /\ keyType[k] = "access"
    BY DEF ActiveKeys
  <2>2. /\ issue'[h] = [issue[h] EXCEPT !.pc = "refresh", !.key = k]
        /\ \A g \in Handler \ {h} : issue'[g] = issue[g]
    BY <1>5 DEF TInv, TokenTypeOK
  <2>3. [issue[h] EXCEPT !.pc = "refresh", !.key = k]
           \in [pc : {"idle", "access", "refresh"}, now : Nat, key : Key \cup {Null}]
    BY <2>1 DEF TInv, TokenTypeOK
  <2>4. TokenTypeOK'
    BY <1>1, <1>5, <2>3 DEF TInv, TokenTypeOK
  <2>5. issue'[h].key = k /\ issue'[h].now = issue[h].now
    BY <2>2 DEF TInv, TokenTypeOK
  <2>6. IssueShape'
    BY <1>1, <2>1, <2>2, <2>5 DEF TInv, IssueShape, vars, rows
  <2>7. QED
    BY <1>2, <1>3, <2>4, <2>6 DEF TInv
<1>6. QED
  BY <1>4, <1>5 DEF SignAccess

LEMMA SignRefreshInv ==
    ASSUME TInv, NEW h \in Handler, SignRefresh(h)
    PROVE  TInv'
<1>1. /\ UNCHANGED vars /\ issue[h].pc = "refresh"
      /\ issue' = [issue EXCEPT ![h] = Idle]
  BY DEF SignRefresh
<1>2. IInv'
  BY <1>1, NextInv DEF TInv
<1>3. IssueShape' /\ issue' \in [Handler -> [pc : {"idle", "access", "refresh"},
                                            now : Nat, key : Key \cup {Null}]]
  BY <1>1 DEF TInv, TokenTypeOK, IssueShape, Idle, vars, rows
<1>4. CASE UNCHANGED tokens
  BY <1>1, <1>2, <1>3, <1>4 DEF TInv, TokenTypeOK, TokenOrigin, vars, rows
<1>5. ASSUME NEW k \in ActiveKeys("refresh"),
             tokens' = tokens \cup {NewToken(issue[h].key, "access", issue[h].now),
                                    NewToken(k, "refresh", issue[h].now)}
      PROVE  TInv'
  <2> DEFINE j   == issue[h].key
             now == issue[h].now
  <2>1. /\ j \in Key /\ keyState[j] # "unborn" /\ keyType[j] = "access"
        /\ now \in Nat /\ now <= clock
    BY <1>1 DEF TInv, TokenTypeOK, IssueShape
  <2>2. k \in Key /\ keyState[k] # "unborn" /\ keyType[k] = "refresh"
    BY DEF ActiveKeys
  <2>3. /\ NewToken(j, "access", now) \in Token
        /\ NewToken(j, "access", now).exp <= clock + TTL["access"]
        /\ NewToken(k, "refresh", now) \in Token
        /\ NewToken(k, "refresh", now).exp <= clock + TTL["refresh"]
    BY <2>1, <2>2, NewTokenOrigin DEF TInv, TokenType
  <2>4. /\ NewToken(j, "access", now).kid = j /\ NewToken(j, "access", now).type = "access"
        /\ NewToken(k, "refresh", now).kid = k /\ NewToken(k, "refresh", now).type = "refresh"
    BY DEF NewToken
  <2>5. TokenOrigin'
    BY <1>1, <1>5, <2>1, <2>2, <2>3, <2>4 DEF TInv, TokenOrigin, vars, rows
  <2>6. TokenTypeOK'
    BY <1>3, <1>5, <2>3 DEF TInv, TokenTypeOK
  <2>7. QED
    BY <1>2, <1>3, <2>5, <2>6 DEF TInv
<1>6. QED
  BY <1>4, <1>5 DEF SignRefresh

LEMMA TNextInv == TInv /\ [TNext]_allVars => TInv'
BY KeyStoreStep, IssueTokensInv, SignAccessInv, SignRefreshInv
   DEF TNext, allVars, tokenVars

-----------------------------------------------------------------------------
THEOREM TokenInvariance == TSpec => []TInv
BY TInitInv, TNextInv, PTL DEF TSpec

(* Every token in circulation was signed by a key of its own type and      *)
(* expires at most one TTL from now.                                       *)
THEOREM TokensHaveTheirOrigin == TSpec => []TokenOrigin
<1>1. TInv => TokenOrigin
  BY DEF TInv
<1>2. QED
  BY <1>1, TokenInvariance, PTL

(* The deadline of a call is only ever set by RetireSigningKey.            *)
LEMMA DeadlineIsSetByRetire ==
    ASSUME IInv, Next, NEW p \in Proc, tx[p].until = Null, tx'[p].until # Null
    PROVE  pc[p] = "retire" /\ tx'[p].until = clock + tx[p].grace
<1>0. TypeOK
  BY DEF IInv
<1>1. ASSUME NEW q \in Proc, Step(q) \/ Abort(q)
      PROVE  q = p /\ RetireSigningKey(p)
  <2>1. CASE RetireSigningKey(q)
    BY <1>0, <2>1 DEF RetireSigningKey, TypeOK
  <2>2. CASE CheckFindsNone(q)
    BY <1>0, <2>2 DEF CheckFindsNone, Call, TypeOK
  <2>3. CASE SelectActive(q)
    BY <1>0, <2>3 DEF SelectActive, Call, TypeOK
  <2>4. CASE LockActive(q)
    BY <1>0, <2>4 DEF LockActive, Call, TypeOK
  <2>5. CASE LockByID(q)
    BY <1>0, <2>5 DEF LockByID, TypeOK
  <2>6. CASE InsertKey(q)
    BY <1>0, <2>6 DEF InsertKey, Call, TypeOK
  <2>7. CASE Return(q)
    BY <1>0, <2>7 DEF Return, NoCall, TypeOK
  <2>8. ASSUME NEW t, Proceed(q, t)
        PROVE  FALSE
    <3>1. tx'[q] = [NoCall EXCEPT !.todo = tx[q].todo \ {t}]
      BY <1>0, <2>8 DEF Proceed, TypeOK
    <3>2. tx'[q].until = Null
      BY <3>1 DEF NoCall
    <3>3. q # p => tx'[p] = tx[p]
      BY <1>0, <2>8 DEF Proceed, TypeOK
    <3>4. QED
      BY <3>2, <3>3
  <2>9. QED
    BY <1>1, <2>1, <2>2, <2>3, <2>4, <2>5, <2>6, <2>7, <2>8
       DEF Step, Abort, RefuseByID, InsertFails, CheckFindsKey,
           CommitCreate, CommitExpire, CommitDelete
<1>2. ASSUME NEW q \in Proc, EnsureReady(q) \/ Request(q)
      PROVE  FALSE
  <2>1. CASE EnsureReady(q)
    BY <1>0, <2>1 DEF EnsureReady, NoCall, TypeOK
  <2>2. ASSUME NEW t \in TokenType, NEW g, CreateSigningKey(q, t, g)
        PROVE  FALSE
    BY <1>0, <2>2 DEF CreateSigningKey, NoCall, TypeOK
  <2>3. ASSUME NEW k \in Key, NEW g, ExpireSigningKey(q, k, g)
        PROVE  FALSE
    <3>1. tx' = [tx EXCEPT ![q] = [NoCall EXCEPT !.op = "expire", !.key = k,
                                                 !.grace = g]]
      BY <2>3 DEF ExpireSigningKey
    <3>2. tx'[p] = [NoCall EXCEPT !.op = "expire", !.key = k, !.grace = g]
              \/ tx'[p] = tx[p]
      BY <1>0, <3>1 DEF TypeOK
    <3>3. QED
      BY <3>2 DEF NoCall
  <2>5. ASSUME NEW k \in Key, DeleteSigningKey(q, k)
        PROVE  FALSE
    <3>1. tx' = [tx EXCEPT ![q] = [NoCall EXCEPT !.op = "delete", !.key = k]]
      BY <2>5 DEF DeleteSigningKey
    <3>2. tx'[p] = [NoCall EXCEPT !.op = "delete", !.key = k] \/ tx'[p] = tx[p]
      BY <1>0, <3>1 DEF TypeOK
    <3>3. QED
      BY <3>2 DEF NoCall
  <2>4. QED
    <3>1. ASSUME Request(q)
          PROVE  FALSE
      <4>1. CASE \E t \in TokenType : \E g \in CustomGrace \cup {TTL[t]} :
                    CreateSigningKey(q, t, g)
        BY <2>2, <4>1
      <4>2. CASE \E k \in Key, g \in VerifyFor : ExpireSigningKey(q, k, g)
        BY <2>3, <4>2
      <4>3. CASE \E k \in Key : DeleteSigningKey(q, k)
        BY <2>5, <4>3
      <4>4. QED
        BY <3>1, <4>1, <4>2, <4>3 DEF Request
    <3>2. QED
      BY <1>2, <2>1, <3>1
<1>3. ~Tick
  BY DEF Tick
<1>4. RetireSigningKey(p)
  <2>1. Server \subseteq Proc /\ Operator \subseteq Proc
    BY DEF Proc
  <2>2. CASE \E s \in Server : EnsureReady(s)
    BY <1>2, <2>1, <2>2
  <2>3. CASE \E o \in Operator : Request(o)
    BY <1>2, <2>1, <2>3
  <2>4. CASE \E q \in Proc : Step(q) \/ Abort(q)
    BY <1>1, <2>4
  <2>5. QED
    BY <1>3, <2>2, <2>3, <2>4 DEF Next
<1>5. QED
  BY <1>0, <1>4 DEF RetireSigningKey, TypeOK

(* A rotation with the default grace period gives the old key a deadline   *)
(* that no token already handed to a client outlives.                      *)
THEOREM DefaultGraceIsEnough == TSpec => RotationCoversHeldTokens
<1> DEFINE Covers == \A p \in Proc :
              /\ tx[p].op = "create"
              /\ tx[p].until = Null
              /\ tx'[p].until # Null
              /\ tx[p].grace = TTL[tx[p].type]
              => \A tok \in tokens : tok.kid = tx[p].key => tok.exp <= tx'[p].until
<1>1. ASSUME TInv, Next, NEW p \in Proc, tx[p].op = "create", tx[p].until = Null,
             tx'[p].until # Null
      PROVE  pc[p] = "retire" /\ tx'[p].until = clock + tx[p].grace
  BY <1>1, DeadlineIsSetByRetire DEF TInv
<1>2. ASSUME TInv, TNext
      PROVE  Covers
  <2> SUFFICES ASSUME NEW p \in Proc, tx[p].op = "create", tx[p].until = Null,
                      tx'[p].until # Null, tx[p].grace = TTL[tx[p].type],
                      NEW tok \in tokens, tok.kid = tx[p].key
               PROVE  tok.exp <= tx'[p].until
    OBVIOUS
  <2>1. Next
    BY <1>2 DEF TNext, IssueTokens, SignAccess, SignRefresh, vars
  <2>2. pc[p] = "retire" /\ tx'[p].until = clock + TTL[tx[p].type]
    BY <1>1, <1>2, <2>1
  <2>3. tx[p].key \in ActiveKeys(tx[p].type)
    BY <1>2, <2>2, NullAssumption DEF TInv, IInv, CallShape, HeldRowIsCurrent
  <2>4. tok.type = tx[p].type /\ tok.exp <= clock + TTL[tok.type]
    BY <1>2, <2>3 DEF TInv, TokenOrigin, ActiveKeys
  <2>5. QED
    BY <2>2, <2>4
<1>3. TInv /\ [TNext]_allVars => [Covers]_allVars
  BY <1>2
<1>4. QED
  BY <1>3, TokenInvariance, PTL DEF TSpec, RotationCoversHeldTokens
-----------------------------------------------------------------------------
(* A deadline that a call is about to write is at most its grace period     *)
(* away.                                                                    *)
UntilShape == \A p \in Proc :
    tx[p].until # Null => tx[p].until \in Nat /\ tx[p].until <= clock + tx[p].grace

(* A step drops the deadline of a call, leaves it alone, or sets it anew.   *)
UntilMoves(p) ==
    \/ tx'[p].until = Null
    \/ tx'[p].grace = tx[p].grace /\ tx'[p].until \in {tx[p].until, clock + tx[p].grace}

LEMMA DeadlineMoves ==
    ASSUME IInv, [Next]_vars, NEW p \in Proc
    PROVE  UntilMoves(p)
<1>0. TypeOK
  BY DEF IInv
<1>1. CASE UNCHANGED tx
  BY <1>1 DEF UntilMoves
<1>2. ASSUME NEW q \in Proc, NEW call, tx' = [tx EXCEPT ![q] = call], call.until = Null
      PROVE  UntilMoves(p)
  BY <1>0, <1>2 DEF UntilMoves, TypeOK
<1>3. ASSUME NEW q \in Proc, Step(q) \/ Abort(q)
      PROVE  UntilMoves(p)
  <2>1. CASE RetireSigningKey(q)
    BY <1>0, <2>1 DEF RetireSigningKey, TypeOK, Call, UntilMoves
  <2>2. CASE CheckFindsNone(q)
    BY <1>0, <2>2 DEF CheckFindsNone, Call, TypeOK, UntilMoves
  <2>3. CASE SelectActive(q)
    BY <1>0, <2>3 DEF SelectActive, Call, TypeOK, UntilMoves
  <2>4. CASE LockActive(q)
    BY <1>0, <2>4 DEF LockActive, Call, TypeOK, UntilMoves
  <2>5. CASE LockByID(q)
    BY <1>1, <2>5 DEF LockByID
  <2>6. CASE InsertKey(q)
    BY <1>0, <2>6 DEF InsertKey, Call, TypeOK, UntilMoves
  <2>7. CASE Return(q)
    <3>1. NoCall.until = Null
      BY DEF NoCall
    <3>2. QED
      BY <1>2, <2>7, <3>1 DEF Return
  <2>8. ASSUME NEW t, Proceed(q, t)
        PROVE  UntilMoves(p)
    <3>1. tx' = [tx EXCEPT ![q] = [NoCall EXCEPT !.todo = tx[q].todo \ {t}]]
      BY <2>8 DEF Proceed
    <3>2. [NoCall EXCEPT !.todo = tx[q].todo \ {t}].until = Null
      BY DEF NoCall
    <3>3. QED
      BY <1>2, <3>1, <3>2
  <2>9. QED
    BY <1>3, <2>1, <2>2, <2>3, <2>4, <2>5, <2>6, <2>7, <2>8
       DEF Step, Abort, RefuseByID, InsertFails, CheckFindsKey,
           CommitCreate, CommitExpire, CommitDelete
<1>4. ASSUME NEW s \in Server, EnsureReady(s)
      PROVE  UntilMoves(p)
  <2>1. [NoCall EXCEPT !.todo = TokenType].until = Null /\ s \in Proc
    BY DEF NoCall, Proc
  <2>2. QED
    BY <1>2, <1>4, <2>1 DEF EnsureReady
<1>5. ASSUME NEW o \in Operator, Request(o)
      PROVE  UntilMoves(p)
  <2>1. o \in Proc
    BY DEF Proc
  <2>2. ASSUME NEW t \in TokenType, NEW g, CreateSigningKey(o, t, g)
        PROVE  UntilMoves(p)
    <3>1. [NoCall EXCEPT !.op = "create", !.type = t, !.grace = g].until = Null
      BY DEF NoCall
    <3>2. QED
      BY <1>2, <2>1, <2>2, <3>1 DEF CreateSigningKey
  <2>3. ASSUME NEW k \in Key, NEW g, ExpireSigningKey(o, k, g)
        PROVE  UntilMoves(p)
    <3>1. [NoCall EXCEPT !.op = "expire", !.key = k, !.grace = g].until = Null
      BY DEF NoCall
    <3>2. QED
      BY <1>2, <2>1, <2>3, <3>1 DEF ExpireSigningKey
  <2>4. ASSUME NEW k \in Key, DeleteSigningKey(o, k)
        PROVE  UntilMoves(p)
    <3>1. [NoCall EXCEPT !.op = "delete", !.key = k].until = Null
      BY DEF NoCall
    <3>2. QED
      BY <1>2, <2>1, <2>4, <3>1 DEF DeleteSigningKey
  <2>5. QED
    BY <1>5, <2>2, <2>3, <2>4 DEF Request
<1>6. QED
  BY <1>1, <1>3, <1>4, <1>5 DEF Next, Tick, vars

LEMMA UntilKept == IInv /\ UntilShape /\ [Next]_vars => UntilShape'
<1> SUFFICES ASSUME IInv, UntilShape, [Next]_vars, NEW p \in Proc, tx'[p].until # Null
             PROVE  tx'[p].until \in Nat /\ tx'[p].until <= clock' + tx'[p].grace
  BY DEF UntilShape
<1>1. clock \in Nat /\ clock' \in Nat /\ clock <= clock'
  BY RowsOnlyAge
<1>2. tx[p].grace \in Nat
  BY DEF IInv, TypeOK, Call
<1>3. tx[p].until # Null => tx[p].until \in Nat /\ tx[p].until <= clock + tx[p].grace
  BY DEF UntilShape
<1>4. tx'[p].grace = tx[p].grace /\ tx'[p].until \in {tx[p].until, clock + tx[p].grace}
  BY DeadlineMoves DEF UntilMoves
<1>5. QED
  BY <1>1, <1>2, <1>3, <1>4

(* A rotation or an expire with grace period 0 that commits stops its key   *)
(* from verifying anything, in that step.                                   *)
THEOREM ZeroGraceIsAtOnce == TSpec => ZeroGraceRevokesAtOnce
<1> DEFINE Revokes == \A p \in Proc :
        /\ CommitCreate(p) \/ CommitExpire(p)
        /\ tx[p].grace = 0
        => \A tok \in tokens, t \in TokenType :
              tok.kid = tx[p].key => ParseToken(tok, t, clock)' # "ok"
<1>1. TInit => UntilShape
  BY DEF TInit, Init, UntilShape, NoCall
<1>2. TInv /\ UntilShape /\ [TNext]_allVars => UntilShape'
  <2>1. TInv => IInv
    BY DEF TInv
  <2>2. [TNext]_allVars => [Next]_vars
    BY DEF TNext, allVars, vars, IssueTokens, SignAccess, SignRefresh
  <2>3. QED
    BY <2>1, <2>2, UntilKept
<1>3. ASSUME TInv, UntilShape
      PROVE  Revokes
  <2> SUFFICES ASSUME NEW p \in Proc, CommitCreate(p) \/ CommitExpire(p), tx[p].grace = 0,
                      NEW tok \in tokens, NEW t \in TokenType, tok.kid = tx[p].key
               PROVE  ParseToken(tok, t, clock)' # "ok"
    OBVIOUS
  <2>1. IInv /\ TypeOK /\ pc[p] = "commit" /\ tx[p].key \in Key
    BY <1>3 DEF TInv, IInv, TokenTypeOK, Token, CommitCreate, CommitExpire
  <2>2. tx[p].op \in {"create", "expire"} /\ tx[p].until \in Nat /\ tx[p].until <= clock
    <3>1. tx[p].op \in {"create", "expire"}
      BY DEF CommitCreate, CommitExpire
    <3>2. tx[p].key # Null /\ tx[p].until \in Nat
      BY <2>1, <3>1, NullAssumption DEF IInv, CallShape
    <3>3. tx[p].until # Null /\ clock \in Nat
      BY <2>1, <3>2, NullAssumption DEF TypeOK
    <3>4. QED
      BY <1>3, <3>1, <3>2, <3>3 DEF UntilShape
  <2>3. /\ keyState'[tx[p].key] = "retired" /\ verifyUntil'[tx[p].key] = tx[p].until
        /\ clock' = clock
    <3>1. CASE CommitExpire(p)
      BY <2>1, <3>1 DEF CommitExpire, TypeOK
    <3>2. CASE CommitCreate(p)
      <4>1. tx[p].op = "create" /\ tx[p].new \in Key
        BY <2>1, <3>2 DEF CommitCreate, IInv, CallShape
      <4>2. keyState[tx[p].new] = "unborn" /\ keyState[tx[p].key] = "active"
        BY <2>1, <4>1, NullAssumption
           DEF IInv, PendingInsertIsAlone, HeldRowIsCurrent, ActiveKeys
      <4>3. QED
        BY <2>1, <3>2, <4>2 DEF CommitCreate
    <3>3. QED
      BY <3>1, <3>2
  <2>4. ~VerificationKey(tok.kid, t, clock)'
    <3>1. clock \in Nat
      BY <2>1 DEF TypeOK
    <3>2. QED
      BY <2>2, <2>3, <3>1 DEF VerificationKey
  <2>5. QED
    BY <2>4 DEF ParseToken
<1>4. TInv /\ UntilShape => [Revokes]_allVars
  BY <1>3
<1>5. QED
  BY <1>1, <1>2, <1>4, TokenInvariance, PTL DEF TSpec, ZeroGraceRevokesAtOnce
=============================================================================
