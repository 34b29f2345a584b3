----------------------------- MODULE SigningKeys -----------------------------
(***************************************************************************)
(* The KeyStore of internal/auth/signing_keys.go over the PostgreSQL table *)
(* jwt_signing_keys.  Operators (cmd/db jwt-key create, expire, delete)    *)
(* and servers (EnsureReady, at startup) run their transactions at the     *)
(* same time; a transaction is the sequence of its statements, and its     *)
(* writes are buffered in tx until it commits.                             *)
(*                                                                         *)
(* PostgreSQL, READ COMMITTED, is modelled by what the statements rely on: *)
(* a statement sees the rows committed when it starts; SELECT ... FOR      *)
(* UPDATE waits for the holder of the row and then looks at the row again; *)
(* the partial unique index makes an INSERT wait for the transactions that *)
(* may still change the active row of its type, and then succeed or fail.  *)
(*                                                                         *)
(* A key stands for its id and its secret.  All processes read one clock.  *)
(***************************************************************************)
EXTENDS Naturals

CONSTANTS Key,          \* ids that gen_random_uuid() hands out
          Operator,     \* runs of cmd/db jwt-key
          Server,       \* processes of cmd/server
          TTL,          \* the token TTL per type, the default grace period
          CustomGrace,  \* values given to --verify-old-for
          VerifyFor,    \* values given to --verify-for
          MaxTime,      \* bound on the clock
          Null          \* SQL NULL, and "no row"

TokenType == {"access", "refresh"}
Proc == Operator \cup Server

ASSUME TimeAssumption ==
    /\ TTL \in [TokenType -> Nat]
    /\ CustomGrace \subseteq Nat
    /\ VerifyFor \subseteq Nat
    /\ MaxTime \in Nat
ASSUME NullAssumption == Null \notin Key \cup Nat \cup Proc \cup TokenType
ASSUME ProcAssumption == Operator \cap Server = {}

VARIABLES keyState,     \* the committed column state; "unborn", "deleted": no row
          keyType,      \* the committed column token_type
          verifyUntil,  \* the committed column verify_until
          lock,         \* which transaction holds the row lock of a key
          pc,           \* the next statement of each process
          tx,           \* the local variables and buffered writes of its call
          clock,        \* time.Now()
          expired       \* history: types whose active key an expire took away

rows == <<keyState, keyType, verifyUntil>>
vars == <<rows, lock, pc, tx, clock, expired>>

(* The locals of one call: the row it read (key), the row it inserts (new), *)
(* the deadline it writes (until), the types EnsureReady has yet to check.  *)
Call == [op    : {"none", "create", "expire", "delete"},
         type  : TokenType \cup {Null},
         key   : Key \cup {Null},
         new   : Key \cup {Null},
         grace : Nat,
         until : Nat \cup {Null},
         todo  : SUBSET TokenType]

NoCall == [op |-> "none", type |-> Null, key |-> Null, new |-> Null,
           grace |-> 0, until |-> Null, todo |-> {}]

(* What rows of jwt_signing_keys, the locks on them and the locals of the calls *)
(* of signing_keys.go can be.                                                *)
TypeOK ==
    /\ keyState \in [Key -> {"unborn", "active", "retired", "deleted"}]
    /\ keyType \in [Key -> TokenType \cup {Null}]
    /\ verifyUntil \in [Key -> Nat \cup {Null}]
    /\ lock \in [Key -> Proc \cup {Null}]
    /\ pc \in [Proc -> {"idle", "check", "select", "lock", "byid",
                        "retire", "insert", "commit", "ready"}]
    /\ tx \in [Proc -> Call]
    /\ clock \in Nat
    /\ expired \subseteq TokenType

Init ==
    /\ keyState = [k \in Key |-> "unborn"]
    /\ keyType = [k \in Key |-> Null]
    /\ verifyUntil = [k \in Key |-> Null]
    /\ lock = [k \in Key |-> Null]
    /\ pc = [p \in Proc |-> "idle"]
    /\ tx = [p \in Proc |-> NoCall]
    /\ clock = 0
    /\ expired = {}

-----------------------------------------------------------------------------
(* GetActiveJWTSigningKey, and GetJWTSigningKeyByID, outside a transaction. *)
ActiveKeys(t) == {k \in Key : keyState[k] = "active" /\ keyType[k] = t}
RowExists(k) == keyState[k] \in {"active", "retired"}

(* Mutant of VerificationKey: the deadline itself still verifies (!now.After). *)
VerifiesAtDeadline(k, t, now) ==
    /\ RowExists(k)
    /\ keyType[k] = t
    /\ keyState[k] = "retired" =>
          verifyUntil[k] # Null /\ now <= verifyUntil[k]

(* VerificationKey: an active key of the expected type, or a retired one    *)
(* before its deadline.                                                     *)
VerificationKey(k, t, now) ==
    /\ RowExists(k)
    /\ keyType[k] = t
    /\ keyState[k] = "retired" =>
          verifyUntil[k] # Null /\ now < verifyUntil[k]

(* The partial unique index on (token_type) WHERE state = 'active': a       *)
(* concurrent transaction may still add or remove an entry for type t ...   *)
IndexBusy(p, t) ==
    \E q \in Proc \ {p} :
        \/ tx[q].new # Null /\ tx[q].type = t
        \/ tx[q].until # Null /\ tx[q].key \in ActiveKeys(t)

(* Mutant of IndexTaken: the schema has no unique index on active keys.     *)
NeverTaken(p, t) == FALSE

(* ... or an entry is there that p has not removed itself.                  *)
IndexTaken(p, t) == ActiveKeys(t) \ {tx[p].key} # {}

FreshKeys == {k \in Key : keyState[k] = "unborn" /\ \A q \in Proc : tx[q].new # k}

(* The call of p returns, with or without an error; a transaction that is   *)
(* still open is rolled back (defer tx.Rollback).                           *)
Unlocked(p) == [k \in Key |-> IF lock[k] = p THEN Null ELSE lock[k]]

(* Mutant of Return: without the deferred rollback the row locks stay.      *)
ReturnWithoutRollback(p) ==
    /\ pc' = [pc EXCEPT ![p] = "idle"]
    /\ tx' = [tx EXCEPT ![p] = NoCall]
    /\ UNCHANGED lock

Return(p) ==
    /\ pc' = [pc EXCEPT ![p] = "idle"]
    /\ tx' = [tx EXCEPT ![p] = NoCall]
    /\ lock' = Unlocked(p)

(* Type t is dealt with: EnsureReady looks at the next type, or returns nil *)
(* and the server starts to serve; an operator's call returns.              *)
Proceed(p, t) ==
    LET rest == tx[p].todo \ {t} IN
    /\ pc' = [pc EXCEPT ![p] = IF rest # {} THEN "check"
                                  ELSE IF p \in Server THEN "ready" ELSE "idle"]
    /\ tx' = [tx EXCEPT ![p] = [NoCall EXCEPT !.todo = rest]]
    /\ lock' = Unlocked(p)
-----------------------------------------------------------------------------
(* EnsureReady, called by server.New: for each type, access first, look for *)
(* an active key and create one with no grace period when there is none.    *)
EnsureReady(s) ==
    /\ pc[s] = "idle"
    /\ pc' = [pc EXCEPT ![s] = "check"]
    /\ tx' = [tx EXCEPT ![s] = [NoCall EXCEPT !.todo = TokenType]]
    /\ UNCHANGED <<rows, lock, clock, expired>>

TypeToCheck(s) == IF "access" \in tx[s].todo THEN "access" ELSE "refresh"

CheckFindsKey(s) ==
    /\ pc[s] = "check"
    /\ ActiveKeys(TypeToCheck(s)) # {}
    /\ Proceed(s, TypeToCheck(s))
    /\ UNCHANGED <<rows, clock, expired>>

(* Mutant of CheckFindsNone: ErrNoActiveSigningKey counts as success.       *)
CheckIgnoresNone(s) ==
    /\ pc[s] = "check"
    /\ ActiveKeys(TypeToCheck(s)) = {}
    /\ Proceed(s, TypeToCheck(s))
    /\ UNCHANGED <<rows, clock, expired>>

CheckFindsNone(s) ==
    /\ pc[s] = "check"
    /\ ActiveKeys(TypeToCheck(s)) = {}
    /\ pc' = [pc EXCEPT ![s] = "select"]
    /\ tx' = [tx EXCEPT ![s].op = "create", ![s].type = TypeToCheck(s)]
    /\ UNCHANGED <<rows, lock, clock, expired>>

(* cmd/db jwt-key create: --verify-old-for or, by default, the type's TTL.  *)
CreateSigningKey(o, t, g) ==
    /\ pc[o] = "idle"
    /\ pc' = [pc EXCEPT ![o] = "select"]
    /\ tx' = [tx EXCEPT ![o] = [NoCall EXCEPT !.op = "create", !.type = t,
                                              !.grace = g]]
    /\ UNCHANGED <<rows, lock, clock, expired>>

(* cmd/db jwt-key expire and delete: the operator names any id ever created. *)
ExpireSigningKey(o, k, g) ==
    /\ pc[o] = "idle"
    /\ keyState[k] # "unborn"
    /\ pc' = [pc EXCEPT ![o] = "byid"]
    /\ tx' = [tx EXCEPT ![o] = [NoCall EXCEPT !.op = "expire", !.key = k,
                                              !.grace = g]]
    /\ UNCHANGED <<rows, lock, clock, expired>>

DeleteSigningKey(o, k) ==
    /\ pc[o] = "idle"
    /\ keyState[k] # "unborn"
    /\ pc' = [pc EXCEPT ![o] = "byid"]
    /\ tx' = [tx EXCEPT ![o] = [NoCall EXCEPT !.op = "delete", !.key = k]]
    /\ UNCHANGED <<rows, lock, clock, expired>>
-----------------------------------------------------------------------------
(* GetActiveJWTSigningKeyForUpdate, in two steps: the statement picks the   *)
(* active row of its snapshot, if there is one, ...                         *)
SelectActive(p) ==
    /\ pc[p] = "select"
    /\ \/ \E k \in ActiveKeys(tx[p].type) :
            /\ pc' = [pc EXCEPT ![p] = "lock"]
            /\ tx' = [tx EXCEPT ![p].key = k]
       \/ /\ ActiveKeys(tx[p].type) = {}
          /\ pc' = [pc EXCEPT ![p] = "insert"]
          /\ UNCHANGED tx
    /\ UNCHANGED <<rows, lock, clock, expired>>

(* Mutant of LockActive: the row read by the plain query is retired as it   *)
(* was read (no FOR UPDATE, so nothing looks at it again).                  *)
RetireAsRead(p) ==
    /\ pc[p] = "lock"
    /\ lock[tx[p].key] = Null
    /\ lock' = [lock EXCEPT ![tx[p].key] = p]
    /\ pc' = [pc EXCEPT ![p] = "retire"]
    /\ UNCHANGED <<rows, tx, clock, expired>>

(* ... waits for the row's lock, and reads the row again: it is locked when *)
(* it is still active, and otherwise the query finds nothing.               *)
LockActive(p) ==
    /\ pc[p] = "lock"
    /\ lock[tx[p].key] = Null
    /\ \/ /\ keyState[tx[p].key] = "active"
          /\ lock' = [lock EXCEPT ![tx[p].key] = p]
          /\ pc' = [pc EXCEPT ![p] = "retire"]
          /\ UNCHANGED tx
       \/ /\ keyState[tx[p].key] # "active"
          /\ pc' = [pc EXCEPT ![p] = "insert"]
          /\ tx' = [tx EXCEPT ![p].key = Null]
          /\ UNCHANGED lock
    /\ UNCHANGED <<rows, clock, expired>>

(* Mutant of LockByID: the state of the key to delete is not looked at.      *)
LockAnyByID(p) ==
    /\ pc[p] = "byid"
    /\ RowExists(tx[p].key)
    /\ lock[tx[p].key] = Null
    /\ lock' = [lock EXCEPT ![tx[p].key] = p]
    /\ pc' = [pc EXCEPT ![p] = IF tx[p].op = "expire" THEN "retire" ELSE "commit"]
    /\ UNCHANGED <<rows, tx, clock, expired>>

(* GetJWTSigningKeyByIDForUpdate.  No row: ErrSigningKeyNotFound.  An active *)
(* key is not deleted: ErrCannotDeleteActiveKey.                             *)
LockByID(p) ==
    /\ pc[p] = "byid"
    /\ RowExists(tx[p].key)
    /\ lock[tx[p].key] = Null
    /\ tx[p].op = "delete" => keyState[tx[p].key] # "active"
    /\ lock' = [lock EXCEPT ![tx[p].key] = p]
    /\ pc' = [pc EXCEPT ![p] = IF tx[p].op = "expire" THEN "retire" ELSE "commit"]
    /\ UNCHANGED <<rows, tx, clock, expired>>

RefuseByID(p) ==
    /\ pc[p] = "byid"
    /\ \/ ~RowExists(tx[p].key)
       \/ /\ tx[p].op = "delete"
          /\ keyState[tx[p].key] = "active"
          /\ lock[tx[p].key] = Null
    /\ Return(p)
    /\ UNCHANGED <<rows, clock, expired>>

(* Mutant of RetireSigningKey: the grace period counts backwards.            *)
RetireBackwards(p) ==
    /\ pc[p] = "retire"
    /\ tx' = [tx EXCEPT ![p].until = clock - tx[p].grace]
    /\ pc' = [pc EXCEPT ![p] = IF tx[p].op = "create" THEN "insert" ELSE "commit"]
    /\ UNCHANGED <<rows, lock, clock, expired>>

(* RetireJWTSigningKey: the deadline is computed from the clock as it is now *)
(* and not as it will be at the commit.                                      *)
RetireSigningKey(p) ==
    /\ pc[p] = "retire"
    /\ tx' = [tx EXCEPT ![p].until = clock + tx[p].grace]
    /\ pc' = [pc EXCEPT ![p] = IF tx[p].op = "create" THEN "insert" ELSE "commit"]
    /\ UNCHANGED <<rows, lock, clock, expired>>

(* CreateJWTSigningKey: the INSERT of the new active row, and its failure on *)
(* the unique index (or for want of an id, the bound of the model).          *)
InsertKey(p) ==
    /\ pc[p] = "insert"
    /\ ~IndexBusy(p, tx[p].type)
    /\ ~IndexTaken(p, tx[p].type)
    /\ \E k \in FreshKeys : tx' = [tx EXCEPT ![p].new = k]
    /\ pc' = [pc EXCEPT ![p] = "commit"]
    /\ UNCHANGED <<rows, lock, clock, expired>>

InsertFails(p) ==
    /\ pc[p] = "insert"
    /\ ~IndexBusy(p, tx[p].type)
    /\ IndexTaken(p, tx[p].type) \/ FreshKeys = {}
    /\ Return(p)
    /\ UNCHANGED <<rows, clock, expired>>

(* tx.Commit of each of the three calls.                                     *)
CommitCreate(p) ==
    /\ pc[p] = "commit"
    /\ tx[p].op = "create"
    /\ keyState' = [k \in Key |-> IF k = tx[p].new THEN "active"
                                  ELSE IF k = tx[p].key THEN "retired"
                                  ELSE keyState[k]]
    /\ keyType' = [keyType EXCEPT ![tx[p].new] = tx[p].type]
    /\ verifyUntil' = [k \in Key |-> IF k = tx[p].key THEN tx[p].until
                                     ELSE verifyUntil[k]]
    /\ expired' = expired \ {tx[p].type}
    /\ Proceed(p, tx[p].type)
    /\ UNCHANGED clock

CommitExpire(p) ==
    /\ pc[p] = "commit"
    /\ tx[p].op = "expire"
    /\ keyState' = [keyState EXCEPT ![tx[p].key] = "retired"]
    /\ verifyUntil' = [verifyUntil EXCEPT ![tx[p].key] = tx[p].until]
    /\ expired' = expired \cup {t \in TokenType : tx[p].key \in ActiveKeys(t)}
    /\ Return(p)
    /\ UNCHANGED <<keyType, clock>>

CommitDelete(p) ==
    /\ pc[p] = "commit"
    /\ tx[p].op = "delete"
    /\ keyState' = [keyState EXCEPT ![tx[p].key] = "deleted"]
    /\ Return(p)
    /\ UNCHANGED <<keyType, verifyUntil, clock, expired>>

(* A statement fails, the context is cancelled or the process dies (a server *)
(* that serves, too, may stop): the open transaction is rolled back, by the  *)
(* deferred call or by the database.                                         *)
Abort(p) ==
    /\ pc[p] # "idle"
    /\ Return(p)
    /\ UNCHANGED <<rows, clock, expired>>

Tick ==
    /\ clock < MaxTime
    /\ clock' = clock + 1
    /\ UNCHANGED <<rows, lock, pc, tx, expired>>
-----------------------------------------------------------------------------
Step(p) ==
    \/ CheckFindsKey(p) \/ CheckFindsNone(p)
    \/ SelectActive(p) \/ LockActive(p)
    \/ LockByID(p) \/ RefuseByID(p)
    \/ RetireSigningKey(p)
    \/ InsertKey(p) \/ InsertFails(p)
    \/ CommitCreate(p) \/ CommitExpire(p) \/ CommitDelete(p)

Request(o) ==
    \/ \E t \in TokenType : \E g \in CustomGrace \cup {TTL[t]} : CreateSigningKey(o, t, g)
    \/ \E k \in Key, g \in VerifyFor : ExpireSigningKey(o, k, g)
    \/ \E k \in Key : DeleteSigningKey(o, k)

Next ==
    \/ \E s \in Server : EnsureReady(s)
    \/ \E o \in Operator : Request(o)
    \/ \E p \in Proc : Step(p) \/ Abort(p)
    \/ Tick

Spec == Init /\ [][Next]_vars

(* A call that was made runs on: the Go runtime schedules it, and PostgreSQL *)
(* hands a row lock to the transactions that queue for it in turn (hence     *)
(* strong fairness: the lock may be taken and freed again and again).        *)
Fairness == \A p \in Proc : SF_vars(Step(p))
FairSpec == Spec /\ Fairness
-----------------------------------------------------------------------------
(* At most one active key per token type, although operators and starting    *)
(* servers run CreateSigningKey at the same time and two of them may both     *)
(* find no active row to lock.                                                *)
OneActivePerType == \A k, j \in Key :
    /\ keyState[k] = "active"
    /\ keyState[j] = "active"
    /\ keyType[k] = keyType[j]
    => k = j

(* The row a transaction is about to rewrite is locked by it, and still in    *)
(* the state it was read in: a rotation retires an active key of its own      *)
(* type, and a deletion removes a key that is retired.                        *)
HeldRowIsCurrent == \A p \in Proc :
    pc[p] \in {"retire", "insert", "commit"} /\ tx[p].key # Null =>
        /\ lock[tx[p].key] = p
        /\ tx[p].op = "create" => tx[p].key \in ActiveKeys(tx[p].type)
        /\ tx[p].op = "expire" => RowExists(tx[p].key)
        /\ tx[p].op = "delete" => keyState[tx[p].key] = "retired"

(* A transaction that has inserted its key is the only one that can change    *)
(* which key of that type is active: no other insertion of that type is       *)
(* pending, and the only active key is the one it retires itself.             *)
PendingInsertIsAlone == \A p \in Proc :
    tx[p].new # Null =>
        /\ pc[p] = "commit"
        /\ keyState[tx[p].new] = "unborn"
        /\ ActiveKeys(tx[p].type) \subseteq {tx[p].key}
        /\ \A q \in Proc \ {p} :
              tx[q].new # Null => tx[q].type # tx[p].type /\ tx[q].new # tx[p].new

(* A server that serves (its EnsureReady returned nil) has a key to sign each *)
(* token type with, unless an operator has expired that key and nobody has    *)
(* created another: whatever rotations, deletions, failures and other servers *)
(* did between its look at a type and now, and although its own create may    *)
(* have retired a key that somebody else made in the meantime.                *)
ServingHasKeys == \A s \in Server, t \in TokenType :
    pc[s] = "ready" => ActiveKeys(t) # {} \/ t \in expired

(* Seen through its committed rows, the key store is the life cycle of        *)
(* KeyLifecycle: rotation is atomic, a deadline moves only by expire, and no  *)
(* active key is ever deleted.                                                *)
Lifecycle == INSTANCE KeyLifecycle
                WITH life <- keyState, kind <- keyType, deadline <- verifyUntil
RefinesLifecycle == Lifecycle!Spec

(* A key that has stopped verifying starts again only if an operator expires  *)
(* it anew: no rotation, however delayed, gives it a second grace period.     *)
Lapsed(k) == keyState[k] = "retired" /\ clock >= verifyUntil[k]

LapsedStaysLapsed == [][
    \A k \in Key : Lapsed(k) /\ ~Lapsed(k)' =>
        \/ keyState'[k] = "deleted"
        \/ \E p \in Proc : CommitExpire(p) /\ tx[p].key = k]_vars

(* A token type that has an active key loses it only when an operator expires *)
(* that very key: neither a rotation, nor its failure half way, nor a deletion *)
(* or a starting server ever leaves a moment in which nobody can sign in.     *)
OnlyExpireLeavesGap == [][
    \A t \in TokenType : ActiveKeys(t) # {} /\ ActiveKeys(t)' = {} =>
        \E o \in Operator : CommitExpire(o) /\ tx[o].key \in ActiveKeys(t)]_vars

(* Every call returns, so that its process is idle or serving again and       *)
(* again: no set of transactions waits for each other's row locks and index   *)
(* entries for ever.                                                          *)
EveryCallReturns == \A p \in Proc : []<>(pc[p] \in {"idle", "ready"})
=============================================================================
