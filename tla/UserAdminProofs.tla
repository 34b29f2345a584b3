--------------------------- MODULE UserAdminProofs ---------------------------
(***************************************************************************)
(* Changes of accounts are whole, and the guarantees that survive their     *)
(* overlap: for any number of requests and commands.                        *)
(***************************************************************************)
EXTENDS UserAdmin, FiniteSetTheorems, TLAPS

(* What a call is about, and what it asks for, at each of its statements.   *)
PcShape(p) ==
    /\ pc[p] = "idle" => tx[p].op = "none" /\ tx[p].user = Null
    /\ pc[p] = "count" => tx[p].op = "seed" /\ tx[p].user = Null
    /\ pc[p] = "insert" => tx[p].op \in {"create", "seed"} /\ tx[p].user = Null
    /\ pc[p] \in {"read", "check", "write"} =>
          tx[p].op \in {"update", "delete"} /\ tx[p].user \in User
    /\ pc[p] = "setroles" => tx[p].op = "update" /\ tx[p].user \in User
    /\ pc[p] = "commit" =>
          tx[p].op \in {"create", "update", "delete", "seed"} /\ tx[p].user \in User
    /\ tx[p].op \in {"create", "update", "seed"} => "user" \in tx[p].want
    /\ tx[p].op = "seed" => "tester" \in tx[p].want
    /\ tx[p].op = "delete" => "admin" \notin tx[p].want

(* A change is about an account that was created; a creation is about one   *)
(* that was not, and that no other call knows of.                           *)
BornShape(p) ==
    tx[p].op \in {"update", "delete"} => account[tx[p].user] # "unborn"

NewShape(p) == pc[p] = "commit" /\ tx[p].op \in {"create", "seed"} =>
    /\ account[tx[p].user] = "unborn"
    /\ \A q \in Proc \ {p} : tx[q].user # tx[p].user

(* A change that has written holds the lock of the row, which still exists; *)
(* the roles it is about to replace are all that the account has.           *)
LockShape(p) ==
    pc[p] \in {"setroles", "commit"} /\ tx[p].op \in {"update", "delete"} =>
       /\ lock[tx[p].user] = p
       /\ Exists(tx[p].user)
       /\ pc[p] = "commit" /\ tx[p].op = "update" => tx[p].removed = roles[tx[p].user]

(* A change during which nobody else lost the role "admin" either gives it, *)
(* or found another account that has it.                                    *)
AdminShape(p) == tx[p].op \in {"update", "delete"} /\ ~tx[p].raced =>
    /\ pc[p] = "read" => Admins # {} \/ "admin" \in tx[p].want
    /\ pc[p] \in {"write", "setroles", "commit"} =>
          "admin" \in tx[p].want \/ \E v \in Admins : v # tx[p].user

(* A seeding run during which nobody lost the role "tester" reaches its     *)
(* target with the accounts it still has to create.                         *)
SeedShape(p) == tx[p].op = "seed" /\ pc[p] \in {"insert", "commit"} =>
    /\ tx[p].need > 0
    /\ ~tx[p].raced => Cardinality(Testers) + tx[p].need >= tx[p].target

Shapes(p) ==
    /\ PcShape(p) /\ BornShape(p) /\ NewShape(p)
    /\ LockShape(p) /\ AdminShape(p) /\ SeedShape(p)

(* Accounts that exist are users; those that were not created have no role. *)
RowShape(u) ==
    /\ Exists(u) => "user" \in roles[u]
    /\ account[u] = "unborn" => roles[u] = {}

IInv ==
    /\ TypeOK
    /\ \A p \in Proc : Shapes(p)
    /\ \A u \in User : RowShape(u)

LEMMA Initially == Init => IInv
<1> SUFFICES ASSUME Init PROVE IInv
  OBVIOUS
<1>1. TypeOK
  BY DEF Init, TypeOK, Call, NoCall, Role
<1>2. \A p \in Proc : tx[p] = NoCall /\ pc[p] = "idle"
  BY DEF Init
<1>3. \A p \in Proc : Shapes(p)
  BY <1>2 DEF Shapes, PcShape, BornShape, NewShape, LockShape, AdminShape, SeedShape, NoCall
<1> QED
  BY <1>1, <1>3 DEF Init, IInv, RowShape, Exists

(* Testers can be counted.                                                  *)
LEMMA TestersCount == IsFiniteSet(Testers) /\ Cardinality(Testers) \in Nat
<1>1. Testers \subseteq User
  BY DEF Testers
<1> QED
  BY <1>1, UserAssumption, FS_Subset, FS_CardinalityType

LEMMA CountsAreNumbers ==
    ASSUME NEW call \in Call PROVE call.need \in Nat /\ call.target \in Nat
<1>1. \A t \in {0} \cup Targets : t \in Nat
  BY TargetsAssumption
<1>2. call.need \in Nat /\ call.target \in {0} \cup Targets
  BY DEF Call
<1> QED
  BY <1>1, <1>2

(* A step that commits nothing: only p goes on, and whatever it is about    *)
(* now, it is not what another call is creating.                            *)
LEMMA QuietStep ==
    ASSUME IInv, NEW p \in Proc, NEW call \in Call,
           NEW at \in {"idle", "count", "insert", "read", "check", "write",
                       "setroles", "commit"},
           UNCHANGED <<account, roles>>,
           pc' = [pc EXCEPT ![p] = at], tx' = [tx EXCEPT ![p] = call],
           lock' \in [User -> Proc \cup {Null}],
           \A u \in User, q \in Proc \ {p} : lock[u] = q => lock'[u] = q,
           \/ call.user \in {Null, tx[p].user}
           \/ call.user \in Fresh
           \/ account[call.user] # "unborn",
           Shapes(p)'
    PROVE  IInv'
<1>1. TypeOK'
  BY DEF IInv, TypeOK
<1>2. \A u \in User : RowShape(u)'
  BY DEF IInv, RowShape, Exists
<1>3. /\ pc \in [Proc -> {"idle", "count", "insert", "read", "check", "write",
                          "setroles", "commit"}]
      /\ tx \in [Proc -> Call]
  BY DEF IInv, TypeOK
<1>4. ASSUME NEW q \in Proc \ {p}
      PROVE  Shapes(q)'
  <2>1. pc'[q] = pc[q] /\ tx'[q] = tx[q] /\ tx'[p] = call
    BY <1>3
  <2>2. Shapes(q)
    BY DEF IInv
  <2>3. PcShape(q)' /\ BornShape(q)'
    BY <2>1, <2>2 DEF Shapes, PcShape, BornShape
  <2>4. NewShape(q)'
    <3>1. SUFFICES ASSUME pc[q] = "commit", tx[q].op \in {"create", "seed"}
                   PROVE  \A r \in Proc \ {q} : tx'[r].user # tx[q].user
      BY <2>1, <2>2 DEF Shapes, NewShape
    <3>2. /\ account[tx[q].user] = "unborn" /\ tx[q].user \in User
          /\ \A r \in Proc \ {q} : tx[r].user # tx[q].user
      BY <2>2, <3>1 DEF Shapes, NewShape, PcShape
    <3>3. call.user # tx[q].user
      BY <3>2, NullAssumption DEF Fresh
    <3> QED
      BY <1>3, <2>1, <3>2, <3>3
  <2>5. LockShape(q)'
    BY <2>1, <2>2 DEF Shapes, LockShape, PcShape, Exists
  <2>6. AdminShape(q)'
    BY <2>1, <2>2 DEF Shapes, AdminShape, Admins
  <2>7. SeedShape(q)'
    BY <2>1, <2>2 DEF Shapes, SeedShape, Testers
  <2> QED
    BY <2>3, <2>4, <2>5, <2>6, <2>7 DEF Shapes
<1> QED
  BY <1>1, <1>2, <1>4 DEF IInv

(* A commit of p: one account is written, the one p has locked or inserted. *)
LEMMA CommitStep ==
    ASSUME IInv, NEW p \in Proc, pc[p] = "commit",
           NEW a \in {"active", "inactive", "deleted"}, NEW rs \in SUBSET Role,
           a # "deleted" => "user" \in rs,
           account' = [account EXCEPT ![tx[p].user] = a],
           roles' = [roles EXCEPT ![tx[p].user] = rs],
           NEW next \in {"idle", "insert"}, NEW call \in Call,
           call.user = Null,
           Commit(p, next, call),
           Shapes(p)'
    PROVE  IInv'
<1> DEFINE u == tx[p].user
<1>1. /\ pc \in [Proc -> {"idle", "count", "insert", "read", "check", "write",
                          "setroles", "commit"}]
      /\ tx \in [Proc -> Call]
      /\ account \in [User -> {"unborn", "active", "inactive", "deleted"}]
      /\ roles \in [User -> SUBSET Role]
      /\ lock \in [User -> Proc \cup {Null}]
  BY DEF IInv, TypeOK
<1>2. Shapes(p) /\ u \in User
  BY DEF IInv, Shapes, PcShape
<1>3. ASSUME NEW q \in Proc \ {p}
      PROVE  /\ pc'[q] = pc[q]
             /\ tx'[q] \in Call
             /\ tx'[q].op = tx[q].op /\ tx'[q].user = tx[q].user
             /\ tx'[q].want = tx[q].want /\ tx'[q].removed = tx[q].removed
             /\ tx'[q].need = tx[q].need /\ tx'[q].target = tx[q].target
             /\ ~tx'[q].raced => ~tx[q].raced /\ ~Overtaken(tx[q])
  <2>1. pc'[q] = pc[q]
    BY <1>1 DEF Commit
  <2>2. tx'[q] = [tx[q] EXCEPT !.raced = tx[q].raced \/ Overtaken(tx[q])]
    BY DEF Commit
  <2>3. tx[q] \in Call
    BY <1>1
  <2>4. (tx[q].raced \/ Overtaken(tx[q])) \in BOOLEAN
    OBVIOUS
  <2> QED
    BY <2>1, <2>2, <2>3, <2>4 DEF Call
<1>4. tx'[p] = call /\ pc'[p] = next
  BY <1>1 DEF Commit
<1>5. TypeOK'
  <2>1. tx' \in [Proc -> Call]
    BY <1>3, <1>4 DEF Commit
  <2>2. pc' \in [Proc -> {"idle", "count", "insert", "read", "check", "write",
                          "setroles", "commit"}]
    BY <1>1 DEF Commit
  <2>3. lock' \in [User -> Proc \cup {Null}]
    BY <1>1 DEF Commit, Unlocked
  <2>4. /\ account' \in [User -> {"unborn", "active", "inactive", "deleted"}]
        /\ roles' \in [User -> SUBSET Role]
    BY <1>1
  <2> QED
    BY <2>1, <2>2, <2>3, <2>4 DEF TypeOK
<1>6. \A v \in User : RowShape(v)'
  BY <1>1, <1>2 DEF IInv, RowShape, Exists
<1>7. ASSUME NEW q \in Proc \ {p}
      PROVE  Shapes(q)'
  <2>1. Shapes(q)
    BY DEF IInv
  <2>2. PcShape(q)' /\ BornShape(q)'
    BY <1>1, <1>2, <1>3, <2>1 DEF Shapes, PcShape, BornShape
  <2>3. NewShape(q)'
    <3>1. SUFFICES ASSUME pc[q] = "commit", tx[q].op \in {"create", "seed"}
                   PROVE  /\ account'[tx[q].user] = "unborn"
                          /\ \A r \in Proc \ {q} : tx'[r].user # tx[q].user
      BY <1>3 DEF NewShape
    <3>2. /\ account[tx[q].user] = "unborn" /\ tx[q].user \in User
          /\ \A r \in Proc \ {q} : tx[r].user # tx[q].user
      BY <2>1, <3>1 DEF Shapes, NewShape, PcShape
    <3>3. tx'[p].user = Null /\ tx[q].user # Null
      BY <1>4, <3>2, NullAssumption
    <3>4. \A r \in Proc \ {p} : tx'[r].user = tx[r].user
      BY <1>3
    <3> QED
      BY <1>1, <1>2, <3>2, <3>3, <3>4
  <2>4. LockShape(q)'
    <3>1. SUFFICES ASSUME pc[q] \in {"setroles", "commit"}, tx[q].op \in {"update", "delete"}
                   PROVE  /\ lock'[tx[q].user] = q
                          /\ account'[tx[q].user] \in {"active", "inactive"}
                          /\ pc[q] = "commit" /\ tx[q].op = "update" =>
                                tx[q].removed = roles'[tx[q].user]
      BY <1>3 DEF LockShape, Exists
    <3>2. /\ tx[q].user \in User /\ lock[tx[q].user] = q /\ Exists(tx[q].user)
          /\ pc[q] = "commit" /\ tx[q].op = "update" => tx[q].removed = roles[tx[q].user]
      BY <2>1, <3>1 DEF Shapes, LockShape, PcShape
    <3>3. tx[q].user # u
      BY <1>2, <3>2 DEF Shapes, PcShape, LockShape, NewShape, Exists
    <3>4. lock'[tx[q].user] = q
      BY <1>1, <3>2 DEF Commit, Unlocked
    <3>5. /\ account'[tx[q].user] = account[tx[q].user]
          /\ roles'[tx[q].user] = roles[tx[q].user]
      BY <1>1, <3>2, <3>3
    <3> QED
      BY <3>2, <3>4, <3>5 DEF Exists
  <2>5. AdminShape(q)'
    <3>1. SUFFICES ASSUME tx[q].op \in {"update", "delete"}, ~tx[q].raced, ~Overtaken(tx[q])
                   PROVE  /\ pc[q] = "read" => Admins' # {} \/ "admin" \in tx[q].want
                          /\ pc[q] \in {"write", "setroles", "commit"} =>
                                "admin" \in tx[q].want \/ \E v \in Admins' : v # tx[q].user
      BY <1>3 DEF AdminShape
    <3>2. Admins \subseteq Admins'
      BY <3>1 DEF Overtaken, Counted, Admins
    <3> QED
      BY <2>1, <3>1, <3>2 DEF Shapes, AdminShape
  <2>6. SeedShape(q)'
    <3>1. SUFFICES ASSUME tx[q].op = "seed", pc[q] \in {"insert", "commit"}
                   PROVE  /\ tx[q].need > 0
                          /\ ~tx[q].raced /\ ~Overtaken(tx[q]) =>
                                Cardinality(Testers') + tx[q].need >= tx[q].target
      BY <1>3 DEF SeedShape
    <3>2. SUFFICES ASSUME ~tx[q].raced, ~Overtaken(tx[q])
                   PROVE  Cardinality(Testers') + tx[q].need >= tx[q].target
      BY <2>1, <3>1 DEF Shapes, SeedShape
    <3>3. Testers \subseteq Testers'
      BY <3>1, <3>2 DEF Overtaken, Counted, Testers
    <3>4. Testers' \subseteq User
      BY DEF Testers
    <3>5. /\ Cardinality(Testers) <= Cardinality(Testers')
          /\ Cardinality(Testers) \in Nat /\ Cardinality(Testers') \in Nat
      BY <3>3, <3>4, TestersCount, UserAssumption, FS_Subset, FS_CardinalityType
    <3>6. tx[q].need \in Nat /\ tx[q].target \in Nat
      <4>1. tx[q] \in Call
        BY <1>1
      <4> QED
        BY <4>1, CountsAreNumbers
    <3> QED
      BY <2>1, <3>1, <3>2, <3>5, <3>6 DEF Shapes, SeedShape
  <2> QED
    BY <2>2, <2>3, <2>4, <2>5, <2>6 DEF Shapes
<1> QED
  BY <1>5, <1>6, <1>7 DEF IInv
-----------------------------------------------------------------------------
LEMMA NormalRoles == ASSUME NEW rs PROVE normalizeRoles(rs) \in SUBSET Role /\ "user" \in normalizeRoles(rs)
BY DEF normalizeRoles, Role

(* A call begins.                                                           *)
LEMMA BeginStep ==
    ASSUME IInv, NEW p \in Proc, NEW call \in Call,
           NEW at \in {"count", "insert", "read"}, Begin(p, call, at),
           \/ at = "count" /\ call.op = "seed" /\ call.user = Null
                           /\ "user" \in call.want /\ "tester" \in call.want
           \/ at = "insert" /\ call.op = "create" /\ call.user = Null /\ "user" \in call.want
           \/ at = "read" /\ call.user \in User /\ account[call.user] # "unborn"
                          /\ (Admins # {} \/ "admin" \in call.want)
                          /\ \/ call.op = "update" /\ "user" \in call.want
                             \/ call.op = "delete" /\ call.want = {}
    PROVE  IInv'
<1>1. /\ tx \in [Proc -> Call] /\ lock \in [User -> Proc \cup {Null}]
      /\ pc \in [Proc -> {"idle", "count", "insert", "read", "check", "write",
                          "setroles", "commit"}]
  BY DEF IInv, TypeOK
<1>2. /\ tx'[p] = call /\ pc'[p] = at
      /\ pc' = [pc EXCEPT ![p] = at] /\ tx' = [tx EXCEPT ![p] = call]
      /\ UNCHANGED <<account, roles, lock>>
  BY <1>1 DEF Begin
<1>3. Shapes(p)'
  BY <1>2 DEF Shapes, PcShape, BornShape, NewShape, LockShape, AdminShape, SeedShape, Admins
<1>4. call.user = Null \/ account[call.user] # "unborn"
  OBVIOUS
<1> QED
  BY <1>1, <1>2, <1>3, <1>4, QuietStep

(* A call returns without having committed anything.                        *)
LEMMA ReturnStep ==
    ASSUME IInv, NEW p \in Proc, Return(p), UNCHANGED <<account, roles>>
    PROVE  IInv'
<1>1. /\ tx \in [Proc -> Call] /\ lock \in [User -> Proc \cup {Null}]
      /\ pc \in [Proc -> {"idle", "count", "insert", "read", "check", "write",
                          "setroles", "commit"}]
  BY DEF IInv, TypeOK
<1>2. /\ tx'[p] = NoCall /\ pc'[p] = "idle" /\ NoCall \in Call /\ NoCall.user = Null
      /\ NoCall.op = "none"
  BY <1>1 DEF Return, NoCall, Call
<1>3. Shapes(p)'
  BY <1>2 DEF Shapes, PcShape, BornShape, NewShape, LockShape, AdminShape, SeedShape
<1>4. /\ lock' \in [User -> Proc \cup {Null}]
      /\ \A u \in User, q \in Proc \ {p} : lock[u] = q => lock'[u] = q
  BY <1>1 DEF Return, Unlocked
<1> QED
  BY <1>2, <1>3, <1>4, QuietStep DEF Return
-----------------------------------------------------------------------------
(* The statements before the commit.                                        *)
LEMMA CountStep == ASSUME IInv, NEW p \in Proc, CountTesters(p) PROVE IInv'
<1> DEFINE call == [tx[p] EXCEPT !.need = tx[p].target - Cardinality(Testers)]
<1>1. /\ tx \in [Proc -> Call] /\ tx[p] \in Call /\ lock \in [User -> Proc \cup {Null}]
      /\ pc \in [Proc -> {"idle", "count", "insert", "read", "check", "write",
                          "setroles", "commit"}]
  BY DEF IInv, TypeOK
<1>2. Shapes(p) /\ pc[p] = "count"
  BY DEF IInv, CountTesters
<1>3. /\ tx[p].target \in Nat /\ Cardinality(Testers) \in Nat
      /\ tx[p].target > Cardinality(Testers)
      /\ tx[p].target - Cardinality(Testers) \in Nat
      /\ tx[p].target - Cardinality(Testers) > 0
      /\ Cardinality(Testers) + (tx[p].target - Cardinality(Testers)) = tx[p].target
  <2>1. tx[p].target \in Nat
    BY <1>1, CountsAreNumbers
  <2> QED
    BY <2>1, TestersCount DEF CountTesters
<1>4. /\ call \in Call /\ call.op = tx[p].op /\ call.user = tx[p].user
      /\ call.want = tx[p].want /\ call.target = tx[p].target
      /\ call.need = tx[p].target - Cardinality(Testers)
  BY <1>1, <1>3 DEF Call
<1>5. /\ tx' = [tx EXCEPT ![p] = call] /\ pc' = [pc EXCEPT ![p] = "insert"]
      /\ UNCHANGED <<account, roles, lock>>
  BY <1>1 DEF CountTesters
<1>6. tx'[p] = call /\ pc'[p] = "insert" /\ Testers' = Testers
  BY <1>1, <1>5 DEF Testers
<1> HIDE DEF call
<1>7. Shapes(p)'
  <2>1. PcShape(p)' /\ BornShape(p)' /\ NewShape(p)' /\ LockShape(p)' /\ AdminShape(p)'
    BY <1>2, <1>4, <1>6 DEF Shapes, PcShape, BornShape, NewShape, LockShape, AdminShape
  <2>2. SeedShape(p)'
    BY <1>3, <1>4, <1>6 DEF SeedShape
  <2> QED
    BY <2>1, <2>2 DEF Shapes
<1> QED
  BY <1>1, <1>4, <1>5, <1>7, QuietStep

LEMMA InsertStep == ASSUME IInv, NEW p \in Proc, InsertUser(p) PROVE IInv'
<1>1. /\ tx \in [Proc -> Call] /\ tx[p] \in Call /\ lock \in [User -> Proc \cup {Null}]
      /\ pc \in [Proc -> {"idle", "count", "insert", "read", "check", "write",
                          "setroles", "commit"}]
  BY DEF IInv, TypeOK
<1>2. Shapes(p) /\ pc[p] = "insert"
  BY DEF IInv, InsertUser
<1>3. PICK u \in Fresh : tx' = [tx EXCEPT ![p].user = u]
  BY DEF InsertUser
<1> DEFINE call == [tx[p] EXCEPT !.user = u]
<1>4. u \in User /\ account[u] = "unborn" /\ \A q \in Proc : tx[q].user # u
  BY DEF Fresh
<1>5. /\ call \in Call /\ call.op = tx[p].op /\ call.user = u
      /\ call.want = tx[p].want /\ call.target = tx[p].target
      /\ call.need = tx[p].need /\ call.raced = tx[p].raced
  BY <1>1, <1>4 DEF Call
<1>6. /\ tx' = [tx EXCEPT ![p] = call] /\ pc' = [pc EXCEPT ![p] = "commit"]
      /\ UNCHANGED <<account, roles, lock>>
  BY <1>1, <1>3 DEF InsertUser
<1>7. /\ tx'[p] = call /\ pc'[p] = "commit" /\ Testers' = Testers
      /\ \A q \in Proc \ {p} : tx'[q] = tx[q]
  BY <1>1, <1>6 DEF Testers
<1> HIDE DEF call
<1>8. Shapes(p)'
  <2>1. PcShape(p)' /\ BornShape(p)' /\ NewShape(p)' /\ LockShape(p)' /\ AdminShape(p)'
    BY <1>2, <1>4, <1>5, <1>6, <1>7
       DEF Shapes, PcShape, BornShape, NewShape, LockShape, AdminShape
  <2>2. SeedShape(p)'
    BY <1>2, <1>5, <1>7 DEF Shapes, SeedShape
  <2> QED
    BY <2>1, <2>2 DEF Shapes
<1> QED
  BY <1>1, <1>5, <1>6, <1>8, QuietStep

LEMMA ReadStep ==
    ASSUME IInv, NEW p \in Proc, ReadUser(p) \/ (pc[p] = "check" /\ CountAdmins(p))
    PROVE  IInv'
<1>1. /\ tx \in [Proc -> Call] /\ tx[p] \in Call /\ lock \in [User -> Proc \cup {Null}]
      /\ pc \in [Proc -> {"idle", "count", "insert", "read", "check", "write",
                          "setroles", "commit"}]
  BY DEF IInv, TypeOK
<1>2. Shapes(p) /\ pc[p] \in {"read", "check"}
  BY DEF IInv, ReadUser
<1>3. CASE Return(p) /\ UNCHANGED <<account, roles>>
  BY <1>3, ReturnStep
<1>4. ASSUME NEW at \in {"check", "write"}, pc' = [pc EXCEPT ![p] = at],
             UNCHANGED <<account, roles, lock, tx>>,
             at = "write" /\ ~tx[p].raced =>
                "admin" \in tx[p].want \/ \E v \in Admins : v # tx[p].user
      PROVE  IInv'
  <2>1. pc'[p] = at /\ tx'[p] = tx[p] /\ Admins' = Admins
    BY <1>1, <1>4 DEF Admins
  <2>2. Shapes(p)'
    BY <1>2, <1>4, <2>1
       DEF Shapes, PcShape, BornShape, NewShape, LockShape, AdminShape, SeedShape
  <2>3. tx' = [tx EXCEPT ![p] = tx[p]]
    BY <1>1, <1>4
  <2> QED
    BY <1>1, <1>4, <2>2, <2>3, QuietStep
<1>5. CASE ReadUser(p)
  <2> DEFINE seen == roles[tx[p].user]
  <2>1. tx[p].op \in {"update", "delete"} /\ tx[p].user \in User
    BY <1>2, <1>5 DEF ReadUser, Shapes, PcShape
  <2>2. CASE TakesAdmin(tx[p], seen)
    BY <1>1, <1>4, <1>5, <2>2 DEF ReadUser
  <2>3. CASE ~TakesAdmin(tx[p], seen)
    <3>1. ~tx[p].raced => Admins # {} \/ "admin" \in tx[p].want
      BY <1>2, <1>5, <2>1 DEF ReadUser, Shapes, AdminShape
    <3>2. "admin" \notin seen \/ "admin" \in tx[p].want
      BY <2>1, <2>3 DEF TakesAdmin
    <3>3. ~tx[p].raced => "admin" \in tx[p].want \/ \E v \in Admins : v # tx[p].user
      BY <3>1, <3>2 DEF Admins
    <3> QED
      BY <1>4, <1>5, <2>3, <3>3 DEF ReadUser
  <2> QED
    BY <2>2, <2>3
<1>6. CASE CountAdmins(p) /\ ~lastAdmin
  <2>1. \E v \in Admins : v # tx[p].user
    <3>1. SUFFICES ASSUME Admins \subseteq {tx[p].user}
                   PROVE  Cardinality(Admins) <= 1
      BY <1>6 DEF lastAdmin
    <3>2. Admins = {} \/ Admins = {tx[p].user}
      BY <3>1
    <3>3. Cardinality(Admins) = 0 \/ Cardinality(Admins) = 1
      BY <3>2, FS_EmptySet, FS_Singleton
    <3> QED
      BY <3>3
  <2>2. CASE Return(p)
    BY <1>3, <1>6, <2>2 DEF CountAdmins
  <2>3. CASE pc' = [pc EXCEPT ![p] = "write"] /\ UNCHANGED <<lock, tx>>
    BY <1>4, <1>6, <2>1, <2>3 DEF CountAdmins
  <2> QED
    BY <1>6, <2>2, <2>3 DEF CountAdmins
<1> QED
  BY <1>3, <1>5, <1>6 DEF CountAdmins

LEMMA WriteStep == ASSUME IInv, NEW p \in Proc, WriteUser(p) PROVE IInv'
<1>1. /\ tx \in [Proc -> Call] /\ tx[p] \in Call /\ lock \in [User -> Proc \cup {Null}]
      /\ pc \in [Proc -> {"idle", "count", "insert", "read", "check", "write",
                          "setroles", "commit"}]
  BY DEF IInv, TypeOK
<1>2. Shapes(p) /\ pc[p] = "write" /\ tx[p].op \in {"update", "delete"} /\ tx[p].user \in User
  BY DEF IInv, WriteUser, Shapes, PcShape
<1> DEFINE at == IF tx[p].op = "update" THEN "setroles" ELSE "commit"
<1>3. /\ pc' = [pc EXCEPT ![p] = at] /\ tx' = [tx EXCEPT ![p] = tx[p]]
      /\ UNCHANGED <<account, roles, tx>>
      /\ lock' = [lock EXCEPT ![tx[p].user] = p] /\ lock[tx[p].user] = Null
      /\ Exists(tx[p].user)
  BY <1>1 DEF WriteUser
<1>4. /\ lock' \in [User -> Proc \cup {Null}] /\ lock'[tx[p].user] = p
      /\ \A u \in User, q \in Proc \ {p} : lock[u] = q => lock'[u] = q
  BY <1>1, <1>2, <1>3, NullAssumption
<1>5. /\ pc'[p] = at /\ tx'[p] = tx[p] /\ Admins' = Admins
      /\ Exists(tx[p].user)'
  BY <1>1, <1>3 DEF Admins, Exists
<1>6. Shapes(p)'
  BY <1>2, <1>3, <1>4, <1>5
     DEF Shapes, PcShape, BornShape, NewShape, LockShape, AdminShape, SeedShape, Exists
<1> QED
  BY <1>1, <1>3, <1>4, <1>6, QuietStep

LEMMA SetRolesStep == ASSUME IInv, NEW p \in Proc, setRoles(p) PROVE IInv'
<1> DEFINE call == [tx[p] EXCEPT !.removed = roles[tx[p].user]]
<1>1. /\ tx \in [Proc -> Call] /\ tx[p] \in Call /\ lock \in [User -> Proc \cup {Null}]
      /\ roles \in [User -> SUBSET Role]
      /\ pc \in [Proc -> {"idle", "count", "insert", "read", "check", "write",
                          "setroles", "commit"}]
  BY DEF IInv, TypeOK
<1>2. Shapes(p) /\ pc[p] = "setroles" /\ tx[p].op = "update" /\ tx[p].user \in User
  BY DEF IInv, setRoles, Shapes, PcShape
<1>3. /\ call \in Call /\ call.op = tx[p].op /\ call.user = tx[p].user
      /\ call.want = tx[p].want /\ call.removed = roles[tx[p].user]
      /\ call.raced = tx[p].raced
  BY <1>1, <1>2 DEF Call
<1>4. /\ tx' = [tx EXCEPT ![p] = call] /\ pc' = [pc EXCEPT ![p] = "commit"]
      /\ UNCHANGED <<account, roles, lock>>
  BY <1>1 DEF setRoles
<1>5. tx'[p] = call /\ pc'[p] = "commit" /\ Admins' = Admins
  BY <1>1, <1>4 DEF Admins
<1> HIDE DEF call
<1>6. Shapes(p)'
  BY <1>2, <1>3, <1>4, <1>5
     DEF Shapes, PcShape, BornShape, NewShape, LockShape, AdminShape, SeedShape, Exists
<1> QED
  BY <1>1, <1>3, <1>4, <1>6, QuietStep
-----------------------------------------------------------------------------
(* A create or an update leaves exactly the roles it was asked for.         *)
LEMMA WrittenIsWanted ==
    ASSUME IInv, NEW p \in Proc, CommitWrite(p)
    PROVE  /\ tx[p].user \in User
           /\ roles' = [roles EXCEPT ![tx[p].user] = tx[p].want]
           /\ tx[p].want \in SUBSET Role /\ "user" \in tx[p].want
           /\ tx[p].op = "update" => Exists(tx[p].user)
           /\ tx[p].op = "create" => roles[tx[p].user] = {}
           /\ account[tx[p].user] # "deleted"
<1>1. tx[p] \in Call /\ roles \in [User -> SUBSET Role]
  BY DEF IInv, TypeOK
<1>2. Shapes(p) /\ pc[p] = "commit" /\ tx[p].op \in {"create", "update"}
  BY DEF IInv, CommitWrite
<1>3. tx[p].user \in User /\ tx[p].want \in SUBSET Role /\ "user" \in tx[p].want
  BY <1>1, <1>2 DEF Shapes, PcShape, Call
<1>4. /\ tx[p].op = "update" => /\ Exists(tx[p].user)
                                /\ tx[p].removed = roles[tx[p].user]
      /\ tx[p].op = "create" => /\ account[tx[p].user] = "unborn"
                                /\ roles[tx[p].user] = {}
  BY <1>2, <1>3 DEF IInv, Shapes, LockShape, NewShape, RowShape
<1>5. (roles[tx[p].user] \ tx[p].removed) \cup tx[p].want = tx[p].want
  BY <1>2, <1>4
<1> QED
  BY <1>1, <1>2, <1>3, <1>4, <1>5 DEF CommitWrite, Exists

LEMMA WriteCommits == ASSUME IInv, NEW p \in Proc, CommitWrite(p) PROVE IInv'
<1>1. tx \in [Proc -> Call] /\ pc[p] = "commit"
  BY DEF IInv, TypeOK, CommitWrite
<1>2. /\ roles' = [roles EXCEPT ![tx[p].user] = tx[p].want]
      /\ tx[p].want \in SUBSET Role /\ "user" \in tx[p].want
  BY WrittenIsWanted
<1>3. Commit(p, "idle", NoCall) /\ NoCall \in Call /\ NoCall.user = Null /\ NoCall.op = "none"
  BY DEF CommitWrite, NoCall, Call
<1>4. tx'[p] = NoCall /\ pc'[p] = "idle"
  BY <1>3 DEF Commit, IInv, TypeOK
<1>5. Shapes(p)'
  BY <1>3, <1>4
     DEF Shapes, PcShape, BornShape, NewShape, LockShape, AdminShape, SeedShape
<1>6. PICK a \in {"active", "inactive"} : account' = [account EXCEPT ![tx[p].user] = a]
  BY DEF CommitWrite
<1> QED
  BY <1>1, <1>2, <1>3, <1>5, <1>6, CommitStep

LEMMA DeleteCommits == ASSUME IInv, NEW p \in Proc, CommitDelete(p) PROVE IInv'
<1>1. tx \in [Proc -> Call] /\ pc[p] = "commit"
  BY DEF IInv, TypeOK, CommitDelete
<1>2. /\ roles' = [roles EXCEPT ![tx[p].user] = {}] /\ {} \in SUBSET Role
      /\ account' = [account EXCEPT ![tx[p].user] = "deleted"]
  BY DEF CommitDelete
<1>3. Commit(p, "idle", NoCall) /\ NoCall \in Call /\ NoCall.user = Null /\ NoCall.op = "none"
  BY DEF CommitDelete, NoCall, Call
<1>4. tx'[p] = NoCall /\ pc'[p] = "idle"
  BY <1>3 DEF Commit, IInv, TypeOK
<1>5. Shapes(p)'
  BY <1>3, <1>4
     DEF Shapes, PcShape, BornShape, NewShape, LockShape, AdminShape, SeedShape
<1> QED
  BY <1>1, <1>2, <1>3, <1>5, CommitStep

(* A seeded account is one tester more.                                     *)
LEMMA OneTesterMore ==
    ASSUME IInv, NEW p \in Proc, CommitTester(p)
    PROVE  /\ tx[p].user \in User /\ account[tx[p].user] = "unborn"
           /\ tx[p].want \in SUBSET Role /\ "user" \in tx[p].want
           /\ Cardinality(Testers') = Cardinality(Testers) + 1
           /\ tx[p].need \in Nat /\ tx[p].need > 0 /\ tx[p].target \in Nat
           /\ ~tx[p].raced => Cardinality(Testers) + tx[p].need >= tx[p].target
<1>1. tx[p] \in Call /\ roles \in [User -> SUBSET Role]
  BY DEF IInv, TypeOK
<1>2. Shapes(p) /\ pc[p] = "commit" /\ tx[p].op = "seed"
  BY DEF IInv, CommitTester
<1>3. /\ tx[p].user \in User /\ account[tx[p].user] = "unborn"
      /\ tx[p].want \in SUBSET Role /\ "user" \in tx[p].want /\ "tester" \in tx[p].want
  BY <1>1, <1>2 DEF Shapes, PcShape, NewShape, Call
<1>4. tx[p].user \notin Testers
  BY <1>3 DEF IInv, RowShape, Testers
<1>5. Testers' = Testers \cup {tx[p].user}
  BY <1>1, <1>3 DEF CommitTester, Testers
<1>6. Cardinality(Testers') = Cardinality(Testers) + 1
  BY <1>4, <1>5, TestersCount, FS_AddElement
<1> QED
  BY <1>1, <1>2, <1>3, <1>6, CountsAreNumbers DEF Shapes, SeedShape

LEMMA TesterCommits == ASSUME IInv, NEW p \in Proc, CommitTester(p) PROVE IInv'
<1>1. tx \in [Proc -> Call] /\ tx[p] \in Call /\ pc[p] = "commit" /\ tx[p].op = "seed"
  BY DEF IInv, TypeOK, CommitTester
<1>2. /\ roles' = [roles EXCEPT ![tx[p].user] = tx[p].want]
      /\ account' = [account EXCEPT ![tx[p].user] = "active"]
  BY DEF CommitTester
<1>3. tx[p].want \in SUBSET Role /\ "user" \in tx[p].want
  BY OneTesterMore
<1>4. CASE tx[p].need > 1
  <2> DEFINE call == [tx[p] EXCEPT !.need = tx[p].need - 1, !.user = Null]
  <2>1. tx[p].need \in Nat /\ tx[p].need - 1 \in Nat /\ tx[p].need - 1 > 0
    BY <1>1, <1>4, CountsAreNumbers
  <2>2. /\ call \in Call /\ call.user = Null /\ call.op = "seed"
        /\ call.want = tx[p].want /\ call.target = tx[p].target
        /\ call.need = tx[p].need - 1 /\ call.raced = tx[p].raced
    BY <1>1, <2>1 DEF Call
  <2>3. Commit(p, "insert", call)
    BY <1>4 DEF CommitTester
  <2> HIDE DEF call
  <2>4. tx'[p] = call /\ pc'[p] = "insert"
    BY <2>3 DEF Commit, IInv, TypeOK
  <2>5. PcShape(p)' /\ BornShape(p)' /\ NewShape(p)' /\ LockShape(p)' /\ AdminShape(p)'
    <3>1. Shapes(p)
      BY DEF IInv
    <3> QED
      BY <1>1, <2>2, <2>4, <3>1
         DEF Shapes, PcShape, BornShape, NewShape, LockShape, AdminShape
  <2>6. SeedShape(p)'
    <3>1. /\ Cardinality(Testers') = Cardinality(Testers) + 1
          /\ Cardinality(Testers) \in Nat
          /\ ~tx[p].raced => Cardinality(Testers) + tx[p].need >= tx[p].target
          /\ tx[p].target \in Nat
      BY OneTesterMore, TestersCount
    <3>2. ~tx[p].raced => Cardinality(Testers') + (tx[p].need - 1) >= tx[p].target
      BY <2>1, <3>1
    <3> QED
      BY <2>1, <2>2, <2>4, <3>2 DEF SeedShape
  <2>7. Shapes(p)'
    BY <2>5, <2>6 DEF Shapes
  <2> QED
    BY <1>1, <1>2, <1>3, <2>2, <2>3, <2>7, CommitStep
<1>5. CASE ~(tx[p].need > 1)
  <2>1. Commit(p, "idle", NoCall) /\ NoCall \in Call /\ NoCall.user = Null /\ NoCall.op = "none"
    BY <1>5 DEF CommitTester, NoCall, Call
  <2>2. tx'[p] = NoCall /\ pc'[p] = "idle"
    BY <2>1 DEF Commit, IInv, TypeOK
  <2>3. Shapes(p)'
    BY <2>1, <2>2
       DEF Shapes, PcShape, BornShape, NewShape, LockShape, AdminShape, SeedShape
  <2> QED
    BY <1>1, <1>2, <1>3, <2>1, <2>3, CommitStep
<1> QED
  BY <1>4, <1>5
-----------------------------------------------------------------------------
LEMMA Begins ==
    ASSUME IInv,
           NEW p \in Proc,
           \/ CreateUser(p) \/ UpdateUser(p) \/ DeleteUser(p) \/ Register(p)
           \/ EnsureBootstrapAdmin(p) \/ SeedTesters(p)
    PROVE  IInv'
<1>1. ASSUME NEW rs, NEW on \in BOOLEAN, Begin(p, Creation(rs, on), "insert")
      PROVE  IInv'
  <2>1. /\ Creation(rs, on) \in Call /\ Creation(rs, on).op = "create"
        /\ Creation(rs, on).user = Null /\ "user" \in Creation(rs, on).want
    <3>1. normalizeRoles(rs) \in SUBSET Role /\ "user" \in normalizeRoles(rs)
      BY NormalRoles
    <3> QED
      BY <3>1 DEF Creation, NoCall, Call
  <2> QED
    BY <1>1, <2>1, BeginStep
<1>2. ASSUME NEW u \in User, NEW rs, NEW on \in BOOLEAN, account[u] # "unborn",
             Admins # {} \/ "admin" \in normalizeRoles(rs), Begin(p, Change(u, rs, on), "read")
      PROVE  IInv'
  <2>1. /\ Change(u, rs, on) \in Call /\ Change(u, rs, on).op = "update"
        /\ Change(u, rs, on).user = u /\ Change(u, rs, on).want = normalizeRoles(rs)
        /\ "user" \in Change(u, rs, on).want
    <3>1. normalizeRoles(rs) \in SUBSET Role /\ "user" \in normalizeRoles(rs)
      BY NormalRoles
    <3> QED
      BY <3>1 DEF Change, NoCall, Call
  <2> QED
    BY <1>2, <2>1, BeginStep
<1>3. CASE CreateUser(p)
  BY <1>1, <1>3 DEF CreateUser
<1>4. CASE UpdateUser(p)
  BY <1>2, <1>4 DEF UpdateUser, ActiveAdmins
<1>5. CASE DeleteUser(p)
  <2>1. PICK a \in ActiveAdmins : \E u \in User \ {a} :
           account[u] # "unborn" /\ Begin(p, [NoCall EXCEPT !.op = "delete", !.user = u], "read")
    BY <1>5 DEF DeleteUser
  <2>2. PICK u \in User \ {a} :
           account[u] # "unborn" /\ Begin(p, [NoCall EXCEPT !.op = "delete", !.user = u], "read")
    BY <2>1
  <2> DEFINE call == [NoCall EXCEPT !.op = "delete", !.user = u]
  <2>3. call \in Call /\ call.op = "delete" /\ call.user = u /\ call.want = {}
    BY DEF NoCall, Call
  <2>4. Admins # {}
    BY <2>1 DEF ActiveAdmins
  <2> HIDE DEF call
  <2>5. Begin(p, call, "read")
    BY <2>2 DEF call
  <2> QED
    BY <2>2, <2>3, <2>4, <2>5, BeginStep
<1>6. CASE Register(p)
  BY <1>1, <1>6 DEF Register
<1>7. CASE EnsureBootstrapAdmin(p)
  <2>1. "admin" \in normalizeRoles({"admin"})
    BY DEF normalizeRoles, Role
  <2>2. CASE Begin(p, Creation({"admin"}, TRUE), "insert")
    BY <1>1, <2>2
  <2>3. ASSUME NEW u \in User, Exists(u), Begin(p, Change(u, {"admin"}, TRUE), "read")
        PROVE  IInv'
    BY <1>2, <2>1, <2>3 DEF Exists
  <2> QED
    BY <1>7, <2>2, <2>3 DEF EnsureBootstrapAdmin
<1>8. CASE SeedTesters(p)
  <2>1. PICK target \in Targets : Begin(p,
           [Creation({"tester"}, TRUE) EXCEPT !.op = "seed", !.target = target], "count")
    BY <1>8 DEF SeedTesters
  <2> DEFINE call == [Creation({"tester"}, TRUE) EXCEPT !.op = "seed", !.target = target]
  <2>2. /\ call \in Call /\ call.op = "seed" /\ call.user = Null
        /\ "user" \in call.want /\ "tester" \in call.want
    BY DEF Creation, normalizeRoles, Role, NoCall, Call
  <2> HIDE DEF call
  <2>3. Begin(p, call, "count")
    BY <2>1 DEF call
  <2> QED
    BY <2>2, <2>3, BeginStep
<1> QED
  BY <1>3, <1>4, <1>5, <1>6, <1>7, <1>8

LEMMA Preserved == IInv /\ [Next]_vars => IInv'
<1> SUFFICES ASSUME IInv, [Next]_vars PROVE IInv'
  OBVIOUS
<1>1. CASE UNCHANGED vars
  <2>1. TypeOK' /\ \A u \in User : RowShape(u)'
    BY <1>1 DEF vars, IInv, TypeOK, RowShape, Exists
  <2>2. ASSUME NEW p \in Proc
        PROVE  Shapes(p)'
    <3>1. Shapes(p) /\ UNCHANGED <<account, roles, lock, pc, tx>>
      BY <1>1 DEF IInv, vars
    <3>2. PcShape(p)' /\ BornShape(p)' /\ NewShape(p)' /\ LockShape(p)'
      BY <3>1 DEF Shapes, PcShape, BornShape, NewShape, LockShape, Exists
    <3>3. AdminShape(p)' /\ SeedShape(p)'
      BY <3>1 DEF Shapes, AdminShape, SeedShape, Admins, Testers
    <3> QED
      BY <3>2, <3>3 DEF Shapes
  <2> QED
    BY <2>1, <2>2 DEF IInv
<1>2. ASSUME NEW r \in Request, CreateUser(r) \/ UpdateUser(r) \/ DeleteUser(r) \/ Register(r)
      PROVE  IInv'
  BY <1>2, Begins DEF Proc
<1>3. ASSUME NEW s \in Command, EnsureBootstrapAdmin(s) \/ SeedTesters(s)
      PROVE  IInv'
  BY <1>3, Begins DEF Proc
<1>4. ASSUME NEW p \in Proc, Abort(p) \/ EnoughTesters(p) \/ ReadNothing(p) \/ WriteNothing(p)
      PROVE  IInv'
  BY <1>4, ReturnStep DEF Abort, EnoughTesters, ReadNothing, WriteNothing
<1>5. ASSUME NEW p \in Proc, CountAdmins(p)
      PROVE  IInv'
  BY <1>5, ReadStep DEF CountAdmins
<1>6. ASSUME NEW p \in Proc, Step(p)
      PROVE  IInv'
  BY <1>4, <1>5, <1>6, CountStep, InsertStep, ReadStep, WriteStep, SetRolesStep,
     WriteCommits, TesterCommits, DeleteCommits DEF Step
<1> QED
  BY <1>1, <1>2, <1>3, <1>4, <1>6 DEF Next
-----------------------------------------------------------------------------
(* What a call is about, who holds the rows, and what stays true of it      *)
(* while others commit, always hold.                                        *)
THEOREM Invariance == Spec => []IInv
<1>1. Init => IInv
  BY Initially
<1>2. IInv /\ [Next]_vars => IInv'
  BY Preserved
<1> QED
  BY <1>1, <1>2, PTL DEF Spec

(* No other step changes the accounts.                                      *)
LEMMA OnlyCommitsWrite ==
    ASSUME [Next]_vars, \A p \in Proc : ~(CommitWrite(p) \/ CommitTester(p) \/ CommitDelete(p))
    PROVE  UNCHANGED <<account, roles>>
BY DEF Next, vars, Step, CreateUser, UpdateUser, DeleteUser, Register, EnsureBootstrapAdmin,
       SeedTesters, Begin, CountTesters, EnoughTesters, InsertUser, ReadUser, ReadNothing,
       CountAdmins, WriteUser, WriteNothing, setRoles, Abort

LEMMA DeletedStays ==
    ASSUME IInv, [Next]_vars, NEW u \in User, account[u] = "deleted"
    PROVE  account'[u] = "deleted"
<1>1. account \in [User -> {"unborn", "active", "inactive", "deleted"}]
  BY DEF IInv, TypeOK
<1>2. ASSUME NEW p \in Proc, CommitWrite(p)
      PROVE  account'[u] = "deleted"
  BY <1>1, <1>2, WrittenIsWanted DEF CommitWrite
<1>3. ASSUME NEW p \in Proc, CommitTester(p)
      PROVE  account'[u] = "deleted"
  BY <1>1, <1>3, OneTesterMore DEF CommitTester
<1>4. ASSUME NEW p \in Proc, CommitDelete(p)
      PROVE  account'[u] = "deleted"
  BY <1>1, <1>4 DEF CommitDelete
<1> QED
  BY <1>2, <1>3, <1>4, OnlyCommitsWrite

(* Changes of one account never mix: a commit leaves the roles it was asked *)
(* for, on an account that was there; deleted accounts stay deleted, and    *)
(* every account is a user.                                                 *)
THEOREM ChangesDoNotMix == Spec => ChangesAreWhole
<1>1. ASSUME IInv, IInv', [Next]_vars
      PROVE  /\ TypeOK'
             /\ \A p \in Proc : CommitWrite(p) =>
                   /\ roles'[tx[p].user] = tx[p].want
                   /\ tx[p].op = "update" => Exists(tx[p].user)
             /\ \A u \in User :
                   /\ account[u] = "deleted" => account'[u] = "deleted"
                   /\ Exists(u)' => "user" \in roles'[u]
  <2>1. TypeOK'
    BY <1>1 DEF IInv
  <2>2. ASSUME NEW p \in Proc, CommitWrite(p)
        PROVE  /\ roles'[tx[p].user] = tx[p].want
               /\ tx[p].op = "update" => Exists(tx[p].user)
    <3>1. roles \in [User -> SUBSET Role]
      BY <1>1 DEF IInv, TypeOK
    <3> QED
      BY <1>1, <2>2, <3>1, WrittenIsWanted
  <2>3. \A u \in User : account[u] = "deleted" => account'[u] = "deleted"
    BY <1>1, DeletedStays
  <2>4. \A u \in User : Exists(u)' => "user" \in roles'[u]
    BY <1>1 DEF IInv, RowShape
  <2> QED
    BY <2>1, <2>2, <2>3, <2>4
<1> QED
  BY <1>1, Invariance, PTL DEF Spec, ChangesAreWhole

(* A call during which nobody else lost the role "admin" never takes it     *)
(* from the last one who has it, however stale what it read first.          *)
THEOREM LastAdminIsKept == Spec => AdminRoleIsKept
<1>1. ASSUME IInv, NEW p \in Proc, CommitWrite(p) \/ CommitDelete(p), ~tx[p].raced, Admins # {}
      PROVE  Admins' # {}
  <2>1. /\ Shapes(p) /\ pc[p] = "commit" /\ tx[p].op \in {"create", "update", "delete"}
        /\ roles \in [User -> SUBSET Role]
    BY <1>1 DEF IInv, TypeOK, CommitWrite, CommitDelete
  <2>2. PICK rs : roles' = [roles EXCEPT ![tx[p].user] = rs]
    BY <1>1 DEF CommitWrite, CommitDelete
  <2>3. ASSUME NEW v \in Admins, v # tx[p].user
        PROVE  Admins' # {}
    BY <2>1, <2>2, <2>3 DEF Admins
  <2>4. CASE CommitDelete(p)
    BY <1>1, <2>1, <2>3, <2>4 DEF CommitDelete, Shapes, PcShape, AdminShape
  <2>5. CASE CommitWrite(p) /\ tx[p].op = "create"
    BY <1>1, <2>3, <2>5, WrittenIsWanted DEF Admins
  <2>6. CASE CommitWrite(p) /\ tx[p].op = "update"
    <3>1. CASE "admin" \in tx[p].want
      BY <1>1, <2>1, <2>6, <3>1, WrittenIsWanted DEF Admins
    <3>2. CASE \E v \in Admins : v # tx[p].user
      BY <2>3, <3>2
    <3> QED
      BY <1>1, <2>1, <2>6, <3>1, <3>2 DEF Shapes, AdminShape
  <2> QED
    BY <1>1, <2>4, <2>5, <2>6 DEF CommitWrite
<1>2. IInv => [\A p \in Proc : (CommitWrite(p) \/ CommitDelete(p)) /\ ~tx[p].raced /\ Admins # {}
                  => Admins' # {}]_vars
  BY <1>1
<1> QED
  BY <1>2, Invariance, PTL DEF Spec, AdminRoleIsKept

(* The last account of a seeding run makes as many testers as it was asked  *)
(* for, unless somebody lost the role meanwhile.                            *)
THEOREM SeedingIsEnough == Spec => SeedingReachesTarget
<1>1. ASSUME IInv, NEW s \in Command, CommitTester(s), tx[s].need = 1, ~tx[s].raced
      PROVE  Cardinality(Testers') >= tx[s].target
  <2>1. s \in Proc
    BY DEF Proc
  <2> QED
    BY <1>1, <2>1, OneTesterMore, TestersCount
<1>2. IInv => [\A s \in Command : CommitTester(s) /\ tx[s].need = 1 /\ ~tx[s].raced
                  => Cardinality(Testers') >= tx[s].target]_vars
  BY <1>1
<1> QED
  BY <1>2, Invariance, PTL DEF Spec, SeedingReachesTarget
=============================================================================
