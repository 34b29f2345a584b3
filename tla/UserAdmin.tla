------------------------------ MODULE UserAdmin ------------------------------
(***************************************************************************)
(* The accounts of internal/service/user_service.go over the tables users   *)
(* and user_roles: the transactions of CreateUser, Register, UpdateUser and *)
(* DeleteUser, asked for by the admin pages, the registration form and      *)
(* cmd/db (seed-admin and seed-testers), and run at the same time.          *)
(*                                                                          *)
(* A transaction is the sequence of its statements; its writes are buffered *)
(* in tx until it commits.  PostgreSQL runs READ COMMITTED: a statement     *)
(* sees what was committed when it started, UPDATE and DELETE wait for the  *)
(* lock of the row.  Handle, e-mail and password are left out: a violated   *)
(* unique constraint is one of the reasons for Abort.                       *)
(***************************************************************************)
EXTENDS Naturals, FiniteSets

CONSTANTS User,      \* ids of accounts
          Request,   \* HTTP requests in flight
          Command,   \* runs of cmd/db (one of them may be the slot of a request)
          Targets,   \* values of seed-testers --count
          Null

Role == {"user", "admin", "tester"}
Proc == Request \cup Command

ASSUME UserAssumption == IsFiniteSet(User)
ASSUME NullAssumption == Null \notin User \cup Proc
ASSUME TargetsAssumption == Targets \subseteq Nat \ {0}

VARIABLES account,  \* the committed row of users: its is_active, or no row
          roles,    \* the committed rows of user_roles
          lock,     \* which transaction holds the lock of a row of users
          pc, tx

vars == <<account, roles, lock, pc, tx>>

(* The locals of a call: the account it is about, the input (want, on), the *)
(* rows of user_roles its DELETE removed, the testers asked for and those    *)
(* still to create.  History: raced, whether while it ran another call took  *)
(* somebody the role that this call counts.                                  *)
Call == [op      : {"none", "create", "update", "delete", "seed"},
         user    : User \cup {Null},
         want    : SUBSET Role,
         on      : BOOLEAN,
         removed : SUBSET Role,
         target  : {0} \cup Targets,
         need    : Nat,
         raced   : BOOLEAN]

NoCall == [op |-> "none", user |-> Null, want |-> {}, on |-> FALSE,
           removed |-> {}, target |-> 0, need |-> 0, raced |-> FALSE]

(* What rows of users and user_roles, the locks on them and the locals of the *)
(* calls of user_service.go can be.                                          *)
TypeOK ==
    /\ account \in [User -> {"unborn", "active", "inactive", "deleted"}]
    /\ roles \in [User -> SUBSET Role]
    /\ lock \in [User -> Proc \cup {Null}]
    /\ pc \in [Proc -> {"idle", "count", "insert", "read", "check", "write",
                        "setroles", "commit"}]
    /\ tx \in [Proc -> Call]

Init ==
    /\ account = [u \in User |-> "unborn"]
    /\ roles = [u \in User |-> {}]
    /\ lock = [u \in User |-> Null]
    /\ pc = [p \in Proc |-> "idle"]
    /\ tx = [p \in Proc |-> NoCall]
-----------------------------------------------------------------------------
Exists(u) == account[u] \in {"active", "inactive"}
Admins == {u \in User : "admin" \in roles[u]}
ActiveAdmins == {u \in Admins : account[u] = "active"}
Testers == {u \in User : "tester" \in roles[u]}
Fresh == {u \in User : account[u] = "unborn" /\ \A q \in Proc : tx[q].user # u}

normalizeRoles(rs) == {"user"} \cup (rs \cap Role)

(* selectedRoles: the admin form knows two of the three roles.              *)
selectedRoles == SUBSET {"user", "admin"}

Unlocked(p) == [u \in User |-> IF lock[u] = p THEN Null ELSE lock[u]]

(* The call returns; an open transaction is rolled back (defer tx.Rollback). *)
Return(p) ==
    /\ pc' = [pc EXCEPT ![p] = "idle"]
    /\ tx' = [tx EXCEPT ![p] = NoCall]
    /\ lock' = Unlocked(p)

(* A transaction of p commits, and the call goes on at next.                 *)
Counted(call) == IF call.op = "seed" THEN "tester" ELSE "admin"
Overtaken(call) ==
    /\ call.op \in {"update", "delete", "seed"}
    /\ \E u \in User : Counted(call) \in roles[u] \ roles'[u]

Commit(p, next, call) ==
    /\ pc' = [pc EXCEPT ![p] = next]
    /\ tx' = [q \in Proc |-> IF q = p THEN call
                 ELSE [tx[q] EXCEPT !.raced = @ \/ Overtaken(tx[q])]]
    /\ lock' = Unlocked(p)

Begin(p, call, at) ==
    /\ pc[p] = "idle"
    /\ pc' = [pc EXCEPT ![p] = at]
    /\ tx' = [tx EXCEPT ![p] = call]
    /\ UNCHANGED <<account, roles, lock>>

Creation(rs, on) ==
    [NoCall EXCEPT !.op = "create", !.want = normalizeRoles(rs), !.on = on]
Change(u, rs, on) ==
    [NoCall EXCEPT !.op = "update", !.user = u, !.want = normalizeRoles(rs), !.on = on]

(* A request to the admin pages passes loadCurrentViewer and requireRole as  *)
(* the accounts are when it arrives.                                         *)
CreateUser(r) == \E a \in ActiveAdmins, rs \in selectedRoles, on \in BOOLEAN :
    Begin(r, Creation(rs, on), "insert")

UpdateUser(r) == \E a \in ActiveAdmins, u \in User, rs \in selectedRoles, on \in BOOLEAN :
    account[u] # "unborn" /\ Begin(r, Change(u, rs, on), "read")

DeleteUser(r) == \E a \in ActiveAdmins : \E u \in User \ {a} :
    /\ account[u] # "unborn"
    /\ Begin(r, [NoCall EXCEPT !.op = "delete", !.user = u], "read")

(* The registration form: anyone with an invitation.                         *)
Register(r) == Begin(r, Creation({}, TRUE), "insert")

(* cmd/db seed-admin: the account with the given e-mail, whichever that is   *)
(* by now, is updated, and created when there is none.                       *)
EnsureBootstrapAdmin(s) ==
    \/ Begin(s, Creation({"admin"}, TRUE), "insert")
    \/ \E u \in User : Exists(u) /\ Begin(s, Change(u, {"admin"}, TRUE), "read")

(* cmd/db seed-testers.                                                      *)
SeedTesters(s) == \E target \in Targets :
    Begin(s, [Creation({"tester"}, TRUE) EXCEPT !.op = "seed", !.target = target], "count")
-----------------------------------------------------------------------------
(* Mutant of CountTesters: every account is counted.                         *)
CountEveryUser(s) ==
    LET current == Cardinality({u \in User : Exists(u)}) IN
    /\ pc[s] = "count"
    /\ tx[s].target > current
    /\ tx' = [tx EXCEPT ![s].need = tx[s].target - current]
    /\ pc' = [pc EXCEPT ![s] = "insert"]
    /\ UNCHANGED <<account, roles, lock>>

(* The testers are counted once; that many are missing.                      *)
CountTesters(s) ==
    LET current == Cardinality(Testers) IN
    /\ pc[s] = "count"
    /\ tx[s].target > current
    /\ tx' = [tx EXCEPT ![s].need = tx[s].target - current]
    /\ pc' = [pc EXCEPT ![s] = "insert"]
    /\ UNCHANGED <<account, roles, lock>>

EnoughTesters(s) ==
    /\ pc[s] = "count"
    /\ tx[s].target <= Cardinality(Testers)
    /\ Return(s)
    /\ UNCHANGED <<account, roles>>

(* The INSERT of a new account, and setRoles on it.  A seeded name that is   *)
(* taken is skipped: the next one is tried, and nothing else changes.        *)
InsertUser(p) ==
    /\ pc[p] = "insert"
    /\ \E u \in Fresh : tx' = [tx EXCEPT ![p].user = u]
    /\ pc' = [pc EXCEPT ![p] = "commit"]
    /\ UNCHANGED <<account, roles, lock>>

(* getUserWithQueries: the row and its roles, without a lock; only a call    *)
(* that takes an admin away goes on to count the admins.                     *)
TakesAdmin(call, seen) ==
    /\ "admin" \in seen
    /\ call.op = "update" => ~("admin" \in call.want /\ call.on)

ReadUser(p) ==
    /\ pc[p] = "read"
    /\ Exists(tx[p].user)
    /\ pc' = [pc EXCEPT ![p] =
                  IF TakesAdmin(tx[p], roles[tx[p].user]) THEN "check" ELSE "write"]
    /\ UNCHANGED <<account, roles, lock, tx>>

ReadNothing(p) ==
    /\ pc[p] = "read"
    /\ ~Exists(tx[p].user)
    /\ Return(p)
    /\ UNCHANGED <<account, roles>>

(* Mutant of lastAdmin: an off-by-one, the last admin does not count.        *)
NoAdminLeft == Cardinality(Admins) <= 0

(* ensureActiveAdminInvariant and ensureDeleteAllowed: CountUsersByRole      *)
(* counts every holder of the role, active or not.                           *)
lastAdmin == Cardinality(Admins) <= 1

CountAdmins(p) ==
    /\ pc[p] = "check"
    /\ \/ /\ lastAdmin
          /\ Return(p)
       \/ /\ ~lastAdmin
          /\ pc' = [pc EXCEPT ![p] = "write"]
          /\ UNCHANGED <<lock, tx>>
    /\ UNCHANGED <<account, roles>>

(* Mutant of WriteUser: the row is not locked by the write.                  *)
WriteWithoutLock(p) ==
    /\ pc[p] = "write"
    /\ Exists(tx[p].user)
    /\ pc' = [pc EXCEPT ![p] = IF tx[p].op = "update" THEN "setroles" ELSE "commit"]
    /\ UNCHANGED <<account, roles, lock, tx>>

(* AdminUpdateUser, or the DELETE: waits for the row's lock and keeps it.    *)
WriteUser(p) ==
    /\ pc[p] = "write"
    /\ Exists(tx[p].user)
    /\ lock[tx[p].user] = Null
    /\ lock' = [lock EXCEPT ![tx[p].user] = p]
    /\ pc' = [pc EXCEPT ![p] = IF tx[p].op = "update" THEN "setroles" ELSE "commit"]
    /\ UNCHANGED <<account, roles, tx>>

(* The row is gone: no row to return is an error, no row to delete is not;   *)
(* either way nothing is written.                                            *)
WriteNothing(p) ==
    /\ pc[p] = "write"
    /\ ~Exists(tx[p].user)
    /\ Return(p)
    /\ UNCHANGED <<account, roles>>

(* setRoles: the DELETE removes the rows it sees, the INSERTs add the rest.  *)
setRoles(p) ==
    /\ pc[p] = "setroles"
    /\ tx' = [tx EXCEPT ![p].removed = roles[tx[p].user]]
    /\ pc' = [pc EXCEPT ![p] = "commit"]
    /\ UNCHANGED <<account, roles, lock>>

CommitWrite(p) ==
    /\ pc[p] = "commit"
    /\ tx[p].op \in {"create", "update"}
    /\ account' = [account EXCEPT ![tx[p].user] = IF tx[p].on THEN "active" ELSE "inactive"]
    /\ roles' = [roles EXCEPT ![tx[p].user] = (@ \ tx[p].removed) \cup tx[p].want]
    /\ Commit(p, "idle", NoCall)

(* createTesterRow commits each account by itself; the loop goes on until    *)
(* need are created.                                                         *)
CommitTester(s) ==
    /\ pc[s] = "commit"
    /\ tx[s].op = "seed"
    /\ account' = [account EXCEPT ![tx[s].user] = "active"]
    /\ roles' = [roles EXCEPT ![tx[s].user] = tx[s].want]
    /\ IF tx[s].need > 1
       THEN Commit(s, "insert", [tx[s] EXCEPT !.need = @ - 1, !.user = Null])
       ELSE Commit(s, "idle", NoCall)

CommitDelete(p) ==
    /\ pc[p] = "commit"
    /\ tx[p].op = "delete"
    /\ account' = [account EXCEPT ![tx[p].user] = "deleted"]
    /\ roles' = [roles EXCEPT ![tx[p].user] = {}]
    /\ Commit(p, "idle", NoCall)

(* A constraint is violated, the connection breaks or the process dies; the  *)
(* testers created so far stay.                                              *)
Abort(p) ==
    /\ pc[p] # "idle"
    /\ Return(p)
    /\ UNCHANGED <<account, roles>>

Step(p) ==
    \/ CountTesters(p) \/ EnoughTesters(p)
    \/ InsertUser(p)
    \/ ReadUser(p) \/ ReadNothing(p)
    \/ CountAdmins(p)
    \/ WriteUser(p) \/ WriteNothing(p)
    \/ setRoles(p)
    \/ CommitWrite(p) \/ CommitTester(p) \/ CommitDelete(p)

Next ==
    \/ \E r \in Request : CreateUser(r) \/ UpdateUser(r) \/ DeleteUser(r) \/ Register(r)
    \/ \E s \in Command : EnsureBootstrapAdmin(s) \/ SeedTesters(s)
    \/ \E p \in Proc : Step(p) \/ Abort(p)

Spec == Init /\ [][Next]_vars
-----------------------------------------------------------------------------
(* Two changes of one account made at the same time never mix: what a commit *)
(* leaves behind is what that one call asked for, on an account that was     *)
(* there until then, and a deleted account stays deleted.  Every account is  *)
(* a "user" (docs/reference/roles.md, "Normalization"), also while its roles *)
(* are deleted and inserted again.                                           *)
ChangesAreWhole == [][
    /\ TypeOK'
    /\ \A p \in Proc : CommitWrite(p) =>
          /\ roles'[tx[p].user] = tx[p].want
          /\ tx[p].op = "update" => Exists(tx[p].user)
    /\ \A u \in User :
          /\ account[u] = "deleted" => account'[u] = "deleted"
          /\ Exists(u)' => "user" \in roles'[u]]_vars

(* docs/reference/roles.md: "The last admin cannot be deactivated, have      *)
(* admin removed, or be deleted".  Two calls that overlap can still do it,   *)
(* each counting the other's admin; but a call during which nobody else lost *)
(* the role never takes it from the last one, however stale the roles it     *)
(* read first.                                                               *)
AdminRoleIsKept == [][\A p \in Proc :
    (CommitWrite(p) \/ CommitDelete(p)) /\ ~tx[p].raced /\ Admins # {}
        => Admins' # {}]_vars

(* When the last account of a seeding run commits there are as many testers  *)
(* as it was asked for, whatever accounts others create meanwhile, unless    *)
(* somebody lost the role.                                                   *)
SeedingReachesTarget == [][\A s \in Command :
    CommitTester(s) /\ tx[s].need = 1 /\ ~tx[s].raced
        => Cardinality(Testers') >= tx[s].target]_vars

(* docs/reference/roles.md: "At least one active user must hold the admin    *)
(* role at all times", once there has been one.                              *)
ActiveAdminIsKept == [][ActiveAdmins # {} => ActiveAdmins' # {}]_vars
=============================================================================
