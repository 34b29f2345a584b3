---------------------------- MODULE PasswordReset ----------------------------
(***************************************************************************)
(* internal/service/password_reset_service.go: reset tokens, and requests   *)
(* that set a new password with one.  ResetPassword reads the token and its *)
(* account with two queries, decides on what it read, and then sets the     *)
(* password and marks the token in one transaction, without another look.   *)
(* Meanwhile accounts change their e-mail, get passwords from an            *)
(* administrator or cmd/db set-password, or are deleted.                    *)
(*                                                                          *)
(* A token stands for its id and its code.  A password is known by who set  *)
(* it: a token, or "other".                                                 *)
(***************************************************************************)
EXTENDS Naturals

CONSTANTS User, Token, Email,
          Request,     \* POST /reset-password requests in flight
          Sender,      \* requests for a reset mail, by the user or an admin
          ResetTTL,
          MaxTime,     \* bound on the clock
          Null

ASSUME TimeAssumption == ResetTTL \in Nat /\ MaxTime \in Nat
ASSUME NullAssumption ==
    Null \notin User \cup Token \cup Email \cup Request \cup {"other"}
ASSUME OtherAssumption == "other" \notin Token

VARIABLES email,     \* users.email; Null: no row
          password,  \* who set users.password_hash
          token,     \* the rows of password_reset_tokens
          lock,      \* the transaction that holds the row of an account
          send,      \* the account a sender has read
          req,
          uses,      \* history: how many times a password was set with a token
          clock

vars == <<email, password, token, lock, send, req, uses, clock>>

Row == [life : {"unborn", "live", "deleted"}, user : User \cup {Null},
        used : BOOLEAN, expires : Nat]

(* row: the columns of the token as the request read them; history: whether *)
(* the token was used when the request arrived (late), and whether e-mail   *)
(* was that of the account at some moment since (knew).                     *)
Reset == [pc : {"idle", "token", "user", "decide", "set", "mark", "commit"},
          code : Token \cup {Null}, email : Email \cup {Null},
          row : Row \cup {Null}, matches : BOOLEAN,
          late : BOOLEAN, knew : BOOLEAN]
Idle == [pc |-> "idle", code |-> Null, email |-> Null, row |-> Null, matches |-> FALSE,
         late |-> FALSE, knew |-> FALSE]

(* What accounts, rows of password_reset_tokens and the locals of ResetPassword *)
(* and SendReset can be.                                                     *)
TypeOK ==
    /\ email \in [User -> Email \cup {Null}]
    /\ password \in [User -> Token \cup {"other"}]
    /\ token \in [Token -> Row]
    /\ lock \in [User -> Request \cup {Null}]
    /\ send \in [Sender -> User \cup {Null}]
    /\ req \in [Request -> Reset]
    /\ uses \in [Token -> Nat]
    /\ clock \in Nat

Init ==
    /\ email \in [User -> Email]
    /\ \A u, w \in User : email[u] = email[w] => u = w
    /\ password = [u \in User |-> "other"]
    /\ token = [t \in Token |-> [life |-> "unborn", user |-> Null,
                                 used |-> FALSE, expires |-> 0]]
    /\ lock = [u \in User |-> Null]
    /\ send = [s \in Sender |-> Null]
    /\ req = [r \in Request |-> Idle]
    /\ uses = [t \in Token |-> 0]
    /\ clock = 0
-----------------------------------------------------------------------------
Exists(u) == email[u] # Null
Taken(e) == \E u \in User : email[u] = e

(* SendReset and SendResetByEmail find the account ...                      *)
FindUser(s, u) ==
    /\ send[s] = Null
    /\ Exists(u)
    /\ send' = [send EXCEPT ![s] = u]
    /\ UNCHANGED <<email, password, token, lock, req, uses, clock>>

(* ... and issueReset inserts a token for it, next to any it already has,   *)
(* unless the account is gone by now (foreign key user_id).  The row stays  *)
(* when the mail cannot be sent.                                            *)
issueReset(s) ==
    /\ send[s] # Null
    /\ send' = [send EXCEPT ![s] = Null]
    /\ \/ /\ ~Exists(send[s])
          /\ UNCHANGED token
       \/ /\ Exists(send[s])
          /\ \E t \in Token :
                /\ token[t].life = "unborn"
                /\ token' = [token EXCEPT ![t] = [life |-> "live", user |-> send[s],
                                                  used |-> FALSE,
                                                  expires |-> clock + ResetTTL]]
    /\ UNCHANGED <<email, password, lock, req, uses, clock>>
-----------------------------------------------------------------------------
(* POST /reset-password with a code that was once issued.                   *)
Submit(r, t, e) ==
    /\ req[r].pc = "idle"
    /\ token[t].life # "unborn"
    /\ req' = [req EXCEPT ![r] = [Idle EXCEPT
                  !.pc = "token", !.code = t, !.email = e,
                  !.late = token[t].used, !.knew = email[token[t].user] = e]]
    /\ UNCHANGED <<email, password, token, lock, send, uses, clock>>

(* GetPasswordResetTokenByCode; a code without a row is refused later, but  *)
(* nothing that is read until then matters.                                 *)
ReadToken(r) ==
    /\ req[r].pc = "token"
    /\ req' = [req EXCEPT ![r] =
                  IF token[req[r].code].life = "live"
                  THEN [@ EXCEPT !.pc = "user", !.row = token[req[r].code]]
                  ELSE Idle]
    /\ UNCHANGED <<email, password, token, lock, send, uses, clock>>

(* GetUserByID, and the comparison of the e-mail.                           *)
ReadUser(r) ==
    /\ req[r].pc = "user"
    /\ req' = [req EXCEPT ![r].pc = "decide",
                          ![r].matches = email[req[r].row.user] = req[r].email]
    /\ UNCHANGED <<email, password, token, lock, send, uses, clock>>

(* Mutant of tokenValid: used_at is not looked at.                          *)
UnexpiredOnly(row) == clock < row.expires

(* The token as it was read, at the time of the decision.                   *)
tokenValid(row) == ~row.used /\ clock < row.expires

Decide(r) ==
    /\ req[r].pc = "decide"
    /\ req' = [req EXCEPT ![r] =
                  IF tokenValid(req[r].row) /\ req[r].matches
                  THEN [@ EXCEPT !.pc = "set"] ELSE Idle]
    /\ UNCHANGED <<email, password, token, lock, send, uses, clock>>

(* SetUserPassword, in the transaction: waits for the row of the account;   *)
(* without a row it does nothing.                                           *)
SetUserPassword(r) ==
    /\ req[r].pc = "set"
    /\ lock[req[r].row.user] = Null
    /\ lock' = [lock EXCEPT ![req[r].row.user] = IF Exists(req[r].row.user) THEN r ELSE Null]
    /\ req' = [req EXCEPT ![r].pc = "mark"]
    /\ UNCHANGED <<email, password, token, send, uses, clock>>

(* Mutant of MarkPasswordResetTokenUsed: the password is set without a      *)
(* transaction around both statements.                                      *)
SetThenMark(r) ==
    /\ req[r].pc = "mark"
    /\ password' = [password EXCEPT ![req[r].row.user] =
                        IF Exists(req[r].row.user) THEN req[r].code ELSE @]
    /\ req' = [req EXCEPT ![r].pc = "commit"]
    /\ UNCHANGED <<email, token, lock, send, uses, clock>>

MarkPasswordResetTokenUsed(r) ==
    /\ req[r].pc = "mark"
    /\ req' = [req EXCEPT ![r].pc = "commit"]
    /\ UNCHANGED <<email, password, token, lock, send, uses, clock>>

Unlocked(r) == [u \in User |-> IF lock[u] = r THEN Null ELSE lock[u]]

Commit(r) ==
    LET u == req[r].row.user IN
    /\ req[r].pc = "commit"
    /\ IF Exists(u)
       THEN /\ password' = [password EXCEPT ![u] = req[r].code]
            /\ token' = [token EXCEPT ![req[r].code].used = TRUE]
            /\ uses' = [uses EXCEPT ![req[r].code] = @ + 1]
       ELSE UNCHANGED <<password, token, uses>>
    /\ lock' = Unlocked(r)
    /\ req' = [req EXCEPT ![r] = Idle]
    /\ UNCHANGED <<email, send, clock>>

(* An error, a cancelled request or a crash: the transaction is rolled back. *)
Abort(r) ==
    /\ req[r].pc # "idle"
    /\ lock' = Unlocked(r)
    /\ req' = [req EXCEPT ![r] = Idle]
    /\ UNCHANGED <<email, password, token, send, uses, clock>>
-----------------------------------------------------------------------------
(* UpdateProfile and UpdateUser; SetPasswordByEmail and UpdateUser with a   *)
(* password; DeleteUser, which cascades to the tokens.  Each waits for the  *)
(* row of the account.                                                      *)
ChangeEmail(u, e) ==
    /\ Exists(u) /\ lock[u] = Null /\ ~Taken(e)
    /\ email' = [email EXCEPT ![u] = e]
    /\ req' = [r \in Request |->
          IF req[r].pc # "idle" /\ token[req[r].code].user = u /\ req[r].email = e
          THEN [req[r] EXCEPT !.knew = TRUE] ELSE req[r]]
    /\ UNCHANGED <<password, token, lock, send, uses, clock>>

SetPassword(u) ==
    /\ Exists(u) /\ lock[u] = Null
    /\ password' = [password EXCEPT ![u] = "other"]
    /\ UNCHANGED <<email, token, lock, send, req, uses, clock>>

DeleteUser(u) ==
    /\ Exists(u) /\ lock[u] = Null
    /\ email' = [email EXCEPT ![u] = Null]
    /\ token' = [t \in Token |-> [token[t] EXCEPT
          !.life = IF token[t].user = u THEN "deleted" ELSE @]]
    /\ UNCHANGED <<password, lock, send, req, uses, clock>>

Tick ==
    /\ clock < MaxTime
    /\ clock' = clock + 1
    /\ UNCHANGED <<email, password, token, lock, send, req, uses>>

Next ==
    \/ \E s \in Sender, u \in User : FindUser(s, u)
    \/ \E s \in Sender : issueReset(s)
    \/ \E r \in Request, t \in Token, e \in Email : Submit(r, t, e)
    \/ \E r \in Request : \/ ReadToken(r) \/ ReadUser(r) \/ Decide(r)
                          \/ SetUserPassword(r) \/ MarkPasswordResetTokenUsed(r)
                          \/ Commit(r) \/ Abort(r)
    \/ \E u \in User, e \in Email : ChangeEmail(u, e)
    \/ \E u \in User : SetPassword(u) \/ DeleteUser(u)
    \/ Tick

Spec == Init /\ [][Next]_vars
-----------------------------------------------------------------------------
(* A password that was set with a token leaves that token used up: there is *)
(* no moment, also after an abort between the two statements, at which the  *)
(* new password is in force and the link still works.                       *)
ResetUsesUpToken ==
    /\ TypeOK
    /\ \A u \in User : password[u] \in Token => token[password[u]].used \/ ~Exists(u)

(* A request gets to set a password only if its token was not yet used when *)
(* it arrived, and if the e-mail it gave was that of the token's account at *)
(* some moment since: only requests that overlap can use a token twice, and *)
(* an address that has moved to another account opens neither.              *)
OnlyEntitledResets == \A r \in Request :
    req[r].pc \in {"set", "mark", "commit"} => ~req[r].late /\ req[r].knew

(* web/templates/emails/password_reset.gohtml: "This link ... can only be   *)
(* used once."  OnlyEntitledResets is what is left of it when submissions    *)
(* of one token overlap.                                                     *)
UsedOnce == \A t \in Token : uses[t] <= 1
=============================================================================
