-------------------------- MODULE PasswordResetProofs --------------------------
(***************************************************************************)
(* Who may set a password with a reset token, and that the token is used    *)
(* up, for any number of accounts, tokens and requests at once.             *)
(***************************************************************************)
EXTENDS PasswordReset, TLAPS

(* A request carries a code that was issued, and an e-mail.                 *)
CodeShape(r) == req[r].pc # "idle" =>
    req[r].code \in Token /\ req[r].email \in Email /\ token[req[r].code].life # "unborn"

LEMMA TypesInitially == Init => TypeOK
BY NullAssumption DEF Init, TypeOK, Row, Reset, Idle

(* Rows of the tables and locals of the calls keep their types.             *)
LEMMA TypesStep == TypeOK /\ (\A r \in Request : CodeShape(r)) /\ [Next]_vars => TypeOK'
<1> SUFFICES ASSUME TypeOK, \A r \in Request : CodeShape(r), [Next]_vars PROVE TypeOK'
  OBVIOUS
<1>1. /\ email \in [User -> Email \cup {Null}]
      /\ password \in [User -> Token \cup {"other"}]
      /\ token \in [Token -> Row] /\ lock \in [User -> Request \cup {Null}]
      /\ send \in [Sender -> User \cup {Null}] /\ req \in [Request -> Reset]
      /\ uses \in [Token -> Nat] /\ clock \in Nat /\ ResetTTL \in Nat
  BY TimeAssumption DEF TypeOK
<1>2. CASE UNCHANGED vars
  BY <1>1, <1>2 DEF vars, TypeOK
<1>3. ASSUME NEW s \in Sender, NEW u \in User, FindUser(s, u)
      PROVE  TypeOK'
  BY <1>1, <1>3 DEF FindUser, TypeOK
<1>4. ASSUME NEW s \in Sender, issueReset(s)
      PROVE  TypeOK'
  <2>1. send' \in [Sender -> User \cup {Null}]
    BY <1>1, <1>4 DEF issueReset
  <2>2. token' \in [Token -> Row]
    <3>1. ASSUME NEW t \in Token,
                 token' = [token EXCEPT ![t] = [life |-> "live", user |-> send[s],
                                                used |-> FALSE, expires |-> clock + ResetTTL]]
          PROVE  token' \in [Token -> Row]
      BY <1>1, <3>1 DEF Row
    <3> QED
      BY <1>1, <1>4, <3>1 DEF issueReset
  <2> QED
    BY <1>1, <1>4, <2>1, <2>2 DEF issueReset, TypeOK
<1>5. ASSUME NEW r \in Request, \E q \in Reset : req' = [req EXCEPT ![r] = q]
      PROVE  req' \in [Request -> Reset]
  BY <1>1, <1>5
<1>6. Idle \in Reset
  BY DEF Idle, Reset
<1>7. ASSUME NEW r \in Request, NEW t \in Token, NEW e \in Email, Submit(r, t, e)
      PROVE  TypeOK'
  <2>1. [Idle EXCEPT !.pc = "token", !.code = t, !.email = e, !.late = token[t].used,
                     !.knew = email[token[t].user] = e] \in Reset
    BY <1>1 DEF Idle, Reset, Row
  <2> QED
    BY <1>1, <1>5, <1>7, <2>1 DEF Submit, TypeOK
<1>8. ASSUME NEW r \in Request, ReadToken(r)
      PROVE  TypeOK'
  <2>1. CASE token[req[r].code].life = "live"
    <3>1. req[r].code \in Token
      BY <1>8 DEF ReadToken, CodeShape
    <3>2. [req[r] EXCEPT !.pc = "user", !.row = token[req[r].code]] \in Reset
      BY <1>1, <3>1 DEF Reset
    <3> QED
      BY <1>1, <1>5, <1>8, <2>1, <3>2 DEF ReadToken, TypeOK
  <2>2. CASE token[req[r].code].life # "live"
    BY <1>1, <1>5, <1>6, <1>8, <2>2 DEF ReadToken, TypeOK
  <2> QED
    BY <2>1, <2>2
<1>9. ASSUME NEW r \in Request,
             ReadUser(r) \/ Decide(r) \/ MarkPasswordResetTokenUsed(r)
      PROVE  TypeOK'
  <2>1. /\ [req[r] EXCEPT !.pc = "decide",
                          !.matches = email[req[r].row.user] = req[r].email] \in Reset
        /\ [req[r] EXCEPT !.pc = "set"] \in Reset
        /\ [req[r] EXCEPT !.pc = "commit"] \in Reset
    BY <1>1, ZenonT(60) DEF Reset
  <2>2. CASE ReadUser(r)
    <3>1. req' = [req EXCEPT ![r] = [req[r] EXCEPT !.pc = "decide",
                          !.matches = email[req[r].row.user] = req[r].email]]
      BY <1>1, <2>2 DEF ReadUser
    <3> QED
      BY <1>1, <1>5, <2>1, <2>2, <3>1 DEF ReadUser, TypeOK
  <2>3. CASE Decide(r)
    BY <1>1, <1>5, <1>6, <2>1, <2>3 DEF Decide, TypeOK
  <2>4. CASE MarkPasswordResetTokenUsed(r)
    BY <1>1, <1>5, <2>1, <2>4 DEF MarkPasswordResetTokenUsed, TypeOK
  <2> QED
    BY <1>9, <2>2, <2>3, <2>4
<1>10. ASSUME NEW r \in Request, SetUserPassword(r)
       PROVE  TypeOK'
  <2>1. req' \in [Request -> Reset]
    BY <1>1, <1>10 DEF SetUserPassword, Reset
  <2>2. lock' \in [User -> Request \cup {Null}]
    BY <1>1, <1>10 DEF SetUserPassword
  <2> QED
    BY <1>1, <1>10, <2>1, <2>2 DEF SetUserPassword, TypeOK
<1>11. ASSUME NEW r \in Request
       PROVE  Unlocked(r) \in [User -> Request \cup {Null}]
  BY <1>1 DEF Unlocked
<1>12. ASSUME NEW r \in Request, Commit(r)
       PROVE  TypeOK'
  <2>1. req[r].code \in Token
    BY <1>12 DEF Commit, CodeShape
  <2>2. password' \in [User -> Token \cup {"other"}]
    BY <1>1, <1>12, <2>1 DEF Commit
  <2>3. token' \in [Token -> Row]
    <3>1. [token[req[r].code] EXCEPT !.used = TRUE] \in Row
      BY <1>1, <2>1, ZenonT(60) DEF Row
    <3> QED
      BY <1>1, <1>12, <2>1, <3>1 DEF Commit
  <2>4. uses' \in [Token -> Nat]
    BY <1>1, <1>12, <2>1 DEF Commit
  <2> QED
    BY <1>1, <1>5, <1>6, <1>11, <1>12, <2>2, <2>3, <2>4 DEF Commit, TypeOK
<1>13. ASSUME NEW r \in Request, Abort(r)
       PROVE  TypeOK'
  BY <1>1, <1>5, <1>6, <1>11, <1>13 DEF Abort, TypeOK
<1>14. ASSUME NEW u \in User, NEW e \in Email, ChangeEmail(u, e)
       PROVE  TypeOK'
  <2>1. email' \in [User -> Email \cup {Null}]
    BY <1>1, <1>14 DEF ChangeEmail
  <2>2. \A r \in Request : [req[r] EXCEPT !.knew = TRUE] \in Reset
    BY <1>1, ZenonT(60) DEF Reset
  <2>3. req' \in [Request -> Reset]
    BY <1>1, <1>14, <2>2 DEF ChangeEmail
  <2> QED
    BY <1>1, <1>14, <2>1, <2>3 DEF ChangeEmail, TypeOK
<1>15. ASSUME NEW u \in User, SetPassword(u)
       PROVE  TypeOK'
  BY <1>1, <1>15 DEF SetPassword, TypeOK
<1>16. ASSUME NEW u \in User, DeleteUser(u)
       PROVE  TypeOK'
  <2>1. email' \in [User -> Email \cup {Null}]
    BY <1>1, <1>16 DEF DeleteUser
  <2>2. \A t \in Token : [token[t] EXCEPT !.life = IF token[t].user = u THEN "deleted" ELSE @] \in Row
    BY <1>1 DEF Row
  <2>3. token' \in [Token -> Row]
    BY <1>16, <2>2 DEF DeleteUser
  <2> QED
    BY <1>1, <1>16, <2>1, <2>3 DEF DeleteUser, TypeOK
<1>17. CASE Tick
  BY <1>1, <1>17 DEF Tick, TypeOK
<1> QED
  BY <1>2, <1>3, <1>4, <1>7, <1>8, <1>9, <1>10, <1>12, <1>13, <1>14, <1>15, <1>16, <1>17
     DEF Next
-----------------------------------------------------------------------------
(* A token that was issued stays that of its account, and a used one stays   *)
(* used.  One that was never issued is unused and of nobody.                 *)
Issued(t) == token[t].life # "unborn"
TokenShape == \A t \in Token :
    /\ Issued(t) => token[t].user \in User
    /\ token[t].used => Issued(t)

Kept == \A t \in Token : Issued(t) =>
    /\ Issued(t)' /\ token'[t].user = token[t].user
    /\ token[t].used => token'[t].used

LEMMA StepKeeps ==
    ASSUME TypeOK, TokenShape, \A r \in Request : CodeShape(r), [Next]_vars
    PROVE  Kept /\ TokenShape'
<1>1. token \in [Token -> Row]
  BY DEF TypeOK
<1>2. CASE token' = token
  BY <1>2 DEF Kept, TokenShape, Issued
<1>3. ASSUME NEW s \in Sender, issueReset(s)
      PROVE  Kept /\ TokenShape'
  <2>1. ASSUME NEW t \in Token, ~Issued(t), send[s] \in User,
               token' = [token EXCEPT ![t] = [life |-> "live", user |-> send[s],
                                              used |-> FALSE, expires |-> clock + ResetTTL]]
        PROVE  Kept /\ TokenShape'
    BY <1>1, <2>1 DEF Kept, TokenShape, Issued
  <2>2. send[s] \in User
    BY <1>3 DEF issueReset, TypeOK
  <2> QED
    BY <1>2, <1>3, <2>1, <2>2 DEF issueReset, Issued
<1>4. ASSUME NEW r \in Request, Commit(r)
      PROVE  Kept /\ TokenShape'
  <2>1. req[r].code \in Token /\ Issued(req[r].code)
    BY <1>4 DEF Commit, CodeShape, Issued
  <2>2. CASE token' = [token EXCEPT ![req[r].code].used = TRUE]
    <3>1. /\ token'[req[r].code].life = token[req[r].code].life
          /\ token'[req[r].code].user = token[req[r].code].user
          /\ token'[req[r].code].used
      BY <1>1, <2>1, <2>2 DEF Row
    <3>2. \A t \in Token \ {req[r].code} : token'[t] = token[t]
      BY <1>1, <2>1, <2>2
    <3> QED
      BY <2>1, <3>1, <3>2 DEF Kept, TokenShape, Issued
  <2> QED
    BY <1>2, <1>4, <2>2 DEF Commit
<1>5. ASSUME NEW u \in User, DeleteUser(u)
      PROVE  Kept /\ TokenShape'
  <2>1. ASSUME NEW t \in Token
        PROVE  /\ token'[t].life = IF token[t].user = u THEN "deleted" ELSE token[t].life
               /\ token'[t].user = token[t].user /\ token'[t].used = token[t].used
    <3>1. token'[t] = [token[t] EXCEPT !.life = IF token[t].user = u THEN "deleted" ELSE @]
      BY <1>5 DEF DeleteUser
    <3> QED
      BY <1>1, <3>1 DEF Row
  <2> QED
    BY <2>1 DEF Kept, TokenShape, Issued
<1> QED
  BY <1>2, <1>3, <1>4, <1>5
     DEF Next, vars, FindUser, Submit, ReadToken, ReadUser, Decide, SetUserPassword,
         MarkPasswordResetTokenUsed, Abort, ChangeEmail, SetPassword, Tick
-----------------------------------------------------------------------------
(* The locals of ResetPassword.  The row it has read is its token's; while   *)
(* the e-mail it was given is that of the account, it is known to have been; *)
(* a request that came late finds the token used.                            *)
ResetShape(r) ==
    /\ CodeShape(r)
    /\ req[r].pc \notin {"idle", "token"} =>
          req[r].row \in Row /\ req[r].row.user = token[req[r].code].user
    /\ req[r].pc # "idle" /\ email[token[req[r].code].user] = req[r].email => req[r].knew
    /\ req[r].pc = "decide" /\ req[r].matches => req[r].knew
    /\ req[r].late => \/ req[r].pc = "token" /\ token[req[r].code].used
                      \/ req[r].pc \in {"user", "decide"} /\ req[r].row.used
    /\ req[r].pc \in {"set", "mark", "commit"} => req[r].knew

IInv ==
    /\ TypeOK
    /\ TokenShape
    /\ \A r \in Request : ResetShape(r)
    /\ ResetUsesUpToken

LEMMA Initially == Init => IInv
<1> SUFFICES ASSUME Init PROVE IInv
  OBVIOUS
<1>1. TypeOK
  BY TypesInitially
<1>2. TokenShape
  BY DEF Init, TokenShape, Issued
<1>3. \A r \in Request : ResetShape(r)
  BY DEF Init, ResetShape, CodeShape, Idle
<1>4. ResetUsesUpToken
  <2>1. \A u \in User : password[u] = "other"
    BY DEF Init
  <2> QED
    BY <1>1, <2>1, OtherAssumption DEF ResetUsesUpToken
<1> QED
  BY <1>1, <1>2, <1>3, <1>4 DEF IInv

(* A request whose locals are left alone keeps its shape, if no account gets *)
(* another address.                                                          *)
LEMMA OthersKeepShape ==
    ASSUME IInv, Kept, NEW r \in Request, req'[r] = req[r],
           \A u \in User : email'[u] \in {email[u], Null}
    PROVE  ResetShape(r)'
<1>1. /\ ResetShape(r) /\ TokenShape /\ req[r] \in Reset
  BY DEF IInv, TypeOK
<1>2. CASE req[r].pc = "idle"
  BY <1>1, <1>2 DEF ResetShape, CodeShape
<1>3. CASE req[r].pc # "idle"
  <2> DEFINE t == req[r].code
  <2>1. t \in Token /\ req[r].email \in Email /\ Issued(t) /\ token[t].user \in User
    BY <1>1, <1>3 DEF ResetShape, CodeShape, Issued, TokenShape
  <2>2. Issued(t)' /\ token'[t].user = token[t].user /\ (token[t].used => token'[t].used)
    BY <2>1 DEF Kept
  <2>3. email'[token[t].user] = req[r].email => email[token[t].user] = req[r].email
    BY <2>1, NullAssumption
  <2> QED
    BY <1>1, <1>3, <2>1, <2>2, <2>3 DEF ResetShape, CodeShape, Issued
<1> QED
  BY <1>2, <1>3

LEMMA RequestsStep ==
    ASSUME IInv, Kept, [Next]_vars
    PROVE  \A r \in Request : ResetShape(r)'
<1>1. /\ TypeOK /\ TokenShape /\ req \in [Request -> Reset] /\ token \in [Token -> Row]
      /\ \A r \in Request : ResetShape(r)
  BY DEF IInv, TypeOK
<1>2. CASE req' = req /\ \A u \in User : email'[u] \in {email[u], Null}
  BY <1>2, OthersKeepShape
<1>3. ASSUME NEW q \in Request, email' = email,
             \A r \in Request \ {q} : req'[r] = req[r], ResetShape(q)'
      PROVE  \A r \in Request : ResetShape(r)'
  BY <1>3, OthersKeepShape
<1>4. ASSUME NEW q \in Request, email' = email, req' = [req EXCEPT ![q] = Idle]
      PROVE  \A r \in Request : ResetShape(r)'
  <2>1. req'[q] = Idle
    BY <1>1, <1>4
  <2>2. ResetShape(q)'
    BY <2>1 DEF ResetShape, CodeShape, Idle
  <2> QED
    BY <1>1, <1>3, <1>4, <2>2
<1>5. ASSUME NEW q \in Request, NEW t \in Token, NEW e \in Email, Submit(q, t, e)
      PROVE  \A r \in Request : ResetShape(r)'
  <2>1. req'[q] = [Idle EXCEPT !.pc = "token", !.code = t, !.email = e,
                               !.late = token[t].used, !.knew = email[token[t].user] = e]
    BY <1>1, <1>5 DEF Submit
  <2>2. /\ req'[q].pc = "token" /\ req'[q].code = t /\ req'[q].email = e
        /\ req'[q].late = token[t].used /\ req'[q].knew = (email[token[t].user] = e)
    BY <2>1 DEF Idle
  <2>3. UNCHANGED <<email, token>> /\ token[t].life # "unborn"
    BY <1>5 DEF Submit
  <2>4. ResetShape(q)'
    BY <2>2, <2>3 DEF ResetShape, CodeShape
  <2> QED
    BY <1>1, <1>3, <1>5, <2>4 DEF Submit
<1>6. ASSUME NEW q \in Request, UNCHANGED <<email, token>>,
             req'[q].code = req[q].code, req'[q].email = req[q].email,
             req'[q].late = req[q].late, req'[q].knew = req[q].knew,
             req[q].pc # "idle"
      PROVE  /\ CodeShape(q)'
             /\ email'[token'[req'[q].code].user] = req'[q].email => req'[q].knew
  BY <1>1, <1>6 DEF ResetShape, CodeShape
<1>7. ASSUME NEW q \in Request, ReadToken(q)
      PROVE  \A r \in Request : ResetShape(r)'
  <2>1. CASE req' = [req EXCEPT ![q] = [@ EXCEPT !.pc = "user", !.row = token[req[q].code]]]
    <3>1. /\ req'[q].pc = "user" /\ req'[q].row = token[req[q].code]
          /\ req'[q].code = req[q].code /\ req'[q].email = req[q].email
          /\ req'[q].late = req[q].late /\ req'[q].knew = req[q].knew
      BY <1>1, <2>1 DEF Reset
    <3>2. req[q].pc = "token" /\ UNCHANGED <<email, token>>
      BY <1>7 DEF ReadToken
    <3>3. req[q].code \in Token /\ (req[q].late => token[req[q].code].used)
      BY <1>1, <3>2 DEF ResetShape, CodeShape
    <3>4. ResetShape(q)'
      BY <1>1, <1>6, <3>1, <3>2, <3>3 DEF ResetShape
    <3> QED
      BY <1>1, <1>3, <2>1, <3>2, <3>4
  <2> QED
    BY <1>4, <1>7, <2>1 DEF ReadToken
<1>8. ASSUME NEW q \in Request, ReadUser(q)
      PROVE  \A r \in Request : ResetShape(r)'
  <2>1. /\ req'[q].pc = "decide" /\ req'[q].row = req[q].row
        /\ req'[q].matches = (email[req[q].row.user] = req[q].email)
        /\ req'[q].code = req[q].code /\ req'[q].email = req[q].email
        /\ req'[q].late = req[q].late /\ req'[q].knew = req[q].knew
    BY <1>1, <1>8 DEF ReadUser, Reset
  <2>2. req[q].pc = "user" /\ UNCHANGED <<email, token>>
    BY <1>8 DEF ReadUser
  <2>3. req[q].row \in Row /\ req[q].row.user = token[req[q].code].user
    BY <1>1, <2>2 DEF ResetShape
  <2>4. req'[q].matches => req'[q].knew
    BY <1>1, <2>1, <2>2, <2>3 DEF ResetShape
  <2>5. req[q].late => req[q].row.used
    BY <1>1, <2>2 DEF ResetShape
  <2>6. ResetShape(q)'
    BY <1>6, <2>1, <2>2, <2>3, <2>4, <2>5 DEF ResetShape
  <2> QED
    BY <1>1, <1>3, <1>8, <2>6 DEF ReadUser
<1>9. ASSUME NEW q \in Request, NEW at \in {"set", "mark", "commit"},
             req' = [req EXCEPT ![q].pc = at], UNCHANGED email, token' = token,
             req[q].pc \notin {"idle", "token"}, req[q].knew, ~req[q].late
      PROVE  \A r \in Request : ResetShape(r)'
  <2>1. /\ req'[q].pc = at /\ req'[q].row = req[q].row
        /\ req'[q].code = req[q].code /\ req'[q].email = req[q].email
        /\ req'[q].late = req[q].late /\ req'[q].knew = req[q].knew
    BY <1>1, <1>9 DEF Reset
  <2>2. ResetShape(q)'
    BY <1>1, <1>6, <1>9, <2>1 DEF ResetShape
  <2> QED
    BY <1>1, <1>3, <1>9, <2>2
<1>10. ASSUME NEW q \in Request, Decide(q)
       PROVE  \A r \in Request : ResetShape(r)'
  <2>1. CASE /\ tokenValid(req[q].row) /\ req[q].matches
             /\ req' = [req EXCEPT ![q] = [@ EXCEPT !.pc = "set"]]
    <3>1. req[q].pc = "decide" /\ UNCHANGED <<email, token>>
      BY <1>10 DEF Decide
    <3>2. req[q].knew /\ ~req[q].late
      BY <1>1, <2>1, <3>1 DEF ResetShape, tokenValid
    <3>3. req' = [req EXCEPT ![q].pc = "set"]
      BY <2>1
    <3> QED
      BY <1>9, <3>1, <3>2, <3>3
  <2> QED
    BY <1>4, <1>10, <2>1 DEF Decide
<1>11. ASSUME NEW q \in Request, SetUserPassword(q) \/ MarkPasswordResetTokenUsed(q)
       PROVE  \A r \in Request : ResetShape(r)'
  <2>1. req[q].pc \in {"set", "mark"} /\ UNCHANGED <<email, token>>
    BY <1>11 DEF SetUserPassword, MarkPasswordResetTokenUsed
  <2>2. req[q].knew /\ ~req[q].late
    BY <1>1, <2>1 DEF ResetShape
  <2> QED
    BY <1>9, <1>11, <2>1, <2>2 DEF SetUserPassword, MarkPasswordResetTokenUsed
<1>12. ASSUME NEW q \in Request, Commit(q) \/ Abort(q)
       PROVE  \A r \in Request : ResetShape(r)'
  BY <1>4, <1>12 DEF Commit, Abort
<1>13. ASSUME NEW u \in User, NEW e \in Email, ChangeEmail(u, e)
       PROVE  \A r \in Request : ResetShape(r)'
  <2> SUFFICES ASSUME NEW r \in Request PROVE ResetShape(r)'
    OBVIOUS
  <2>1. token' = token /\ email' = [email EXCEPT ![u] = e]
    BY <1>13 DEF ChangeEmail
  <2>2. CASE req[r].pc # "idle" /\ token[req[r].code].user = u /\ req[r].email = e
    <3>1. req'[r] = [req[r] EXCEPT !.knew = TRUE]
      BY <1>13, <2>2 DEF ChangeEmail
    <3>2. /\ req'[r].pc = req[r].pc /\ req'[r].code = req[r].code
          /\ req'[r].email = req[r].email /\ req'[r].row = req[r].row
          /\ req'[r].late = req[r].late /\ req'[r].matches = req[r].matches
          /\ req'[r].knew
      BY <1>1, <3>1 DEF Reset
    <3> QED
      BY <1>1, <2>1, <3>2 DEF ResetShape, CodeShape
  <2>3. CASE ~(req[r].pc # "idle" /\ token[req[r].code].user = u /\ req[r].email = e)
    <3>1. req'[r] = req[r]
      BY <1>13, <2>3 DEF ChangeEmail
    <3>2. req[r].pc # "idle" => token[req[r].code].user \in User
      BY <1>1 DEF ResetShape, CodeShape, TokenShape, Issued
    <3>3. req[r].pc # "idle" /\ email'[token[req[r].code].user] = req[r].email
          => email[token[req[r].code].user] = req[r].email
      BY <1>1, <2>1, <2>3, <3>2 DEF TypeOK
    <3> QED
      BY <1>1, <2>1, <3>1, <3>3 DEF ResetShape, CodeShape
  <2> QED
    BY <2>2, <2>3
<1>14. ASSUME NEW u \in User, DeleteUser(u)
       PROVE  \A r \in Request : ResetShape(r)'
  BY <1>1, <1>2, <1>14 DEF DeleteUser, TypeOK
<1> QED
  BY <1>2, <1>5, <1>7, <1>8, <1>10, <1>11, <1>12, <1>13, <1>14
     DEF Next, vars, FindUser, issueReset, SetPassword, Tick

(* A token that set a password is marked in the same step, and the marks     *)
(* stay.                                                                     *)
LEMMA UsedUpStep ==
    ASSUME IInv, Kept, [Next]_vars, TypeOK'
    PROVE  ResetUsesUpToken'
<1>1. /\ TypeOK /\ TokenShape
      /\ email \in [User -> Email \cup {Null}]
      /\ password \in [User -> Token \cup {"other"}] /\ token \in [Token -> Row]
      /\ \A u \in User : password[u] \in Token => token[password[u]].used \/ ~Exists(u)
  BY DEF IInv, TypeOK, ResetUsesUpToken
<1>2. ASSUME \A u \in User : password'[u] \in {password[u], "other"},
             \A u \in User : email[u] = Null => email'[u] = Null
      PROVE  ResetUsesUpToken'
  <2> SUFFICES ASSUME NEW u \in User, password'[u] \in Token
               PROVE  token'[password'[u]].used \/ ~Exists(u)'
    BY DEF ResetUsesUpToken
  <2>1. password'[u] = password[u]
    BY <1>2, OtherAssumption
  <2>2. token[password[u]].used => token'[password[u]].used
    BY <1>1, <2>1 DEF Kept, TokenShape
  <2> QED
    BY <1>1, <1>2, <2>1, <2>2 DEF Exists
<1>3. ASSUME NEW r \in Request, Commit(r)
      PROVE  ResetUsesUpToken'
  <2> DEFINE w == req[r].row.user  t == req[r].code
  <2>1. email' = email /\ t \in Token
    BY <1>3 DEF Commit, IInv, ResetShape, CodeShape
  <2>2. CASE ~Exists(w)
    BY <1>2, <1>3, <2>1, <2>2 DEF Commit
  <2>3. CASE Exists(w)
    <3>1. /\ password' = [password EXCEPT ![w] = t]
          /\ token' = [token EXCEPT ![t].used = TRUE]
      BY <1>3, <2>3 DEF Commit
    <3>2. token'[t].used
      BY <1>1, <2>1, <3>1 DEF Row
    <3> SUFFICES ASSUME NEW u \in User, password'[u] \in Token
                 PROVE  token'[password'[u]].used \/ ~Exists(u)'
      BY DEF ResetUsesUpToken
    <3>3. CASE password'[u] = t
      BY <3>2, <3>3
    <3>4. CASE password'[u] # t
      <4>1. password'[u] = password[u]
        BY <1>1, <3>1, <3>4
      <4>2. token[password[u]].used => token'[password[u]].used
        BY <1>1, <4>1 DEF Kept, TokenShape
      <4> QED
        BY <1>1, <2>1, <4>1, <4>2 DEF Exists
    <3> QED
      BY <3>3, <3>4
  <2> QED
    BY <2>2, <2>3
<1>4. CASE UNCHANGED <<email, password>>
  BY <1>2, <1>4
<1>5. ASSUME NEW u \in User, NEW e \in Email, ChangeEmail(u, e)
      PROVE  ResetUsesUpToken'
  BY <1>1, <1>2, <1>5 DEF ChangeEmail, Exists
<1>6. ASSUME NEW u \in User, SetPassword(u) \/ DeleteUser(u)
      PROVE  ResetUsesUpToken'
  BY <1>1, <1>2, <1>6 DEF SetPassword, DeleteUser
<1> QED
  BY <1>3, <1>4, <1>5, <1>6
     DEF Next, vars, FindUser, issueReset, Submit, ReadToken, ReadUser, Decide,
         SetUserPassword, MarkPasswordResetTokenUsed, Abort, Tick

THEOREM Invariance == Spec => []IInv
<1>1. ASSUME IInv, [Next]_vars PROVE IInv'
  <2>1. \A r \in Request : CodeShape(r)
    BY <1>1 DEF IInv, ResetShape
  <2>2. TypeOK' /\ Kept /\ TokenShape'
    BY <1>1, <2>1, TypesStep, StepKeeps DEF IInv
  <2> QED
    BY <1>1, <2>2, RequestsStep, UsedUpStep DEF IInv
<1> QED
  BY <1>1, Initially, PTL DEF Spec

(* ResetPassword: as soon as a password set with a token is in force, the    *)
(* token is used up.                                                         *)
THEOREM TokensAreUsedUp == Spec => []ResetUsesUpToken
<1>1. IInv => ResetUsesUpToken
  BY DEF IInv
<1> QED
  BY <1>1, Invariance, PTL

(* ResetPassword: who gets to set a password came before the token was used, *)
(* and knew the address of its account at some moment since.                 *)
THEOREM OnlyEntitledReset == Spec => []OnlyEntitledResets
<1>1. IInv => OnlyEntitledResets
  BY DEF IInv, ResetShape, OnlyEntitledResets
<1> QED
  BY <1>1, Invariance, PTL
=============================================================================
