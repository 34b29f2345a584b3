-------------------------- MODULE RegistrationProofs --------------------------
(***************************************************************************)
(* What an invitation and the accounts made from it have to do with each    *)
(* other, for any number of accounts, invitations and requests at once.     *)
(***************************************************************************)
EXTENDS Registration, TLAPS

(* What a step never takes back: an invitation that was issued keeps its    *)
(* address, a used one stays used, a deleted one is gone; and an account    *)
(* keeps its id and its origin.                                             *)
Kept ==
    /\ \A i \in Invite :
          /\ invite[i].life # "unborn" =>
                /\ invite'[i].life # "unborn" /\ invite'[i].email = invite[i].email
                /\ invite'[i].life = "live" => invite[i].life = "live"
          /\ invite[i].used => invite'[i].used
    /\ \A u \in User : account[u].life # "unborn" =>
          account'[u].life # "unborn" /\ origin'[u] = origin[u]
    /\ clock <= clock'

LEMMA StepKeeps == TypeOK /\ [Next]_vars => Kept
<1> SUFFICES ASSUME TypeOK, [Next]_vars PROVE Kept
  OBVIOUS
<1> USE DEF TypeOK
<1>1. CASE UNCHANGED <<account, invite, origin>> /\ clock' \in {clock, clock + 1}
  BY <1>1 DEF Kept
<1>2. ASSUME UNCHANGED <<account, origin, clock>>, NEW i \in Invite,
             \A j \in Invite \ {i} : invite'[j] = invite[j],
             \/ invite[i].life = "unborn" /\ invite'[i].used = invite[i].used
             \/ /\ invite'[i].life = invite[i].life /\ invite'[i].email = invite[i].email
                /\ invite[i].used => invite'[i].used
      PROVE  Kept
  BY <1>2 DEF Kept
<1>3. ASSUME NEW a \in Mailer, NEW i \in Invite, NEW e \in Email, CreateInvitation(a, i, e)
      PROVE  Kept
  BY <1>2, <1>3 DEF CreateInvitation, Invitation
<1>4. ASSUME NEW a \in Mailer, UpdateExpiry(a)
      PROVE  Kept
  <2>1. CASE send[a].code \in Invite
    BY <1>1, <1>2, <1>4, <2>1 DEF UpdateExpiry, Invitation
  <2>2. CASE send[a].code \notin Invite
    BY <1>1, <1>4, <2>2 DEF UpdateExpiry, Kept
  <2> QED
    BY <2>1, <2>2
<1>5. ASSUME NEW i \in Invite, ArchiveInvitation(i)
      PROVE  Kept
  BY <1>2, <1>5 DEF ArchiveInvitation, Invitation
<1>6. ASSUME NEW v \in Visitor, CreateAccount(v)
      PROVE  Kept
  BY <1>1, <1>6 DEF CreateAccount, Kept
<1>7. ASSUME NEW v \in Visitor, MarkInvitationUsed(v)
      PROVE  Kept
  <2>1. CASE reg[v].code \in Invite
    BY <1>1, <1>2, <1>7, <2>1 DEF MarkInvitationUsed, Invitation
  <2>2. CASE reg[v].code \notin Invite
    BY <1>1, <1>7, <2>2 DEF MarkInvitationUsed, Kept
  <2> QED
    BY <2>1, <2>2
<1>8. ASSUME NEW u \in User, NEW e \in Email, ChangeEmail(u, e)
      PROVE  Kept
  BY <1>8 DEF ChangeEmail, Kept, Account
<1>9. ASSUME NEW u \in User, DeleteAccount(u)
      PROVE  Kept
  <2>1. /\ account' = [account EXCEPT ![u].life = "deleted", ![u].email = Null]
        /\ origin' = origin /\ clock' = clock
    BY <1>9 DEF DeleteAccount
  <2>2. \A w \in User : account[w].life # "unborn" => account'[w].life # "unborn"
    BY <2>1 DEF Account
  <2>3. ASSUME NEW i \in Invite
        PROVE  /\ invite'[i].life = (IF invite[i].life = "live" /\ invite[i].by = u
                                     THEN "deleted" ELSE invite[i].life)
               /\ invite'[i].email = invite[i].email
               /\ invite'[i].used = invite[i].used
    <3>1. invite'[i] = [invite[i] EXCEPT
              !.life = IF @ = "live" /\ invite[i].by = u THEN "deleted" ELSE @,
              !.usedBy = IF @ = u THEN Null ELSE @]
      BY <1>9 DEF DeleteAccount
    <3>2. invite[i] \in Invitation
      OBVIOUS
    <3> QED
      BY <3>1, <3>2 DEF Invitation
  <2> QED
    BY <2>1, <2>2, <2>3 DEF Kept
<1> QED
  BY <1>1, <1>3, <1>4, <1>5, <1>6, <1>7, <1>8, <1>9
     DEF Next, vars, ReadInvitation, NewExpiry, SendInvitationEmail, Register, ValidateCode,
         RedeemInvitation, CutOff, Tick
-----------------------------------------------------------------------------
LEMMA TypesInitially == Init => TypeOK
BY DEF Init, TypeOK, Account, Invitation, Registering, Sending, Life, Idle, NotSending

(* Rows of the tables and locals of the calls keep their types.             *)
LEMMA TypesStep == TypeOK /\ [Next]_vars => TypeOK'
<1> SUFFICES ASSUME TypeOK, [Next]_vars PROVE TypeOK'
  OBVIOUS
<1>1. /\ account \in [User -> Account] /\ invite \in [Invite -> Invitation]
      /\ reg \in [Visitor -> Registering] /\ send \in [Mailer -> Sending]
      /\ origin \in [User -> Invite \cup {Null}] /\ redeemed \subseteq User
      /\ clock \in Nat /\ InvitationTTL \in Nat
  BY TimeAssumption DEF TypeOK
<1>2. CASE UNCHANGED vars
  BY <1>1, <1>2 DEF vars, TypeOK
<1>3. ASSUME NEW a \in Mailer
      PROVE  send[a] \in Sending /\ Deadline(a) \in Nat
  BY <1>1 DEF Sending, Deadline
<1>4. ASSUME NEW a \in Mailer, NEW i \in Invite, NEW e \in Email, CreateInvitation(a, i, e)
      PROVE  TypeOK'
  <2>1. PICK u \in Live \cup {Root} :
            invite' = [invite EXCEPT ![i] = [@ EXCEPT
                !.life = "live", !.email = e, !.by = u, !.expires = Deadline(a)]]
    BY <1>4 DEF CreateInvitation
  <2>2. u \in User \cup {Root} /\ Deadline(a) \in Nat /\ invite[i] \in Invitation
    BY <1>1, <1>3 DEF Live
  <2>3. [invite[i] EXCEPT
            !.life = "live", !.email = e, !.by = u, !.expires = Deadline(a)]
        \in Invitation
    BY <2>2 DEF Invitation, Life
  <2>4. invite' \in [Invite -> Invitation]
    BY <1>1, <2>1, <2>3
  <2>5. send' \in [Mailer -> Sending]
    <3>1. [[send[a] EXCEPT !.at = "written"] EXCEPT !.code = i] \in Sending
      BY <1>3 DEF Sending
    <3>2. send' = [send EXCEPT ![a] = [[send[a] EXCEPT !.at = "written"] EXCEPT !.code = i]]
      BY <1>1, <1>4 DEF CreateInvitation
    <3> QED
      BY <1>1, <3>1, <3>2
  <2> QED
    BY <1>1, <1>4, <2>4, <2>5 DEF CreateInvitation, TypeOK
<1>5. ASSUME NEW a \in Mailer, NEW i \in Invite, ReadInvitation(a, i)
      PROVE  TypeOK'
  <2>1. [NotSending EXCEPT !.at = "read", !.code = i, !.lone = Resending(i) = {}] \in Sending
    BY DEF NotSending, Sending
  <2>2. \A b \in Mailer : [send[b] EXCEPT !.lone = FALSE] \in Sending
    BY <1>3 DEF Sending
  <2>3. send' \in [Mailer -> Sending]
    BY <1>1, <1>3, <1>5, <2>1, <2>2 DEF ReadInvitation
  <2> QED
    BY <1>1, <1>5, <2>3 DEF ReadInvitation, TypeOK
<1>17. ASSUME NEW a \in Mailer, NewExpiry(a)
       PROVE  TypeOK'
  <2>1. send' \in [Mailer -> Sending]
    BY <1>1, <1>3, <1>17 DEF NewExpiry, Sending
  <2> QED
    BY <1>1, <1>17, <2>1 DEF NewExpiry, TypeOK
<1>6. ASSUME NEW a \in Mailer, UpdateExpiry(a)
      PROVE  TypeOK'
  <2>1. send' \in [Mailer -> Sending]
    BY <1>1, <1>3, <1>6 DEF UpdateExpiry, Sending
  <2>2. invite' \in [Invite -> Invitation]
    <3>1. CASE send[a].code \in Invite
      BY <1>1, <1>3, <1>6, <3>1 DEF UpdateExpiry, Invitation
    <3>2. CASE send[a].code \notin Invite
      BY <1>1, <1>6, <3>2 DEF UpdateExpiry
    <3> QED
      BY <3>1, <3>2
  <2> QED
    BY <1>1, <1>6, <2>1, <2>2 DEF UpdateExpiry, TypeOK
<1>7. ASSUME NEW a \in Mailer, SendInvitationEmail(a)
      PROVE  TypeOK'
  BY <1>1, <1>7 DEF SendInvitationEmail, Sending, NotSending, TypeOK
<1>8. ASSUME NEW i \in Invite, ArchiveInvitation(i)
      PROVE  TypeOK'
  BY <1>1, <1>8 DEF ArchiveInvitation, Invitation, TypeOK
<1>9. ASSUME NEW v \in Visitor,
             \E g \in Registering : reg' = [reg EXCEPT ![v] = g],
             UNCHANGED <<account, invite, send, origin, redeemed, clock>>
      PROVE  TypeOK'
  BY <1>1, <1>9 DEF TypeOK
<1>10. ASSUME NEW v \in Visitor, NEW i \in Invite, NEW e \in Email, Register(v, i, e)
       PROVE  TypeOK'
  <2>1. [Idle EXCEPT !.pc = "validate", !.code = i, !.email = e,
                     !.late = \E u \in redeemed : origin[u] = i] \in Registering
    BY DEF Idle, Registering
  <2> QED
    BY <1>1, <1>9, <1>10, <2>1 DEF Register
<1>11. ASSUME NEW v \in Visitor,
              ValidateCode(v) \/ RedeemInvitation(v) \/ CutOff(v)
       PROVE  TypeOK'
  <2>1. /\ Idle \in Registering
        /\ [reg[v] EXCEPT !.pc = "create"] \in Registering
        /\ [reg[v] EXCEPT !.pc = "mark"] \in Registering
    BY <1>1 DEF Idle, Registering
  <2> QED
    BY <1>1, <1>9, <1>11, <2>1 DEF ValidateCode, RedeemInvitation, CutOff
<1>12. ASSUME NEW v \in Visitor, CreateAccount(v)
       PROVE  TypeOK'
  <2>1. Idle \in Registering
    BY DEF Idle, Registering
  <2>2. CASE EmailTaken(reg[v].email)
    BY <1>1, <1>9, <1>12, <2>1, <2>2 DEF CreateAccount
  <2>3. CASE ~EmailTaken(reg[v].email)
    <3>1. PICK u \in User :
              /\ account' = [account EXCEPT ![u] = [life |-> "live", email |-> reg[v].email]]
              /\ origin' = [origin EXCEPT ![u] = reg[v].code]
              /\ reg' = [reg EXCEPT ![v].pc = "redeem", ![v].user = u]
      BY <1>12, <2>3 DEF CreateAccount
    <3>2. account' \in [User -> Account] /\ origin' \in [User -> Invite \cup {Null}]
      BY <1>1, <3>1 DEF Account, Life, Registering
    <3>3. reg' \in [Visitor -> Registering]
      BY <1>1, <3>1, ZenonT(60) DEF Registering
    <3> QED
      BY <1>1, <1>12, <3>2, <3>3 DEF CreateAccount, TypeOK
  <2> QED
    BY <2>2, <2>3
<1>13. ASSUME NEW v \in Visitor, MarkInvitationUsed(v)
       PROVE  TypeOK'
  <2>1. reg' \in [Visitor -> Registering]
    BY <1>1, <1>13 DEF MarkInvitationUsed, Registering, Idle
  <2>2. invite' \in [Invite -> Invitation]
    <3>1. CASE invite' = invite
      BY <1>1, <3>1
    <3>2. CASE /\ reg[v].user \in Live
               /\ invite' = [invite EXCEPT ![reg[v].code].used = TRUE,
                                           ![reg[v].code].usedBy = reg[v].user]
      <4>1. reg[v].user \in User
        BY <3>2 DEF Live
      <4>2. CASE reg[v].code \in Invite
        <5>1. [[invite[reg[v].code] EXCEPT !.used = TRUE] EXCEPT !.usedBy = reg[v].user]
                  \in Invitation
          BY <1>1, <4>1, <4>2, ZenonT(60) DEF Invitation
        <5>2. invite' = [invite EXCEPT ![reg[v].code] =
                  [[invite[reg[v].code] EXCEPT !.used = TRUE] EXCEPT !.usedBy = reg[v].user]]
          BY <1>1, <3>2, <4>2
        <5> QED
          BY <1>1, <4>2, <5>1, <5>2
      <4>3. CASE reg[v].code \notin Invite
        BY <1>1, <3>2, <4>3
      <4> QED
        BY <4>2, <4>3
    <3> QED
      BY <1>13, <3>1, <3>2 DEF MarkInvitationUsed
  <2>3. redeemed' \subseteq User
    BY <1>1, <1>13 DEF MarkInvitationUsed, Live
  <2> QED
    BY <1>1, <1>13, <2>1, <2>2, <2>3 DEF MarkInvitationUsed, TypeOK
<1>14. ASSUME NEW u \in User, NEW e \in Email, ChangeEmail(u, e)
       PROVE  TypeOK'
  BY <1>1, <1>14 DEF ChangeEmail, Account, TypeOK
<1>15. ASSUME NEW u \in User, DeleteAccount(u)
       PROVE  TypeOK'
  <2>1. account' \in [User -> Account]
    BY <1>1, <1>15 DEF DeleteAccount, Account, Life
  <2>2. ASSUME NEW i \in Invite
        PROVE  [invite[i] EXCEPT
                   !.life = IF @ = "live" /\ invite[i].by = u THEN "deleted" ELSE @,
                   !.usedBy = IF @ = u THEN Null ELSE @] \in Invitation
    BY <1>1 DEF Invitation, Life
  <2>3. invite' \in [Invite -> Invitation]
    BY <1>15, <2>2 DEF DeleteAccount
  <2> QED
    BY <1>1, <1>15, <2>1, <2>3 DEF DeleteAccount, TypeOK
<1>16. CASE Tick
  BY <1>1, <1>16 DEF Tick, TypeOK
<1> QED
  BY <1>2, <1>4, <1>5, <1>6, <1>7, <1>8, <1>10, <1>11, <1>12, <1>13, <1>14, <1>15,
     <1>16, <1>17
     DEF Next
-----------------------------------------------------------------------------
(* The locals of a request: what it knows of its invitation (RegShape1), and *)
(* of the account it made (RegShape2).  A request that came late has its     *)
(* first validation before it, and will not pass.                            *)
RegShape1(v) ==
    /\ reg[v].pc # "idle" =>
          /\ reg[v].code \in Invite /\ reg[v].email \in Email
          /\ invite[reg[v].code].life # "unborn"
    /\ reg[v].pc = "create" => reg[v].email = invite[reg[v].code].email
    /\ reg[v].late => reg[v].pc = "validate" /\ invite[reg[v].code].used

RegShape2(v) ==
    reg[v].pc \in {"redeem", "mark"} =>
        /\ reg[v].user \in User
        /\ account[reg[v].user].life # "unborn"
        /\ origin[reg[v].user] = reg[v].code

(* A request that sends an invitation knows of a row that exists.  When it   *)
(* wrote alone, what it wrote lasts at least until its own deadline.         *)
SendShape(a) ==
    /\ send[a].code # Null =>
          send[a].code \in Invite /\ invite[send[a].code].life # "unborn"
    /\ send[a].at = "idle" => send[a].code = Null
    /\ send[a].at = "written" => send[a].code # Null
    /\ send[a].since <= clock
    /\ send[a].at = "written" /\ send[a].lone /\ invite[send[a].code].life = "live" =>
          Deadline(a) <= invite[send[a].code].expires

(* While a lone resend runs, no other resend of its invitation does; and     *)
(* once it has written, the others read the clock after it.                  *)
Apart(a, b) ==
    a # b /\ send[a].code # Null /\ send[b].code = send[a].code /\ send[a].lone =>
        /\ send[a].at = "written" \/ send[b].at = "written"
        /\ send[a].at = "written" /\ send[b].at = "dated" => send[a].since <= send[b].since

(* An account that has redeemed its invitation has used it up.               *)
RedeemedIsUsed == \A u \in redeemed :
    /\ account[u].life # "unborn"
    /\ origin[u] \in Invite /\ invite[origin[u]].used

UsedByLives == \A i \in Invite : invite[i].usedBy # Null =>
    /\ invite[i].used
    /\ invite[i].usedBy \in Live
    /\ origin[invite[i].usedBy] = i

IInv ==
    /\ TypeOK
    /\ \A v \in Visitor : RegShape1(v) /\ RegShape2(v)
    /\ \A a \in Mailer : SendShape(a) /\ \A b \in Mailer : Apart(a, b)
    /\ RedeemedIsUsed
    /\ UsedByLives

LEMMA Initially == Init => IInv
<1> SUFFICES ASSUME Init PROVE IInv
  OBVIOUS
<1>1. TypeOK
  BY TypesInitially
<1>2. \A v \in Visitor : RegShape1(v) /\ RegShape2(v)
  BY DEF Init, RegShape1, RegShape2, Idle
<1>3. \A a \in Mailer : SendShape(a) /\ \A b \in Mailer : Apart(a, b)
  BY DEF Init, SendShape, Apart, NotSending
<1>4. UsedByLives /\ RedeemedIsUsed
  BY DEF Init, UsedByLives, RedeemedIsUsed
<1> QED
  BY <1>1, <1>2, <1>3, <1>4 DEF IInv

(* A request whose locals are left alone keeps its shape.                    *)
LEMMA OthersKeepShape ==
    ASSUME IInv, Kept, NEW v \in Visitor, reg'[v] = reg[v]
    PROVE  RegShape1(v)' /\ RegShape2(v)'
BY DEF IInv, Kept, RegShape1, RegShape2

LEMMA RequestsStep ==
    ASSUME IInv, Kept, [Next]_vars
    PROVE  \A v \in Visitor : RegShape1(v)' /\ RegShape2(v)'
<1>1. TypeOK /\ \A v \in Visitor : reg[v] \in Registering
  BY DEF IInv, TypeOK
<1>2. CASE reg' = reg
  BY <1>2, OthersKeepShape
<1>3. ASSUME NEW w \in Visitor, \A v \in Visitor \ {w} : reg'[v] = reg[v],
             RegShape1(w)' /\ RegShape2(w)'
      PROVE  \A v \in Visitor : RegShape1(v)' /\ RegShape2(v)'
  BY <1>3, OthersKeepShape
<1>4. ASSUME NEW w \in Visitor, reg' = [reg EXCEPT ![w] = Idle]
      PROVE  \A v \in Visitor : RegShape1(v)' /\ RegShape2(v)'
  <2>1. reg'[w] = Idle
    BY <1>4 DEF IInv, TypeOK
  <2> QED
    BY <1>3, <1>4, <2>1 DEF RegShape1, RegShape2, Idle, IInv, TypeOK
<1>5. ASSUME NEW w \in Visitor, NEW i \in Invite, NEW e \in Email, Register(w, i, e)
      PROVE  \A v \in Visitor : RegShape1(v)' /\ RegShape2(v)'
  <2>1. reg'[w] = [Idle EXCEPT !.pc = "validate", !.code = i, !.email = e,
                               !.late = \E u \in redeemed : origin[u] = i]
    BY <1>1, <1>5 DEF Register, TypeOK
  <2>2. invite[i].life # "unborn" /\ invite' = invite
    BY <1>5 DEF Register
  <2>3. (\E u \in redeemed : origin[u] = i) => invite[i].used
    BY DEF IInv, RedeemedIsUsed
  <2>4. /\ reg'[w].pc = "validate" /\ reg'[w].code = i /\ reg'[w].email = e
        /\ reg'[w].late => invite[i].used
    BY <2>1, <2>3 DEF Idle
  <2>5. RegShape1(w)' /\ RegShape2(w)'
    BY <2>2, <2>4 DEF RegShape1, RegShape2
  <2> QED
    BY <1>1, <1>3, <1>5, <2>5 DEF Register, TypeOK
<1>6. ASSUME NEW w \in Visitor, ValidateCode(w)
      PROVE  \A v \in Visitor : RegShape1(v)' /\ RegShape2(v)'
  <2>1. CASE /\ Acceptable(reg[w].code) /\ invite[reg[w].code].email = reg[w].email
             /\ reg' = [reg EXCEPT ![w] = [@ EXCEPT !.pc = "create"]]
    <3>1. /\ reg'[w].pc = "create" /\ reg'[w].code = reg[w].code
          /\ reg'[w].email = reg[w].email /\ reg'[w].late = reg[w].late
      BY <1>1, <2>1 DEF TypeOK, Registering
    <3>2. reg[w].pc = "validate" /\ invite' = invite
      BY <1>6 DEF ValidateCode
    <3>3. ~reg[w].late
      BY <2>1 DEF IInv, RegShape1, Acceptable
    <3>4. RegShape1(w)' /\ RegShape2(w)'
      BY <2>1, <3>1, <3>2, <3>3 DEF IInv, RegShape1, RegShape2
    <3> QED
      BY <1>1, <1>3, <2>1, <3>4 DEF TypeOK
  <2> QED
    BY <1>4, <1>6, <2>1 DEF ValidateCode
<1>7. ASSUME NEW w \in Visitor, CreateAccount(w)
      PROVE  \A v \in Visitor : RegShape1(v)' /\ RegShape2(v)'
  <2>1. CASE EmailTaken(reg[w].email)
    BY <1>4, <1>7, <2>1 DEF CreateAccount
  <2>2. CASE ~EmailTaken(reg[w].email)
    <3>1. PICK u \in User :
              /\ account' = [account EXCEPT ![u] = [life |-> "live", email |-> reg[w].email]]
              /\ origin' = [origin EXCEPT ![u] = reg[w].code]
              /\ reg' = [reg EXCEPT ![w].pc = "redeem", ![w].user = u]
      BY <1>7, <2>2 DEF CreateAccount
    <3>2. /\ reg'[w].pc = "redeem" /\ reg'[w].code = reg[w].code /\ reg'[w].user = u
          /\ reg'[w].email = reg[w].email /\ reg'[w].late = reg[w].late
      BY <1>1, <3>1 DEF TypeOK, Registering
    <3>3. reg[w].pc = "create" /\ invite' = invite
      BY <1>7 DEF CreateAccount
    <3>4. account'[u].life = "live" /\ origin'[u] = reg[w].code
      BY <1>1, <3>1 DEF TypeOK
    <3>5. RegShape1(w)' /\ RegShape2(w)'
      BY <3>2, <3>3, <3>4 DEF IInv, RegShape1, RegShape2
    <3> QED
      BY <1>1, <1>3, <3>1, <3>5 DEF TypeOK
  <2> QED
    BY <2>1, <2>2
<1>8. ASSUME NEW w \in Visitor, RedeemInvitation(w)
      PROVE  \A v \in Visitor : RegShape1(v)' /\ RegShape2(v)'
  <2>1. CASE reg' = [reg EXCEPT ![w] = [@ EXCEPT !.pc = "mark"]]
    <3>1. /\ reg'[w].pc = "mark" /\ reg'[w].code = reg[w].code
          /\ reg'[w].user = reg[w].user
          /\ reg'[w].email = reg[w].email /\ reg'[w].late = reg[w].late
      BY <1>1, <2>1 DEF TypeOK, Registering
    <3>2. reg[w].pc = "redeem" /\ UNCHANGED <<account, invite, origin>>
      BY <1>8 DEF RedeemInvitation
    <3>3. RegShape1(w)' /\ RegShape2(w)'
      BY <3>1, <3>2 DEF IInv, RegShape1, RegShape2
    <3> QED
      BY <1>1, <1>3, <2>1, <3>3 DEF TypeOK
  <2> QED
    BY <1>4, <1>8, <2>1 DEF RedeemInvitation
<1> QED
  BY <1>2, <1>4, <1>5, <1>6, <1>7, <1>8
     DEF Next, vars, CreateInvitation, ReadInvitation, NewExpiry, UpdateExpiry, SendInvitationEmail,
         ArchiveInvitation, MarkInvitationUsed, CutOff, ChangeEmail, DeleteAccount, Tick

(* A request whose row and locals a step leaves alone keeps its shape, and   *)
(* two of them stay apart.                                                   *)
LEMMA OthersKeepSending ==
    ASSUME IInv, Kept, NEW a \in Mailer, send'[a] = send[a], clock' \in Nat,
           send[a].code # Null =>
               \/ invite'[send[a].code].expires = invite[send[a].code].expires
               \/ invite[send[a].code].life = "unborn"
    PROVE  SendShape(a)'
<1>1. /\ send[a] \in Sending /\ clock \in Nat /\ SendShape(a) /\ send[a].since \in Nat
  BY DEF IInv, TypeOK, Sending
<1>2. clock <= clock'
  BY DEF Kept
<1>3. Deadline(a)' = Deadline(a)
  BY DEF Deadline
<1>4. CASE send[a].code = Null
  BY <1>1, <1>2, <1>4 DEF SendShape
<1>5. CASE send[a].code # Null
  <2>1. /\ send[a].code \in Invite /\ invite[send[a].code].life # "unborn"
        /\ invite'[send[a].code].life # "unborn"
        /\ invite'[send[a].code].expires = invite[send[a].code].expires
        /\ invite'[send[a].code].life = "live" => invite[send[a].code].life = "live"
    BY <1>1, <1>5 DEF SendShape, Kept
  <2> QED
    BY <1>1, <1>2, <1>3, <1>5, <2>1 DEF SendShape
<1> QED
  BY <1>4, <1>5

LEMMA SendingStep ==
    ASSUME IInv, Kept, [Next]_vars, TypeOK'
    PROVE  \A a \in Mailer : SendShape(a)' /\ \A b \in Mailer : Apart(a, b)'
<1>1. /\ TypeOK /\ clock \in Nat /\ clock' \in Nat /\ InvitationTTL \in Nat
      /\ send \in [Mailer -> Sending] /\ invite \in [Invite -> Invitation]
      /\ \A a \in Mailer : /\ send[a] \in Sending /\ send[a].since \in Nat
                            /\ SendShape(a)
  BY TimeAssumption DEF IInv, TypeOK, Sending
<1>0. \A a, b \in Mailer : Apart(a, b)
  BY DEF IInv
<1>2. ASSUME send' = send, \A i \in Invite : invite'[i].expires = invite[i].expires
      PROVE  \A a \in Mailer : SendShape(a)' /\ \A b \in Mailer : Apart(a, b)'
  <2>1. \A a, b \in Mailer : Apart(a, b)'
    BY <1>0, <1>2 DEF Apart
  <2>2. \A a \in Mailer : SendShape(a)'
    BY <1>1, <1>2, OthersKeepSending DEF SendShape
  <2> QED
    BY <2>1, <2>2
<1>3. ASSUME NEW b \in Mailer, NEW i \in Invite, NEW e \in Email, CreateInvitation(b, i, e)
      PROVE  \A a \in Mailer : SendShape(a)' /\ \A c \in Mailer : Apart(a, c)'
  <2>1. /\ send'[b] = [send[b] EXCEPT !.at = "written", !.code = i] /\ clock' = clock
        /\ \A a \in Mailer \ {b} : send'[a] = send[a]
        /\ invite[i].life = "unborn"
    BY <1>1, <1>3 DEF CreateInvitation
  <2>2. /\ send'[b].at = "written" /\ send'[b].code = i /\ send'[b].since = send[b].since
    BY <1>1, <2>1 DEF Sending
  <2>3. /\ invite'[i].life = "live" /\ invite'[i].expires = Deadline(b)
        /\ \A j \in Invite \ {i} : invite'[j] = invite[j]
    BY <1>1, <1>3 DEF CreateInvitation, Invitation
  <2>4. Deadline(b)' = Deadline(b) /\ Deadline(b) \in Nat
    BY <1>1, <2>2 DEF Deadline
  <2>5. SendShape(b)'
    BY <1>1, <2>1, <2>2, <2>3, <2>4, NullAssumption DEF SendShape
  <2>6. \A a \in Mailer \ {b} : send[a].code # i
    BY <1>1, <2>1, NullAssumption DEF SendShape
  <2>7. \A a \in Mailer \ {b} : SendShape(a)'
    BY <1>1, <2>1, <2>3, <2>6, OthersKeepSending DEF SendShape
  <2>8. ASSUME NEW a \in Mailer, NEW c \in Mailer
        PROVE  Apart(a, c)'
    <3>1. CASE a # b /\ c # b
      <4>1. send'[a] = send[a] /\ send'[c] = send[c] /\ Apart(a, c)
        BY <1>0, <2>1, <3>1
      <4> QED
        BY <4>1 DEF Apart
    <3>2. CASE a = b /\ c # b
      <4>1. send'[c] = send[c] /\ send[c].code # i
        BY <2>1, <2>6, <3>2
      <4>2. send'[a].code = i
        BY <2>2, <3>2
      <4> QED
        BY <4>1, <4>2 DEF Apart
    <3>3. CASE a # b /\ c = b
      BY <2>1, <2>2, <2>6, <3>3 DEF Apart
    <3>4. CASE a = c
      BY <3>4 DEF Apart
    <3> QED
      BY <3>1, <3>2, <3>3, <3>4
  <2> QED
    BY <2>5, <2>7, <2>8
<1>4. ASSUME NEW b \in Mailer, NEW i \in Invite, ReadInvitation(b, i)
      PROVE  \A a \in Mailer : SendShape(a)' /\ \A c \in Mailer : Apart(a, c)'
  <2>1. /\ send'[b].at = "read" /\ send'[b].code = i /\ send'[b].since = 0
        /\ send'[b].lone = (Resending(i) = {})
    BY <1>1, <1>4 DEF ReadInvitation, NotSending
  <2>2. invite' = invite /\ clock' = clock /\ invite[i].life = "live" /\ i # Null
    BY <1>4, NullAssumption DEF ReadInvitation
  <2>3. SendShape(b)'
    BY <1>1, <2>1, <2>2 DEF SendShape
  <2>4. ASSUME NEW a \in Mailer \ {b}
        PROVE  /\ send'[a].at = send[a].at /\ send'[a].code = send[a].code
               /\ send'[a].since = send[a].since
               /\ send'[a].lone \in {send[a].lone, FALSE}
               /\ a \in Resending(i) => ~send'[a].lone
    <3>1. send'[a] = IF a \in Resending(i) THEN [send[a] EXCEPT !.lone = FALSE] ELSE send[a]
      BY <1>4 DEF ReadInvitation
    <3> QED
      BY <1>1, <3>1 DEF Sending
  <2>5. ASSUME NEW a \in Mailer \ {b}
        PROVE  SendShape(a)'
    <3>1. SendShape(a) /\ Deadline(a)' = Deadline(a)
      BY <1>1, <2>4 DEF Deadline
    <3> QED
      BY <2>2, <2>4, <3>1 DEF SendShape
  <2>6. ASSUME NEW a \in Mailer, NEW c \in Mailer
        PROVE  Apart(a, c)'
    <3>1. CASE a # b /\ c # b
      <4>1. Apart(a, c)
        BY <1>0
      <4>2. /\ send'[a].at = send[a].at /\ send'[a].code = send[a].code
            /\ send'[a].since = send[a].since /\ send'[a].lone \in {send[a].lone, FALSE}
            /\ send'[c].at = send[c].at /\ send'[c].code = send[c].code
            /\ send'[c].since = send[c].since
        BY <2>4, <3>1
      <4> QED
        BY <4>1, <4>2 DEF Apart
    <3>2. CASE a # b /\ c = b
      <4>1. send[a].at = "idle" => send[a].code = Null
        BY <1>1 DEF SendShape
      <4>2. send[a].at \in {"idle", "read", "dated", "written"}
        BY <1>1 DEF Sending
      <4> QED
        BY <2>1, <2>2, <2>4, <3>2, <4>1, <4>2 DEF Apart, Resending
    <3>3. CASE a = b /\ c # b
      <4>1. send[c].at = "idle" => send[c].code = Null
        BY <1>1 DEF SendShape
      <4>2. send[c].at \in {"idle", "read", "dated", "written"}
        BY <1>1 DEF Sending
      <4> QED
        <5>1. /\ send'[c].at = send[c].at /\ send'[c].code = send[c].code
          BY <2>4, <3>3
        <5>2. send[c].code = i /\ send'[b].lone => send[c].at \notin {"read", "dated"}
          BY <2>1 DEF Resending
        <5> QED
          BY <2>1, <2>2, <3>3, <4>1, <4>2, <5>1, <5>2 DEF Apart
    <3> QED
      BY <3>1, <3>2, <3>3 DEF Apart
  <2> QED
    BY <2>3, <2>5, <2>6
<1>5. ASSUME NEW b \in Mailer, NewExpiry(b)
      PROVE  \A a \in Mailer : SendShape(a)' /\ \A c \in Mailer : Apart(a, c)'
  <2>1. /\ send'[b] = [send[b] EXCEPT !.at = "dated", !.since = clock]
        /\ \A a \in Mailer \ {b} : send'[a] = send[a]
        /\ invite' = invite /\ clock' = clock /\ send[b].at \in {"idle", "read"}
    BY <1>1, <1>5 DEF NewExpiry
  <2>2. /\ send'[b].at = "dated" /\ send'[b].since = clock
        /\ send'[b].code = send[b].code /\ send'[b].lone = send[b].lone
    BY <1>1, <2>1 DEF Sending
  <2>3. SendShape(b)'
    BY <1>1, <2>1, <2>2 DEF SendShape
  <2>4. \A a \in Mailer \ {b} : SendShape(a)'
    BY <1>1, <2>1, OthersKeepSending DEF SendShape
  <2>5. ASSUME NEW a \in Mailer, NEW c \in Mailer
        PROVE  Apart(a, c)'
    <3>1. send[b].at = "idle" => send[b].code = Null
      BY <1>1 DEF SendShape
    <3>2. send[a].since <= clock /\ Apart(a, c)
      BY <1>0, <1>1 DEF SendShape
    <3>3. CASE a # b /\ c # b
      BY <2>1, <3>2, <3>3 DEF Apart
    <3>4. CASE a # b /\ c = b
      <4>1. send'[a] = send[a]
        BY <2>1, <3>4
      <4> QED
        BY <2>1, <2>2, <3>1, <3>2, <3>4, <4>1 DEF Apart
    <3>5. CASE a = b /\ c # b
      <4>1. send'[c] = send[c]
        BY <2>1, <3>5
      <4> QED
        BY <2>1, <2>2, <3>1, <3>2, <3>5, <4>1 DEF Apart
    <3> QED
      BY <3>3, <3>4, <3>5 DEF Apart
  <2> QED
    BY <2>3, <2>4, <2>5
<1>6. ASSUME NEW b \in Mailer, UpdateExpiry(b)
      PROVE  \A a \in Mailer : SendShape(a)' /\ \A c \in Mailer : Apart(a, c)'
  <2> DEFINE i == send[b].code
  <2>1. /\ send'[b] = [send[b] EXCEPT !.at = "written"] /\ clock' = clock
        /\ \A a \in Mailer \ {b} : send'[a] = send[a]
        /\ send[b].at = "dated" /\ i # Null
    BY <1>1, <1>6 DEF UpdateExpiry
  <2>2. /\ send'[b].at = "written" /\ send'[b].code = i
        /\ send'[b].since = send[b].since /\ send'[b].lone = send[b].lone
    BY <1>1, <2>1 DEF Sending
  <2>3. i \in Invite /\ invite[i].life # "unborn"
    BY <1>1, <2>1 DEF SendShape
  <2>4. /\ invite'[i].life = invite[i].life
        /\ invite[i].life = "live" => invite'[i].expires = Deadline(b)
        /\ invite[i].life # "live" => invite'[i] = invite[i]
        /\ \A j \in Invite \ {i} : invite'[j] = invite[j]
    BY <1>1, <1>6, <2>3 DEF UpdateExpiry, Invitation
  <2>5. ASSUME NEW a \in Mailer
        PROVE  /\ Deadline(a)' = Deadline(a) /\ Deadline(a) \in Nat
               /\ Deadline(a) = send[a].since + InvitationTTL
    <3>1. send'[a].since = send[a].since
      BY <2>1, <2>2
    <3> QED
      BY <1>1, <3>1 DEF Deadline
  <2>6. SendShape(b)'
    BY <1>1, <2>1, <2>2, <2>3, <2>4, <2>5 DEF SendShape
  <2>7. ASSUME NEW a \in Mailer \ {b}
        PROVE  SendShape(a)'
    <3>1. CASE send[a].code # i \/ invite[i].life # "live"
      BY <1>1, <2>1, <2>4, <3>1, OthersKeepSending DEF SendShape
    <3>2. CASE send[a].code = i /\ invite[i].life = "live"
      <4>1. send[a].at = "written" /\ send[a].lone => send[a].since <= send[b].since
        BY <1>0, <2>1, <3>2 DEF Apart
      <4>2. send[a].at = "written" /\ send[a].lone => Deadline(a) <= Deadline(b)
        BY <1>1, <2>5, <4>1
      <4> QED
        BY <1>1, <2>1, <2>3, <2>4, <2>5, <3>2, <4>2 DEF SendShape
    <3> QED
      BY <3>1, <3>2
  <2>8. ASSUME NEW a \in Mailer, NEW c \in Mailer
        PROVE  Apart(a, c)'
    <3>1. Apart(a, c)
      BY <1>0
    <3>2. \A d \in {a, c} : /\ send'[d].code = send[d].code /\ send'[d].since = send[d].since
                            /\ send'[d].lone = send[d].lone
                            /\ send'[d].at = IF d = b THEN "written" ELSE send[d].at
      BY <2>1, <2>2
    <3> QED
      BY <2>1, <3>1, <3>2 DEF Apart
  <2> QED
    BY <2>6, <2>7, <2>8
<1>7. ASSUME NEW b \in Mailer, SendInvitationEmail(b)
      PROVE  \A a \in Mailer : SendShape(a)' /\ \A c \in Mailer : Apart(a, c)'
  <2>1. /\ send'[b] = NotSending /\ \A a \in Mailer \ {b} : send'[a] = send[a]
        /\ invite' = invite /\ clock' = clock
    BY <1>1, <1>7 DEF SendInvitationEmail
  <2>2. send'[b].code = Null /\ send'[b].since = 0 /\ send'[b].at = "idle"
    BY <2>1 DEF NotSending
  <2>3. SendShape(b)'
    BY <1>1, <2>1, <2>2 DEF SendShape
  <2>4. \A a \in Mailer \ {b} : SendShape(a)'
    BY <1>1, <2>1, OthersKeepSending DEF SendShape
  <2>5. \A a, c \in Mailer : Apart(a, c)'
    BY <1>0, <2>1, <2>2 DEF Apart
  <2> QED
    BY <2>3, <2>4, <2>5
<1>8. ASSUME NEW v \in Visitor, MarkInvitationUsed(v)
      PROVE  \A a \in Mailer : SendShape(a)' /\ \A c \in Mailer : Apart(a, c)'
  BY <1>1, <1>2, <1>8 DEF MarkInvitationUsed, Invitation
<1>9. ASSUME NEW i \in Invite, ArchiveInvitation(i)
      PROVE  \A a \in Mailer : SendShape(a)' /\ \A c \in Mailer : Apart(a, c)'
  BY <1>1, <1>2, <1>9 DEF ArchiveInvitation, Invitation
<1>10. ASSUME NEW u \in User, DeleteAccount(u)
       PROVE  \A a \in Mailer : SendShape(a)' /\ \A c \in Mailer : Apart(a, c)'
  <2>1. ASSUME NEW i \in Invite
        PROVE  invite'[i].expires = invite[i].expires
    <3>1. invite'[i] = [invite[i] EXCEPT
              !.life = IF @ = "live" /\ invite[i].by = u THEN "deleted" ELSE @,
              !.usedBy = IF @ = u THEN Null ELSE @]
      BY <1>10 DEF DeleteAccount
    <3> QED
      BY <1>1, <3>1 DEF Invitation
  <2> QED
    BY <1>2, <1>10, <2>1 DEF DeleteAccount
<1>11. CASE UNCHANGED <<send, invite>>
  BY <1>2, <1>11
<1> QED
  BY <1>3, <1>4, <1>5, <1>6, <1>7, <1>8, <1>9, <1>10, <1>11
     DEF Next, vars, Register, ValidateCode, CreateAccount, RedeemInvitation, CutOff,
         ChangeEmail, Tick

(* Redeeming an invitation uses it up for good.                              *)
LEMMA RedeemedStep ==
    ASSUME IInv, Kept, [Next]_vars
    PROVE  RedeemedIsUsed'
<1>1. ASSUME NEW u \in redeemed
      PROVE  /\ account'[u].life # "unborn"
             /\ origin'[u] \in Invite /\ invite'[origin'[u]].used
  <2>1. u \in User
    BY DEF IInv, TypeOK
  <2> QED
    BY <2>1 DEF IInv, RedeemedIsUsed, Kept
<1>2. CASE redeemed' = redeemed
  BY <1>1, <1>2 DEF RedeemedIsUsed
<1>3. ASSUME NEW v \in Visitor, MarkInvitationUsed(v), redeemed' # redeemed
      PROVE  RedeemedIsUsed'
  <2>1. /\ redeemed' = redeemed \cup {reg[v].user}
        /\ invite' = [invite EXCEPT ![reg[v].code].used = TRUE,
                                    ![reg[v].code].usedBy = reg[v].user]
        /\ UNCHANGED <<account, origin>>
    BY <1>3 DEF MarkInvitationUsed
  <2>2. /\ reg[v].user \in User /\ account[reg[v].user].life # "unborn"
        /\ origin[reg[v].user] = reg[v].code /\ reg[v].code \in Invite
    BY <1>3 DEF MarkInvitationUsed, IInv, RegShape1, RegShape2
  <2>3. invite'[reg[v].code].used
    BY <2>1, <2>2 DEF IInv, TypeOK, Invitation
  <2> QED
    BY <1>1, <2>1, <2>2, <2>3 DEF RedeemedIsUsed
<1> QED
  BY <1>2, <1>3
     DEF Next, vars, CreateInvitation, ReadInvitation, NewExpiry, UpdateExpiry,
         SendInvitationEmail, ArchiveInvitation, Register, ValidateCode, CreateAccount,
         RedeemInvitation, CutOff, ChangeEmail, DeleteAccount, Tick

(* An account that is named as the user of an invitation lives, or is struck *)
(* out with its row.                                                         *)
LEMMA UsedByStep ==
    ASSUME IInv, Kept, [Next]_vars
    PROVE  UsedByLives'
<1>1. /\ TypeOK /\ UsedByLives
      /\ account \in [User -> Account] /\ invite \in [Invite -> Invitation]
      /\ reg \in [Visitor -> Registering]
  BY DEF IInv, TypeOK
<1>2. ASSUME NEW i \in Invite, invite'[i].usedBy = invite[i].usedBy, invite[i].usedBy # Null,
             account'[invite[i].usedBy].life = "live"
      PROVE  /\ invite'[i].used /\ invite'[i].usedBy \in Live'
             /\ origin'[invite'[i].usedBy] = i
  <2>1. invite[i].used /\ invite[i].usedBy \in User /\ origin[invite[i].usedBy] = i
    BY <1>1, <1>2 DEF UsedByLives, Live
  <2>2. account[invite[i].usedBy].life # "unborn"
    BY <1>1, <1>2 DEF UsedByLives, Live
  <2> QED
    BY <1>2, <2>1, <2>2 DEF Kept, Live
<1>3. ASSUME \A i \in Invite : invite'[i].usedBy = invite[i].usedBy,
             \A u \in User : account[u].life = "live" => account'[u].life = "live"
      PROVE  UsedByLives'
  BY <1>1, <1>2, <1>3 DEF UsedByLives, Live
<1>4. ASSUME account' = account,
             NEW i \in Invite, invite'[i].usedBy = invite[i].usedBy,
             \A j \in Invite \ {i} : invite'[j] = invite[j]
      PROVE  UsedByLives'
  BY <1>3, <1>4
<1>5. CASE UNCHANGED <<account, invite>>
  BY <1>3, <1>5
<1>6. ASSUME NEW a \in Mailer, NEW i \in Invite, NEW e \in Email, CreateInvitation(a, i, e)
      PROVE  UsedByLives'
  BY <1>1, <1>4, <1>6 DEF CreateInvitation, Invitation
<1>7. ASSUME NEW a \in Mailer, UpdateExpiry(a)
      PROVE  UsedByLives'
  <2>1. send[a].code \in Invite
    BY <1>7 DEF UpdateExpiry, IInv, SendShape
  <2> QED
    BY <1>1, <1>4, <1>5, <1>7, <2>1 DEF UpdateExpiry, Invitation
<1>8. ASSUME NEW i \in Invite, ArchiveInvitation(i)
      PROVE  UsedByLives'
  BY <1>1, <1>4, <1>8 DEF ArchiveInvitation, Invitation
<1>9. ASSUME NEW v \in Visitor, CreateAccount(v)
      PROVE  UsedByLives'
  BY <1>1, <1>3, <1>9 DEF CreateAccount, Account
<1>10. ASSUME NEW v \in Visitor, MarkInvitationUsed(v)
       PROVE  UsedByLives'
  <2> DEFINE i == reg[v].code  u == reg[v].user
  <2>1. i \in Invite /\ u \in User /\ origin[u] = i
    BY <1>10 DEF MarkInvitationUsed, IInv, RegShape1, RegShape2
  <2>2. UNCHANGED <<account, origin>>
    BY <1>10 DEF MarkInvitationUsed
  <2>3. CASE invite[i].life = "live" /\ u \in Live
    <3>1. invite'[i].used /\ invite'[i].usedBy = u
      BY <1>1, <1>10, <2>1, <2>3 DEF MarkInvitationUsed, Invitation
    <3>2. \A j \in Invite \ {i} : invite'[j] = invite[j]
      BY <1>1, <1>10, <2>1, <2>3 DEF MarkInvitationUsed
    <3> QED
      BY <1>1, <2>1, <2>2, <2>3, <3>1, <3>2 DEF UsedByLives, Live
  <2>4. CASE ~(invite[i].life = "live" /\ u \in Live)
    BY <1>5, <1>10, <2>2, <2>4 DEF MarkInvitationUsed
  <2> QED
    BY <2>3, <2>4
<1>11. ASSUME NEW u \in User, NEW e \in Email, ChangeEmail(u, e)
       PROVE  UsedByLives'
  BY <1>1, <1>3, <1>11 DEF ChangeEmail, Account
<1>12. ASSUME NEW u \in User, DeleteAccount(u)
       PROVE  UsedByLives'
  <2>1. ASSUME NEW i \in Invite
        PROVE  invite'[i].usedBy = IF invite[i].usedBy = u THEN Null ELSE invite[i].usedBy
    <3>1. invite'[i] = [invite[i] EXCEPT
              !.life = IF @ = "live" /\ invite[i].by = u THEN "deleted" ELSE @,
              !.usedBy = IF @ = u THEN Null ELSE @]
      BY <1>12 DEF DeleteAccount
    <3> QED
      BY <1>1, <3>1 DEF Invitation
  <2>2. \A w \in User \ {u} : account'[w] = account[w]
    BY <1>1, <1>12 DEF DeleteAccount
  <2>3. ASSUME NEW i \in Invite, invite'[i].usedBy # Null
        PROVE  /\ invite'[i].used /\ invite'[i].usedBy \in Live'
               /\ origin'[invite'[i].usedBy] = i
    <3>1. invite'[i].usedBy = invite[i].usedBy /\ invite[i].usedBy # Null
          /\ invite[i].usedBy # u
      BY <2>1, <2>3
    <3>2. account'[invite[i].usedBy].life = "live"
      BY <1>1, <2>2, <3>1 DEF UsedByLives, Live
    <3> QED
      BY <1>2, <3>1, <3>2
  <2> QED
    BY <2>3 DEF UsedByLives
<1> QED
  BY <1>5, <1>6, <1>7, <1>8, <1>9, <1>10, <1>11, <1>12
     DEF Next, vars, ReadInvitation, NewExpiry, SendInvitationEmail, Register, ValidateCode,
         RedeemInvitation, CutOff, Tick

LEMMA Preserved == IInv /\ [Next]_vars => IInv' /\ Kept
<1> SUFFICES ASSUME IInv, [Next]_vars PROVE IInv' /\ Kept
  OBVIOUS
<1>1. TypeOK' /\ Kept
  BY TypesStep, StepKeeps DEF IInv
<1> QED
  BY <1>1, RequestsStep, SendingStep, RedeemedStep, UsedByStep DEF IInv

THEOREM Invariance == Spec => []IInv
BY Initially, Preserved, PTL DEF Spec
-----------------------------------------------------------------------------
(* RedeemInvitation: an invitation that says who used it names an account    *)
(* that lives and was created with its code, and is marked as used.          *)
THEOREM UserOfAnInvitation == Spec => []UsedByItsAccount
<1>1. IInv => UsedByItsAccount
  BY DEF IInv, UsedByLives, UsedByItsAccount
<1> QED
  BY <1>1, Invariance, PTL

(* CreateAndSend, ResendInvitation: the code in a mail is good, for a whole  *)
(* lifetime from the call's clock reading, unless resends overlapped.        *)
THEOREM MailedCodesAreGood == Spec => []MailedCodeIsGood
<1>1. ASSUME IInv PROVE MailedCodeIsGood
  <2> SUFFICES ASSUME NEW a \in Mailer, send[a].at = "written", send[a].lone,
                      invite[send[a].code].life = "live", ~invite[send[a].code].used,
                      clock <= Deadline(a)
               PROVE  Acceptable(send[a].code)
    BY DEF MailedCodeIsGood
  <2>1. send[a].code \in Invite /\ Deadline(a) <= invite[send[a].code].expires
    BY <1>1 DEF IInv, SendShape
  <2>2. /\ clock \in Nat /\ Deadline(a) \in Nat /\ invite[send[a].code].expires \in Nat
    BY <1>1, <2>1, TimeAssumption DEF IInv, TypeOK, Sending, Invitation, Deadline
  <2> QED
    BY <2>1, <2>2 DEF Acceptable
<1> QED
  BY <1>1, Invariance, PTL

(* UpdateExpiry and the handler: a used invitation is never accepted again.  *)
THEOREM UsedInvitationsStayUsed == Spec => UsedIsForGood
<1> DEFINE Stays == \A i \in Invite : invite[i].used => ~Acceptable(i)'
<1>1. IInv /\ [Next]_vars => [Stays]_vars
  BY Preserved DEF Kept, Acceptable
<1> QED
  BY <1>1, Invariance, PTL DEF Spec, UsedIsForGood

(* Register, RedeemInvitation: once an account has redeemed its invitation,  *)
(* no request that arrives afterwards makes an account with it.              *)
THEOREM RedeemedInvitationsMakeNoAccount == Spec => RedeemedOnce
<1> DEFINE NotLate == \A v \in Visitor :
              reg[v].pc = "create" /\ reg'[v].pc = "redeem" => ~reg[v].late
<1>1. IInv /\ [Next]_vars => [NotLate]_vars
  BY DEF IInv, RegShape1
<1> QED
  BY <1>1, Invariance, PTL DEF Spec, RedeemedOnce

(* Register: the address compared with the invitation is the one the         *)
(* account gets, and the invitation's does not change meanwhile.             *)
THEOREM OnlyInvitedAddresses == Spec => InvitedAddressOnly
<1> DEFINE Invited == \A u \in User :
              account[u].life = "unborn" /\ account'[u].life = "live" =>
                  account'[u].email = invite[origin'[u]].email
<1>1. ASSUME IInv, [Next]_vars PROVE [Invited]_vars
  <2>1. account \in [User -> Account] /\ reg \in [Visitor -> Registering]
        /\ origin \in [User -> Invite \cup {Null}]
    BY <1>1 DEF IInv, TypeOK
  <2>2. CASE account' = account
    BY <2>2
  <2>3. ASSUME NEW v \in Visitor, CreateAccount(v) PROVE Invited
    <3>1. CASE EmailTaken(reg[v].email)
      BY <2>3, <3>1 DEF CreateAccount
    <3>2. CASE ~EmailTaken(reg[v].email)
      <4>1. PICK u \in User :
                /\ account' = [account EXCEPT ![u] = [life |-> "live", email |-> reg[v].email]]
                /\ origin' = [origin EXCEPT ![u] = reg[v].code]
        BY <2>3, <3>2 DEF CreateAccount
      <4>2. reg[v].email = invite[reg[v].code].email
        BY <1>1, <2>3 DEF CreateAccount, IInv, RegShape1
      <4> QED
        BY <2>1, <4>1, <4>2
    <3> QED
      BY <3>1, <3>2
  <2>4. ASSUME NEW u \in User, NEW e \in Email, ChangeEmail(u, e) PROVE Invited
    BY <2>1, <2>4 DEF ChangeEmail, Account
  <2>5. ASSUME NEW u \in User, DeleteAccount(u) PROVE Invited
    BY <2>1, <2>5 DEF DeleteAccount, Account
  <2> QED
    BY <1>1, <2>2, <2>3, <2>4, <2>5
       DEF Next, vars, CreateInvitation, ReadInvitation, NewExpiry, UpdateExpiry, SendInvitationEmail,
           ArchiveInvitation, Register, ValidateCode, RedeemInvitation, MarkInvitationUsed,
           CutOff, Tick
<1> QED
  BY <1>1, Invariance, PTL DEF Spec, InvitedAddressOnly
=============================================================================
