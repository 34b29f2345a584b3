---------------------------- MODULE Registration ----------------------------
(***************************************************************************)
(* Invitations (internal/service/invitation_service.go) and the handler     *)
(* that registers an account with one (AuthHandler.Register in              *)
(* internal/handler/auth.go).  The handler is not a transaction: it         *)
(* validates the code, creates the account, validates again and marks the   *)
(* invitation as used, and each of these commits by itself.                 *)
(*                                                                          *)
(* An invitation stands for its id and its code.  Administrators (any       *)
(* account, or Root, who was there first) invite, resend and archive;       *)
(* accounts change their e-mail and are deleted.  The mail with the code    *)
(* goes out after the row is written, or does not; the administrator sees   *)
(* the code in the list of invitations all the same.                        *)
(***************************************************************************)
EXTENDS Naturals

CONSTANTS User,       \* ids of accounts
          Invite,     \* ids (and codes) of invitations
          Email,
          Visitor,    \* requests that register an account
          Mailer,     \* requests that create or resend an invitation
          Root,       \* an administrator who never goes away
          InvitationTTL,
          MaxTime,    \* bound on the clock
          Null

ASSUME TimeAssumption == InvitationTTL \in Nat /\ MaxTime \in Nat
ASSUME NullAssumption == Null \notin User \cup Invite \cup Email

VARIABLES account,  \* the rows of users: e-mail and life of each id
          invite,   \* the rows of invitations
          reg,      \* the progress of each registration
          send,     \* the progress of each request that sends an invitation
          origin,   \* history: the code each account was created with
          redeemed, \* history: the accounts that redeemed their invitation
          clock

vars == <<account, invite, reg, send, origin, redeemed, clock>>

Life == {"unborn", "live", "deleted"}
Account == [life : Life, email : Email \cup {Null}]
Invitation == [life : Life, email : Email \cup {Null}, by : User \cup {Root},
               used : BOOLEAN, usedBy : User \cup {Null}, expires : Nat,
               archived : BOOLEAN]
(* late: history, whether an account made with this code had redeemed it     *)
(* before the request arrived.                                               *)
Registering == [pc : {"idle", "validate", "create", "redeem", "mark"},
                code : Invite \cup {Null}, email : Email \cup {Null},
                user : User \cup {Null}, late : BOOLEAN]
(* since: what time.Now() said, from which the deadline counts; lone:        *)
(* history, no other resend of that invitation ran before this one wrote.    *)
Sending == [at : {"idle", "read", "dated", "written"}, code : Invite \cup {Null},
            since : Nat, lone : BOOLEAN]
NotSending == [at |-> "idle", code |-> Null, since |-> 0, lone |-> TRUE]
Idle == [pc |-> "idle", code |-> Null, email |-> Null, user |-> Null, late |-> FALSE]

(* What rows of users and invitations and the locals of the register handler *)
(* and of the calls that send invitations can be.                            *)
TypeOK ==
    /\ account \in [User -> Account]
    /\ invite \in [Invite -> Invitation]
    /\ reg \in [Visitor -> Registering]
    /\ send \in [Mailer -> Sending]
    /\ origin \in [User -> Invite \cup {Null}]
    /\ redeemed \subseteq User
    /\ clock \in Nat

Init ==
    /\ account = [u \in User |-> [life |-> "unborn", email |-> Null]]
    /\ invite = [i \in Invite |-> [life |-> "unborn", email |-> Null, by |-> Root,
                                   used |-> FALSE, usedBy |-> Null, expires |-> 0,
                                   archived |-> FALSE]]
    /\ reg = [v \in Visitor |-> Idle]
    /\ send = [a \in Mailer |-> NotSending]
    /\ origin = [u \in User |-> Null]
    /\ redeemed = {}
    /\ clock = 0
-----------------------------------------------------------------------------
Live == {u \in User : account[u].life = "live"}

(* The constraint users_email_key.                                          *)
EmailTaken(e) == \E u \in Live : account[u].email = e

(* Mutant of Acceptable: ValidateCode looks at used_by in place of used_at. *)
FreedWithItsUser(i) ==
    /\ invite[i].life = "live"
    /\ invite[i].usedBy = Null
    /\ clock <= invite[i].expires

(* ValidateCode: the row exists, is not used and has not expired; whether   *)
(* it is archived plays no part.                                            *)
Acceptable(i) ==
    /\ invite[i].life = "live"
    /\ ~invite[i].used
    /\ clock <= invite[i].expires

Deadline(a) == send[a].since + InvitationTTL
Resending(i) == {a \in Mailer : send[a].code = i /\ send[a].at \in {"read", "dated"}}

(* ResendInvitation reads the row ...                                       *)
ReadInvitation(a, i) ==
    /\ send[a].at = "idle"
    /\ invite[i].life = "live"
    /\ ~invite[i].used
    /\ send' = [b \in Mailer |->
          IF b = a THEN [NotSending EXCEPT !.at = "read", !.code = i,
                                           !.lone = Resending(i) = {}]
          ELSE IF b \in Resending(i) THEN [send[b] EXCEPT !.lone = FALSE]
          ELSE send[b]]
    /\ UNCHANGED <<account, invite, reg, origin, redeemed, clock>>

(* ... and then the clock, which is all that CreateAndSend reads.           *)
NewExpiry(a) ==
    /\ send[a].at \in {"idle", "read"}
    /\ send' = [send EXCEPT ![a].at = "dated", ![a].since = clock]
    /\ UNCHANGED <<account, invite, reg, origin, redeemed, clock>>

(* CreateAndSend: the row is there, and is kept, when the mail fails.        *)
CreateInvitation(a, i, e) ==
    /\ send[a].at = "dated"
    /\ send[a].code = Null
    /\ invite[i].life = "unborn"
    /\ \E u \in Live \cup {Root} :
          invite' = [invite EXCEPT ![i] = [@ EXCEPT
              !.life = "live", !.email = e, !.by = u, !.expires = Deadline(a)]]
    /\ send' = [send EXCEPT ![a].at = "written", ![a].code = i]
    /\ UNCHANGED <<account, reg, origin, redeemed, clock>>

(* Mutant of UpdateExpiry: the whole row is written back as it was read.    *)
WriteBack(a) ==
    /\ send[a].at = "dated"
    /\ send[a].code # Null
    /\ send' = [send EXCEPT ![a].at = "written"]
    /\ invite' = IF invite[send[a].code].life # "live" THEN invite
                 ELSE [invite EXCEPT ![send[a].code].expires = Deadline(a),
                                     ![send[a].code].used = FALSE,
                                     ![send[a].code].usedBy = Null]
    /\ UNCHANGED <<account, reg, origin, redeemed, clock>>

(* Mutant of UpdateExpiry: the expiry is left as it is.                     *)
KeepExpiry(a) ==
    /\ send[a].at = "dated"
    /\ send[a].code # Null
    /\ send' = [send EXCEPT ![a].at = "written"]
    /\ UNCHANGED <<account, invite, reg, origin, redeemed, clock>>

(* ResendInvitation moves the expiry, whatever became of the row since it   *)
(* was read: another resend may have written a later one.                   *)
UpdateExpiry(a) ==
    /\ send[a].at = "dated"
    /\ send[a].code # Null
    /\ send' = [send EXCEPT ![a].at = "written"]
    /\ invite' = IF invite[send[a].code].life # "live" THEN invite
                 ELSE [invite EXCEPT ![send[a].code].expires = Deadline(a)]
    /\ UNCHANGED <<account, reg, origin, redeemed, clock>>

(* The mail gets out, it does not, or the request is cut off before.        *)
SendInvitationEmail(a) ==
    /\ send[a].at # "idle"
    /\ send' = [send EXCEPT ![a] = NotSending]
    /\ UNCHANGED <<account, invite, reg, origin, redeemed, clock>>

ArchiveInvitation(i) ==
    /\ invite[i].life = "live"
    /\ invite' = [invite EXCEPT ![i].archived = TRUE]
    /\ UNCHANGED <<account, reg, send, origin, redeemed, clock>>
-----------------------------------------------------------------------------
(* POST /register with a code that was once issued, and an e-mail.          *)
Register(v, i, e) ==
    /\ reg[v].pc = "idle"
    /\ invite[i].life # "unborn"
    /\ reg' = [reg EXCEPT ![v] = [Idle EXCEPT !.pc = "validate", !.code = i, !.email = e,
                                               !.late = \E u \in redeemed : origin[u] = i]]
    /\ UNCHANGED <<account, invite, send, origin, redeemed, clock>>

(* Mutant of ValidateCode: the e-mail is not compared with the invitation.  *)
ValidateAnyEmail(v) ==
    /\ reg[v].pc = "validate"
    /\ reg' = [reg EXCEPT ![v] =
                  IF Acceptable(reg[v].code) THEN [@ EXCEPT !.pc = "create"] ELSE Idle]
    /\ UNCHANGED <<account, invite, send, origin, redeemed, clock>>

(* The first validation, and the comparison of the e-mail.                  *)
ValidateCode(v) ==
    /\ reg[v].pc = "validate"
    /\ reg' = [reg EXCEPT ![v] =
                  IF Acceptable(reg[v].code) /\ invite[reg[v].code].email = reg[v].email
                  THEN [@ EXCEPT !.pc = "create"] ELSE Idle]
    /\ UNCHANGED <<account, invite, send, origin, redeemed, clock>>

(* UserService.Register, a transaction; ErrEmailTaken ends the request.     *)
CreateAccount(v) ==
    /\ reg[v].pc = "create"
    /\ \/ /\ EmailTaken(reg[v].email)
          /\ reg' = [reg EXCEPT ![v] = Idle]
          /\ UNCHANGED <<account, origin>>
       \/ /\ ~EmailTaken(reg[v].email)
          /\ \E u \in User :
                /\ account[u].life = "unborn"
                /\ account' = [account EXCEPT ![u] = [life |-> "live", email |-> reg[v].email]]
                /\ origin' = [origin EXCEPT ![u] = reg[v].code]
                /\ reg' = [reg EXCEPT ![v].pc = "redeem", ![v].user = u]
    /\ UNCHANGED <<invite, send, redeemed, clock>>

(* RedeemInvitation validates again; an error is logged and the account     *)
(* stays.                                                                   *)
RedeemInvitation(v) ==
    /\ reg[v].pc = "redeem"
    /\ reg' = [reg EXCEPT ![v] =
                  IF Acceptable(reg[v].code) THEN [@ EXCEPT !.pc = "mark"] ELSE Idle]
    /\ UNCHANGED <<account, invite, send, origin, redeemed, clock>>

(* Mutant of MarkInvitationUsed: used_by does not reference users.          *)
MarkUnchecked(v) ==
    /\ reg[v].pc = "mark"
    /\ invite' = IF invite[reg[v].code].life # "live" THEN invite
                 ELSE [invite EXCEPT ![reg[v].code].used = TRUE,
                                     ![reg[v].code].usedBy = reg[v].user]
    /\ redeemed' = IF invite[reg[v].code].life # "live" THEN redeemed
                   ELSE redeemed \cup {reg[v].user}
    /\ reg' = [reg EXCEPT ![v] = Idle]
    /\ UNCHANGED <<account, send, origin, clock>>

(* The UPDATE finds no row, fails on the foreign key used_by, or succeeds.  *)
MarkInvitationUsed(v) ==
    /\ reg[v].pc = "mark"
    /\ \/ /\ invite[reg[v].code].life = "live" /\ reg[v].user \in Live
          /\ invite' = [invite EXCEPT ![reg[v].code].used = TRUE,
                                      ![reg[v].code].usedBy = reg[v].user]
          /\ redeemed' = redeemed \cup {reg[v].user}
       \/ /\ invite[reg[v].code].life # "live" \/ reg[v].user \notin Live
          /\ UNCHANGED <<invite, redeemed>>
    /\ reg' = [reg EXCEPT ![v] = Idle]
    /\ UNCHANGED <<account, send, origin, clock>>

(* The request is cut off: a crash, a lost connection, a cancelled context. *)
CutOff(v) ==
    /\ reg[v].pc # "idle"
    /\ reg' = [reg EXCEPT ![v] = Idle]
    /\ UNCHANGED <<account, invite, send, origin, redeemed, clock>>
-----------------------------------------------------------------------------
(* UpdateProfile, and the admin's UpdateUser.                               *)
ChangeEmail(u, e) ==
    /\ u \in Live
    /\ ~EmailTaken(e)
    /\ account' = [account EXCEPT ![u].email = e]
    /\ UNCHANGED <<invite, reg, send, origin, redeemed, clock>>

(* DeleteUser: invited_by cascades, used_by is set to NULL.                 *)
DeleteAccount(u) ==
    /\ u \in Live
    /\ account' = [account EXCEPT ![u].life = "deleted", ![u].email = Null]
    /\ invite' = [i \in Invite |->
          [invite[i] EXCEPT
              !.life = IF @ = "live" /\ invite[i].by = u THEN "deleted" ELSE @,
              !.usedBy = IF @ = u THEN Null ELSE @]]
    /\ UNCHANGED <<reg, send, origin, redeemed, clock>>

Tick ==
    /\ clock < MaxTime
    /\ clock' = clock + 1
    /\ UNCHANGED <<account, invite, reg, send, origin, redeemed>>

Next ==
    \/ \E a \in Mailer, i \in Invite :
          ReadInvitation(a, i) \/ \E e \in Email : CreateInvitation(a, i, e)
    \/ \E a \in Mailer : NewExpiry(a) \/ UpdateExpiry(a) \/ SendInvitationEmail(a)
    \/ \E i \in Invite : ArchiveInvitation(i)
    \/ \E v \in Visitor, i \in Invite, e \in Email : Register(v, i, e)
    \/ \E v \in Visitor : \/ ValidateCode(v) \/ CreateAccount(v)
                          \/ RedeemInvitation(v) \/ MarkInvitationUsed(v)
                          \/ CutOff(v)
    \/ \E u \in User, e \in Email : ChangeEmail(u, e)
    \/ \E u \in User : DeleteAccount(u)
    \/ Tick

Spec == Init /\ [][Next]_vars
-----------------------------------------------------------------------------
(* web/templates/pages/admin/invitations.gohtml: "Each invitation can only   *)
(* be used once".  What holds of it: once an account has redeemed the         *)
(* invitation it was made with, no request that arrives afterwards makes      *)
(* another account with it, although the first may change its address or be   *)
(* deleted and the invitation be resent.  It is not so of requests that       *)
(* overlap, nor of later ones when the redemption failed (auth.go:120).       *)
RedeemedOnce == [][\A v \in Visitor :
    reg[v].pc = "create" /\ reg'[v].pc = "redeem" => ~reg[v].late]_vars

(* An invitation that says who used it names an account that was created    *)
(* with its code, and is marked as used.                                    *)
UsedByItsAccount ==
    /\ TypeOK
    /\ \A i \in Invite : invite[i].usedBy # Null =>
          /\ invite[i].used
          /\ invite[i].usedBy \in Live
          /\ origin[invite[i].usedBy] = i

(* A code is good when it is mailed, also after a resend of an invitation    *)
(* that had expired: unless it is used by then, or gone with the inviter, it *)
(* is accepted for as long as an invitation lasts from the clock reading of  *)
(* the call.  Not so when resends of the invitation overlap: the one that    *)
(* read the clock first may write last, and bring the deadline forward.      *)
MailedCodeIsGood == \A a \in Mailer :
    LET i == send[a].code IN
    /\ send[a].at = "written" /\ send[a].lone
    /\ invite[i].life = "live" /\ ~invite[i].used
    /\ clock <= Deadline(a)
    => Acceptable(i)

(* Only the invited address gets an account, however long ago the request   *)
(* was validated and whatever happened to the invitation since.             *)
InvitedAddressOnly == [][\A u \in User :
    account[u].life = "unborn" /\ account'[u].life = "live" =>
        account'[u].email = invite[origin'[u]].email]_vars

(* A used invitation is never accepted again, also when a resend that read  *)
(* it unused writes after the redemption, or its account is deleted.        *)
UsedIsForGood == [][\A i \in Invite : invite[i].used => ~Acceptable(i)']_vars
=============================================================================
