------------------------------- MODULE Tokens -------------------------------
(***************************************************************************)
(* The JWT Manager of internal/auth/jwt.go on top of the key store: request *)
(* handlers that issue token pairs, each with two separate reads of the    *)
(* active key, while operators rotate, expire and delete the keys.         *)
(***************************************************************************)
EXTENDS SigningKeys

CONSTANTS Handler  \* requests that issue tokens (sign-in, refresh, API login)

VARIABLES issue,   \* the progress of IssueTokens in each handler
          tokens   \* the tokens handed to clients

tokenVars == <<issue, tokens>>
allVars == <<vars, tokenVars>>

(* The claims that matter: the key id of the header, token_type and exp.   *)
Token == [kid : Key, type : TokenType, exp : Nat]

Idle == [pc |-> "idle", now |-> 0, key |-> Null]

TokenTypeOK ==
    /\ issue \in [Handler -> [pc : {"idle", "access", "refresh"},
                              now : Nat, key : Key \cup {Null}]]
    /\ tokens \subseteq Token

TInit ==
    /\ Init
    /\ issue = [h \in Handler |-> Idle]
    /\ tokens = {}

(* Mutant of NewToken: the lifetimes of the two types are swapped.         *)
NewTokenSwapped(k, t, now) ==
    [kid |-> k, type |-> t,
     exp |-> now + TTL[IF t = "access" THEN "refresh" ELSE "access"]]

NewToken(k, t, now) == [kid |-> k, type |-> t, exp |-> now + TTL[t]]

(* parseToken: the key is looked up and must verify before the claims are  *)
(* looked at; exp is exclusive.                                            *)
ParseToken(tok, t, now) ==
    IF ~VerificationKey(tok.kid, t, now) THEN "unverifiable"
    ELSE IF now >= tok.exp THEN "expired"
    ELSE IF tok.type # t THEN "unverifiable"
    ELSE "ok"
-----------------------------------------------------------------------------
(* IssueTokens reads the clock once, before it reads either key.           *)
IssueTokens(h) ==
    /\ issue[h].pc = "idle"
    /\ issue' = [issue EXCEPT ![h] = [pc |-> "access", now |-> clock, key |-> Null]]
    /\ UNCHANGED <<vars, tokens>>

(* signToken for the access token, with the active key of this moment; the *)
(* call fails when there is none.                                          *)
SignAccess(h) ==
    /\ issue[h].pc = "access"
    /\ \/ \E k \in ActiveKeys("access") :
            issue' = [issue EXCEPT ![h].pc = "refresh", ![h].key = k]
       \/ /\ ActiveKeys("access") = {}
          /\ issue' = [issue EXCEPT ![h] = Idle]
    /\ UNCHANGED <<vars, tokens>>

(* Mutant of SignRefresh: both tokens are signed with the access key.      *)
SignBothWithAccessKey(h) ==
    /\ issue[h].pc = "refresh"
    /\ tokens' = tokens \cup {NewToken(issue[h].key, t, issue[h].now) : t \in TokenType}
    /\ issue' = [issue EXCEPT ![h] = Idle]
    /\ UNCHANGED vars

(* signToken for the refresh token: both tokens go to the client, or none. *)
SignRefresh(h) ==
    /\ issue[h].pc = "refresh"
    /\ \/ \E k \in ActiveKeys("refresh") :
            tokens' = tokens \cup {NewToken(issue[h].key, "access", issue[h].now),
                                   NewToken(k, "refresh", issue[h].now)}
       \/ /\ ActiveKeys("refresh") = {}
          /\ UNCHANGED tokens
    /\ issue' = [issue EXCEPT ![h] = Idle]
    /\ UNCHANGED vars

TNext ==
    \/ Next /\ UNCHANGED tokenVars
    \/ \E h \in Handler : IssueTokens(h) \/ SignAccess(h) \/ SignRefresh(h)

TSpec == TInit /\ [][TNext]_allVars
-----------------------------------------------------------------------------
(* Every token in circulation was signed by a key of its own type, and     *)
(* expires within one TTL from now: what bounds the grace period needed.   *)
TokenOrigin == \A tok \in tokens :
    /\ keyState[tok.kid] # "unborn"
    /\ keyType[tok.kid] = tok.type
    /\ tok.exp <= clock + TTL[tok.type]

(* When a rotation with the default grace period computes the deadline of  *)
(* the old key, every token already signed by that key and handed to a     *)
(* client expires by that deadline: rotating signs nobody out.             *)
RotationCoversHeldTokens == [][
    \A p \in Proc :
        /\ tx[p].op = "create"
        /\ tx[p].until = Null
        /\ tx'[p].until # Null
        /\ tx[p].grace = TTL[tx[p].type]
        => \A tok \in tokens : tok.kid = tx[p].key => tok.exp <= tx'[p].until]_allVars

(* A key whose retirement commits with grace period 0 stops verifying in   *)
(* that very step, for every token it has ever signed: rotation after a    *)
(* suspected compromise works at once.                                     *)
ZeroGraceRevokesAtOnce == [][
    \A p \in Proc :
        /\ CommitCreate(p) \/ CommitExpire(p)
        /\ tx[p].grace = 0
        => \A tok \in tokens, t \in TokenType :
              tok.kid = tx[p].key => ParseToken(tok, t, clock)' # "ok"]_allVars
=============================================================================
