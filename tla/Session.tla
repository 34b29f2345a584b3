------------------------------- MODULE Session -------------------------------
(***************************************************************************)
(* The session of one browser and one account: the requests it has in       *)
(* flight pass RequireAuth (internal/auth/middleware.go), loadCurrentViewer *)
(* and requireRole (internal/server/server.go) or are one of the session    *)
(* handlers of internal/handler/auth.go, while administrators change the    *)
(* account and operators rotate the signing keys.  The answers, and the     *)
(* cookies they set, reach the browser in any order or not at all.          *)
(*                                                                          *)
(* A key generation stands for the signing keys, which module Tokens has in *)
(* detail: a new one revokes the tokens of the ones before.                 *)
(***************************************************************************)
EXTENDS Naturals

CONSTANTS Request,     \* requests in flight
          AccessTTL, RefreshTTL,
          MaxTime,     \* bound on the clock
          MaxGen,      \* bound on key rotations
          Null

ASSUME TimeAssumption == {AccessTTL, RefreshTTL, MaxTime, MaxGen} \subseteq Nat
ASSUME NullAssumption == Null \notin Request

VARIABLES account,   \* the row of users: its is_active, or no row
          admin,     \* whether it holds the role "admin"
          cookies,   \* the auth cookies in the browser
          req,
          gen,       \* the generation of the active signing keys
          signedOut, \* history: it was told it is signed out, and has not signed
                     \* in since; only when nothing else was in flight then
          clock

vars == <<account, admin, cookies, req, gen, signedOut, clock>>

Token == [exp : 0..(MaxTime + AccessTTL + RefreshTTL), gen : 0..MaxGen]
Cookies == [access : Token \cup {Null}, refresh : Token \cup {Null}]
NoCookies == [access |-> Null, refresh |-> Null]

ASSUME CookiesAssumption == Null \notin Cookies

(* sent: the cookies of the request; set: what its answer does to them.     *)
(* Histories: wasActive, whether the account was active at some moment since *)
(* the request arrived; wasAdmin, whether it held the role at that moment or *)
(* at a later one.                                                           *)
InFlight == [pc : {"idle", "auth", "load", "roles", "handle", "check", "issue", "answer"},
             kind : {"app", "admin", "refresh", "signin", "signout"},
             sent : Cookies, set : Cookies \cup {Null},
             wasActive : BOOLEAN, wasAdmin : BOOLEAN]
Idle == [pc |-> "idle", kind |-> "app", sent |-> NoCookies, set |-> Null,
         wasActive |-> FALSE, wasAdmin |-> FALSE]

(* What the cookies, the requests on their way and the account can be.       *)
TypeOK ==
    /\ account \in {"active", "inactive", "deleted"}
    /\ admin \in BOOLEAN
    /\ cookies \in Cookies
    /\ req \in [Request -> InFlight]
    /\ gen \in 0..MaxGen
    /\ signedOut \in BOOLEAN
    /\ clock \in 0..MaxTime

Init ==
    /\ account = "active"
    /\ admin \in BOOLEAN
    /\ cookies = NoCookies
    /\ req = [r \in Request |-> Idle]
    /\ gen = 0
    /\ signedOut = TRUE
    /\ clock = 0
-----------------------------------------------------------------------------
Parse(tok) == IF tok = Null THEN "none"
              ELSE IF tok.gen # gen THEN "unverifiable"
              ELSE IF clock >= tok.exp THEN "expired"
              ELSE "ok"

(* IssueTokens.                                                             *)
NewPair == [access |-> [exp |-> clock + AccessTTL, gen |-> gen],
            refresh |-> [exp |-> clock + RefreshTTL, gen |-> gen]]

(* What the answer of r does to the cookies, and where the request goes on.  *)
Goto(r, pc, set) ==
    /\ req' = [req EXCEPT ![r].pc = pc, ![r].set = set]
    /\ UNCHANGED <<account, admin, cookies, gen, signedOut, clock>>

Keep(r) == req[r].set

Send(r, kind) ==
    /\ req[r].pc = "idle"
    /\ req' = [req EXCEPT ![r] = [pc |-> "auth", kind |-> kind, sent |-> cookies, set |-> Null,
                                  wasActive |-> account = "active",
                                  wasAdmin |-> account = "active" /\ admin]]
    /\ UNCHANGED <<account, admin, cookies, gen, signedOut, clock>>

(* RequireAuth, with tryRefreshAccess: a missing or expired access token is  *)
(* made up for by the refresh token, without a look at the account, unless   *)
(* that does not verify either or IssueTokens fails; only a failure after an *)
(* expired one clears the cookies.                                           *)
RequireAuth(r) ==
    /\ req[r].pc = "auth"
    /\ req[r].kind \in {"app", "admin"}
    /\ LET access == Parse(req[r].sent.access)
           refresh == Parse(req[r].sent.refresh) IN
       \/ access = "ok" /\ Goto(r, "load", Keep(r))
       \/ access = "unverifiable" /\ Goto(r, "answer", Keep(r))
       \/ access \in {"none", "expired"} /\ refresh = "ok" /\ Goto(r, "load", NewPair)
       \/ access = "expired" /\ Goto(r, "answer", NoCookies)
       \/ access = "none" /\ Goto(r, "answer", Keep(r))

(* Mutant of GetUserByID: is_active is not looked at.                        *)
LoadAnyViewer(r) ==
    /\ req[r].pc = "load"
    /\ \/ account # "deleted" /\ Goto(r, "roles", Keep(r))
       \/ Goto(r, "answer", Keep(r))

(* loadCurrentViewer reads the account, without a transaction, and then its  *)
(* roles (hydrateUser).  Without an active account, or when the query fails, *)
(* it redirects, after it has read the roles for nothing.                    *)
GetUserByID(r) ==
    /\ req[r].pc = "load"
    /\ \/ account = "active" /\ Goto(r, "roles", Keep(r))
       \/ Goto(r, "answer", Keep(r))

(* The roles of the account as they are by now, which requireRole looks at;  *)
(* the handler runs later, with the viewer as it was read.                   *)
ListRoleNames(r) ==
    /\ req[r].pc = "roles"
    /\ \/ (req[r].kind = "admin" => admin) /\ Goto(r, "handle", Keep(r))
       \/ Goto(r, "answer", Keep(r))

Handle(r) ==
    /\ req[r].pc = "handle"
    /\ Goto(r, "answer", Keep(r))

(* POST /refresh: the refresh token, and then the account (its roles, which  *)
(* are read next, do not matter here).                                       *)
Refresh(r) ==
    /\ req[r].pc = "auth"
    /\ req[r].kind = "refresh"
    /\ \/ Parse(req[r].sent.refresh) = "ok" /\ Goto(r, "check", Keep(r))
       \/ Parse(req[r].sent.refresh) # "ok" /\ Goto(r, "answer", NoCookies)

RefreshCheck(r) ==
    /\ req[r].pc = "check"
    /\ \/ account = "active" /\ Goto(r, "issue", Keep(r))
       \/ Goto(r, "answer", NoCookies)

(* POST /signin: Authenticate; the password is right or wrong.               *)
SignIn(r) ==
    /\ req[r].pc = "auth"
    /\ req[r].kind = "signin"
    /\ \/ account = "active" /\ Goto(r, "issue", Keep(r))
       \/ Goto(r, "answer", Keep(r))

(* issueSession; without an active signing key it answers 500.               *)
issueSession(r) ==
    /\ req[r].pc = "issue"
    /\ \/ Goto(r, "answer", NewPair)
       \/ Goto(r, "answer", Keep(r))

(* Mutant of ClearAuthCookies: the refresh cookie is left.                   *)
ClearAccessOnly(r) == [access |-> Null, refresh |-> req[r].sent.refresh]

ClearAuthCookies(r) == NoCookies

SignOut(r) ==
    /\ req[r].pc = "auth"
    /\ req[r].kind = "signout"
    /\ Goto(r, "answer", ClearAuthCookies(r))
-----------------------------------------------------------------------------
(* The answer reaches the browser; or it never does (also when the server    *)
(* dies at any point).                                                       *)
Answer(r) ==
    /\ req[r].pc = "answer"
    /\ cookies' = IF req[r].set = Null THEN cookies ELSE req[r].set
    /\ signedOut' = \/ req[r].kind = "signout" /\ \A q \in Request \ {r} : req[q].pc = "idle"
                    \/ signedOut /\ ~(req[r].kind = "signin" /\ req[r].set # Null)
    /\ req' = [req EXCEPT ![r] = Idle]
    /\ UNCHANGED <<account, admin, gen, clock>>

Lose(r) ==
    /\ req[r].pc # "idle"
    /\ req' = [req EXCEPT ![r] = Idle]
    /\ UNCHANGED <<account, admin, cookies, gen, signedOut, clock>>

(* A cookie carries the expiry of its token: the browser drops it by then,   *)
(* or a little later (a client that sends the token itself may not at all).  *)
DropExpired ==
    /\ \E c \in {"access", "refresh"} :
          /\ cookies[c] # Null
          /\ clock >= cookies[c].exp
          /\ cookies' = [cookies EXCEPT ![c] = Null]
    /\ UNCHANGED <<account, admin, req, gen, signedOut, clock>>

(* UpdateUser and DeleteUser by an administrator.                            *)
ChangeAccount(acc, adm) ==
    /\ account # "deleted"
    /\ account' = acc
    /\ admin' = (adm /\ acc # "deleted")
    /\ req' = [r \in Request |-> IF req[r].pc = "idle" THEN req[r] ELSE
                  [req[r] EXCEPT !.wasActive = @ \/ acc = "active",
                                 !.wasAdmin = \/ @
                                              \/ /\ req[r].wasActive \/ acc = "active"
                                                 /\ adm /\ acc # "deleted"]]
    /\ UNCHANGED <<cookies, gen, signedOut, clock>>

RotateKeys ==
    /\ gen < MaxGen
    /\ gen' = gen + 1
    /\ UNCHANGED <<account, admin, cookies, req, signedOut, clock>>

Tick ==
    /\ clock < MaxTime
    /\ clock' = clock + 1
    /\ UNCHANGED <<account, admin, cookies, req, gen, signedOut>>

Next ==
    \/ \E r \in Request :
          \/ \E kind \in {"app", "admin", "refresh", "signin", "signout"} : Send(r, kind)
          \/ RequireAuth(r) \/ GetUserByID(r) \/ ListRoleNames(r) \/ Handle(r)
          \/ Refresh(r) \/ RefreshCheck(r) \/ SignIn(r) \/ issueSession(r)
          \/ SignOut(r)
          \/ Answer(r) \/ Lose(r)
    \/ DropExpired
    \/ \E acc \in {"active", "inactive", "deleted"}, adm \in BOOLEAN : ChangeAccount(acc, adm)
    \/ RotateKeys
    \/ Tick

Spec == Init /\ [][Next]_vars
-----------------------------------------------------------------------------
(* docs/explanation/security-model.md: revoking the role "blocks their next  *)
(* request, not their next sign-in".  No handler runs for an account that    *)
(* was not active at any moment since the request arrived, and no handler of *)
(* an administrator for one that did not hold the role at that moment or a   *)
(* later one: not by its tokens, however fresh, and not by a refresh on the  *)
(* way in.  The two need not be one moment: loadCurrentViewer reads them     *)
(* apart, and an account that is deactivated and made an administrator in    *)
(* between is let in.                                                        *)
HandlersAreEntitled ==
    /\ TypeOK
    /\ \A r \in Request : req[r].pc = "handle" =>
          /\ req[r].wasActive
          /\ req[r].kind = "admin" => req[r].wasAdmin

(* A browser that was told it is signed out, with no other request under     *)
(* way, reaches no handler until it has signed in again, whatever tokens it  *)
(* had and however its next requests overlap.  (The answer of a request sent *)
(* before the sign-out may bring new cookies after it.)                      *)
SignedOutMeansOut == \A r \in Request :
    signedOut => req[r].pc # "handle"
=============================================================================
