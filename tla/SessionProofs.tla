---------------------------- MODULE SessionProofs ----------------------------
(***************************************************************************)
(* Handlers run only for accounts that were read as entitled since the      *)
(* request arrived, and signed out means out: for any number of requests in *)
(* flight, and answers in any order.                                        *)
(***************************************************************************)
EXTENDS Session, TLAPS

LEMMA TypesInitially == Init => TypeOK
BY TimeAssumption DEF Init, TypeOK, InFlight, Idle, Cookies, NoCookies

LEMMA NewPairIsCookies == ASSUME TypeOK PROVE NewPair \in Cookies /\ NoCookies \in Cookies
<1>1. /\ AccessTTL \in Nat /\ RefreshTTL \in Nat /\ MaxTime \in Nat /\ MaxGen \in Nat
      /\ clock \in 0..MaxTime /\ gen \in 0..MaxGen
  BY TimeAssumption DEF TypeOK
<1>2. /\ clock + AccessTTL \in 0..(MaxTime + AccessTTL + RefreshTTL)
      /\ clock + RefreshTTL \in 0..(MaxTime + AccessTTL + RefreshTTL)
  BY <1>1
<1> QED
  BY <1>1, <1>2 DEF NewPair, NoCookies, Cookies, Token

(* What a request does to its own locals.                                   *)
LEMMA GotoSets ==
    ASSUME TypeOK, NEW r \in Request, NEW pc, NEW set, Goto(r, pc, set)
    PROVE  /\ req' = [req EXCEPT ![r] = [req[r] EXCEPT !.pc = pc, !.set = set]]
           /\ req'[r].pc = pc /\ req'[r].set = set /\ req'[r].kind = req[r].kind
           /\ req'[r].sent = req[r].sent /\ req'[r].wasActive = req[r].wasActive
           /\ req'[r].wasAdmin = req[r].wasAdmin
           /\ UNCHANGED <<account, admin, cookies, gen, signedOut, clock>>
<1>1. req \in [Request -> InFlight]
  BY DEF TypeOK
<1>2. req' = [req EXCEPT ![r] = [req[r] EXCEPT !.pc = pc, !.set = set]]
  BY <1>1 DEF Goto
<1>3. req[r] \in InFlight /\ req'[r] = [req[r] EXCEPT !.pc = pc, !.set = set]
  BY <1>1, <1>2
<1>4. /\ req'[r].pc = pc /\ req'[r].set = set /\ req'[r].kind = req[r].kind
      /\ req'[r].sent = req[r].sent /\ req'[r].wasActive = req[r].wasActive
      /\ req'[r].wasAdmin = req[r].wasAdmin
  BY <1>3 DEF InFlight
<1>5. UNCHANGED <<account, admin, cookies, gen, signedOut, clock>>
  BY DEF Goto
<1> QED
  BY <1>2, <1>4, <1>5

(* The steps of the server go on to one of these, with one of these sets.   *)
Serve(r) ==
    \/ RequireAuth(r) \/ GetUserByID(r) \/ ListRoleNames(r) \/ Handle(r) \/ Refresh(r)
    \/ RefreshCheck(r) \/ SignIn(r) \/ issueSession(r) \/ SignOut(r)

LEMMA ServeGoes ==
    ASSUME TypeOK, NEW r \in Request, Serve(r)
    PROVE  \E pc \in {"load", "roles", "handle", "check", "issue", "answer"},
              set \in Cookies \cup {Null} : Goto(r, pc, set)
<1>1. Keep(r) \in Cookies \cup {Null} /\ NewPair \in Cookies /\ NoCookies \in Cookies
  BY NewPairIsCookies DEF TypeOK, InFlight, Keep
<1> QED
  BY <1>1 DEF Serve, RequireAuth, GetUserByID, ListRoleNames, Handle, Refresh, RefreshCheck,
              SignIn, issueSession, SignOut, ClearAuthCookies

LEMMA TypesStep == TypeOK /\ [Next]_vars => TypeOK'
<1> SUFFICES ASSUME TypeOK, [Next]_vars PROVE TypeOK'
  OBVIOUS
<1>1. /\ account \in {"active", "inactive", "deleted"} /\ admin \in BOOLEAN
      /\ cookies \in Cookies /\ req \in [Request -> InFlight] /\ gen \in 0..MaxGen
      /\ signedOut \in BOOLEAN /\ clock \in 0..MaxTime /\ MaxGen \in Nat /\ MaxTime \in Nat
  BY TimeAssumption DEF TypeOK
<1>2. CASE UNCHANGED vars
  BY <1>1, <1>2 DEF vars, TypeOK
<1>3. ASSUME NEW r \in Request,
             NEW kind \in {"app", "admin", "refresh", "signin", "signout"}, Send(r, kind)
      PROVE  TypeOK'
  <2>1. [pc |-> "auth", kind |-> kind, sent |-> cookies, set |-> Null,
         wasActive |-> account = "active",
         wasAdmin |-> account = "active" /\ admin] \in InFlight
    BY <1>1 DEF InFlight
  <2>2. req' \in [Request -> InFlight]
    BY <1>1, <1>3, <2>1 DEF Send
  <2> QED
    BY <1>1, <1>3, <2>2 DEF Send, TypeOK
<1>4. ASSUME NEW r \in Request, Serve(r)
      PROVE  TypeOK'
  <2>1. PICK pc \in {"load", "roles", "handle", "check", "issue", "answer"},
             set \in Cookies \cup {Null} : Goto(r, pc, set)
    BY <1>4, ServeGoes
  <2>2. [req[r] EXCEPT !.pc = pc, !.set = set] \in InFlight
    BY <1>1 DEF InFlight
  <2>3. /\ req' = [req EXCEPT ![r] = [req[r] EXCEPT !.pc = pc, !.set = set]]
        /\ UNCHANGED <<account, admin, cookies, gen, signedOut, clock>>
    BY <1>1, <2>1 DEF Goto
  <2> QED
    BY <1>1, <2>2, <2>3 DEF TypeOK
<1>5. Idle \in InFlight
  BY DEF Idle, InFlight, Cookies, NoCookies
<1>6. ASSUME NEW r \in Request, Answer(r)
      PROVE  TypeOK'
  <2>1. cookies' \in Cookies
    BY <1>1, <1>6 DEF Answer, InFlight
  <2>2. signedOut' \in BOOLEAN
    BY <1>6 DEF Answer
  <2> QED
    BY <1>1, <1>5, <1>6, <2>1, <2>2 DEF Answer, TypeOK
<1>7. ASSUME NEW r \in Request, Lose(r)
      PROVE  TypeOK'
  BY <1>1, <1>5, <1>7 DEF Lose, TypeOK
<1>8. CASE DropExpired
  <2>1. /\ [cookies EXCEPT !["access"] = Null] \in Cookies
        /\ [cookies EXCEPT !["refresh"] = Null] \in Cookies
    BY <1>1 DEF Cookies
  <2> QED
    BY <1>1, <1>8, <2>1 DEF DropExpired, TypeOK
<1>9. ASSUME NEW acc \in {"active", "inactive", "deleted"}, NEW adm \in BOOLEAN,
             ChangeAccount(acc, adm)
      PROVE  TypeOK'
  <2>1. \A r \in Request :
           [req[r] EXCEPT !.wasActive = @ \/ acc = "active",
                          !.wasAdmin = \/ @
                                       \/ /\ req[r].wasActive \/ acc = "active"
                                          /\ adm /\ acc # "deleted"] \in InFlight
    BY <1>1 DEF InFlight
  <2>2. req' \in [Request -> InFlight]
    BY <1>1, <1>9, <2>1 DEF ChangeAccount
  <2>3. admin' \in BOOLEAN
    BY <1>9 DEF ChangeAccount
  <2> QED
    BY <1>1, <1>9, <2>2, <2>3 DEF ChangeAccount, TypeOK
<1>10. CASE RotateKeys \/ Tick
  BY <1>1, <1>10 DEF RotateKeys, Tick, TypeOK
<1> QED
  BY <1>2, <1>3, <1>4, <1>6, <1>7, <1>8, <1>9, <1>10 DEF Next, Serve
-----------------------------------------------------------------------------
(* What the account is and was since a request arrived; and what the request *)
(* has read of it, by where it has got to.                                   *)
EntitledShape(r) ==
    /\ req[r].pc # "idle" /\ account = "active" => req[r].wasActive
    /\ req[r].pc # "idle" /\ req[r].wasActive /\ admin => req[r].wasAdmin
    /\ req[r].pc \in {"roles", "handle"} => req[r].wasActive
    /\ req[r].pc = "handle" /\ req[r].kind = "admin" => req[r].wasAdmin

(* A sign-out is answered with cleared cookies.  While signed out, neither  *)
(* the browser nor a request has a cookie, and only a sign-in gets further  *)
(* than to its answer, or has a cookie to bring.                            *)
SignOutShape(r) == req[r].kind = "signout" =>
    req[r].pc = "auth" \/ (req[r].pc = "answer" /\ req[r].set = NoCookies)

OutShape(r) == req[r].pc # "idle" =>
    /\ req[r].sent = NoCookies
    /\ req[r].pc \in {"auth", "answer"} \/ (req[r].pc = "issue" /\ req[r].kind = "signin")
    /\ req[r].kind = "signin" \/ req[r].set \in {Null, NoCookies}

IInv ==
    /\ TypeOK
    /\ \A r \in Request : EntitledShape(r) /\ SignOutShape(r)
    /\ signedOut => cookies = NoCookies /\ \A r \in Request : OutShape(r)

LEMMA Initially == Init => IInv
<1> SUFFICES ASSUME Init PROVE IInv
  OBVIOUS
<1>1. \A r \in Request : req[r] = Idle
  BY DEF Init
<1> QED
  BY <1>1, TypesInitially
     DEF Init, IInv, EntitledShape, SignOutShape, OutShape, Idle

LEMMA Preserved == IInv /\ [Next]_vars => IInv'
<1> SUFFICES ASSUME IInv, [Next]_vars PROVE IInv'
  OBVIOUS
<1> DEFINE Shapes(r) == /\ EntitledShape(r) /\ SignOutShape(r)
                        /\ signedOut => OutShape(r)
<1>1. /\ TypeOK /\ TypeOK' /\ req \in [Request -> InFlight]
      /\ \A r \in Request : Shapes(r)
      /\ signedOut => cookies = NoCookies
  BY TypesStep DEF IInv, TypeOK
<1>2. SUFFICES /\ \A r \in Request : Shapes(r)'
               /\ signedOut' => cookies' = NoCookies
  BY <1>1 DEF IInv
<1>3. ASSUME NEW q \in Request, \A r \in Request \ {q} : req'[r] = req[r],
             UNCHANGED <<account, admin>>, signedOut' => signedOut, Shapes(q)'
      PROVE  \A r \in Request : Shapes(r)'
  BY <1>1, <1>3 DEF EntitledShape, SignOutShape, OutShape
<1>4. CASE UNCHANGED <<account, admin, cookies, req, signedOut>>
  BY <1>1, <1>4 DEF EntitledShape, SignOutShape, OutShape
<1>5. ASSUME NEW q \in Request,
             NEW kind \in {"app", "admin", "refresh", "signin", "signout"}, Send(q, kind)
      PROVE  (\A r \in Request : Shapes(r)') /\ (signedOut' => cookies' = NoCookies)
  <2>1. req'[q] = [pc |-> "auth", kind |-> kind, sent |-> cookies, set |-> Null,
                   wasActive |-> account = "active",
                   wasAdmin |-> account = "active" /\ admin]
    BY <1>1, <1>5 DEF Send
  <2>2. UNCHANGED <<account, admin, cookies, signedOut>>
    BY <1>5 DEF Send
  <2>3. /\ req'[q].pc = "auth" /\ req'[q].sent = cookies /\ req'[q].set = Null
        /\ req'[q].wasActive = (account = "active")
        /\ req'[q].wasAdmin = (account = "active" /\ admin)
    BY <2>1
  <2>4. EntitledShape(q)'
    BY <2>2, <2>3 DEF EntitledShape
  <2>5. SignOutShape(q)' /\ (signedOut => OutShape(q)')
    BY <1>1, <2>2, <2>3 DEF SignOutShape, OutShape
  <2> QED
    BY <1>1, <1>3, <1>5, <2>2, <2>4, <2>5 DEF Send
<1>6. ASSUME NEW q \in Request, req' = [req EXCEPT ![q] = Idle]
      PROVE  req'[q] = Idle /\ Shapes(q)'
  BY <1>1, <1>6 DEF EntitledShape, SignOutShape, OutShape, Idle
<1>7. ASSUME NEW q \in Request, Serve(q)
      PROVE  (\A r \in Request : Shapes(r)') /\ (signedOut' => cookies' = NoCookies)
  <2>1. ASSUME NEW pc, NEW set, Goto(q, pc, set), pc # "idle",
               pc \in {"roles", "handle"} => req[q].wasActive,
               pc = "handle" /\ req[q].kind = "admin" => req[q].wasAdmin,
               req[q].pc # "idle",
               req[q].kind = "signout" => pc = "answer" /\ set = NoCookies,
               signedOut => \/ pc = "answer" /\ (req[q].kind = "signin" \/ set \in {Null, NoCookies})
                            \/ pc = "issue" /\ req[q].kind = "signin"
        PROVE  (\A r \in Request : Shapes(r)') /\ (signedOut' => cookies' = NoCookies)
    <3>1. /\ req' = [req EXCEPT ![q] = [req[q] EXCEPT !.pc = pc, !.set = set]]
          /\ req'[q].pc = pc /\ req'[q].set = set /\ req'[q].kind = req[q].kind
          /\ req'[q].sent = req[q].sent /\ req'[q].wasActive = req[q].wasActive
          /\ req'[q].wasAdmin = req[q].wasAdmin
          /\ UNCHANGED <<account, admin, cookies, gen, signedOut, clock>>
      BY <1>1, <2>1, GotoSets
    <3>2. Shapes(q)'
      BY <1>1, <2>1, <3>1 DEF EntitledShape, SignOutShape, OutShape
    <3>3. \A r \in Request \ {q} : req'[r] = req[r]
      BY <1>1, <3>1
    <3> QED
      BY <1>1, <1>3, <3>1, <3>2, <3>3
  <2>2. /\ signedOut => /\ req[q].pc # "idle" => req[q].sent = NoCookies
                        /\ req[q].pc \in {"idle", "auth", "answer", "issue"}
                        /\ req[q].pc = "issue" => req[q].kind = "signin"
                        /\ req[q].pc # "idle" /\ req[q].kind # "signin" =>
                              req[q].set \in {Null, NoCookies}
        /\ req[q].kind = "signout" => req[q].pc \in {"auth", "answer"}
    BY <1>1 DEF OutShape, SignOutShape
  <2>3. CASE RequireAuth(q)
    <3>1. req[q].pc = "auth" /\ req[q].kind \in {"app", "admin"}
      BY <2>3 DEF RequireAuth
    <3>2. signedOut => /\ Parse(req[q].sent.access) = "none"
                       /\ Parse(req[q].sent.refresh) = "none"
      BY <2>2, <3>1 DEF Parse, NoCookies
    <3>3. signedOut => Keep(q) \in {Null, NoCookies}
      BY <2>2, <3>1 DEF Keep
    <3> QED
      BY <2>1, <2>3, <3>1, <3>2, <3>3 DEF RequireAuth
  <2>4. CASE GetUserByID(q)
    <3>1. req[q].pc = "load" /\ ~signedOut /\ req[q].kind # "signout"
      BY <2>2, <2>4 DEF GetUserByID
    <3>2. account = "active" => req[q].wasActive
      BY <1>1, <3>1 DEF EntitledShape
    <3> QED
      BY <2>1, <2>4, <3>1, <3>2 DEF GetUserByID
  <2>11. CASE ListRoleNames(q)
    <3>1. req[q].pc = "roles" /\ ~signedOut /\ req[q].kind # "signout"
      BY <2>2, <2>11 DEF ListRoleNames
    <3>2. req[q].wasActive /\ (admin => req[q].wasAdmin)
      BY <1>1, <3>1 DEF EntitledShape
    <3> QED
      BY <2>1, <2>11, <3>1, <3>2 DEF ListRoleNames
  <2>5. CASE Handle(q)
    BY <2>1, <2>2, <2>5 DEF Handle
  <2>6. CASE Refresh(q)
    <3>1. req[q].pc = "auth" /\ req[q].kind = "refresh"
      BY <2>6 DEF Refresh
    <3>2. signedOut => Parse(req[q].sent.refresh) = "none"
      BY <2>2, <3>1 DEF Parse, NoCookies
    <3> QED
      BY <2>1, <2>6, <3>1, <3>2 DEF Refresh
  <2>7. CASE RefreshCheck(q)
    BY <2>1, <2>2, <2>7 DEF RefreshCheck
  <2>8. CASE SignIn(q)
    BY <2>1, <2>8 DEF SignIn
  <2>9. CASE issueSession(q)
    <3>1. req[q].pc = "issue" /\ req[q].kind # "signout"
          /\ (signedOut => req[q].kind = "signin")
      BY <2>2, <2>9 DEF issueSession
    <3> QED
      BY <2>1, <2>9, <3>1 DEF issueSession
  <2>10. CASE SignOut(q)
    BY <2>1, <2>10 DEF SignOut, ClearAuthCookies
  <2> QED
    BY <1>7, <2>3, <2>4, <2>5, <2>6, <2>7, <2>8, <2>9, <2>10, <2>11 DEF Serve
<1>8. ASSUME NEW q \in Request, Answer(q)
      PROVE  (\A r \in Request : Shapes(r)') /\ (signedOut' => cookies' = NoCookies)
  <2>1. /\ req' = [req EXCEPT ![q] = Idle] /\ UNCHANGED <<account, admin>>
        /\ req[q].pc = "answer"
        /\ cookies' = IF req[q].set = Null THEN cookies ELSE req[q].set
    BY <1>8 DEF Answer
  <2>2. CASE req[q].kind = "signout" /\ \A r \in Request \ {q} : req[r].pc = "idle"
    <3>1. req[q].set = NoCookies
      BY <1>1, <2>1, <2>2 DEF SignOutShape
    <3>2. \A r \in Request \ {q} : req'[r] = req[r] /\ req[r].pc = "idle"
      BY <1>1, <2>1, <2>2
    <3>3. \A r \in Request : Shapes(r)'
      BY <1>1, <1>6, <2>1, <3>2 DEF EntitledShape, SignOutShape, OutShape
    <3>4. cookies' = NoCookies
      BY <1>1, <2>1, <3>1, CookiesAssumption, NewPairIsCookies
    <3> QED
      BY <3>3, <3>4
  <2>3. CASE ~(req[q].kind = "signout" /\ \A r \in Request \ {q} : req[r].pc = "idle")
    <3>1. signedOut' => signedOut /\ ~(req[q].kind = "signin" /\ req[q].set # Null)
      BY <1>8, <2>3 DEF Answer
    <3>2. signedOut' => req[q].set \in {Null, NoCookies}
      BY <1>1, <2>1, <3>1 DEF OutShape
    <3>3. signedOut' => cookies' = NoCookies
      BY <1>1, <2>1, <3>1, <3>2
    <3> QED
      BY <1>1, <1>3, <1>6, <2>1, <3>1, <3>3
  <2> QED
    BY <2>2, <2>3
<1>9. ASSUME NEW q \in Request, Lose(q)
      PROVE  (\A r \in Request : Shapes(r)') /\ (signedOut' => cookies' = NoCookies)
  BY <1>1, <1>3, <1>6, <1>9 DEF Lose
<1>10. CASE DropExpired
  <2>1. signedOut => cookies.access = Null /\ cookies.refresh = Null
    BY <1>1 DEF NoCookies
  <2>2. ~signedOut
    BY <1>10, <2>1 DEF DropExpired
  <2> QED
    BY <1>1, <1>10, <2>2 DEF DropExpired, EntitledShape, SignOutShape, OutShape
<1>11. ASSUME NEW acc \in {"active", "inactive", "deleted"}, NEW adm \in BOOLEAN,
              ChangeAccount(acc, adm)
       PROVE  (\A r \in Request : Shapes(r)') /\ (signedOut' => cookies' = NoCookies)
  <2>1. account' = acc /\ admin' = (adm /\ acc # "deleted")
        /\ UNCHANGED <<cookies, signedOut>>
    BY <1>11 DEF ChangeAccount
  <2>2. ASSUME NEW r \in Request PROVE Shapes(r)'
    <3>1. CASE req[r].pc = "idle"
      <4>1. req'[r] = req[r]
        BY <1>11, <3>1 DEF ChangeAccount
      <4> QED
        BY <1>1, <2>1, <3>1, <4>1 DEF EntitledShape, SignOutShape, OutShape
    <3>2. CASE req[r].pc # "idle"
      <4>1. req'[r] = [req[r] EXCEPT !.wasActive = @ \/ acc = "active",
                                     !.wasAdmin = \/ @
                                                  \/ /\ req[r].wasActive \/ acc = "active"
                                                     /\ adm /\ acc # "deleted"]
        BY <1>11, <3>2 DEF ChangeAccount
      <4>2. /\ req'[r].pc = req[r].pc /\ req'[r].kind = req[r].kind
            /\ req'[r].sent = req[r].sent /\ req'[r].set = req[r].set
            /\ req'[r].wasActive = (req[r].wasActive \/ acc = "active")
            /\ req'[r].wasAdmin = \/ req[r].wasAdmin
                                  \/ /\ req[r].wasActive \/ acc = "active"
                                     /\ adm /\ acc # "deleted"
        BY <1>1, <4>1 DEF InFlight
      <4>4. EntitledShape(r)'
        BY <1>1, <2>1, <4>2 DEF EntitledShape
      <4> QED
        BY <1>1, <2>1, <4>2, <4>4 DEF SignOutShape, OutShape
    <3> QED
      BY <3>1, <3>2
  <2> QED
    BY <1>1, <2>1, <2>2
<1> QED
  BY <1>4, <1>5, <1>7, <1>8, <1>9, <1>10, <1>11 DEF Next, vars, Serve, RotateKeys, Tick

THEOREM Invariance == Spec => []IInv
BY Initially, Preserved, PTL DEF Spec

(* RequireAuth, loadCurrentViewer, requireRole: a handler runs only for an  *)
(* account that was active at some moment since the request came, and an    *)
(* administrator's only for one that held the role then or later.           *)
THEOREM HandlersServeTheEntitled == Spec => []HandlersAreEntitled
<1>1. IInv => HandlersAreEntitled
  BY DEF IInv, EntitledShape, HandlersAreEntitled
<1> QED
  BY <1>1, Invariance, PTL

(* SignOut: a browser that was told so, alone, reaches no handler again     *)
(* before it has signed in.                                                 *)
THEOREM SignedOutStaysOut == Spec => []SignedOutMeansOut
<1>1. IInv => SignedOutMeansOut
  BY DEF IInv, OutShape, SignedOutMeansOut
<1> QED
  BY <1>1, Invariance, PTL
=============================================================================
