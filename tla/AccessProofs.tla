------------------------------ MODULE AccessProofs ------------------------------
(* Proofs about Access, for any sets of tokens, browsers, logins, requests   *)
(* and callbacks, any grants and any step-up configuration.                  *)
EXTENDS Access, TLAPS

Record ==
  [at : Awaiting \cup {"idle", "entered", "answered"}, from : Browser \cup {None},
   token : Token \cup {None}, csrf : Token \cup {None},
   endpoint : Endpoint \cup {None}, company : Company \cup {None},
   status : {0, 400, 401, 403, 500, 503}, role : Roles \cup {None},
   had : SUBSET Roles, lacked : SUBSET Roles, marks : SUBSET {"late", "fault"}]

\* The records a request may be in are closed under the steps of a request.
LEMMA OutcomeRecord ==
  ASSUME NEW at \in {"idle", "entered", "answered"}, NEW status \in {0, 400, 401, 403, 500, 503},
         NEW role \in Roles \cup {None}, NEW marks \in SUBSET {"late", "fault"}
  PROVE  Outcome(at, status, role, marks) \in Record
BY DEF Outcome, Record

LEMMA WaitingRecord ==
  ASSUME NEW at \in Awaiting, NEW from \in Browser \cup {None}, NEW t \in Token \cup {None},
         NEW csrf \in Token \cup {None}, NEW e \in Endpoint \cup {None},
         NEW c \in Company \cup {None}, NEW had \in SUBSET Roles,
         NEW marks \in SUBSET {"late", "fault"}
  PROVE  Waiting(at, from, t, csrf, e, c, had, marks) \in Record
BY DEF Waiting, Record

LEMMA IdleRecord == Idle \in Record
BY OutcomeRecord DEF Idle

LEMMA Moved ==
  ASSUME NEW q \in Record, NEW at \in Awaiting \cup {"idle", "entered", "answered"}
  PROVE  [q EXCEPT !.at = at] \in Record
BY DEF Record

LEMMA RolesAreRoles ==
  ASSUME NEW t, NEW c
  PROVE  RolesOf(t, c) \in SUBSET Roles
BY DEF RolesOf, Held

\* A step that changes only request r, to a record, preserves the type of the requests.
LEMMA OneRequest ==
  ASSUME request \in [Request -> Record], NEW r \in Request, NEW q \in Record,
         request' = [request EXCEPT ![r] = q]
  PROVE  request' \in [Request -> Record]
OBVIOUS

LEMMA GotoType ==
  ASSUME request \in [Request -> Record], NEW r \in Request,
         NEW at \in Awaiting \cup {"idle", "entered", "answered"}, Goto(r, at)
  PROVE  request' \in [Request -> Record]
<1>1. [request[r] EXCEPT !.at = at] \in Record
  BY Moved
<1>2. request' = [request EXCEPT ![r] = [request[r] EXCEPT !.at = at]]
  BY DEF Goto
<1>. QED BY <1>1, <1>2, OneRequest

LEMMA DoneType ==
  ASSUME request \in [Request -> Record], NEW r \in Request, Done(r)
  PROVE  request' \in [Request -> Record]
BY IdleRecord, OneRequest DEF Done

LEMMA AnswerType ==
  ASSUME request \in [Request -> Record], NEW r \in Request,
         NEW status \in {0, 400, 401, 403, 500, 503}, NEW marks \in SUBSET {"late", "fault"},
         Answer(r, status, marks)
  PROVE  request' \in [Request -> Record]
<1>1. Outcome("answered", status, None, marks) \in Record
  BY OutcomeRecord
<1>. QED BY <1>1, OneRequest DEF Answer

LEMMA ArrivesType ==
  ASSUME request \in [Request -> Record], NEW r \in Request, NEW at \in Awaiting,
         NEW from \in Browser \cup {None}, NEW t \in Token \cup {None},
         NEW csrf \in Token \cup {None}, NEW e \in Endpoint, NEW c \in Company,
         Arrives(r, at, from, t, csrf, e, c)
  PROVE  request' \in [Request -> Record]
<1>. DEFINE marks == IF from # None /\ t # None /\ Ended(t) THEN {"late"} ELSE {}
<1>1. marks \in SUBSET {"late", "fault"}
  OBVIOUS
<1>2. RolesOf(t, c) \in SUBSET Roles
  BY RolesAreRoles
<1>3. request' = [request EXCEPT ![r] = Waiting(at, from, t, csrf, e, c, RolesOf(t, c), marks)]
  BY DEF Arrives
<1>. HIDE DEF marks
<1>4. Waiting(at, from, t, csrf, e, c, RolesOf(t, c), marks) \in Record
  BY <1>1, <1>2, WaitingRecord
<1>. QED BY <1>3, <1>4, OneRequest

LEMMA AdmitType ==
  ASSUME request \in [Request -> Record], NEW r \in Request, NEW role \in Roles, Admit(r, role)
  PROVE  request' \in [Request -> Record]
<1>1. CASE Answer(r, IF StepUpConfigured THEN 401 ELSE 503, {})
  <2>1. (IF StepUpConfigured THEN 401 ELSE 503) \in {0, 400, 401, 403, 500, 503}
    OBVIOUS
  <2>. DEFINE status == IF StepUpConfigured THEN 401 ELSE 503
  <2>2. status \in {0, 400, 401, 403, 500, 503} /\ Answer(r, status, {})
    BY <1>1, <2>1
  <2>. HIDE DEF status
  <2>. QED BY <2>2, AnswerType
<1>2. CASE request' = [request EXCEPT ![r] = Outcome("entered", 0, role, {})]
  <2>1. Outcome("entered", 0, role, {}) \in Record
    BY OutcomeRecord
  <2>. QED BY <1>2, <2>1, OneRequest
<1>3. CASE Answer(r, 400, {})
  BY <1>3, AnswerType
<1>. QED BY <1>1, <1>2, <1>3 DEF Admit

LEMMA SeeRecord ==
  ASSUME NEW q \in Record, NEW roles \in SUBSET Roles
  PROVE  /\ See(q, roles) \in Record
         /\ See(q, roles).had = q.had \cup roles
         /\ See(q, roles).lacked = q.lacked \cup (Roles \ roles)
         /\ \A f \in {"at", "from", "token", "csrf", "endpoint", "company", "marks", "status", "role"} :
              See(q, roles)[f] = q[f]
<1>. DEFINE p == [q EXCEPT !.had = q.had \cup roles]
<1>1. /\ p \in Record /\ p.had = q.had \cup roles /\ p.lacked = q.lacked
      /\ \A f \in {"at", "from", "token", "csrf", "endpoint", "company", "marks", "status", "role"} : p[f] = q[f]
  BY DEF Record
<1>2. See(q, roles) = [p EXCEPT !.lacked = p.lacked \cup (Roles \ roles)]
  BY DEF See, Record
<1>. HIDE DEF p
<1>. QED BY <1>1, <1>2 DEF Record

LEMMA HeldRoles ==
  ASSUME NEW t, NEW c, NEW operators, NEW members
  PROVE  Held(t, c, operators, members) \in SUBSET Roles
BY DEF Held

-----------------------------------------------------------------------------
(***************************************************************************)
(* Type correctness.                                                       *)
(***************************************************************************)
Others ==
  /\ token \in [Token -> {"unissued", "valid", "revoked", "expired"}]
  /\ platformRoles \subseteq Subject
  /\ memberships \subseteq Subject \X Company
  /\ pendingLogins \subseteq State
  /\ sessions \subseteq Token
  /\ stateCookie \in [Browser -> State \cup {None}]
  /\ sessionCookie \in [Browser -> Token \cup {None}]
  /\ page \in [Browser -> Token \cup {None}]
  /\ exchanging \in [Redirect -> [state : State \cup {None}, from : Browser \cup {None}]]
  /\ login \in [Token -> State \cup {None}]
  /\ began \in [State -> Browser \cup {None}]
  /\ ended \subseteq Token
  /\ changes \in 0..MaxChanges

LEMMA TypeParts == TypeOK <=> Others /\ request \in [Request -> Record]
BY DEF TypeOK, Others, Record

LEMMA RequestTypes ==
  ASSUME request \in [Request -> Record], Others, Next
  PROVE  request' \in [Request -> Record]
<1>1. ASSUME NEW r \in Request, Auth(r)
      PROVE  request' \in [Request -> Record]
  <2>1. ASSUME NEW b \in Browser, CheckSession(r, b)
        PROVE  request' \in [Request -> Record]
    <3>1. CASE Done(r)
      BY <3>1, DoneType
    <3>2. CASE request' = [request EXCEPT ![r] =
                 Waiting("checking", b, sessionCookie[b], None, None, None, {}, {})]
      <4>1. Waiting("checking", b, sessionCookie[b], None, None, None, {}, {}) \in Record
        BY WaitingRecord DEF Others, Awaiting
      <4>. QED BY <3>2, <4>1, OneRequest
    <3>. QED BY <2>1, <3>1, <3>2 DEF CheckSession
  <2>2. CASE SessionChecked(r) \/ SessionNotActive(r)
    BY <2>2, DoneType DEF SessionChecked, SessionNotActive
  <2>. QED BY <1>1, <2>1, <2>2 DEF Auth
<1>2. ASSUME NEW r \in Request, Handle(r)
      PROVE  request' \in [Request -> Record]
  <2>1. CASE Introspected(r)
    BY <2>1, GotoType, AnswerType DEF Introspected, Awaiting
  <2>2. CASE NotActive(r)
    <3>. DEFINE marks == IF token[request[r].token] = "valid" THEN {"fault"} ELSE {}
    <3>1. marks \in SUBSET {"late", "fault"} /\ Answer(r, 401, marks)
      BY <2>2 DEF NotActive
    <3>. HIDE DEF marks
    <3>. QED BY <3>1, AnswerType
  <2>3. CASE Verify(r)
    BY <2>3, GotoType, AnswerType DEF Verify, Awaiting
  <2>4. CASE IsPlatformOperator(r)
    BY <2>4, GotoType, AdmitType DEF IsPlatformOperator, Awaiting, Roles
  <2>5. CASE HasCompanyAccess(r)
    BY <2>5, AnswerType, AdmitType DEF HasCompanyAccess, Roles
  <2>6. CASE CallFails(r)
    BY <2>6, AnswerType DEF CallFails
  <2>. QED BY <1>2, <2>1, <2>2, <2>3, <2>4, <2>5, <2>6 DEF Handle
<1>3. ASSUME NEW r \in Request, Call(r)
      PROVE  request' \in [Request -> Record]
  <2>1. ASSUME NEW e \in Endpoint, NEW c \in Company, NEW b \in Browser, BrowserCalls(r, b, e, c)
        PROVE  request' \in [Request -> Record]
    <3>. DEFINE csrf == IF e.writes THEN page[b] ELSE None
    <3>1. csrf \in Token \cup {None} /\ sessionCookie[b] \in Token \cup {None}
      BY DEF Others
    <3>2. \/ Arrives(r, "introspecting", b, sessionCookie[b], csrf, e, c)
          \/ Arrives(r, "verifying", b, None, csrf, e, c)
      BY <2>1 DEF BrowserCalls
    <3>. HIDE DEF csrf
    <3>. QED BY <3>1, <3>2, ArrivesType DEF Awaiting
  <2>2. ASSUME NEW e \in Endpoint, NEW c \in Company, NEW t \in Token, ProgramCalls(r, t, e, c)
        PROVE  request' \in [Request -> Record]
    BY <2>2, ArrivesType DEF ProgramCalls, Awaiting
  <2>. QED BY <1>3, <2>1, <2>2 DEF Call
<1>4. CASE GrantsChange
  <2>1. ASSUME NEW r \in Request
        PROVE  See(request[r], Held(request[r].token, request[r].company, platformRoles', memberships')) \in Record
    BY HeldRoles, SeeRecord
  <2>. QED BY <1>4, <2>1 DEF GrantsChange
<1>5. CASE Restart
  BY <1>5, IdleRecord DEF Restart
<1>6. CASE UNCHANGED request
  BY <1>6
<1>. QED
  BY <1>1, <1>2, <1>3, <1>4, <1>5, <1>6
     DEF Next, LogIn, LogOut, Callback, Exchange, ExchangeFails, TokenChanges, SessionOverdue, LoginOverdue

LEMMA OtherTypes ==
  ASSUME request \in [Request -> Record], Others, Next
  PROVE  Others'
<1>1. ASSUME NEW b \in Browser, NEW s \in State, LogIn(b, s)
      PROVE  Others'
  BY <1>1 DEF LogIn, Others, grants
<1>2. ASSUME NEW b \in Browser, LogOut(b)
      PROVE  Others'
  BY <1>2 DEF LogOut, Others, grants
<1>3. ASSUME NEW k \in Redirect, NEW b \in Browser, NEW s \in State, Callback(k, b, s)
      PROVE  Others'
  BY <1>3 DEF Callback, TakeLogin, Others, grants, browser, history
<1>4. ASSUME NEW k \in Redirect, NEW t \in Token, Exchange(k, t)
      PROVE  Others'
  BY <1>4 DEF Exchange, NoExchange, Others, grants
<1>5. ASSUME NEW k \in Redirect, ExchangeFails(k)
      PROVE  Others'
  BY <1>5 DEF ExchangeFails, NoExchange, Others, grants, server, browser, history
<1>6. ASSUME NEW r \in Request, Auth(r)
      PROVE  Others'
  <2>. request[r] \in Record
    OBVIOUS
  <2>1. request[r].token \in Token \cup {None} /\ request[r].from \in Browser \cup {None}
    BY DEF Record
  <2>. QED
    BY <1>6, <2>1
       DEF Auth, CheckSession, SessionChecked, SessionNotActive, ClearSession, Others, grants, server, history
<1>7. ASSUME NEW r \in Request, Handle(r)
      PROVE  Others'
  BY <1>7 DEF Handle, Introspected, NotActive, ClearSession, Verify, IsPlatformOperator, HasCompanyAccess,
              CallFails, Others, grants, server, browser, history
<1>8. ASSUME NEW r \in Request, Call(r)
      PROVE  Others'
  BY <1>8 DEF Call, BrowserCalls, ProgramCalls, Others, grants, server, browser, history
<1>9. CASE GrantsChange \/ Restart \/ (\E s \in State : LoginOverdue(s))
           \/ (\E t \in Token : TokenChanges(t) \/ SessionOverdue(t))
  BY <1>9, Bounds DEF GrantsChange, Restart, LoginOverdue, TokenChanges, SessionOverdue, Changes, NoExchange,
                      Others, grants, server, browser, history
<1>. QED
  BY <1>1, <1>2, <1>3, <1>4, <1>5, <1>6, <1>7, <1>8, <1>9 DEF Next

\* Every variable keeps the values the maps, tables and cookies of the code can have.
THEOREM TypeCorrect == Spec => []TypeOK
<1>1. Init => TypeOK
  <2>. SUFFICES ASSUME Init PROVE TypeOK
    OBVIOUS
  <2>1. Others
    BY Bounds DEF Init, Others, NoExchange
  <2>2. request \in [Request -> Record]
    BY IdleRecord DEF Init
  <2>. QED BY <2>1, <2>2, TypeParts
<1>2. TypeOK /\ [Next]_vars => TypeOK'
  <2>. SUFFICES ASSUME TypeOK, [Next]_vars PROVE TypeOK'
    OBVIOUS
  <2>1. CASE Next
    BY <2>1, TypeParts, RequestTypes, OtherTypes DEF TypeOK, Others, Record
  <2>2. CASE UNCHANGED vars
    BY <2>2 DEF vars, grants, server, browser, history, TypeOK
  <2>. QED BY <2>1, <2>2
<1>. QED BY <1>1, <1>2, PTL DEF Spec

-----------------------------------------------------------------------------
(***************************************************************************)
(* Logins: a state makes one session, for the browser that began it.       *)
(***************************************************************************)

\* A login that may still be used is in one place: the server's map, or one exchange.
PendingIsUnused ==
  \A s \in pendingLogins :
    /\ began[s] # None
    /\ \A t \in Token : login[t] # s
    /\ \A k \in Redirect : exchanging[k].state # s

ExchangeIsAlone ==
  \A k \in Redirect : exchanging[k] # NoExchange =>
    LET s == exchanging[k].state IN
    /\ s \in State /\ exchanging[k].from \in Browser
    /\ began[s] = exchanging[k].from
    /\ \A t \in Token : login[t] # s
    /\ \A j \in Redirect : exchanging[j].state = s => j = k

LoginIsBegun ==
  \A t \in Token : login[t] # None => began[login[t]] # None /\ token[t] # "unissued"

CookieIsOfItsBrowser ==
  \A b \in Browser :
    /\ stateCookie[b] # None => began[stateCookie[b]] = b
    /\ sessionCookie[b] # None =>
         login[sessionCookie[b]] # None /\ began[login[sessionCookie[b]]] = b

LoginInv ==
  PendingIsUnused /\ ExchangeIsAlone /\ LoginIsBegun /\ LoginIsSingleUse /\ CookieIsOfItsBrowser

\* Steps that end logins and drop cookies, and steps of the provider.
LEMMA LoginFrame ==
  ASSUME Others, LoginInv, UNCHANGED <<exchanging, login, began, stateCookie>>,
         pendingLogins' \subseteq pendingLogins,
         \A b \in Browser : sessionCookie'[b] \in {sessionCookie[b], None},
         \A t \in Token : token[t] # "unissued" => token'[t] # "unissued"
  PROVE  LoginInv'
<1>1. PendingIsUnused'
  BY DEF LoginInv, PendingIsUnused
<1>2. ExchangeIsAlone'
  BY DEF LoginInv, ExchangeIsAlone
<1>3. LoginIsBegun' /\ LoginIsSingleUse'
  BY DEF LoginInv, LoginIsBegun, LoginIsSingleUse
<1>4. CookieIsOfItsBrowser'
  BY DEF LoginInv, CookieIsOfItsBrowser
<1>. QED BY <1>1, <1>2, <1>3, <1>4 DEF LoginInv

\* A new login has a state of its own.
LEMMA LoginBegins ==
  ASSUME Others, LoginInv, NEW b \in Browser, NEW s \in State, LogIn(b, s)
  PROVE  LoginInv'
<1>1. /\ began[s] = None /\ began' = [began EXCEPT ![s] = b]
      /\ pendingLogins' = pendingLogins \cup {s}
      /\ stateCookie' = [stateCookie EXCEPT ![b] = s]
      /\ UNCHANGED <<token, sessionCookie, exchanging, login>>
  BY DEF LogIn
<1>2. \A t \in Token : login[t] # s
  BY <1>1, Claims DEF LoginInv, LoginIsBegun
<1>3. \A k \in Redirect : exchanging[k].state # s
  <2>. SUFFICES ASSUME NEW k \in Redirect, exchanging[k].state = s PROVE FALSE
    OBVIOUS
  <2>1. exchanging[k] # NoExchange
    BY Claims DEF NoExchange
  <2>. QED BY <1>1, <2>1, Claims DEF LoginInv, ExchangeIsAlone
<1>4. \A u \in State : u # s => began'[u] = began[u]
  BY <1>1 DEF Others
<1>5. began'[s] = b /\ b # None
  BY <1>1, Claims DEF Others
<1>6. PendingIsUnused'
  BY <1>1, <1>2, <1>3, <1>4, <1>5 DEF LoginInv, PendingIsUnused, Others
<1>7. ExchangeIsAlone'
  BY <1>1, <1>3, <1>4 DEF LoginInv, ExchangeIsAlone
<1>8. LoginIsBegun' /\ LoginIsSingleUse'
  BY <1>1, <1>2, <1>4 DEF LoginInv, LoginIsBegun, LoginIsSingleUse, Others
<1>9. CookieIsOfItsBrowser'
  BY <1>1, <1>2, <1>4, <1>5, Claims DEF LoginInv, CookieIsOfItsBrowser, Others
<1>. QED BY <1>6, <1>7, <1>8, <1>9 DEF LoginInv

\* A callback takes its login out of the map, whether or not it is accepted.
LEMMA LoginTaken ==
  ASSUME Others, LoginInv, NEW k \in Redirect, NEW b \in Browser, NEW s \in State, Callback(k, b, s)
  PROVE  LoginInv'
<1>1. /\ exchanging[k] = NoExchange /\ pendingLogins' = pendingLogins \ {s}
      /\ UNCHANGED <<token, stateCookie, sessionCookie, login, began>>
  BY DEF Callback, TakeLogin, browser, history
<1>2. CASE UNCHANGED exchanging
  BY <1>1, <1>2, LoginFrame
<1>3. CASE CallbackValid(b, s) /\ exchanging' = [exchanging EXCEPT ![k] = [state |-> s, from |-> b]]
  <2>1. s \in pendingLogins /\ began[s] = b
    BY <1>3, Claims DEF CallbackValid, LoginInv, CookieIsOfItsBrowser
  <2>2. /\ exchanging'[k].state = s /\ exchanging'[k].from = b
        /\ \A j \in Redirect : j # k => exchanging'[j] = exchanging[j]
    BY <1>3 DEF Others
  <2>3. /\ \A t \in Token : login[t] # s
        /\ \A j \in Redirect : exchanging[j].state # s
    BY <2>1 DEF LoginInv, PendingIsUnused
  <2>4. PendingIsUnused'
    BY <1>1, <2>2 DEF LoginInv, PendingIsUnused
  <2>5. ASSUME NEW j \in Redirect, exchanging'[j] # NoExchange
        PROVE  /\ exchanging'[j].state \in State /\ exchanging'[j].from \in Browser
               /\ began[exchanging'[j].state] = exchanging'[j].from
               /\ \A t \in Token : login[t] # exchanging'[j].state
               /\ \A i \in Redirect : exchanging'[i].state = exchanging'[j].state => i = j
    <3>1. CASE j = k
      BY <2>1, <2>2, <2>3, <3>1
    <3>2. CASE j # k
      BY <2>2, <2>3, <2>5, <3>2 DEF LoginInv, ExchangeIsAlone
    <3>. QED BY <3>1, <3>2
  <2>6. ExchangeIsAlone'
    BY <1>1, <2>5 DEF ExchangeIsAlone, NoExchange
  <2>7. LoginIsBegun' /\ LoginIsSingleUse' /\ CookieIsOfItsBrowser'
    BY <1>1 DEF LoginInv, LoginIsBegun, LoginIsSingleUse, CookieIsOfItsBrowser
  <2>. QED BY <2>4, <2>6, <2>7 DEF LoginInv
<1>. QED BY <1>2, <1>3 DEF Callback

\* The exchange that ends drops its state.
LEMMA ExchangeEnds ==
  ASSUME Others, LoginInv, NEW k \in Redirect, exchanging' = [exchanging EXCEPT ![k] = NoExchange],
         UNCHANGED <<pendingLogins, began>>,
         \A s \in pendingLogins : \A t \in Token : login'[t] # s,
         \A j \in Redirect : j # k /\ exchanging[j] # NoExchange =>
           \A t \in Token : login'[t] # exchanging[j].state
  PROVE  PendingIsUnused' /\ ExchangeIsAlone'
<1>1. exchanging'[k].state = None /\ \A j \in Redirect : j # k => exchanging'[j] = exchanging[j]
  BY DEF NoExchange, Others
<1>2. exchanging'[k] = NoExchange
  BY DEF Others
<1>3. PendingIsUnused'
  BY <1>1, Claims DEF LoginInv, PendingIsUnused, Others
<1>4. ASSUME NEW j \in Redirect, exchanging'[j] # NoExchange
      PROVE  /\ exchanging'[j].state \in State /\ exchanging'[j].from \in Browser
             /\ began[exchanging'[j].state] = exchanging'[j].from
             /\ \A t \in Token : login'[t] # exchanging'[j].state
             /\ \A i \in Redirect : exchanging'[i].state = exchanging'[j].state => i = j
  <2>1. j # k /\ exchanging'[j] = exchanging[j]
    BY <1>1, <1>2, <1>4
  <2>2. exchanging[j].state \in State
    BY <1>4, <2>1 DEF LoginInv, ExchangeIsAlone
  <2>. QED BY <1>1, <1>4, <2>1, <2>2, Claims DEF LoginInv, ExchangeIsAlone
<1>5. ExchangeIsAlone'
  BY <1>4 DEF ExchangeIsAlone, NoExchange
<1>. QED BY <1>3, <1>5

\* The session made by an exchange is of the browser that began its login.
LEMMA LoginMakesSession ==
  ASSUME Others, LoginInv, NEW k \in Redirect, NEW t \in Token, Exchange(k, t)
  PROVE  LoginInv'
<1>. PICK s, b : s = exchanging[k].state /\ b = exchanging[k].from
  OBVIOUS
<1>1. /\ exchanging[k] # NoExchange /\ token[t] = "unissued"
      /\ token' = [token EXCEPT ![t] = "valid"] /\ login' = [login EXCEPT ![t] = s]
      /\ sessionCookie' = [sessionCookie EXCEPT ![b] = t]
      /\ stateCookie' = [stateCookie EXCEPT ![b] = None]
      /\ exchanging' = [exchanging EXCEPT ![k] = NoExchange]
      /\ UNCHANGED <<pendingLogins, began>>
  BY DEF Exchange
<1>2. /\ s \in State /\ b \in Browser /\ began[s] = b
      /\ \A u \in Token : login[u] # s
      /\ \A j \in Redirect : exchanging[j].state = s => j = k
  BY <1>1 DEF LoginInv, ExchangeIsAlone
<1>3. login[t] = None
  BY <1>1 DEF LoginInv, LoginIsBegun
<1>4. login'[t] = s /\ \A u \in Token : u # t => login'[u] = login[u]
  BY <1>1 DEF Others
<1>5. s \notin pendingLogins
  BY DEF LoginInv, PendingIsUnused
<1>6. PendingIsUnused' /\ ExchangeIsAlone'
  <2>1. \A u \in pendingLogins : \A v \in Token : login'[v] # u
    BY <1>4, <1>5 DEF LoginInv, PendingIsUnused
  <2>2. \A j \in Redirect : j # k /\ exchanging[j] # NoExchange =>
          \A v \in Token : login'[v] # exchanging[j].state
    BY <1>2, <1>4 DEF LoginInv, ExchangeIsAlone
  <2>. QED BY <1>1, <2>1, <2>2, ExchangeEnds
<1>7. LoginIsBegun'
  BY <1>1, <1>2, <1>4, Claims DEF LoginInv, LoginIsBegun, Others
<1>8. LoginIsSingleUse'
  BY <1>2, <1>4 DEF LoginInv, LoginIsSingleUse
<1>9. ASSUME NEW c \in Browser
      PROVE  /\ stateCookie'[c] # None => began[stateCookie'[c]] = c
             /\ sessionCookie'[c] # None =>
                  login'[sessionCookie'[c]] # None /\ began[login'[sessionCookie'[c]]] = c
  <2>1. CASE c = b
    BY <1>1, <1>2, <1>4, <2>1, Claims DEF Others
  <2>2. CASE c # b
    <3>1. stateCookie'[c] = stateCookie[c] /\ sessionCookie'[c] = sessionCookie[c]
      BY <1>1, <2>2 DEF Others
    <3>2. sessionCookie[c] # None => sessionCookie[c] \in Token /\ sessionCookie[c] # t
      BY <1>3 DEF LoginInv, CookieIsOfItsBrowser, Others
    <3>. QED BY <1>4, <3>1, <3>2 DEF LoginInv, CookieIsOfItsBrowser
  <2>. QED BY <2>1, <2>2
<1>10. CookieIsOfItsBrowser'
  BY <1>1, <1>9 DEF CookieIsOfItsBrowser
<1>. QED BY <1>6, <1>7, <1>8, <1>10 DEF LoginInv

LEMMA LoginInvStep ==
  ASSUME TypeOK, LoginInv, [Next]_vars
  PROVE  LoginInv'
<1>0. Others /\ request \in [Request -> Record]
  BY TypeParts
<1>1. ASSUME NEW b \in Browser, LogOut(b)
      PROVE  LoginInv'
  <2>1. \A c \in Browser : sessionCookie'[c] \in {sessionCookie[c], None}
    BY <1>0, <1>1 DEF LogOut, Others
  <2>. QED BY <1>0, <1>1, <2>1, LoginFrame DEF LogOut
<1>2. ASSUME NEW r \in Request, Auth(r) \/ Handle(r) \/ Call(r)
      PROVE  LoginInv'
  <2>1. \A c \in Browser : sessionCookie'[c] \in {sessionCookie[c], None}
    BY <1>0, <1>2
       DEF Auth, CheckSession, SessionChecked, SessionNotActive, ClearSession, Handle, Introspected, NotActive,
           Verify, IsPlatformOperator, HasCompanyAccess, CallFails, Call, BrowserCalls, ProgramCalls, Others, browser
  <2>2. UNCHANGED <<exchanging, login, began, stateCookie, token, pendingLogins>>
    BY <1>2
       DEF Auth, CheckSession, SessionChecked, SessionNotActive, Handle, Introspected, NotActive,
           Verify, IsPlatformOperator, HasCompanyAccess, CallFails, Call, BrowserCalls, ProgramCalls,
           browser, server, history
  <2>. QED BY <1>0, <2>1, <2>2, LoginFrame
<1>3. ASSUME NEW k \in Redirect, ExchangeFails(k)
      PROVE  LoginInv'
  <2>0. exchanging' = [exchanging EXCEPT ![k] = NoExchange] /\ UNCHANGED <<pendingLogins, began, login>>
    BY <1>3 DEF ExchangeFails, server, history
  <2>1. PendingIsUnused' /\ ExchangeIsAlone'
    <3>1. \A s \in pendingLogins : \A t \in Token : login'[t] # s
      BY <2>0 DEF LoginInv, PendingIsUnused
    <3>2. \A j \in Redirect : j # k /\ exchanging[j] # NoExchange =>
            \A t \in Token : login'[t] # exchanging[j].state
      BY <2>0 DEF LoginInv, ExchangeIsAlone
    <3>. QED BY <1>0, <2>0, <3>1, <3>2, ExchangeEnds
  <2>2. LoginIsBegun' /\ LoginIsSingleUse' /\ CookieIsOfItsBrowser'
    BY <1>3 DEF ExchangeFails, browser, history, LoginInv, LoginIsBegun, LoginIsSingleUse, CookieIsOfItsBrowser
  <2>. QED BY <2>1, <2>2 DEF LoginInv
<1>4. CASE GrantsChange \/ (\E s \in State : LoginOverdue(s)) \/ (\E t \in Token : TokenChanges(t) \/ SessionOverdue(t))
  <2>1. /\ UNCHANGED <<exchanging, login, began, stateCookie, sessionCookie>>
        /\ pendingLogins' \subseteq pendingLogins
    BY <1>4 DEF GrantsChange, LoginOverdue, TokenChanges, SessionOverdue, browser, server, history
  <2>2. \A t \in Token : token[t] # "unissued" => token'[t] # "unissued"
    BY <1>0, <1>4 DEF GrantsChange, LoginOverdue, TokenChanges, SessionOverdue, Others
  <2>. QED BY <1>0, <2>1, <2>2, LoginFrame
<1>5. CASE Restart
  <2>1. /\ pendingLogins' = {} /\ \A k \in Redirect : exchanging'[k] = NoExchange
        /\ UNCHANGED <<token, stateCookie, sessionCookie, login, began>>
    BY <1>5 DEF Restart, browser
  <2>2. PendingIsUnused' /\ ExchangeIsAlone'
    BY <2>1 DEF PendingIsUnused, ExchangeIsAlone, NoExchange
  <2>3. LoginIsBegun' /\ LoginIsSingleUse' /\ CookieIsOfItsBrowser'
    BY <2>1 DEF LoginInv, LoginIsBegun, LoginIsSingleUse, CookieIsOfItsBrowser
  <2>. QED BY <2>2, <2>3 DEF LoginInv
<1>6. CASE UNCHANGED vars
  BY <1>0, <1>6, LoginFrame DEF vars, server, browser, history
<1>. QED
  BY <1>0, <1>1, <1>2, <1>3, <1>4, <1>5, <1>6, LoginBegins, LoginTaken, LoginMakesSession DEF Next

LEMMA LoginInvHolds == Spec => []LoginInv
<1>1. Init => LoginInv
  BY DEF Init, LoginInv, PendingIsUnused, ExchangeIsAlone, LoginIsBegun, LoginIsSingleUse, CookieIsOfItsBrowser
<1>. QED BY <1>1, TypeCorrect, LoginInvStep, PTL DEF Spec

\* A login makes one session, however often and wherever its callback is opened.
THEOREM OneSessionPerLogin == Spec => []LoginIsSingleUse
<1>1. LoginInv => LoginIsSingleUse
  BY DEF LoginInv
<1>. QED BY <1>1, LoginInvHolds, PTL

\* No browser's cookie names a session of a login that another browser began.
THEOREM SessionsOfTheirBrowser == Spec => []SessionOfItsBrowser
<1>1. LoginInv => SessionOfItsBrowser
  BY DEF LoginInv, CookieIsOfItsBrowser, SessionOfItsBrowser
<1>. QED BY <1>1, LoginInvHolds, PTL

-----------------------------------------------------------------------------
(***************************************************************************)
(* Requests: what each await has established.                              *)
(***************************************************************************)
InApi == {"introspecting", "verifying", "operator", "member"}
Hooked == {"verifying", "operator", "member"}

\* What a request has seen of its subject includes what is so now.
Watched(q) ==
  q.at \in InApi =>
    /\ q.endpoint \in Endpoint /\ q.company \in Company
    /\ RolesOf(q.token, q.company) \subseteq q.had
    /\ Roles \ RolesOf(q.token, q.company) \subseteq q.lacked

\* A session that had ended before is one the provider will not call active again.
Introspecting(q) ==
  q.at = "introspecting" =>
    /\ q.from # None /\ q.token \in Token
    /\ "late" \in q.marks => introspectionEnabled /\ token[q.token] \in {"revoked", "expired"}

\* Past the hook a request is of a session that is not known to have ended, and of its page.
PastHook(q) ==
  /\ q.at \in Hooked =>
       /\ "late" \notin q.marks
       /\ q.from # None /\ q.token # None /\ q.endpoint.writes => q.csrf = q.token
  /\ q.at \in {"operator", "member"} => q.token \in Token
  /\ q.at = "member" => "operator" \in q.lacked

RequestInv == \A r \in Request : Watched(request[r]) /\ Introspecting(request[r]) /\ PastHook(request[r])

\* A session in the map has not ended, and its token was issued.
SessionInv ==
  /\ sessions \cap ended = {}
  /\ \A t \in sessions \cup ended : token[t] # "unissued"

LEMMA SessionInvStep ==
  ASSUME TypeOK, SessionInv, [Next]_vars
  PROVE  SessionInv'
<1>0. Others
  BY TypeParts
<1>1. ASSUME NEW k \in Redirect, NEW t \in Token, Exchange(k, t)
      PROVE  SessionInv'
  BY <1>0, <1>1 DEF Exchange, SessionInv, Others
<1>2. CASE (\E b \in Browser : LogOut(b)) \/ (\E t \in Token : SessionOverdue(t)) \/ Restart
  BY <1>0, <1>2 DEF LogOut, SessionOverdue, Restart, SessionInv, Others
<1>3. CASE \E r \in Request : Auth(r) \/ Handle(r) \/ Call(r)
  BY <1>3 DEF Auth, CheckSession, SessionChecked, SessionNotActive, Handle, Introspected, NotActive, Verify,
     IsPlatformOperator, HasCompanyAccess, CallFails, Call, BrowserCalls, ProgramCalls, SessionInv, server, history
<1>4. CASE \E t \in Token : TokenChanges(t)
  BY <1>0, <1>4 DEF TokenChanges, SessionInv, Others, server, history
<1>5. CASE \/ \E b \in Browser, s \in State : LogIn(b, s)
           \/ \E k \in Redirect, b \in Browser, s \in State : Callback(k, b, s)
           \/ \E k \in Redirect : ExchangeFails(k)
           \/ \E s \in State : LoginOverdue(s)
           \/ GrantsChange \/ UNCHANGED vars
  BY <1>5 DEF LogIn, Callback, ExchangeFails, LoginOverdue, GrantsChange, SessionInv, server, history, vars
<1>. QED BY <1>1, <1>2, <1>3, <1>4, <1>5 DEF Next

\* A request changes by steps of its own, by a change of the grants, or ends in a restart.
LEMMA RequestChanges ==
  ASSUME TypeOK, [Next]_vars, NEW r \in Request
  PROVE  \/ /\ request'[r] = request[r] \/ request'[r] = Idle
            /\ UNCHANGED grants
         \/ Auth(r) \/ Handle(r) \/ Call(r) \/ GrantsChange
<1>0. request \in [Request -> Record]
  BY TypeParts
<1>1. ASSUME NEW s \in Request, s # r, Auth(s) \/ Handle(s) \/ Call(s)
      PROVE  request'[r] = request[r] /\ UNCHANGED grants
  BY <1>0, <1>1
     DEF Auth, CheckSession, SessionChecked, SessionNotActive, Handle, Introspected, NotActive, Verify,
         IsPlatformOperator, HasCompanyAccess, Admit, CallFails, Call, BrowserCalls, ProgramCalls, Arrives,
         Goto, Done, Answer
<1>2. CASE Restart
  BY <1>2 DEF Restart
<1>3. CASE UNCHANGED <<request, grants>>
  BY <1>3
<1>. QED
  BY <1>1, <1>2, <1>3
     DEF Next, LogIn, LogOut, Callback, Exchange, ExchangeFails, TokenChanges, SessionOverdue, LoginOverdue, vars, grants

\* What was issued is not issued again, and what the provider ended stays ended.
LEMMA TokensAge ==
  ASSUME TypeOK, [Next]_vars, NEW t \in Token, token[t] \in {"revoked", "expired"}
  PROVE  token'[t] \in {"revoked", "expired"}
<1>1. \/ UNCHANGED token
      \/ \E u \in Token : TokenChanges(u)
      \/ \E k \in Redirect, u \in Token : Exchange(k, u)
  BY DEF Next, LogIn, LogOut, Callback, ExchangeFails, SessionOverdue, LoginOverdue, GrantsChange, Restart, vars,
     Auth, CheckSession, SessionChecked, SessionNotActive, Handle, Introspected, NotActive, Verify,
     IsPlatformOperator, HasCompanyAccess, CallFails, Call, BrowserCalls, ProgramCalls
<1>. QED BY <1>1 DEF TokenChanges, Exchange, TypeOK

\* A request that stays as it is, ends, or is answered.
LEMMA StillInv ==
  ASSUME TypeOK, RequestInv, [Next]_vars, NEW r \in Request, request'[r] = request[r], UNCHANGED grants
  PROVE  Watched(request[r])' /\ Introspecting(request[r])' /\ PastHook(request[r])'
<1>. PICK q : q = request[r]
  OBVIOUS
<1>1. q \in Record /\ Watched(q) /\ Introspecting(q) /\ PastHook(q) /\ request'[r] = q
  BY TypeParts DEF RequestInv
<1>2. Watched(q)'
  BY <1>1 DEF Watched, RolesOf, grants
<1>3. Introspecting(q)'
  BY <1>1, TokensAge DEF Introspecting
<1>4. PastHook(q)'
  BY <1>1 DEF PastHook
<1>. QED BY <1>1, <1>2, <1>3, <1>4

Fine(q) == Watched(q) /\ Introspecting(q) /\ PastHook(q)

\* A request that has ended or was answered waits for nothing.
LEMMA OutOfApi ==
  ASSUME NEW r \in Request, request'[r].at \notin InApi
  PROVE  Fine(request[r])'
BY DEF Fine, Watched, Introspecting, PastHook, InApi, Hooked

LEMMA IdleIsIdle == Idle.at = "idle"
BY DEF Idle, Outcome

\* A call that arrives has seen what is so now, and is late only if the provider ended it.
LEMMA ArrivesFine ==
  ASSUME TypeOK, SessionInv, NEW r \in Request, Call(r)
  PROVE  Fine(request[r])'
<1>0. Others /\ request \in [Request -> Record]
  BY TypeParts
<1>1. ASSUME NEW e \in Endpoint, NEW c \in Company, NEW b \in Browser, BrowserCalls(r, b, e, c)
      PROVE  Fine(request[r])'
  <2>. DEFINE csrf == IF e.writes THEN page[b] ELSE None
  <2>0. UNCHANGED <<token, grants>>
    BY <1>1 DEF BrowserCalls
  <2>1. CASE Live(b) /\ Arrives(r, "introspecting", b, sessionCookie[b], csrf, e, c)
    <3>. PICK t : t = sessionCookie[b]
      OBVIOUS
    <3>. PICK marks : marks = IF b # None /\ t # None /\ Ended(t) THEN {"late"} ELSE {}
      OBVIOUS
    <3>. HIDE DEF csrf
    <3>1. request'[r] = Waiting("introspecting", b, t, csrf, e, c, RolesOf(t, c), marks)
      BY <1>0, <2>1 DEF Arrives
    <3>2. t \in Token /\ t \in sessions /\ b # None
      BY <1>0, <2>1, Claims DEF Live, Others
    <3>3. "late" \in marks => introspectionEnabled /\ token[t] \in {"revoked", "expired"}
      BY <1>0, <3>2 DEF Ended, SessionInv, Others
    <3>4. RolesOf(t, c)' = RolesOf(t, c)
      BY <2>0 DEF RolesOf, grants
    <3>5. /\ request'[r].at = "introspecting" /\ request'[r].from = b /\ request'[r].token = t
          /\ request'[r].endpoint = e /\ request'[r].company = c /\ request'[r].marks = marks
          /\ request'[r].had = RolesOf(t, c) /\ request'[r].lacked = Roles \ RolesOf(t, c)
      BY <3>1 DEF Waiting
    <3>6. RolesOf(request[r].token, request[r].company)' = RolesOf(t, c)
      BY <3>4, <3>5 DEF RolesOf
    <3>. QED BY <2>0, <3>2, <3>3, <3>5, <3>6 DEF Fine, Watched, Introspecting, PastHook, Hooked
  <2>2. CASE Arrives(r, "verifying", b, None, csrf, e, c)
    <3>. PICK marks : marks = IF b # None /\ None # None /\ Ended(None) THEN {"late"} ELSE {}
      OBVIOUS
    <3>. HIDE DEF csrf
    <3>1. request'[r] = Waiting("verifying", b, None, csrf, e, c, RolesOf(None, c), marks)
      BY <1>0, <2>2 DEF Arrives
    <3>2. /\ request'[r].at = "verifying" /\ request'[r].token = None
          /\ request'[r].endpoint = e /\ request'[r].company = c /\ request'[r].marks = {}
          /\ request'[r].had = RolesOf(None, c) /\ request'[r].lacked = Roles \ RolesOf(None, c)
      BY <3>1 DEF Waiting
    <3>3. RolesOf(request[r].token, request[r].company)' = RolesOf(None, c)
      BY <2>0, <3>2 DEF RolesOf, grants
    <3>. QED BY <3>2, <3>3 DEF Fine, Watched, Introspecting, PastHook, Hooked
  <2>. QED BY <1>1, <2>1, <2>2 DEF BrowserCalls
<1>2. ASSUME NEW e \in Endpoint, NEW c \in Company, NEW t \in Token, ProgramCalls(r, t, e, c)
      PROVE  Fine(request[r])'
  <2>1. Arrives(r, "verifying", None, t, None, e, c) /\ UNCHANGED <<token, grants>>
    BY <1>2 DEF ProgramCalls
  <2>. PICK marks : marks = IF None # None /\ t # None /\ Ended(t) THEN {"late"} ELSE {}
    OBVIOUS
  <2>2. request'[r] = Waiting("verifying", None, t, None, e, c, RolesOf(t, c), marks)
    BY <1>0, <2>1 DEF Arrives
  <2>3. /\ request'[r].at = "verifying" /\ request'[r].from = None /\ request'[r].token = t
        /\ request'[r].endpoint = e /\ request'[r].company = c /\ request'[r].marks = {}
        /\ request'[r].had = RolesOf(t, c) /\ request'[r].lacked = Roles \ RolesOf(t, c)
    BY <2>2 DEF Waiting
  <2>4. RolesOf(request[r].token, request[r].company)' = RolesOf(t, c)
    BY <2>1, <2>3 DEF RolesOf, grants
  <2>. QED BY <2>3, <2>4 DEF Fine, Watched, Introspecting, PastHook, Hooked
<1>. QED BY <1>1, <1>2 DEF Call

\* A change of the grants is seen by every request under way.
LEMMA GrantsSeen ==
  ASSUME TypeOK, RequestInv, NEW r \in Request, GrantsChange
  PROVE  Fine(request[r])'
<1>0. request \in [Request -> Record]
  BY TypeParts
<1>. PICK q : q = request[r]
  OBVIOUS
<1>1. q \in Record /\ Fine(q)
  BY <1>0 DEF RequestInv, Fine
<1>. PICK p : p = request'[r]
  OBVIOUS
<1>2. CASE q.at \notin InApi
  <2>1. p = q \/ p = See(q, Held(q.token, q.company, platformRoles', memberships'))
    BY DEF GrantsChange
  <2>2. p.at = q.at
    BY <1>1, <2>1, HeldRoles, SeeRecord
  <2>. QED BY <1>2, <2>2, OutOfApi
<1>3. CASE q.at \in InApi
  <2>. PICK roles : roles = Held(q.token, q.company, platformRoles', memberships')
    OBVIOUS
  <2>1. q.company # None
    BY <1>1, <1>3, Claims DEF Fine, Watched
  <2>2. p = See(q, roles)
    BY <1>3, <2>1 DEF GrantsChange, Free, InApi, Awaiting
  <2>3. /\ p.had = q.had \cup roles /\ p.lacked = q.lacked \cup (Roles \ roles)
        /\ p.at = q.at /\ p.from = q.from /\ p.token = q.token /\ p.csrf = q.csrf
        /\ p.endpoint = q.endpoint /\ p.company = q.company /\ p.marks = q.marks
    BY <1>1, <2>2, HeldRoles, SeeRecord
  <2>4. RolesOf(request[r].token, request[r].company)' = roles
    BY <2>3 DEF RolesOf
  <2>5. Watched(request[r])'
    BY <1>1, <2>3, <2>4 DEF Fine, Watched
  <2>6. Introspecting(request[r])' /\ PastHook(request[r])'
    BY <1>1, <2>3 DEF Fine, Introspecting, PastHook, GrantsChange
  <2>. QED BY <2>5, <2>6 DEF Fine
<1>. QED BY <1>2, <1>3

\* What each step of the hook and of resolveActor has established when the request goes on.
LEMMA HandleShape ==
  ASSUME TypeOK, NEW r \in Request, Handle(r)
  PROVE  LET q == request[r]
             p == request'[r] IN
         /\ UNCHANGED <<token, grants>>
         /\ \/ p.at \in {"entered", "answered"}
            \/ /\ q.at = "introspecting" /\ p = [q EXCEPT !.at = "verifying"]
               /\ ProviderSessionIsActive(q.token) /\ CsrfAccepted(r)
            \/ q.at = "verifying" /\ p = [q EXCEPT !.at = "operator"] /\ q.token # None
            \/ /\ q.at = "operator" /\ p = [q EXCEPT !.at = "member"]
               /\ Holder[q.token] \notin platformRoles
<1>0. request \in [Request -> Record]
  BY TypeParts
<1>1. UNCHANGED <<token, grants>>
  BY DEF Handle, Introspected, NotActive, Verify, IsPlatformOperator, HasCompanyAccess, CallFails
<1>2. ASSUME NEW status, NEW marks, Answer(r, status, marks)
      PROVE  request'[r].at = "answered"
  BY <1>0, <1>2 DEF Answer, Outcome
<1>3. ASSUME NEW role, Admit(r, role)
      PROVE  request'[r].at \in {"entered", "answered"}
  BY <1>0, <1>2, <1>3 DEF Admit, Outcome
<1>4. ASSUME NEW at, Goto(r, at)
      PROVE  request'[r] = [request[r] EXCEPT !.at = at]
  BY <1>0, <1>4 DEF Goto
<1>5. CASE Introspected(r)
  BY <1>1, <1>2, <1>4, <1>5 DEF Introspected
<1>6. CASE NotActive(r) \/ CallFails(r)
  <2>1. \E status, marks : Answer(r, status, marks)
    BY <1>6 DEF NotActive, CallFails
  <2>. QED BY <1>1, <1>2, <2>1
<1>7. CASE Verify(r)
  BY <1>1, <1>2, <1>4, <1>7 DEF Verify, Verifies
<1>8. CASE IsPlatformOperator(r)
  BY <1>1, <1>3, <1>4, <1>8 DEF IsPlatformOperator
<1>9. CASE HasCompanyAccess(r)
  BY <1>1, <1>2, <1>3, <1>9 DEF HasCompanyAccess
<1>. QED BY <1>5, <1>6, <1>7, <1>8, <1>9 DEF Handle

LEMMA HandleFine ==
  ASSUME TypeOK, RequestInv, NEW r \in Request, Handle(r)
  PROVE  Fine(request[r])'
<1>. PICK q : q = request[r]
  OBVIOUS
<1>. PICK p : p = request'[r]
  OBVIOUS
<1>0. q \in Record /\ Fine(q)
  BY TypeParts DEF RequestInv, Fine
<1>1. UNCHANGED <<token, grants>>
  BY HandleShape
<1>2. CASE p.at \in {"entered", "answered"}
  BY <1>2, OutOfApi DEF InApi
<1>3. ASSUME NEW at \in Hooked, p = [q EXCEPT !.at = at], q.at \in InApi
      PROVE  /\ p.at = at /\ p.from = q.from /\ p.token = q.token /\ p.csrf = q.csrf
             /\ p.endpoint = q.endpoint /\ p.company = q.company /\ p.marks = q.marks
             /\ p.had = q.had /\ p.lacked = q.lacked
             /\ Watched(request[r])' /\ Introspecting(request[r])'
  <2>1. /\ p.at = at /\ p.from = q.from /\ p.token = q.token /\ p.csrf = q.csrf
        /\ p.endpoint = q.endpoint /\ p.company = q.company /\ p.marks = q.marks
        /\ p.had = q.had /\ p.lacked = q.lacked
    BY <1>0, <1>3 DEF Record
  <2>2. RolesOf(request[r].token, request[r].company)' = RolesOf(q.token, q.company)
    BY <1>1, <2>1 DEF RolesOf, grants
  <2>3. Watched(request[r])'
    BY <1>0, <1>3, <2>1, <2>2 DEF Fine, Watched
  <2>4. Introspecting(request[r])'
    BY <1>3, <2>1 DEF Introspecting, Hooked
  <2>. QED BY <2>1, <2>3, <2>4
<1>4. CASE /\ q.at = "introspecting" /\ p = [q EXCEPT !.at = "verifying"]
           /\ ProviderSessionIsActive(q.token) /\ CsrfAccepted(r)
  <2>1. "late" \notin q.marks
    BY <1>0, <1>4 DEF Fine, Introspecting, ProviderSessionIsActive
  <2>2. q.endpoint.writes => q.csrf = q.token
    BY <1>4 DEF CsrfAccepted
  <2>3. PastHook(request[r])'
    BY <1>3, <1>4, <2>1, <2>2 DEF PastHook, Hooked, InApi
  <2>. QED BY <1>3, <1>4, <2>3 DEF Fine, Hooked, InApi
<1>5. CASE q.at = "verifying" /\ p = [q EXCEPT !.at = "operator"] /\ q.token # None
  <2>1. q.token \in Token
    BY <1>0, <1>5 DEF Record
  <2>2. PastHook(request[r])'
    BY <1>0, <1>3, <1>5, <2>1 DEF Fine, PastHook, Hooked, InApi
  <2>. QED BY <1>3, <1>5, <2>2 DEF Fine, Hooked, InApi
<1>6. CASE /\ q.at = "operator" /\ p = [q EXCEPT !.at = "member"]
           /\ Holder[q.token] \notin platformRoles
  <2>1. "operator" \in Roles \ RolesOf(q.token, q.company)
    BY <1>6 DEF RolesOf, Held, Roles
  <2>2. "operator" \in q.lacked
    BY <1>0, <1>6, <2>1 DEF Fine, Watched, InApi
  <2>3. PastHook(request[r])'
    BY <1>0, <1>3, <1>6, <2>2 DEF Fine, PastHook, Hooked, InApi
  <2>. QED BY <1>3, <1>6, <2>3 DEF Fine, Hooked, InApi
<1>. QED BY <1>2, <1>4, <1>5, <1>6, HandleShape

LEMMA RequestInvStep ==
  ASSUME TypeOK, SessionInv, RequestInv, [Next]_vars
  PROVE  RequestInv'
<1>. SUFFICES ASSUME NEW r \in Request PROVE Fine(request[r])'
  BY DEF RequestInv, Fine
<1>0. request \in [Request -> Record]
  BY TypeParts
<1>1. CASE request'[r] = request[r] /\ UNCHANGED grants
  BY <1>1, StillInv DEF Fine
<1>2. CASE request'[r] = Idle
  BY <1>2, OutOfApi, IdleIsIdle DEF InApi
<1>3. CASE Auth(r)
  <2>1. request'[r].at \in {"idle", "checking"}
    BY <1>0, <1>3, IdleIsIdle DEF Auth, CheckSession, SessionChecked, SessionNotActive, Done, Waiting
  <2>. QED BY <2>1, OutOfApi DEF InApi
<1>. QED BY <1>1, <1>2, <1>3, RequestChanges, HandleFine, ArrivesFine, GrantsSeen

Inv == TypeOK /\ SessionInv /\ RequestInv

LEMMA InvHolds == Spec => []Inv
<1>1. Init => SessionInv
  BY DEF Init, SessionInv
<1>2. Init => RequestInv
  BY IdleIsIdle DEF Init, RequestInv, Watched, Introspecting, PastHook, InApi, Hooked
<1>3. TypeOK /\ SessionInv /\ [Next]_vars => SessionInv'
  BY SessionInvStep
<1>4. TypeOK /\ SessionInv /\ RequestInv /\ [Next]_vars => RequestInv'
  BY RequestInvStep
<1>. QED BY <1>1, <1>2, <1>3, <1>4, TypeCorrect, PTL DEF Spec, Inv

-----------------------------------------------------------------------------
(***************************************************************************)
(* Who enters, and who is refused.                                         *)
(***************************************************************************)

\* Only a request's own steps bring it to a service or to an answer.
LEMMA OwnStep ==
  ASSUME TypeOK, [Next]_vars, NEW r \in Request, ~ Free(r), request'[r].at \in {"entered", "answered"}
  PROVE  Handle(r)
<1>0. request \in [Request -> Record] /\ request[r].at \in Awaiting
  BY TypeParts DEF Free
<1>1. request'[r] # request[r] /\ request'[r] # Idle
  BY <1>0, IdleIsIdle DEF Awaiting
<1>2. ~ Auth(r)
  <2>. SUFFICES ASSUME Auth(r) PROVE request'[r].at \in {"idle", "checking"}
    OBVIOUS
  <2>. QED BY <1>0, IdleIsIdle DEF Auth, CheckSession, SessionChecked, SessionNotActive, Done, Waiting
<1>3. ~ Call(r)
  BY DEF Call, BrowserCalls, ProgramCalls, Arrives
<1>4. ~ GrantsChange
  <2>. SUFFICES ASSUME GrantsChange PROVE request'[r].at = request[r].at
    BY <1>0 DEF Awaiting
  <2>1. request[r] \in Record
    BY <1>0
  <2>2. \/ request'[r] = request[r]
        \/ request'[r] = See(request[r], Held(request[r].token, request[r].company, platformRoles', memberships'))
    BY DEF GrantsChange
  <2>. QED BY <2>1, <2>2, HeldRoles, SeeRecord
<1>. QED BY <1>1, <1>2, <1>3, <1>4, RequestChanges

LEMMA StrongIsAccepted ==
  ASSUME NEW t
  PROVE  Strong(t) <=> ContextAccepted(t) \/ MethodsAccepted(t)
BY DEF Strong, ContextAccepted, MethodsAccepted

LEMMA AnswerIs ==
  ASSUME TypeOK, NEW r \in Request, NEW status, NEW marks, Answer(r, status, marks)
  PROVE  request'[r].at = "answered" /\ request'[r].status = status /\ request'[r].marks = marks
BY TypeParts DEF Answer, Outcome

\* A service is entered from one of the two queries, with the step-up that was asked for.
LEMMA EntersBy ==
  ASSUME TypeOK, NEW r \in Request, Handle(r), request'[r].at = "entered"
  PROVE  LET q == request[r] IN
         /\ q.endpoint.sensitive => Strong(q.token)
         /\ \/ q.at = "operator" /\ Holder[q.token] \in platformRoles /\ request'[r].role = "operator"
            \/ q.at = "member" /\ <<Holder[q.token], q.company>> \in memberships /\ request'[r].role = "company-user"
<1>0. request \in [Request -> Record]
  BY TypeParts
<1>1. ASSUME NEW status, NEW marks PROVE ~ Answer(r, status, marks)
  BY AnswerIs
<1>2. ASSUME NEW at \in {"verifying", "operator", "member"} PROVE ~ Goto(r, at)
  <2>. SUFFICES ASSUME Goto(r, at) PROVE request'[r].at = at
    OBVIOUS
  <2>. QED BY <1>0 DEF Goto, Record
<1>3. ASSUME NEW role, Admit(r, role)
      PROVE  request'[r].role = role /\ (request[r].endpoint.sensitive => Strong(request[r].token))
  <2>1. /\ request' = [request EXCEPT ![r] = Outcome("entered", 0, role, {})]
        /\ request[r].endpoint.sensitive => ContextAccepted(request[r].token) \/ MethodsAccepted(request[r].token)
    BY <1>1, <1>3 DEF Admit, Sensitive
  <2>. QED BY <1>0, <2>1, StrongIsAccepted DEF Outcome
<1>4. ~ Introspected(r) /\ ~ NotActive(r) /\ ~ Verify(r) /\ ~ CallFails(r)
  BY <1>1, <1>2 DEF Introspected, NotActive, Verify, CallFails
<1>5. CASE IsPlatformOperator(r)
  BY <1>2, <1>3, <1>5 DEF IsPlatformOperator
<1>6. CASE HasCompanyAccess(r)
  BY <1>1, <1>3, <1>6 DEF HasCompanyAccess, Member
<1>. QED BY <1>4, <1>5, <1>6 DEF Handle

\* A service is called for subjects who may, with step-up where it is asked for, and from
\* pages of the same session.
THEOREM EntriesAreAuthorized == Spec => EnteredIsAuthorized
<1>. DEFINE Step ==
       \A r \in Request : Enters(r) =>
         LET q == request[r] IN
         /\ request'[r].role \in q.had
         /\ q.endpoint.sensitive => Strong(q.token)
         /\ q.from # None /\ q.endpoint.writes => q.csrf = q.token
<1>1. Inv /\ [Next]_vars => Step
  <2>. SUFFICES ASSUME Inv, [Next]_vars, NEW r \in Request, Enters(r)
                PROVE  LET q == request[r] IN
                       /\ request'[r].role \in q.had
                       /\ q.endpoint.sensitive => Strong(q.token)
                       /\ q.from # None /\ q.endpoint.writes => q.csrf = q.token
    OBVIOUS
  <2>. PICK q : q = request[r]
    OBVIOUS
  <2>1. TypeOK /\ q \in Record /\ Watched(q) /\ PastHook(q)
    BY TypeParts DEF Inv, RequestInv
  <2>2. Handle(r)
    BY <2>1, OwnStep DEF Enters
  <2>3. q.at \in {"operator", "member"} /\ (q.endpoint.sensitive => Strong(q.token))
    BY <2>1, <2>2, EntersBy DEF Enters
  <2>4. q.token # None
    BY <2>1, <2>3, Claims DEF PastHook
  <2>5. request'[r].role \in RolesOf(q.token, q.company)
    BY <2>1, <2>2, <2>4, EntersBy DEF Enters, RolesOf, Held, Roles
  <2>6. request'[r].role \in q.had
    BY <2>1, <2>3, <2>5 DEF Watched, InApi
  <2>. QED BY <2>1, <2>3, <2>4, <2>6 DEF PastHook, Hooked
<1>2. []Inv /\ [][Next]_vars => [][Step]_vars
  BY <1>1, PTL
<1>. QED BY <1>2, InvHolds, PTL DEF Spec, EnteredIsAuthorized

\* No request of a session that had ended when it arrived reaches a service.
THEOREM EndedSessionsEnterNothing == Spec => EndedSessionAdmitsNoOne
<1>. DEFINE Step == \A r \in Request : Enters(r) => "late" \notin request[r].marks
<1>1. Inv /\ [Next]_vars => Step
  <2>. SUFFICES ASSUME Inv, [Next]_vars, NEW r \in Request, Enters(r)
                PROVE  "late" \notin request[r].marks
    OBVIOUS
  <2>1. Handle(r)
    BY OwnStep DEF Enters, Inv
  <2>2. request[r].at \in Hooked
    BY <2>1, EntersBy DEF Enters, Inv, Hooked
  <2>. QED BY <2>2 DEF Inv, RequestInv, PastHook
<1>2. []Inv /\ [][Next]_vars => [][Step]_vars
  BY <1>1, PTL
<1>. QED BY <1>2, InvHolds, PTL DEF Spec, EndedSessionAdmitsNoOne

\* Where each refusal comes from.
LEMMA RefusedBy ==
  ASSUME TypeOK, NEW r \in Request, Handle(r), request'[r].at = "answered"
  PROVE  LET q == request[r]
             status == request'[r].status IN
         \/ status \notin {401, 403}
         \/ q.at = "introspecting" /\ status = 403 /\ ~ CsrfAccepted(r)
         \/ /\ q.at = "introspecting" /\ status = 401
            /\ token[q.token] = "valid" => "fault" \in request'[r].marks
         \/ q.at = "verifying" /\ status = 401 /\ ~ Verifies(q.token)
         \/ status = 401 /\ "fault" \in request'[r].marks
         \/ /\ q.at \in {"operator", "member"} /\ status = 401
            /\ q.endpoint.sensitive /\ ~ Strong(q.token)
         \/ q.at = "member" /\ status = 403 /\ <<Holder[q.token], q.company>> \notin memberships
<1>0. request \in [Request -> Record]
  BY TypeParts
<1>1. ASSUME NEW at \in {"verifying", "operator", "member"} PROVE ~ Goto(r, at)
  <2>. SUFFICES ASSUME Goto(r, at) PROVE request'[r].at = at
    OBVIOUS
  <2>. QED BY <1>0 DEF Goto, Record
<1>2. ASSUME NEW role, Admit(r, role)
      PROVE  \/ request'[r].status \notin {401, 403}
             \/ request'[r].status = 401 /\ request[r].endpoint.sensitive /\ ~ Strong(request[r].token)
  <2>1. request' # [request EXCEPT ![r] = Outcome("entered", 0, role, {})]
    BY <1>0 DEF Outcome
  <2>2. CASE Answer(r, 400, {})
    BY <2>2, AnswerIs
  <2>3. CASE /\ Sensitive(request[r].endpoint)
             /\ ~ (ContextAccepted(request[r].token) \/ MethodsAccepted(request[r].token))
             /\ Answer(r, IF StepUpConfigured THEN 401 ELSE 503, {})
    <3>1. request'[r].status \in {401, 503}
      BY <2>3, AnswerIs
    <3>. QED BY <2>3, <3>1, StrongIsAccepted DEF Sensitive
  <2>. QED BY <1>2, <2>1, <2>2, <2>3 DEF Admit
<1>3. CASE Introspected(r)
  BY <1>1, <1>3, AnswerIs DEF Introspected
<1>4. CASE NotActive(r)
  <2>. PICK marks : marks = IF token[request[r].token] = "valid" THEN {"fault"} ELSE {}
    OBVIOUS
  <2>1. Answer(r, 401, marks) /\ request[r].at = "introspecting"
    BY <1>4 DEF NotActive
  <2>. QED BY <2>1, AnswerIs
<1>5. CASE Verify(r)
  BY <1>1, <1>5, AnswerIs DEF Verify
<1>6. CASE IsPlatformOperator(r)
  BY <1>1, <1>2, <1>6 DEF IsPlatformOperator
<1>7. CASE HasCompanyAccess(r)
  BY <1>2, <1>7, AnswerIs DEF HasCompanyAccess, Member
<1>8. CASE CallFails(r)
  BY <1>8, AnswerIs DEF CallFails
<1>. QED BY <1>3, <1>4, <1>5, <1>6, <1>7, <1>8 DEF Handle

\* A 401 or a 403 has its reason in what was true since the request arrived; members without
\* step-up, whom the documentation exempts and the code refuses, are excepted.
THEOREM RefusalsAreEarned == Spec => RefusalIsEarned
<1>. DEFINE Step ==
       \A r \in Request : ~ Free(r) /\ request'[r].at = "answered" =>
         LET q == request[r] IN
         /\ request'[r].status = 403 => \/ q.lacked = Roles
                                        \/ q.from # None /\ q.csrf # q.token
         /\ request'[r].status = 401 /\ ~ MemberWithoutStepUp(q) =>
              \/ q.token = None \/ "fault" \in request'[r].marks
              \/ token[q.token] # "valid"
              \/ q.endpoint.sensitive /\ ~ Strong(q.token) /\ "operator" \in q.had
<1>1. Inv /\ [Next]_vars => Step
  <2>. SUFFICES ASSUME Inv, [Next]_vars, NEW r \in Request, ~ Free(r), request'[r].at = "answered"
                PROVE  LET q == request[r] IN
                       /\ request'[r].status = 403 => \/ q.lacked = Roles
                                                      \/ q.from # None /\ q.csrf # q.token
                       /\ request'[r].status = 401 /\ ~ MemberWithoutStepUp(q) =>
                            \/ q.token = None \/ "fault" \in request'[r].marks
                            \/ token[q.token] # "valid"
                            \/ q.endpoint.sensitive /\ ~ Strong(q.token) /\ "operator" \in q.had
    OBVIOUS
  <2>. PICK q : q = request[r]
    OBVIOUS
  <2>1. TypeOK /\ q \in Record /\ Watched(q) /\ Introspecting(q) /\ PastHook(q)
    BY TypeParts DEF Inv, RequestInv
  <2>2. Handle(r)
    BY <2>1, OwnStep
  <2>3. ASSUME q.at = "introspecting", ~ CsrfAccepted(r)
        PROVE  q.from # None /\ q.csrf # q.token
    BY <2>1, <2>3 DEF Introspecting, CsrfAccepted
  <2>4. ASSUME q.at = "member", <<Holder[q.token], q.company>> \notin memberships
        PROVE  q.lacked = Roles
    <3>1. "company-user" \in Roles \ RolesOf(q.token, q.company)
      BY <2>4 DEF RolesOf, Held, Roles
    <3>2. "company-user" \in q.lacked /\ "operator" \in q.lacked
      BY <2>1, <2>4, <3>1 DEF Watched, InApi, PastHook
    <3>. QED BY <2>1, <3>2 DEF Record, Roles
  <2>5. ASSUME ~ Verifies(q.token), q.token # None
        PROVE  token[q.token] # "valid"
    BY <2>5 DEF Verifies
  <2>6. ASSUME q.at \in {"operator", "member"}, q.endpoint.sensitive, ~ Strong(q.token),
               ~ MemberWithoutStepUp(q)
        PROVE  q.token = None \/ "operator" \in q.had
    BY <2>1, <2>6 DEF MemberWithoutStepUp, Watched, Roles, InApi
  <2>. QED BY <2>1, <2>2, <2>3, <2>4, <2>5, <2>6, RefusedBy
<1>2. []Inv /\ [][Next]_vars => [][Step]_vars
  BY <1>1, PTL
<1>. QED BY <1>2, InvHolds, PTL DEF Spec, RefusalIsEarned
=============================================================================
