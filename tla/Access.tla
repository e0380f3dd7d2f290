--------------------------------- MODULE Access ---------------------------------
(***************************************************************************)
(* Who may call the API: the browser sessions of registerBrowserSessions,  *)
(* the access tokens of the identity provider, the grants in the database, *)
(* and the gates a request passes before a controller calls its service.   *)
(*                                                                         *)
(* A login makes one session for the one token its code is exchanged for,  *)
(* so a token also names its session, its cookie value and its CSRF token; *)
(* a state names its pending login.  Programs send tokens of their own.    *)
(* Every await of the code ends an action: the code exchange,              *)
(* introspection, verification and each query are steps of a request.      *)
(***************************************************************************)
EXTENDS Naturals, FiniteSets

CONSTANTS
  Token,         \* access tokens, and the sessions made for them
  Subject, Company, Browser,
  State,         \* state parameters of logins
  Request,       \* requests in flight at a time
  Redirect,      \* callbacks in flight at a time
  Endpoint,      \* the endpoints that are called
  None,          \* no token, browser, state, company or endpoint
  Holder,        \* payload.sub of a token
  Acr, Amr,      \* its authentication context, None if it has none, and its methods
  stepUpAuthenticationContexts, stepUpAuthenticationMethods,
  introspectionEnabled,
  MaxChanges     \* bound: changes of grants and tokens, times that run out, restarts

-----------------------------------------------------------------------------
(***************************************************************************)
(* The gates of each controller: whether a handler's method needs a CSRF   *)
(* token, whether it names a sensitive action, and whether it parses its   *)
(* body before or after it has resolved the actor.                         *)
(***************************************************************************)
Get(name) == [name |-> name, writes |-> FALSE, sensitive |-> FALSE, parses |-> "never"]
Post(name, sensitive, parses) ==
  [name |-> name, writes |-> TRUE, sensitive |-> sensitive, parses |-> parses]

AppController == {Get("applications.list"), Post("applications.register", TRUE, "before")}
AssessmentController ==
  {Post("assessments.submit", FALSE, "before"), Get("assessments.list"), Get("assessments.get")}
BuildController ==
  {Post("builds.submit", TRUE, "before"), Get("builds.list"), Get("builds.get")}
ReleaseController ==
  {Post("releases.create", TRUE, "before"), Get("releases.list"), Get("releases.get")}
ScanEvidenceController == {Get("security-scans.list"), Get("security-scans.get")}
DemoPipelineController ==
  {Get("demo-pipeline.list"), Get("demo-pipeline.latest"), Post("demo-pipeline.dispatch", TRUE, "after")}
ProjectProvisioningController ==
  {Get("project-setup.snapshot"), Post("project-setup.organization", TRUE, "after"),
   Post("project-setup.approve", TRUE, "after"), Post("project-setup.create", TRUE, "after")}

Api == UNION {AppController, AssessmentController, BuildController, ReleaseController,
              ScanEvidenceController, DemoPipelineController, ProjectProvisioningController}

SameGates(e, f) == <<e.writes, e.sensitive, e.parses>> = <<f.writes, f.sensitive, f.parses>>

\* The endpoints that are called are enough to meet every gate of the API.
ASSUME EveryGateIsCalled == Endpoint \subseteq Api /\ \A e \in Api : \E f \in Endpoint : SameGates(e, f)
ASSUME Bounds == MaxChanges \in Nat
ASSUME Claims ==
  /\ introspectionEnabled \in BOOLEAN /\ Holder \in [Token -> Subject]
  /\ DOMAIN Acr = Token /\ DOMAIN Amr = Token
  /\ None \notin Token \cup Browser \cup State \cup Company /\ None \notin stepUpAuthenticationContexts

VARIABLES
  token,          \* what the provider says of each token
  platformRoles,  \* active operators: rows of platform_roles
  memberships,    \* active rows of company_memberships
  pendingLogins,  \* logins in the server's map and not past their five minutes
  sessions,       \* sessions in the server's map and not past expiresAt
  stateCookie, sessionCookie,   \* what each browser keeps
  page,           \* the session whose CSRF token the page open in each browser has loaded
  exchanging,     \* callbacks that wait for the provider: their state and browser
  request,        \* where each request stands, and what has been true since it arrived
  changes

\* History variables.
VARIABLES
  login,          \* the login that made each session
  began,          \* the browser that began each login
  ended           \* sessions that were logged out, expired or lost in a restart

grants == <<platformRoles, memberships>>
server == <<pendingLogins, sessions>>
browser == <<stateCookie, sessionCookie, page>>
history == <<login, began, ended>>
vars == <<token, grants, server, browser, exchanging, request, changes, history>>

Roles == {"operator", "company-user"}
Awaiting == {"checking", "introspecting", "verifying", "operator", "member"}

\* had, lacked: roles its subject held, and did not hold, at some moment since a request
\* arrived; marks: that its session had ended before ("late"), that a call it made failed.
Waiting(at, from, t, csrf, e, c, had, marks) ==
  [at |-> at, from |-> from, token |-> t, csrf |-> csrf, endpoint |-> e, company |-> c,
   had |-> had, lacked |-> Roles \ had, marks |-> marks, status |-> 0, role |-> None]
Outcome(at, status, role, marks) ==
  [at |-> at, from |-> None, token |-> None, csrf |-> None, endpoint |-> None, company |-> None,
   had |-> {}, lacked |-> {}, marks |-> marks, status |-> status, role |-> role]
Idle == Outcome("idle", 0, None, {})
NoExchange == [state |-> None, from |-> None]

TypeOK ==
  /\ token \in [Token -> {"unissued", "valid", "revoked", "expired"}]
  /\ platformRoles \subseteq Subject
  /\ memberships \subseteq Subject \X Company
  /\ pendingLogins \subseteq State
  /\ sessions \subseteq Token
  /\ stateCookie \in [Browser -> State \cup {None}]
  /\ sessionCookie \in [Browser -> Token \cup {None}]
  /\ page \in [Browser -> Token \cup {None}]
  /\ exchanging \in [Redirect -> [state : State \cup {None}, from : Browser \cup {None}]]
  /\ request \in [Request ->
       [at : Awaiting \cup {"idle", "entered", "answered"}, from : Browser \cup {None},
        token : Token \cup {None}, csrf : Token \cup {None},
        endpoint : Endpoint \cup {None}, company : Company \cup {None},
        status : {0, 400, 401, 403, 500, 503}, role : Roles \cup {None},
        had : SUBSET Roles, lacked : SUBSET Roles, marks : SUBSET {"late", "fault"}]]
  /\ login \in [Token -> State \cup {None}]
  /\ began \in [State -> Browser \cup {None}]
  /\ ended \subseteq Token
  /\ changes \in 0..MaxChanges

Init ==
  /\ token = [t \in Token |-> "unissued"]
  /\ platformRoles = {} /\ memberships = {}
  /\ pendingLogins = {} /\ sessions = {}
  /\ stateCookie = [b \in Browser |-> None]
  /\ sessionCookie = [b \in Browser |-> None]
  /\ page = [b \in Browser |-> None]
  /\ exchanging = [k \in Redirect |-> NoExchange]
  /\ request = [r \in Request |-> Idle]
  /\ login = [t \in Token |-> None]
  /\ began = [s \in State |-> None]
  /\ ended = {}
  /\ changes = 0

-----------------------------------------------------------------------------
(***************************************************************************)
(* The steps of a request.                                                 *)
(***************************************************************************)
Free(r) == request[r].at \notin Awaiting

\* The request goes on to its next await, ends, or ends with an answer of the API.
Goto(r, at) == request' = [request EXCEPT ![r].at = at]
Done(r) == request' = [request EXCEPT ![r] = Idle]
Answer(r, status, marks) ==
  request' = [request EXCEPT ![r] = Outcome("answered", status, None, marks)]

\* Set-Cookie with Max-Age=0: the browser drops its session cookie, whatever it is.
ClearSession(r) == sessionCookie' = [sessionCookie EXCEPT ![request[r].from] = None]

\* The roles a token's subject has in a company.
Held(t, c, operators, members) ==
  {role \in Roles : /\ t # None
                    /\ \/ role = "operator" /\ Holder[t] \in operators
                       \/ role = "company-user" /\ <<Holder[t], c>> \in members}
RolesOf(t, c) == Held(t, c, platformRoles, memberships)

\* The session of t was ended, by the server or by the provider.
Ended(t) == t \in ended \/ (introspectionEnabled /\ token[t] # "valid")

\* A call of the API that arrives now.
Arrives(r, at, from, t, csrf, e, c) ==
  /\ Free(r)
  /\ request' = [request EXCEPT ![r] =
       Waiting(at, from, t, csrf, e, c, RolesOf(t, c),
               IF from # None /\ t # None /\ Ended(t) THEN {"late"} ELSE {})]

(***************************************************************************)
(* /auth/login and /auth/callback.                                         *)
(***************************************************************************)
LogIn(b, s) ==
  /\ began[s] = None
  /\ pendingLogins' = pendingLogins \cup {s}
  /\ stateCookie' = [stateCookie EXCEPT ![b] = s]
  /\ began' = [began EXCEPT ![s] = b]
  /\ UNCHANGED <<token, grants, sessions, sessionCookie, page, exchanging, request, login, ended, changes>>

\* Mutant: the callback looks the pending login up and leaves it in the map.
KeepLogin(s) == UNCHANGED pendingLogins
\* Mutant: the state is not compared with the cookie.
CallbackOfAny(b, s) == s \in pendingLogins

\* pendingLogins.delete(state), before anything is checked.
TakeLogin(s) == pendingLogins' = pendingLogins \ {s}

CallbackValid(b, s) == s \in pendingLogins /\ stateCookie[b] = s

\* Browser b opens the callback of s; the provider may have reported an error.
Callback(k, b, s) ==
  /\ exchanging[k] = NoExchange
  /\ began[s] # None
  /\ TakeLogin(s)
  /\ \/ /\ CallbackValid(b, s)
        /\ exchanging' = [exchanging EXCEPT ![k] = [state |-> s, from |-> b]]
     \/ UNCHANGED exchanging
  /\ UNCHANGED <<token, grants, sessions, browser, request, history, changes>>

\* The code is exchanged for a new token, which is verified and put in a new session.
Exchange(k, t) ==
  /\ exchanging[k] # NoExchange
  /\ token[t] = "unissued"
  /\ token' = [token EXCEPT ![t] = "valid"]
  /\ sessions' = sessions \cup {t}
  /\ login' = [login EXCEPT ![t] = exchanging[k].state]
  /\ sessionCookie' = [sessionCookie EXCEPT ![exchanging[k].from] = t]
  /\ stateCookie' = [stateCookie EXCEPT ![exchanging[k].from] = None]
  /\ exchanging' = [exchanging EXCEPT ![k] = NoExchange]
  /\ UNCHANGED <<grants, pendingLogins, page, request, began, ended, changes>>

\* The provider refuses the code, or the call or the token's verification throws.
ExchangeFails(k) ==
  /\ exchanging[k] # NoExchange
  /\ exchanging' = [exchanging EXCEPT ![k] = NoExchange]
  /\ UNCHANGED <<token, grants, server, browser, request, history, changes>>

(***************************************************************************)
(* /auth/session and /auth/logout.                                         *)
(***************************************************************************)

\* The session a browser's cookie names, if the map has it and it is not past expiresAt.
Live(b) == sessionCookie[b] \in sessions

\* A page asks who is signed in.
CheckSession(r, b) ==
  /\ Free(r)
  /\ IF Live(b)
     THEN /\ request' = [request EXCEPT ![r] =
               Waiting("checking", b, sessionCookie[b], None, None, None, {}, {})]
          /\ UNCHANGED sessionCookie
     ELSE /\ sessionCookie' = [sessionCookie EXCEPT ![b] = None]
          /\ Done(r)
  /\ UNCHANGED <<token, grants, server, stateCookie, page, exchanging, history, changes>>

\* Mutant: the introspection's answer is not waited for.
NeverAsked(t) == TRUE
ProviderSessionIsActive(t) == introspectionEnabled => token[t] = "valid"

\* The page has the CSRF token of the session that was read before the introspection.
SessionChecked(r) ==
  /\ request[r].at = "checking"
  /\ ProviderSessionIsActive(request[r].token)
  /\ page' = [page EXCEPT ![request[r].from] = request[r].token]
  /\ Done(r)
  /\ UNCHANGED <<token, grants, server, stateCookie, sessionCookie, exchanging, history, changes>>

\* Inactive, or the provider did not answer in time.
SessionNotActive(r) ==
  /\ request[r].at = "checking"
  /\ introspectionEnabled
  /\ sessions' = sessions \ {request[r].token}
  /\ ClearSession(r)
  /\ Done(r)
  /\ UNCHANGED <<token, grants, pendingLogins, stateCookie, page, exchanging, history, changes>>

\* A logout with another session's CSRF token, or none, is refused and changes nothing.
LogOut(b) ==
  /\ sessionCookie[b] \in sessions
  /\ sessionCookie[b] = page[b]
  /\ sessions' = sessions \ {sessionCookie[b]}
  /\ ended' = ended \cup {sessionCookie[b]}
  /\ sessionCookie' = [sessionCookie EXCEPT ![b] = None]
  /\ UNCHANGED <<token, grants, pendingLogins, stateCookie, page, exchanging, request, login, began, changes>>

(***************************************************************************)
(* The onRequest hook.                                                     *)
(***************************************************************************)

\* A browser calls the API with its cookie and, to write, the CSRF token of its page.
BrowserCalls(r, b, e, c) ==
  /\ LET csrf == IF e.writes THEN page[b] ELSE None IN
     IF Live(b) THEN Arrives(r, "introspecting", b, sessionCookie[b], csrf, e, c)
                ELSE Arrives(r, "verifying", b, None, csrf, e, c)
  /\ UNCHANGED <<token, grants, server, browser, exchanging, history, changes>>

\* A program calls the API with a token of its own and no cookie.
ProgramCalls(r, t, e, c) ==
  /\ token[t] # "unissued" /\ login[t] = None
  /\ Arrives(r, "verifying", None, t, None, e, c)
  /\ UNCHANGED <<token, grants, server, browser, exchanging, history, changes>>

CsrfAccepted(r) == request[r].endpoint.writes => request[r].csrf = request[r].token

\* The request now carries the token of the session that was read before the introspection.
Introspected(r) ==
  /\ request[r].at = "introspecting"
  /\ ProviderSessionIsActive(request[r].token)
  /\ IF CsrfAccepted(r) THEN Goto(r, "verifying") ELSE Answer(r, 403, {})
  /\ UNCHANGED <<token, grants, server, browser, exchanging, history, changes>>

NotActive(r) ==
  /\ request[r].at = "introspecting"
  /\ introspectionEnabled
  /\ sessions' = sessions \ {request[r].token}
  /\ ClearSession(r)
  /\ Answer(r, 401, IF token[request[r].token] = "valid" THEN {"fault"} ELSE {})
  /\ UNCHANGED <<token, grants, pendingLogins, stateCookie, page, exchanging, history, changes>>

(***************************************************************************)
(* A controller: IdentityService.resolveActor, and its own parsing.        *)
(***************************************************************************)

\* The verifier knows signature and times, and nothing of a revocation.
Verifies(t) == t # None /\ token[t] \in {"valid", "revoked"}

Verify(r) ==
  /\ request[r].at = "verifying"
  /\ \/ Verifies(request[r].token) /\ Goto(r, "operator")
     \/ ~ Verifies(request[r].token) /\ Answer(r, 401, {})
     \/ request[r].endpoint.parses = "before" /\ Answer(r, 400, {})
  /\ UNCHANGED <<token, grants, server, browser, exchanging, history, changes>>

\* The keys of the provider could not be fetched; a query failed.
CallFails(r) ==
  /\ \/ request[r].at = "verifying" /\ request[r].token # None /\ Answer(r, 401, {"fault"})
     \/ request[r].at \in {"operator", "member"} /\ Answer(r, 500, {"fault"})
  /\ UNCHANGED <<token, grants, server, browser, exchanging, history, changes>>

MethodsAccepted(t) == stepUpAuthenticationMethods # {} /\ stepUpAuthenticationMethods \subseteq Amr[t]
ContextAccepted(t) == Acr[t] \in stepUpAuthenticationContexts

StepUpConfigured == stepUpAuthenticationContexts # {} \/ stepUpAuthenticationMethods # {}

\* Mutant: step-up is asked for on every endpoint.
AlwaysSensitive(e) == TRUE
Sensitive(e) == e.sensitive

\* requireStepUp, for operators and members alike, and a body parsed after it.
Admit(r, role) ==
  LET t == request[r].token
      accepted == ContextAccepted(t) \/ MethodsAccepted(t)
  IN
  \/ /\ Sensitive(request[r].endpoint) /\ ~ accepted
     /\ Answer(r, IF StepUpConfigured THEN 401 ELSE 503, {})
  \/ /\ Sensitive(request[r].endpoint) => accepted
     /\ \/ request' = [request EXCEPT ![r] = Outcome("entered", 0, role, {})]
        \/ request[r].endpoint.parses = "after" /\ Answer(r, 400, {})

IsPlatformOperator(r) ==
  /\ request[r].at = "operator"
  /\ IF Holder[request[r].token] \in platformRoles
     THEN Admit(r, "operator")
     ELSE Goto(r, "member")
  /\ UNCHANGED <<token, grants, server, browser, exchanging, history, changes>>

\* Mutant: a membership of any company counts.
MemberOfAny(t, c) == \E d \in Company : <<Holder[t], d>> \in memberships
Member(t, c) == <<Holder[t], c>> \in memberships

HasCompanyAccess(r) ==
  /\ request[r].at = "member"
  /\ IF Member(request[r].token, request[r].company)
     THEN Admit(r, "company-user")
     ELSE Answer(r, 403, {})
  /\ UNCHANGED <<token, grants, server, browser, exchanging, history, changes>>

-----------------------------------------------------------------------------
(***************************************************************************)
(* What happens around the server.                                         *)
(***************************************************************************)

Changes == changes < MaxChanges /\ changes' = changes + 1

See(q, roles) == [q EXCEPT !.had = @ \cup roles, !.lacked = @ \cup (Roles \ roles)]

\* An administrator activates or deactivates a row; requests under way have seen it.
GrantsChange ==
  /\ Changes
  /\ \/ /\ \E u \in Subject : platformRoles' = IF u \in platformRoles THEN platformRoles \ {u}
                                                                      ELSE platformRoles \cup {u}
        /\ UNCHANGED memberships
     \/ /\ \E m \in Subject \X Company : memberships' = IF m \in memberships THEN memberships \ {m}
                                                                             ELSE memberships \cup {m}
        /\ UNCHANGED platformRoles
  /\ request' = [r \in Request |->
       IF Free(r) \/ request[r].company = None THEN request[r]
       ELSE See(request[r], Held(request[r].token, request[r].company, platformRoles', memberships'))]
  /\ UNCHANGED <<token, server, browser, exchanging, history>>

\* The provider issues a token to a program, ends the session of one, or a token expires.
TokenChanges(t) ==
  /\ Changes
  /\ \/ token[t] = "unissued" /\ token' = [token EXCEPT ![t] = "valid"]
     \/ token[t] = "valid" /\ token' = [token EXCEPT ![t] = "revoked"]
     \/ token[t] \in {"valid", "revoked"} /\ token' = [token EXCEPT ![t] = "expired"]
  /\ UNCHANGED <<grants, server, browser, exchanging, request, history>>

\* expiresAt passes: the login is refused and the session deleted when they are next used.
LoginOverdue(s) ==
  /\ Changes
  /\ s \in pendingLogins
  /\ pendingLogins' = pendingLogins \ {s}
  /\ UNCHANGED <<token, grants, sessions, browser, exchanging, request, history>>

\* Its cookie's Max-Age passes with it; sent or not, it is of no use.
SessionOverdue(t) ==
  /\ Changes
  /\ t \in sessions
  /\ sessions' = sessions \ {t}
  /\ ended' = ended \cup {t}
  /\ UNCHANGED <<token, grants, pendingLogins, browser, exchanging, request, login, began>>

\* Both maps live in the process, and so do the requests.
Restart ==
  /\ Changes
  /\ pendingLogins' = {} /\ sessions' = {}
  /\ ended' = ended \cup sessions
  /\ exchanging' = [k \in Redirect |-> NoExchange]
  /\ request' = [r \in Request |-> IF Free(r) THEN request[r] ELSE Idle]
  /\ UNCHANGED <<token, grants, browser, login, began>>

Auth(r) ==
  \/ \E b \in Browser : CheckSession(r, b)
  \/ SessionChecked(r) \/ SessionNotActive(r)

Handle(r) ==
  \/ Introspected(r) \/ NotActive(r)
  \/ Verify(r) \/ IsPlatformOperator(r) \/ HasCompanyAccess(r) \/ CallFails(r)

Call(r) ==
  \E e \in Endpoint, c \in Company :
    \/ \E b \in Browser : BrowserCalls(r, b, e, c)
    \/ \E t \in Token : ProgramCalls(r, t, e, c)

Next ==
  \/ \E b \in Browser, s \in State : LogIn(b, s)
  \/ \E b \in Browser : LogOut(b)
  \/ \E k \in Redirect : \/ \E b \in Browser, s \in State : Callback(k, b, s)
                         \/ \E t \in Token : Exchange(k, t)
                         \/ ExchangeFails(k)
  \/ \E r \in Request : Auth(r) \/ Handle(r) \/ Call(r)
  \/ \E t \in Token : TokenChanges(t) \/ SessionOverdue(t)
  \/ \E s \in State : LoginOverdue(s)
  \/ GrantsChange
  \/ Restart

Spec == Init /\ [][Next]_vars

-----------------------------------------------------------------------------
(***************************************************************************)
(* Properties.                                                             *)
(***************************************************************************)
Strong(t) ==
  \/ Acr[t] \in stepUpAuthenticationContexts
  \/ stepUpAuthenticationMethods # {} /\ \A m \in stepUpAuthenticationMethods : m \in Amr[t]

\* A service is called only for a subject who held the role it is called with, in the
\* request's company, at some moment since the request arrived; for a sensitive action only
\* with the step-up the configuration asks for; and for a write from a browser only from a
\* page of the same session.  Introspection, verification and the two queries of
\* resolveActor read at four different moments.
Enters(r) == ~ Free(r) /\ request'[r].at = "entered"

EnteredIsAuthorized ==
  [][\A r \in Request : Enters(r) =>
       LET q == request[r] IN
       /\ request'[r].role \in q.had
       /\ q.endpoint.sensitive => Strong(q.token)
       /\ q.from # None /\ q.endpoint.writes => q.csrf = q.token]_vars

\* Step-up is the operators' policy, "company membership alone does not trigger" it
\* (README.md:102).  The code asks it of members as well (resolveActor), so a request for a
\* sensitive action without step-up, of a subject who was once no operator, may be refused
\* without a reason that the documentation gives.
MemberWithoutStepUp(q) ==
  q.token # None /\ q.endpoint.sensitive /\ ~ Strong(q.token) /\ "operator" \in q.lacked

\* A refusal has its reason: 403 only if since the request's arrival the subject was once no
\* operator and once no member of the company, or its page was not of the session; 401 only
\* if there is no session or token, the token was revoked or expired, a call of the provider
\* failed, or an operator has no step-up for a sensitive action.  Members without step-up
\* are excepted from the second half: the code refuses them, and should not.
RefusalIsEarned ==
  [][\A r \in Request : ~ Free(r) /\ request'[r].at = "answered" =>
       LET q == request[r] IN
       /\ request'[r].status = 403 => \/ q.lacked = Roles
                                      \/ q.from # None /\ q.csrf # q.token
       /\ request'[r].status = 401 /\ ~ MemberWithoutStepUp(q) =>
            \/ q.token = None \/ "fault" \in request'[r].marks
            \/ token[q.token] # "valid"
            \/ q.endpoint.sensitive /\ ~ Strong(q.token) /\ "operator" \in q.had]_vars

\* A login makes at most one session, also when its callback is opened twice, in two
\* browsers, or while the first exchange is still under way (/auth/callback).
LoginIsSingleUse ==
  \A t, u \in Token : login[t] # None /\ login[t] = login[u] => t = u

\* The session a browser's cookie names was made by a login this browser began: the state
\* of the callback is compared with the browser's own cookie.
SessionOfItsBrowser ==
  \A b \in Browser : sessionCookie[b] # None => began[login[sessionCookie[b]]] = b

\* No request that arrives after its session was logged out, expired or was lost in a
\* restart, or after the provider ended it, reaches a service through that session; one
\* that was already past the hook goes on.
EndedSessionAdmitsNoOne ==
  [][\A r \in Request : Enters(r) => "late" \notin request[r].marks]_vars
=============================================================================
