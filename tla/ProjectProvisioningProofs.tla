---------------------- MODULE ProjectProvisioningProofs ----------------------
(***************************************************************************)
(* What holds of project provisioning for any number of companies,         *)
(* organizations, requests and concurrent calls, lost connections, lost    *)
(* replies and changes by the customer.                                    *)
(***************************************************************************)
EXTENDS ProjectProvisioning, TLAPS

-----------------------------------------------------------------------------
(***************************************************************************)
(* The inductive invariant.                                                *)
(***************************************************************************)

Position == {"idle", "verifying", "approving", "creating", "recording",
             "checking", "reading", "judging", "committing", "registering", "finishing"}
Calls == [pc : Position, company : Company \cup {None}, key : Key \cup {None}, view : Setup,
          seen : Repository]

\* A lock is held by a call that works for its company.
LockHeld == \A c \in Company : lock[c] # None => call[lock[c]].pc # "idle" /\ call[lock[c]].company = c

\* The request's repository was initialized: the one of that id, or one that took its place
\* after initialize() had compared the id.
Filled(c, k, id) == \E x \in FilledFor(c, k) : x.id = id \/ <<c, k>> \in displaced

ProjectOK(c, k, p) ==
  /\ p.status = "absent" => p = NoProject
  /\ p.status # "absent" => p.name # None /\ setup[c].org # None
  /\ p.status = "creating" => p.id = 0
  /\ p.status \in {"initializing", "ready"} => p.id # 0
  /\ p.id # 0 => [id |-> p.id, company |-> c, key |-> k, org |-> setup[c].org] \in created
  /\ p.status = "ready" => Filled(c, k, p.id) /\ application[c][k] # None

\* What a company's state says is so.
SetupTrue ==
  \A c \in Company :
    /\ setup[c].org # None => setup[c].slug # None
    /\ \A k \in Key : ProjectOK(c, k, setup[c].project[k])

\* Two requests of a company never share a repository name.
NamesDiffer ==
  \A c \in Company, j, k \in Key :
    setup[c].project[j].name # None /\ setup[c].project[j].name = setup[c].project[k].name => j = k

\* A repository is created for a stored request, an application registered for an
\* initialized one, under its address; a name without a repository leads to nothing.
WorkIsRecorded ==
  /\ \A x \in created : setup[x.company].project[x.key].status # "absent"
  /\ \A c \in Company, k \in Key :
       application[c][k] # None =>
         /\ setup[c].project[k].status \in {"initializing", "ready"}
         /\ application[c][k] = <<setup[c].slug, setup[c].project[k].name>>
  /\ \A o \in Org, n \in Name : repository[o][n].id = 0 => repository[o][n].content = "none"

Later == {"checking", "reading", "judging", "committing", "registering", "finishing"}
Working == {"creating", "recording"} \cup Later

\* What a call knows of its company's state, whether or not it still has the lock.
Knows(s, c, k, view) ==
  LET p == view.project[k]
      q == setup[c].project[k] IN
  /\ c \in Company
  /\ call[s].pc \in {"verifying", "approving"} => view.slug # None
  /\ call[s].pc \in Working =>
       /\ k \in Key
       /\ view.org # None /\ view.org = setup[c].org /\ view.slug = setup[c].slug
       /\ p.name # None /\ p.name = q.name
  /\ call[s].pc = "creating" =>
       /\ p.status = "creating" /\ p.id = 0 /\ q.status = "creating"
       /\ \A x \in created : x.company # c \/ x.key # k
  /\ call[s].pc = "recording" =>
       /\ p.status = "initializing" /\ p.id # 0 /\ q.status = "creating"
       /\ [id |-> p.id, company |-> c, key |-> k, org |-> view.org] \in created
  /\ call[s].pc \in Later =>
       /\ p.status = IF call[s].pc = "finishing" THEN "ready" ELSE "initializing"
       /\ q.status \in {"initializing", "ready"}
       /\ p.id # 0 /\ p.id = q.id
  /\ call[s].pc = "reading" => At(view, k).id \in {0, p.id} \/ <<c, k>> \in displaced
  /\ call[s].pc \in {"judging", "committing"} =>
       call[s].seen.id # 0 /\ (call[s].seen.id = p.id \/ <<c, k>> \in displaced)
  /\ call[s].pc = "committing" => call[s].seen.content = "readme"
  /\ call[s].pc \in {"registering", "finishing"} => Filled(c, k, p.id)
  /\ call[s].pc = "finishing" => application[c][k] # None

\* A call that still has the lock edits the state that is stored.
Edits(s, c, k, view) ==
  /\ call[s].pc \in {"verifying", "approving"} =>
       /\ setup[c].org = None
       /\ view.slug = setup[c].slug
       /\ view.project = setup[c].project
  /\ call[s].pc = "approving" => view.org # None
  /\ call[s].pc \in Working =>
       \A j \in Key : j # k => view.project[j] = setup[c].project[j]

CallOK(s) ==
  call[s].pc # "idle" =>
    /\ Knows(s, call[s].company, call[s].key, call[s].view)
    /\ Connected(s) => Edits(s, call[s].company, call[s].key, call[s].view)

\* One call creates the repository of a request.
OneCreator ==
  \A s, t \in Call :
    /\ call[s].pc \in {"creating", "recording"} /\ call[t].pc \in {"creating", "recording"}
    /\ call[s].company = call[t].company /\ call[s].key = call[t].key
    => s = t

IInv ==
  /\ LockHeld /\ SetupTrue /\ NamesDiffer /\ WorkIsRecorded /\ (\A s \in Call : CallOK(s)) /\ OneCreator
  /\ OneRepositoryPerRequest /\ OrganizationHasOneCompany

-----------------------------------------------------------------------------
(***************************************************************************)
(* The shape of a step.                                                    *)
(***************************************************************************)
Begins(s) ==
  \E c \in Company :
    \/ BeginApproval(s, c)
    \/ \E k \in Key : Resume(s, c, k) \/ \E n \in Name : BeginProject(s, c, k, n)

LEMMA NextSplits ==
  ASSUME [Next]_vars
  PROVE  \/ UNCHANGED vars
         \/ \E c \in Company, g \in Slug : RequestOrganization(c, g)
         \/ \E s \in Call : Begins(s) \/ Proceed(s) \/ Fails(s) \/ LoseConnection(s)
         \/ Customer
BY DEF Next, Begins

LEMMA InitInv == Init => TypeOK /\ IInv
<1> SUFFICES ASSUME Init PROVE TypeOK /\ IInv
  OBVIOUS
<1>0. /\ NoSetup \in Setup /\ NoRepository \in Repository
      /\ \A k \in Key : NoSetup.project[k] = NoProject
  BY DEF NoSetup, Setup, Project, NoProject, NoRepository, Repository
<1>1. TypeOK
  <2>1. \A s \in Call : call[s] \in Calls
    BY <1>0 DEF Init, Calls, Position, Idle
  <2> QED BY <1>0, <2>1 DEF Init, TypeOK, Calls, Position
<1>2. LockHeld /\ (\A s \in Call : CallOK(s)) /\ OneCreator
  BY DEF Init, LockHeld, CallOK, OneCreator, Idle
<1>3. SetupTrue
  BY <1>0 DEF Init, SetupTrue, ProjectOK, NoProject, NoSetup
<1>4. WorkIsRecorded /\ NamesDiffer
  BY <1>0 DEF Init, WorkIsRecorded, NamesDiffer, NoRepository, NoProject
<1>5. OneRepositoryPerRequest /\ OrganizationHasOneCompany
  BY DEF Init, OneRepositoryPerRequest, OrganizationHasOneCompany, NoSetup
<1> QED BY <1>1, <1>2, <1>3, <1>4, <1>5 DEF IInv

-----------------------------------------------------------------------------
(***************************************************************************)
(* Types.                                                                  *)
(***************************************************************************)
LEMMA LeaveType ==
  ASSUME TypeOK, NEW s \in Call, Leave(s)
  PROVE  call' \in [Call -> Calls] /\ lock' \in [Company -> Call \cup {None}]
<1>1. NoSetup \in Setup /\ NoRepository \in Repository
  BY DEF NoSetup, Setup, Project, NoProject, NoRepository, Repository, Content
<1>2. Idle \in Calls
  BY <1>1 DEF Idle, Calls, Position
<1> QED BY <1>2 DEF TypeOK, Leave, Calls, Position

LEMMA ContinueType ==
  ASSUME TypeOK, NEW s \in Call, NEW pc \in Position, NEW view \in Setup, NEW seen \in Repository,
         Continue(s, pc, view, seen)
  PROVE  call' \in [Call -> Calls] /\ lock' \in [Company -> Call \cup {None}] /\ faults' \in Nat
BY DEF TypeOK, Continue, Calls, Position

LEMMA GotoType ==
  ASSUME TypeOK, NEW s \in Call, NEW pc \in Position, NEW view \in Setup, Goto(s, pc, view)
  PROVE  call' \in [Call -> Calls] /\ lock' \in [Company -> Call \cup {None}] /\ faults' \in Nat
<1>1. NoRepository \in Repository
  BY DEF NoRepository, Repository
<1> QED BY <1>1, ContinueType DEF Goto

\* A state that is edited keeps its type.
LEMMA EditType ==
  ASSUME NEW st \in Setup, NEW k \in Key, NEW id \in Nat, NEW name \in Name \cup {None},
         NEW status \in {"creating", "initializing", "ready"}
  PROVE  WithProject(st, k, status, name, id) \in Setup
BY DEF Setup, Project, WithProject

LEMMA OrganizationType ==
  ASSUME NEW st \in Setup, NEW g \in Slug \cup {None}, NEW o \in Org \cup {None}
  PROVE  WithOrganization(st, g, o) \in Setup
BY DEF Setup, WithOrganization

LEMMA EnterType ==
  ASSUME TypeOK, NEW s \in Call, NEW c \in Company, NEW k \in Key \cup {None},
         NEW pc \in Position, NEW view \in Setup, Enter(s, c, k, pc, view)
  PROVE  call' \in [Call -> Calls] /\ lock' \in [Company -> Call \cup {None}]
<1>1. NoRepository \in Repository
  BY DEF NoRepository, Repository
<1> QED BY <1>1 DEF TypeOK, Enter, Calls, Position

\* What a call may read of a branch.
LEMMA FoundType ==
  ASSUME TypeOK, NEW st \in Setup, NEW k \in Key, st.org \in Org, st.project[k].name \in Name
  PROVE  Found(st, k) \in Repository /\ At(st, k) \in Repository
BY DEF TypeOK, Found, At, NoRepository, Repository

LEMMA NextType == TypeOK /\ IInv /\ [Next]_vars => TypeOK'
<1> SUFFICES ASSUME TypeOK, IInv, [Next]_vars PROVE TypeOK'
  OBVIOUS
<1> DEFINE CallType == /\ call' \in [Call -> Calls] /\ lock' \in [Company -> Call \cup {None}]
                       /\ faults' \in Nat
           RestType == UNCHANGED <<setup, application, github, changes, history>>
<1>0. CallType /\ RestType => TypeOK'
  BY DEF TypeOK, Calls, Position, github, history
<1>1. CASE UNCHANGED vars
  BY <1>1 DEF TypeOK, vars, github, history
<1>2. ASSUME NEW c \in Company, NEW g \in Slug, RequestOrganization(c, g) PROVE TypeOK'
  <2>1. setup' \in [Company -> Setup]
    BY <1>2, OrganizationType DEF TypeOK, RequestOrganization
  <2> QED BY <1>2, <2>1 DEF TypeOK, RequestOrganization, github, history
<1>3. ASSUME NEW s \in Call, Begins(s) PROVE TypeOK'
  <2>1. ASSUME NEW c \in Company, BeginApproval(s, c) PROVE TypeOK'
    BY <2>1, <1>0, EnterType DEF BeginApproval, Position, TypeOK
  <2>2. ASSUME NEW c \in Company, NEW k \in Key, Resume(s, c, k) PROVE TypeOK'
    BY <2>2, <1>0, EnterType DEF Resume, Position, TypeOK
  <2>3. ASSUME NEW c \in Company, NEW k \in Key, NEW n \in Name, BeginProject(s, c, k, n)
        PROVE TypeOK'
    <3> DEFINE view == WithProject(setup[c], k, "creating", n, 0)
    <3>1. view \in Setup
      BY EditType DEF TypeOK
    <3> HIDE DEF view
    <3>2. CallType /\ setup' \in [Company -> Setup]
      BY <2>3, <3>1, EnterType DEF BeginProject, Position, TypeOK, view
    <3> QED BY <2>3, <3>2 DEF BeginProject, TypeOK, Calls, Position, github, history
  <2> QED BY <1>3, <2>1, <2>2, <2>3 DEF Begins
<1>4. ASSUME NEW s \in Call, Proceed(s) PROVE TypeOK'
  <2> DEFINE c == call[s].company
             k == call[s].key
             st == call[s].view
  <2>0. c \in Company /\ (call[s].pc \in Working => k \in Key) /\ st \in Setup
    BY <1>4 DEF IInv, CallOK, Knows, Working, TypeOK, Proceed, Verify, Approve, Create,
                CreateRefused, RecordRepository, CheckRepository, ReadBranch, Judge, Commit,
                CommitRefused, Register, Finish, Later
  <2>0a. call[s].pc \in Working => st.org \in Org /\ st.project[k].name \in Name
    <3> SUFFICES ASSUME call[s].pc \in Working
                 PROVE  st.org \in Org /\ st.project[k].name \in Name
      OBVIOUS
    <3>1. Knows(s, c, k, st)
      BY DEF IInv, CallOK, Working, Later
    <3>2. k \in Key /\ st.org # None /\ st.project[k].name # None
      BY <3>1 DEF Knows
    <3> QED BY <2>0, <3>2 DEF Setup, Project
  <2>1. CASE Verify(s)
    <3>0. st.slug \in Slug
      BY <2>0, <2>1 DEF Verify, Setup, IInv, CallOK, Knows
    <3>1. installed[st.slug] # None => WithOrganization(st, st.slug, installed[st.slug]) \in Setup
      BY <2>0, <2>1, <3>0, OrganizationType DEF TypeOK
    <3>2. CallType
      BY <2>1, <3>1, LeaveType, GotoType DEF Verify, Refused, Position, TypeOK
    <3> QED BY <2>1, <3>2, <1>0 DEF Verify
  <2>2. CASE Approve(s) \/ RecordRepository(s) \/ Finish(s)
    <3>1. CallType
      BY <2>2, <2>0, LeaveType, GotoType
      DEF Approve, RecordRepository, Finish, Refused, Fault, Position, TypeOK
    <3>2. setup' \in [Company -> Setup]
      BY <2>2, <2>0 DEF Approve, RecordRepository, Finish, Save, TypeOK
    <3>3. UNCHANGED <<application, github, changes, history>>
      BY <2>2 DEF Approve, RecordRepository, Finish
    <3> QED BY <3>1, <3>2, <3>3 DEF TypeOK, Calls, Position, github, history
  <2>3. CASE Create(s)
    <3>1. lastId' \in Nat /\ WithProject(st, k, "initializing", st.project[k].name, lastId + 1) \in Setup
      <4>1. k \in Key /\ lastId + 1 \in Nat /\ lastId' \in Nat
        BY <2>3, <2>0 DEF Create, Working, TypeOK
      <4>2. st.project[k].name \in Name \cup {None}
        BY <2>0, <4>1 DEF Setup, Project
      <4> QED BY <2>0, <4>1, <4>2, EditType
    <3>2. CallType
      BY <2>3, <3>1, LeaveType, GotoType DEF Create, Fault, Position, TypeOK
    <3>3. repository' \in [Org -> [Name -> Repository]]
      BY <2>3, <3>1 DEF Create, TypeOK, Repository, Content
    <3>4. st.org \in Org
      BY <2>3, <2>0a DEF Working, Create
    <3>5. created' \subseteq [id : Nat, company : Company, key : Key, org : Org]
      BY <2>3, <2>0, <3>1, <3>4 DEF Create, Working, TypeOK
    <3> QED BY <2>3, <3>1, <3>2, <3>3, <3>5 DEF Create, TypeOK, Calls, Position, github, history
  <2>4. CASE CreateRefused(s) \/ CheckRepository(s) \/ ReadBranch(s) \/ CommitRefused(s)
    <3>1. CallType
      <4>1. CASE ReadBranch(s) /\ Found(st, k).id # 0
        BY <2>0, <2>0a, <4>1, FoundType, ContinueType
        DEF ReadBranch, GotoSeen, Position, Working, Later
      <4>2. CASE ~ (ReadBranch(s) /\ Found(st, k).id # 0)
        BY <2>4, <2>0, <4>2, LeaveType, GotoType
        DEF CreateRefused, CheckRepository, ReadBranch, CommitRefused, Refused, Position, TypeOK
      <4> QED BY <4>1, <4>2
    <3> QED BY <2>4, <3>1, <1>0 DEF CreateRefused, CheckRepository, ReadBranch, CommitRefused
  <2>5. CASE Judge(s)
    <3>0. call[s].seen \in Repository /\ call[s].seen.id \in Nat /\ k \in Key
      BY <2>5, <2>0 DEF Judge, TypeOK, Repository, Working, Later
    <3>1. CallType
      BY <2>5, <2>0, <3>0, LeaveType, GotoType, ContinueType
      DEF Judge, GotoSeen, Refused, Position, TypeOK
    <3>2. initialized' \subseteq [id : Nat, company : Company, key : Key]
      BY <2>5, <2>0, <3>0 DEF Judge, Carrying, TypeOK
    <3> QED BY <2>5, <3>1, <3>2 DEF Judge, TypeOK, Calls, Position, github
  <2>7. CASE Commit(s)
    <3>0. call[s].seen \in Repository /\ call[s].seen.id \in Nat /\ k \in Key
      BY <2>7, <2>0 DEF Commit, TypeOK, Repository, Working, Later
    <3>1. CallType
      BY <2>7, <2>0, LeaveType, GotoType DEF Commit, Fault, Position, TypeOK
    <3>2. st.org \in Org /\ st.project[k].name \in Name
      BY <2>7, <2>0a DEF Commit, Working, Later
    <3>3. At(st, k).head + 1 \in Nat
      BY <2>0, <3>0, <3>2, FoundType DEF Repository
    <3>4. repository' \in [Org -> [Name -> Repository]]
      <4>1. [id |-> call[s].seen.id, head |-> At(st, k).head + 1, content |-> "template"] \in Repository
        BY <3>0, <3>3 DEF Repository, Content
      <4> QED BY <2>7, <3>2, <4>1 DEF Commit, TypeOK
    <3>5. initialized' \subseteq [id : Nat, company : Company, key : Key]
      BY <2>7, <2>0, <3>0 DEF Commit, Carrying, TypeOK
    <3> QED BY <2>7, <3>1, <3>4, <3>5 DEF Commit, TypeOK, Calls, Position, github
  <2>6. CASE Register(s)
    <3>1. WithProject(st, k, "ready", st.project[k].name, st.project[k].id) \in Setup
      <4>1. k \in Key
        BY <2>6, <2>0 DEF Register, Working, Later
      <4>2. st.project[k].name \in Name \cup {None} /\ st.project[k].id \in Nat
        BY <2>0, <4>1 DEF Setup, Project
      <4> QED BY <2>0, <4>1, <4>2, EditType
    <3>2. CallType
      BY <2>6, <3>1, LeaveType, GotoType DEF Register, Fault, Position, TypeOK
    <3>3. st.slug \in Slug /\ st.project[k].name \in Name
      <4>1. k \in Key /\ st.org = setup[c].org /\ st.org # None /\ st.slug = setup[c].slug
            /\ st.project[k].name # None
        BY <2>6, <2>0 DEF IInv, CallOK, Knows, Working, Later, Register
      <4>2. st.slug # None
        BY <2>0, <4>1 DEF IInv, SetupTrue
      <4> QED BY <2>0, <4>1, <4>2 DEF Setup, Project
    <3>4. application' \in [Company -> [Key -> (Slug \X Name) \cup {None}]]
      BY <2>6, <2>0, <3>3 DEF Register, Registered, Working, Later, TypeOK
    <3> QED BY <2>6, <3>2, <3>4 DEF Register, TypeOK, Calls, Position, github, history
  <2> QED BY <1>4, <2>1, <2>2, <2>3, <2>4, <2>5, <2>6, <2>7 DEF Proceed
<1>5. ASSUME NEW s \in Call, Fails(s) \/ LoseConnection(s) PROVE TypeOK'
  <2>1. CallType
    <3>1. CASE Fails(s)
      BY <3>1, LeaveType DEF Fails, Fault, TypeOK
    <3>2. CASE LoseConnection(s)
      <4>1. UNCHANGED call /\ faults' \in Nat
        BY <3>2 DEF LoseConnection, TypeOK
      <4>2. lock' \in [Company -> Call \cup {None}]
        BY <3>2 DEF LoseConnection, TypeOK
      <4> QED BY <4>1, <4>2 DEF TypeOK, Calls, Position
    <3> QED BY <1>5, <3>1, <3>2
  <2> QED BY <1>5, <2>1, <1>0 DEF Fails, LoseConnection
<1>6. CASE Customer
  <2>1. UNCHANGED <<setup, lock, call, application, faults, created, initialized>> /\ changes' \in Nat
    BY <1>6 DEF Customer, Install, CustomerCommits, CustomerCreates, CustomerRemoves, Change, TypeOK
  <2>2. ASSUME NEW g \in Slug, NEW o \in Org \cup {None}, Install(g, o) PROVE TypeOK'
    BY <2>1, <2>2 DEF Install, TypeOK
  <2>3. ASSUME NEW o \in Org, NEW n \in Name,
               CustomerCommits(o, n) \/ CustomerCreates(o, n) \/ CustomerRemoves(o, n)
        PROVE  TypeOK'
    <3>0. repository[o][n].id \in Nat /\ repository[o][n].head + 1 \in Nat /\ lastId + 1 \in Nat
      BY DEF TypeOK, Repository
    <3>1. /\ repository' \in [Org -> [Name -> Repository]]
          /\ lastId' \in Nat /\ UNCHANGED installed /\ displaced' \subseteq Company \X Key
      <4>1. CASE CustomerCommits(o, n)
        BY <3>0, <4>1 DEF CustomerCommits, TypeOK, Repository
      <4>2. CASE CustomerCreates(o, n)
        BY <3>0, <4>2 DEF CustomerCreates, TypeOK, Repository, Content, ReadingAt
      <4>3. CASE CustomerRemoves(o, n)
        BY <4>3 DEF CustomerRemoves, TypeOK, NoRepository, Repository
      <4> QED BY <2>3, <4>1, <4>2, <4>3
    <3> QED BY <2>1, <3>1 DEF TypeOK
  <2> QED BY <1>6, <2>2, <2>3 DEF Customer
<1> QED BY NextSplits, <1>1, <1>2, <1>3, <1>4, <1>5, <1>6

-----------------------------------------------------------------------------
(***************************************************************************)
(* What a step does to the records.                                        *)
(***************************************************************************)
Moves(s) == call'[s].pc # call[s].pc

Asked(c) ==
  /\ setup[c].org = None /\ Requests(setup[c]) = {}
  /\ setup'[c].org = None /\ setup'[c].slug \in Slug
  /\ setup'[c].project = setup[c].project
  /\ lock'[c] = None

Approved(c) ==
  /\ setup[c].org = None /\ setup'[c].org # None
  /\ setup'[c].slug = setup[c].slug /\ setup[c].slug # None
  /\ setup'[c].project = setup[c].project
  /\ \A d \in Company \ {c} : setup[d].org # setup'[c].org /\ setup'[d] = setup[d]
  /\ \E s \in Call : lock[c] = s /\ Moves(s)

\* The project of one request is begun, recorded or finished.
Edited(c, k) ==
  /\ setup[c].org # None
  /\ setup'[c].org = setup[c].org /\ setup'[c].slug = setup[c].slug
  /\ \A j \in Key : j # k => setup'[c].project[j] = setup[c].project[j]

Begun(s, c, k, p, q) ==
  /\ p.status = "absent"
  /\ q.status = "creating" /\ q.name # None /\ q.id = 0
  /\ \A j \in Requests(setup[c]) : setup[c].project[j].name # q.name
  /\ lock[c] = None /\ lock'[c] = s /\ call[s].pc = "idle"

RecordedNow(s, c, k, p, q) ==
  /\ call[s].pc = "recording"
  /\ p.status = "creating" /\ q.status = "initializing"
  /\ q.name = p.name /\ q.id # 0
  /\ [id |-> q.id, company |-> c, key |-> k, org |-> setup[c].org] \in created

Finished(s, c, k, p, q) ==
  /\ call[s].pc = "finishing"
  /\ p.status \in {"initializing", "ready"} /\ q.status = "ready"
  /\ q.name = p.name /\ q.id = p.id
  /\ Filled(c, k, q.id) /\ application[c][k] # None

\* A call that holds the lock, or takes it, edits the request it is about.
EditedBy(s, c, k) ==
  LET p == setup[c].project[k]
      q == setup'[c].project[k] IN
  /\ Edited(c, k) /\ Moves(s)
  /\ \/ Begun(s, c, k, p, q)
     \/ /\ lock[c] = s /\ call[s].company = c /\ call[s].key = k
        /\ RecordedNow(s, c, k, p, q) \/ Finished(s, c, k, p, q)

LEMMA SaveApproves ==
  ASSUME TypeOK, IInv, NEW s \in Call, call[s].pc = "approving", Save(s, call[s].view), Moves(s)
  PROVE  Approved(call[s].company) /\ \A d \in Company \ {call[s].company} : setup'[d] = setup[d]
<1> DEFINE c == call[s].company
           v == call[s].view
<1>1. c \in Company /\ v \in Setup /\ v.slug # None /\ lock[c] = s
  BY DEF IInv, CallOK, Knows, Save, Connected, TypeOK
<1>2. setup[c].org = None /\ v.slug = setup[c].slug /\ v.project = setup[c].project /\ v.org # None
  BY <1>1 DEF IInv, CallOK, Edits, Connected
<1>3. setup' = [setup EXCEPT ![c] = v] /\ ~ Taken(c, v.org)
  BY DEF Save
<1>4. setup'[c] = v /\ \A d \in Company \ {c} : setup'[d] = setup[d]
  BY <1>1, <1>3 DEF TypeOK
<1> QED BY <1>1, <1>2, <1>3, <1>4 DEF Approved, Taken

LEMMA SaveEdits ==
  ASSUME TypeOK, IInv, NEW s \in Call, call[s].pc \in {"recording", "finishing"},
         Save(s, call[s].view), Moves(s)
  PROVE  /\ call[s].company \in Company /\ call[s].key \in Key
         /\ EditedBy(s, call[s].company, call[s].key)
         /\ \A d \in Company \ {call[s].company} : setup'[d] = setup[d]
<1> DEFINE c == call[s].company
           k == call[s].key
           v == call[s].view
<1>1. c \in Company /\ k \in Key /\ lock[c] = s
  BY DEF IInv, CallOK, Knows, Working, Later, Save, Connected
<1>2. Knows(s, c, k, v) /\ Edits(s, c, k, v)
  BY <1>1 DEF IInv, CallOK, Connected
<1>3. setup'[c] = v /\ \A d \in Company \ {c} : setup'[d] = setup[d]
  BY <1>1 DEF Save, TypeOK
<1>4. Edited(c, k)
  BY <1>2, <1>3 DEF Edited, Knows, Edits, Working, Later
<1>5. CASE call[s].pc = "recording"
  <2>1. RecordedNow(s, c, k, setup[c].project[k], setup'[c].project[k])
    BY <1>2, <1>3, <1>5 DEF RecordedNow, Knows, Working
  <2> QED BY <1>1, <1>3, <1>4, <2>1 DEF EditedBy
<1>6. CASE call[s].pc = "finishing"
  <2>1. Finished(s, c, k, setup[c].project[k], setup'[c].project[k])
    BY <1>2, <1>3, <1>6 DEF Finished, Knows, Working, Later
  <2> QED BY <1>1, <1>3, <1>4, <2>1 DEF EditedBy
<1> QED BY <1>5, <1>6

LEMMA BeginEdits ==
  ASSUME TypeOK, NEW s \in Call, NEW c \in Company, NEW k \in Key, NEW n \in Name,
         BeginProject(s, c, k, n)
  PROVE  /\ EditedBy(s, c, k)
         /\ \A d \in Company \ {c} : setup'[d] = setup[d]
<1>1. setup'[c] = WithProject(setup[c], k, "creating", n, 0)
  BY DEF BeginProject, TypeOK
<1>2. setup[c].project \in [Key -> Project] /\ setup[c].project[k].status = "absent"
  BY DEF BeginProject, Requests, TypeOK, Setup
<1>3. setup'[c].project[k] = [status |-> "creating", name |-> n, id |-> 0]
  BY <1>1, <1>2 DEF WithProject
<1>4. Edited(c, k)
  BY <1>1, <1>2 DEF Edited, WithProject, BeginProject
<1>5. Begun(s, c, k, setup[c].project[k], setup'[c].project[k])
  BY <1>2, <1>3, NoneIsNothing DEF Begun, BeginProject, Enter, Idle, TypeOK
<1>6. \A d \in Company \ {c} : setup'[d] = setup[d]
  BY DEF BeginProject, TypeOK
<1>7. Moves(s)
  BY DEF BeginProject, Enter, Idle, Moves, TypeOK
<1> QED BY <1>4, <1>5, <1>6, <1>7 DEF EditedBy

\* A step leaves a company's state alone, or changes it in one of these ways.
LEMMA SetupShape ==
  ASSUME TypeOK, IInv, [Next]_vars, NEW c \in Company
  PROVE  \/ setup'[c] = setup[c]
         \/ Asked(c)
         \/ Approved(c)
         \/ \E s \in Call, k \in Key : EditedBy(s, c, k)
<1>1. CASE UNCHANGED vars \/ Customer
  BY <1>1 DEF vars, Customer, Install, CustomerCommits, CustomerCreates, CustomerRemoves, Change
<1>2. ASSUME NEW d \in Company, NEW g \in Slug, RequestOrganization(d, g)
      PROVE  setup'[c] = setup[c] \/ Asked(c)
  BY <1>2 DEF RequestOrganization, Asked, WithOrganization, TypeOK
<1>3. ASSUME NEW s \in Call, Begins(s)
      PROVE  setup'[c] = setup[c] \/ \E k \in Key : EditedBy(s, c, k)
  BY <1>3, BeginEdits DEF Begins, BeginApproval, Resume
<1>4. ASSUME NEW s \in Call, Proceed(s) \/ Fails(s) \/ LoseConnection(s)
      PROVE  setup'[c] = setup[c] \/ Approved(c) \/ \E k \in Key : EditedBy(s, c, k)
  <2>1. CASE Approve(s)
    <3>1. Moves(s)
      BY <2>1 DEF Approve, Refused, Fault, Leave, Idle, Moves, TypeOK
    <3> QED BY <2>1, <3>1, SaveApproves DEF Approve
  <2>2. CASE RecordRepository(s)
    <3>1. Moves(s)
      BY <2>2 DEF RecordRepository, Goto, Continue, Refused, Fault, Leave, Idle, Moves, TypeOK
    <3> QED BY <2>2, <3>1, SaveEdits DEF RecordRepository
  <2>3. CASE Finish(s)
    <3>1. Moves(s)
      BY <2>3 DEF Finish, Refused, Fault, Leave, Idle, Moves, TypeOK
    <3> QED BY <2>3, <3>1, SaveEdits DEF Finish
  <2>4. CASE Verify(s) \/ Create(s) \/ CreateRefused(s) \/ CheckRepository(s) \/ ReadBranch(s)
             \/ Judge(s) \/ Commit(s) \/ CommitRefused(s) \/ Register(s) \/ Fails(s)
             \/ LoseConnection(s)
    BY <2>4 DEF Verify, Create, CreateRefused, CheckRepository, ReadBranch, Judge, Commit,
                CommitRefused, Register, Fails, LoseConnection
  <2> QED BY <1>4, <2>1, <2>2, <2>3, <2>4 DEF Proceed
<1> QED BY NextSplits, <1>1, <1>2, <1>3, <1>4

CreatedBy(s) ==
  /\ call[s].pc = "creating" /\ Moves(s)
  /\ created' = created \cup {[id |-> lastId + 1, company |-> call[s].company,
                              key |-> call[s].key, org |-> call[s].view.org]}

RegisteredBy(s) ==
  LET c == call[s].company
      k == call[s].key IN
  /\ call[s].pc = "registering"
  /\ application' = [application EXCEPT ![c][k] =
       Registered(c, k, <<call[s].view.slug, call[s].view.project[k].name>>)]

LEMMA WorkShape ==
  ASSUME TypeOK, [Next]_vars
  PROVE  /\ created' = created \/ \E s \in Call : CreatedBy(s)
         /\ application' = application \/ \E s \in Call : RegisteredBy(s)
         /\ initialized \subseteq initialized' /\ displaced \subseteq displaced'
<1>1. CASE UNCHANGED vars \/ Customer
  BY <1>1 DEF vars, Customer, Install, CustomerCommits, CustomerCreates, CustomerRemoves, Change, history
<1>2. ASSUME NEW c \in Company, NEW g \in Slug, RequestOrganization(c, g)
      PROVE  UNCHANGED <<application, history>>
  BY <1>2 DEF RequestOrganization
<1>3. ASSUME NEW s \in Call, Begins(s) PROVE UNCHANGED <<application, history>>
  BY <1>3 DEF Begins, BeginApproval, Resume, BeginProject
<1>4. ASSUME NEW s \in Call, Proceed(s) \/ Fails(s) \/ LoseConnection(s)
      PROVE  /\ created' = created \/ CreatedBy(s)
             /\ application' = application \/ RegisteredBy(s)
             /\ initialized \subseteq initialized' /\ displaced' = displaced
  <2>1. CASE Create(s)
    <3>1. Moves(s)
      BY <2>1 DEF Create, Goto, Continue, Fault, Leave, Idle, Moves, TypeOK
    <3> QED BY <2>1, <3>1 DEF Create, CreatedBy
  <2>2. CASE Register(s)
    BY <2>2 DEF Register, RegisteredBy, history
  <2>3. CASE Judge(s) \/ Commit(s)
    BY <2>3 DEF Judge, Commit
  <2>4. CASE Verify(s) \/ CreateRefused(s) \/ CheckRepository(s) \/ ReadBranch(s)
             \/ CommitRefused(s) \/ Fails(s) \/ LoseConnection(s)
    BY <2>4 DEF Verify, CreateRefused, CheckRepository, ReadBranch, CommitRefused, Fails,
                LoseConnection, history
  <2>5. CASE Approve(s) \/ RecordRepository(s) \/ Finish(s)
    BY <2>5 DEF Approve, RecordRepository, Finish, history
  <2> QED BY <1>4, <2>1, <2>2, <2>3, <2>4, <2>5 DEF Proceed
<1> QED BY NextSplits, <1>1, <1>2, <1>3, <1>4 DEF history

\* What was initialized for a request stays so.
LEMMA FilledKept ==
  ASSUME TypeOK, [Next]_vars, NEW c \in Company, NEW k \in Key, NEW id
  PROVE  /\ FilledFor(c, k) \subseteq FilledFor(c, k)'
         /\ Filled(c, k, id) => Filled(c, k, id)'
BY WorkShape DEF FilledFor, Filled

-----------------------------------------------------------------------------
(***************************************************************************)
(* Records only advance.                                                   *)
(***************************************************************************)
Onwards(p, q) ==
  /\ p.name # None => q.name = p.name
  /\ p.id # 0 => q.id = p.id
  /\ p.status # "absent" => q.status # "absent"
  /\ p.status \in {"initializing", "ready"} => q.status \in {"initializing", "ready"}
  /\ p.status = "ready" => q.status = "ready"

Advances(c) ==
  /\ setup[c].org # None => setup'[c].org = setup[c].org /\ setup'[c].slug = setup[c].slug
  /\ \A k \in Key : Onwards(setup[c].project[k], setup'[c].project[k])

LEMMA StepAdvances ==
  ASSUME TypeOK, IInv, [Next]_vars, NEW c \in Company
  PROVE  Advances(c)
<1>1. CASE setup'[c] = setup[c] \/ Asked(c) \/ Approved(c)
  BY <1>1 DEF Asked, Approved, Advances, Onwards
<1>2. ASSUME NEW s \in Call, NEW k \in Key, EditedBy(s, c, k) PROVE Advances(c)
  <2>1. ASSUME NEW j \in Key PROVE Onwards(setup[c].project[j], setup'[c].project[j])
    <3> DEFINE p == setup[c].project[j]
               q == setup'[c].project[j]
    <3>1. CASE j # k
      BY <1>2, <3>1 DEF EditedBy, Edited, Onwards
    <3>2. CASE j = k
      <4>1. ProjectOK(c, k, p)
        BY <3>2 DEF IInv, SetupTrue
      <4>2. CASE Begun(s, c, k, p, q)
        BY <4>1, <4>2 DEF Begun, ProjectOK, NoProject, Onwards
      <4>3. CASE RecordedNow(s, c, k, p, q) \/ Finished(s, c, k, p, q)
        BY <4>1, <4>3 DEF RecordedNow, Finished, ProjectOK, Onwards
      <4> QED BY <1>2, <3>2, <4>2, <4>3 DEF EditedBy
    <3> QED BY <3>1, <3>2
  <2> QED BY <1>2, <2>1 DEF EditedBy, Edited, Advances
<1> QED BY <1>1, <1>2, SetupShape

LEMMA ApplicationKept ==
  ASSUME TypeOK, [Next]_vars, NEW c \in Company, NEW k \in Key, application[c][k] # None
  PROVE  application'[c][k] = application[c][k]
<1>1. ASSUME NEW s \in Call, RegisteredBy(s) PROVE application'[c][k] = application[c][k]
  BY <1>1 DEF RegisteredBy, Registered, TypeOK
<1> QED BY <1>1, WorkShape

LEMMA NextSetup ==
  ASSUME TypeOK, IInv, [Next]_vars
  PROVE  SetupTrue'
<1> SUFFICES ASSUME NEW c \in Company
             PROVE  /\ setup'[c].org # None => setup'[c].slug # None
                    /\ \A k \in Key : ProjectOK(c, k, setup[c].project[k])'
  BY DEF SetupTrue
<1>0. /\ SetupTrue /\ created \subseteq created'
      /\ \A k \in Key : \A id : Filled(c, k, id) => Filled(c, k, id)'
  BY WorkShape, FilledKept DEF CreatedBy, IInv
<1>1. ASSUME NEW k \in Key, application[c][k] # None PROVE application'[c][k] # None
  BY <1>1, ApplicationKept
<1>2. CASE setup'[c] = setup[c]
  BY <1>0, <1>1, <1>2 DEF SetupTrue, ProjectOK
<1>3. CASE Asked(c)
  <2>1. ASSUME NEW k \in Key PROVE setup[c].project[k].status = "absent"
    BY <1>3 DEF Asked, Requests
  <2> QED BY <1>0, <1>3, <2>1 DEF Asked, SetupTrue, ProjectOK, NoProject
<1>4. CASE Approved(c)
  <2>1. ASSUME NEW k \in Key PROVE setup[c].project[k].status = "absent"
    BY <1>0, <1>4 DEF Approved, SetupTrue, ProjectOK
  <2>2. ASSUME NEW k \in Key PROVE setup'[c].project[k] = NoProject
    BY <1>0, <1>4, <2>1 DEF Approved, SetupTrue, ProjectOK
  <2>3. ASSUME NEW k \in Key PROVE ProjectOK(c, k, setup[c].project[k])'
    BY <2>2 DEF ProjectOK, NoProject
  <2> QED BY <1>4, <2>3 DEF Approved
<1>5. ASSUME NEW s \in Call, NEW j \in Key, EditedBy(s, c, j)
      PROVE  /\ setup'[c].org # None => setup'[c].slug # None
             /\ \A k \in Key : ProjectOK(c, k, setup[c].project[k])'
  <2>1. Edited(c, j) /\ (setup'[c].org # None => setup'[c].slug # None)
    BY <1>0, <1>5 DEF EditedBy, Edited, SetupTrue
  <2>2. ASSUME NEW k \in Key, k # j PROVE ProjectOK(c, k, setup[c].project[k])'
    BY <1>0, <1>1, <2>1, <2>2 DEF Edited, SetupTrue, ProjectOK
  <2>3. ProjectOK(c, j, setup[c].project[j])'
    <3> DEFINE p == setup[c].project[j]
               q == setup'[c].project[j]
    <3>1. ProjectOK(c, j, p)
      BY <1>0 DEF SetupTrue
    <3>2. CASE Begun(s, c, j, p, q)
      BY <2>1, <3>2 DEF Begun, Edited, ProjectOK
    <3>3. CASE RecordedNow(s, c, j, p, q)
      BY <1>0, <2>1, <3>1, <3>3 DEF RecordedNow, Edited, ProjectOK
    <3>4. CASE Finished(s, c, j, p, q)
      BY <1>0, <1>1, <2>1, <3>1, <3>4 DEF Finished, Edited, ProjectOK
    <3> QED BY <1>5, <3>2, <3>3, <3>4 DEF EditedBy
  <2> QED BY <2>1, <2>2, <2>3
<1> QED BY <1>2, <1>3, <1>4, <1>5, SetupShape

\* A request gets a name that no request of its company has.
LEMMA NextNames ==
  ASSUME TypeOK, IInv, [Next]_vars
  PROVE  NamesDiffer'
<1> SUFFICES ASSUME NEW c \in Company, NEW j \in Key, NEW k \in Key,
                    setup'[c].project[j].name # None,
                    setup'[c].project[j].name = setup'[c].project[k].name, j # k
             PROVE  FALSE
  BY DEF NamesDiffer
<1>1. CASE setup'[c].project = setup[c].project
  BY <1>1 DEF IInv, NamesDiffer
<1>2. ASSUME NEW s \in Call, NEW i \in Key, EditedBy(s, c, i) PROVE FALSE
  <2> DEFINE p == setup[c].project[i]
             q == setup'[c].project[i]
  <2>1. \A h \in Key : h # i => setup'[c].project[h] = setup[c].project[h]
    BY <1>2 DEF EditedBy, Edited
  <2>2. CASE q.name = p.name
    BY <2>1, <2>2 DEF IInv, NamesDiffer
  <2>3. CASE Begun(s, c, i, p, q)
    <3>1. \A h \in Key : h # i => setup[c].project[h].name # q.name
      <4>1. ASSUME NEW h \in Key, h # i PROVE setup[c].project[h].name # q.name
        <5>1. CASE h \in Requests(setup[c])
          BY <2>3, <5>1 DEF Begun
        <5>2. CASE h \notin Requests(setup[c])
          <6>1. setup[c].project[h] = NoProject
            BY <5>2 DEF Requests, IInv, SetupTrue, ProjectOK
          <6> QED BY <2>3, <6>1 DEF Begun, NoProject
        <5> QED BY <5>1, <5>2
      <4> QED BY <4>1
    <3> QED BY <2>1, <2>2, <3>1 DEF IInv, NamesDiffer
  <2> QED BY <1>2, <2>2, <2>3 DEF EditedBy, RecordedNow, Finished
<1> QED BY <1>1, <1>2, SetupShape DEF Asked, Approved

LEMMA NextOrganizations ==
  ASSUME TypeOK, IInv, [Next]_vars
  PROVE  OrganizationHasOneCompany'
<1> SUFFICES ASSUME NEW c \in Company, NEW d \in Company, c # d,
                    setup'[c].org # None, setup'[c].org = setup'[d].org
             PROVE  FALSE
  BY DEF OrganizationHasOneCompany
<1>1. ASSUME NEW e \in Company PROVE setup'[e].org = setup[e].org \/ Approved(e)
  BY SetupShape DEF Asked, EditedBy, Edited
<1> QED BY <1>1 DEF Approved, IInv, OrganizationHasOneCompany

\* Who creates has not created before, and no one else creates for that request.
LEMMA NextCreated ==
  ASSUME TypeOK, IInv, [Next]_vars
  PROVE  OneRepositoryPerRequest' /\ \A x \in created' : setup'[x.company].project[x.key].status # "absent"
<1>1. ASSUME NEW x \in created PROVE setup'[x.company].project[x.key].status # "absent"
  <2>1. x.company \in Company /\ x.key \in Key
    BY DEF TypeOK
  <2>2. setup[x.company].project[x.key].status # "absent"
    BY DEF IInv, WorkIsRecorded
  <2> QED BY <2>1, <2>2, StepAdvances DEF Advances, Onwards
<1>2. CASE created' = created
  BY <1>1, <1>2 DEF IInv, OneRepositoryPerRequest
<1>3. ASSUME NEW s \in Call, CreatedBy(s)
      PROVE  OneRepositoryPerRequest' /\ \A x \in created' : setup'[x.company].project[x.key].status # "absent"
  <2> DEFINE y == [id |-> lastId + 1, company |-> call[s].company,
                   key |-> call[s].key, org |-> call[s].view.org]
  <2>1. Knows(s, call[s].company, call[s].key, call[s].view) /\ call[s].pc = "creating"
    BY <1>3 DEF CreatedBy, IInv, CallOK
  <2>2. /\ call[s].company \in Company /\ call[s].key \in Key
        /\ setup[call[s].company].project[call[s].key].status # "absent"
        /\ \A x \in created : x.company # y.company \/ x.key # y.key
    BY <2>1 DEF Knows, Working
  <2>3. setup'[y.company].project[y.key].status # "absent"
    BY <2>2, StepAdvances DEF Advances, Onwards
  <2>4. created' = created \cup {y}
    BY <1>3 DEF CreatedBy
  <2>5. OneRepositoryPerRequest'
    BY <2>2, <2>4 DEF IInv, OneRepositoryPerRequest
  <2> QED BY <1>1, <2>3, <2>4, <2>5
<1> QED BY <1>2, <1>3, WorkShape

LEMMA NextApplications ==
  ASSUME TypeOK, IInv, [Next]_vars, NEW c \in Company, NEW k \in Key, application'[c][k] # None
  PROVE  /\ setup'[c].project[k].status \in {"initializing", "ready"}
         /\ application'[c][k] = <<setup'[c].slug, setup'[c].project[k].name>>
<1>0. Advances(c)
  BY StepAdvances
<1>1. CASE application'[c][k] = application[c][k]
  <2>1. /\ setup[c].project[k].status \in {"initializing", "ready"}
        /\ application[c][k] = <<setup[c].slug, setup[c].project[k].name>>
    BY <1>1 DEF IInv, WorkIsRecorded
  <2>2. setup[c].org # None /\ setup[c].project[k].name # None
    BY <2>1 DEF IInv, SetupTrue, ProjectOK
  <2> QED BY <1>0, <1>1, <2>1, <2>2 DEF Advances, Onwards
<1>2. ASSUME NEW s \in Call, RegisteredBy(s), application'[c][k] # application[c][k]
      PROVE  /\ setup'[c].project[k].status \in {"initializing", "ready"}
             /\ application'[c][k] = <<setup'[c].slug, setup'[c].project[k].name>>
  <2>1. /\ call[s].company = c /\ call[s].key = k /\ call[s].pc = "registering"
        /\ application'[c][k] = <<call[s].view.slug, call[s].view.project[k].name>>
    BY <1>2 DEF RegisteredBy, Registered, TypeOK
  <2>2. Knows(s, c, k, call[s].view)
    BY <2>1 DEF IInv, CallOK
  <2>3. /\ setup[c].org # None /\ call[s].view.slug = setup[c].slug
        /\ setup[c].project[k].name # None
        /\ call[s].view.project[k].name = setup[c].project[k].name
        /\ setup[c].project[k].status \in {"initializing", "ready"}
    BY <2>1, <2>2 DEF Knows, Working, Later
  <2> QED BY <1>0, <2>1, <2>3 DEF Advances, Onwards
<1> QED BY <1>1, <1>2, WorkShape

LEMMA RepositoryShape ==
  ASSUME [Next]_vars
  PROVE  \/ UNCHANGED <<repository, lastId>>
         \/ \E s \in Call : Create(s) \/ Commit(s)
         \/ \E a \in Org, b \in Name :
              CustomerCommits(a, b) \/ CustomerCreates(a, b) \/ CustomerRemoves(a, b)
<1>1. CASE UNCHANGED vars \/ \E c \in Company, g \in Slug : RequestOrganization(c, g)
  BY <1>1 DEF vars, RequestOrganization, github
<1>2. CASE Customer
  <2>1. ASSUME NEW g \in Slug, NEW o \in Org \cup {None}, Install(g, o)
        PROVE  UNCHANGED <<repository, lastId>>
    BY <2>1 DEF Install
  <2> QED BY <1>2, <2>1 DEF Customer
<1>3. ASSUME NEW s \in Call, Begins(s) \/ Proceed(s) \/ Fails(s) \/ LoseConnection(s)
      PROVE  UNCHANGED <<repository, lastId>> \/ Create(s) \/ Commit(s)
  <2>1. CASE Begins(s) \/ Fails(s) \/ LoseConnection(s)
    BY <2>1 DEF Begins, BeginApproval, Resume, BeginProject, Fails, LoseConnection, github
  <2>2. CASE Proceed(s)
    BY <2>2 DEF Proceed, Verify, CreateRefused, CheckRepository, ReadBranch, Judge,
                CommitRefused, Approve, RecordRepository, Finish, Register, github
  <2> QED BY <1>3, <2>1, <2>2
<1> QED BY NextSplits, <1>1, <1>2, <1>3

\* The branch is moved as it was judged: it held a README.md alone.
LEMMA CommitReplaces ==
  ASSUME TypeOK, IInv, NEW s \in Call, Commit(s)
  PROVE  LET v == call[s].view
             k == call[s].key IN
         /\ v.org \in Org /\ v.project[k].name \in Name
         /\ At(v, k) = call[s].seen /\ At(v, k).id # 0 /\ At(v, k).content = "readme"
<1> DEFINE v == call[s].view
           k == call[s].key
<1>1. call[s].pc = "committing" /\ Knows(s, call[s].company, k, v)
  BY DEF Commit, IInv, CallOK
<1>2. /\ call[s].company \in Company /\ k \in Key /\ v.org # None /\ v.project[k].name # None
      /\ call[s].seen.id # 0 /\ call[s].seen.content = "readme"
  BY <1>1 DEF Knows, Working, Later
<1>3. Found(v, k) = call[s].seen
  BY DEF Commit, Unmoved
<1>4. Found(v, k) = At(v, k)
  BY <1>2, <1>3 DEF Found, NoRepository
<1> QED BY <1>2, <1>3, <1>4 DEF TypeOK, Setup, Project

LEMMA NextRepositories ==
  ASSUME TypeOK, IInv, [Next]_vars, NEW o \in Org, NEW n \in Name
  PROVE  repository'[o][n].id = 0 => repository'[o][n].content = "none"
<1> DEFINE Good == repository'[o][n].id = 0 => repository'[o][n].content = "none"
<1>0. /\ lastId + 1 # 0
      /\ \A a \in Org, b \in Name : repository[a][b].id = 0 => repository[a][b].content = "none"
  BY DEF TypeOK, IInv, WorkIsRecorded
<1>1. CASE UNCHANGED <<repository, lastId>>
  BY <1>0, <1>1
<1>2. ASSUME NEW s \in Call, Create(s) PROVE Good
  BY <1>0, <1>2 DEF Create, TypeOK
<1>3. ASSUME NEW s \in Call, Commit(s) PROVE Good
  <2>1. CASE o = call[s].view.org /\ n = call[s].view.project[call[s].key].name
    <3>1. repository'[o][n].id = call[s].seen.id
      BY <1>3, <2>1 DEF Commit, TypeOK
    <3> QED BY <1>3, <3>1, CommitReplaces
  <2>2. CASE ~ (o = call[s].view.org /\ n = call[s].view.project[call[s].key].name)
    <3>1. repository'[o][n] = repository[o][n]
      BY <1>3, <2>2 DEF Commit, TypeOK
    <3> QED BY <1>0, <3>1
  <2> QED BY <2>1, <2>2
<1>4. ASSUME NEW a \in Org, NEW b \in Name,
             CustomerCommits(a, b) \/ CustomerCreates(a, b) \/ CustomerRemoves(a, b)
      PROVE  Good
  <2>1. CASE CustomerCommits(a, b)
    BY <1>0, <2>1 DEF CustomerCommits, TypeOK
  <2>2. CASE CustomerCreates(a, b)
    BY <1>0, <2>2 DEF CustomerCreates, TypeOK
  <2>3. CASE CustomerRemoves(a, b)
    BY <1>0, <2>3 DEF CustomerRemoves, NoRepository, TypeOK
  <2> QED BY <1>4, <2>1, <2>2, <2>3
<1> QED BY <1>1, <1>2, <1>3, <1>4, RepositoryShape

-----------------------------------------------------------------------------
(***************************************************************************)
(* What a step does to the calls and the locks.                            *)
(***************************************************************************)

\* A call that acts leaves, or goes on.
LEMMA StepMoves ==
  ASSUME NEW s \in Call, Proceed(s)
  PROVE  Leave(s) \/ \E pc \in Position \ {"idle"} : \E view, seen : Continue(s, pc, view, seen)
<1>1. CASE Verify(s) \/ Approve(s) \/ Create(s) \/ CreateRefused(s) \/ RecordRepository(s)
  BY <1>1 DEF Verify, Approve, Create, CreateRefused, RecordRepository, Refused, Fault, Goto, Position
<1>2. CASE CheckRepository(s) \/ ReadBranch(s) \/ Judge(s)
  BY <1>2 DEF CheckRepository, ReadBranch, Judge, Refused, Goto, GotoSeen, Position
<1>3. CASE Commit(s) \/ CommitRefused(s) \/ Register(s) \/ Finish(s)
  BY <1>3 DEF Commit, CommitRefused, Register, Finish, Refused, Fault, Goto, Position
<1> QED BY <1>1, <1>2, <1>3 DEF Proceed

\* A call that holds a lock has kept it and its company, or has just begun.
LEMMA LockShape ==
  ASSUME TypeOK, IInv, [Next]_vars, NEW c \in Company, NEW t \in Call, lock'[c] = t
  PROVE  \/ /\ lock[c] = t /\ call'[t].company = call[t].company /\ call'[t].pc # "idle"
         \/ /\ call[t].pc = "idle" /\ call'[t].pc # "idle" /\ call'[t].company = c
<1>0. t # None /\ (lock[c] = t => call[t].pc # "idle" /\ call[t].company = c)
  BY NoneIsNothing DEF IInv, LockHeld
<1>1. CASE UNCHANGED <<lock, call>>
  BY <1>0, <1>1
<1>2. ASSUME NEW s \in Call, Begins(s)
      PROVE  \/ /\ lock[c] = t /\ call'[t].company = call[t].company /\ call'[t].pc # "idle"
             \/ /\ call[t].pc = "idle" /\ call'[t].pc # "idle" /\ call'[t].company = c
  <2>1. PICK d \in Company : \E k, view : \E pc \in Position \ {"idle"} :
          Enter(s, d, k, pc, view)
    BY <1>2 DEF Begins, BeginApproval, Resume, BeginProject, Position, TypeOK
  <2>2. lock'[c] = IF c = d THEN s ELSE lock[c]
    BY <2>1 DEF Enter, TypeOK
  <2>3. call[s].pc = "idle" /\ call'[s].pc # "idle" /\ call'[s].company = d
        /\ \A u \in Call \ {s} : call'[u] = call[u]
    BY <2>1 DEF Enter, Idle, TypeOK
  <2> QED BY <1>0, <2>2, <2>3
<1>3. ASSUME NEW s \in Call, Leave(s)
      PROVE  /\ lock[c] = t /\ call'[t].company = call[t].company /\ call'[t].pc # "idle"
  <2>1. lock'[c] = IF lock[c] = s THEN None ELSE lock[c]
    BY <1>3 DEF Leave
  <2>2. \A u \in Call \ {s} : call'[u] = call[u]
    BY <1>3 DEF Leave, TypeOK
  <2> QED BY <1>0, <2>1, <2>2
<1>4. ASSUME NEW s \in Call, NEW pc \in Position \ {"idle"}, NEW view, NEW seen,
             Continue(s, pc, view, seen)
      PROVE  /\ lock[c] = t /\ call'[t].company = call[t].company /\ call'[t].pc # "idle"
  BY <1>0, <1>4 DEF Continue, TypeOK
<1>5. ASSUME NEW s \in Call, LoseConnection(s)
      PROVE  /\ lock[c] = t /\ call'[t].company = call[t].company /\ call'[t].pc # "idle"
  BY <1>0, <1>5 DEF LoseConnection, TypeOK
<1>6. ASSUME NEW s \in Call, Proceed(s) \/ Fails(s)
      PROVE  Leave(s) \/ \E pc \in Position \ {"idle"} : \E view, seen : Continue(s, pc, view, seen)
  BY <1>6, StepMoves DEF Fails, Fault
<1>7. CASE UNCHANGED vars \/ Customer \/ \E d \in Company, g \in Slug : RequestOrganization(d, g)
  BY <1>1, <1>7 DEF vars, Customer, Install, CustomerCommits, CustomerCreates, CustomerRemoves,
                    Change, RequestOrganization
<1> QED BY NextSplits, <1>2, <1>3, <1>4, <1>5, <1>6, <1>7

LEMMA NextLock ==
  ASSUME TypeOK, IInv, [Next]_vars
  PROVE  LockHeld'
<1> SUFFICES ASSUME NEW c \in Company, lock'[c] # None
             PROVE  call'[lock'[c]].pc # "idle" /\ call'[lock'[c]].company = c
  BY DEF LockHeld
<1>1. lock'[c] \in Call
  BY NextType DEF TypeOK
<1> QED BY <1>1, LockShape DEF IInv, LockHeld

\* Between the comparison of a repository's id and the reading of its branch, the name
\* leads to that repository, to none, or to one the customer has put there: no other
\* request creates one under that name.
LEMMA ReadingStays ==
  ASSUME TypeOK, IInv, [Next]_vars, NEW t \in Call, call[t].pc = "reading",
         NEW c \in Company, NEW k \in Key, NEW v \in Setup,
         c = call[t].company, k = call[t].key, v = call[t].view
  PROVE  \/ repository'[v.org][v.project[k].name].id \in {0, v.project[k].id}
         \/ <<c, k>> \in displaced'
<1> DEFINE o == v.org
           n == v.project[k].name
<1>1. Knows(t, c, k, v)
  BY DEF IInv, CallOK
<1>2. /\ o \in Org /\ n \in Name /\ o = setup[c].org /\ n = setup[c].project[k].name
      /\ setup[c].project[k].status \in {"initializing", "ready"}
      /\ repository[o][n].id \in {0, v.project[k].id} \/ <<c, k>> \in displaced
  BY <1>1 DEF Knows, Working, Later, At, Setup, Project
<1>3. displaced \subseteq displaced'
  BY WorkShape
<1>4. CASE UNCHANGED <<repository, lastId>>
  BY <1>2, <1>3, <1>4
<1>5. ASSUME NEW s \in Call, Create(s) PROVE repository'[o][n] = repository[o][n]
  <2> DEFINE d == call[s].company
             j == call[s].key
             w == call[s].view
  <2>1. call[s].pc = "creating" /\ Knows(s, d, j, w)
    BY <1>5 DEF Create, IInv, CallOK
  <2>2. /\ d \in Company /\ j \in Key /\ w.org # None /\ w.org = setup[d].org
        /\ w.project[j].name # None /\ w.project[j].name = setup[d].project[j].name
        /\ setup[d].project[j].status = "creating"
    BY <2>1 DEF Knows, Working
  <2>3. ~ (w.org = o /\ w.project[j].name = n)
    <3> SUFFICES ASSUME w.org = o, w.project[j].name = n
                 PROVE  FALSE
      OBVIOUS
    <3> HIDE DEF o, n, d, j, w
    <3>1. OrganizationHasOneCompany /\ NamesDiffer
      BY DEF IInv
    <3>2. c \in Company /\ k \in Key
      BY <1>1 DEF Knows, Working, Later
    <3>3. d = c
      <4>1. setup[d].org = setup[c].org /\ setup[d].org # None
        BY <1>2, <2>2
      <4> QED BY <2>2, <3>1, <3>2, <4>1 DEF OrganizationHasOneCompany
    <3>4. j = k
      <4>1. setup[c].project[j].name = setup[c].project[k].name /\ setup[c].project[j].name # None
        BY <1>2, <2>2, <3>3
      <4> QED BY <2>2, <3>1, <3>2, <4>1 DEF NamesDiffer
    <3> QED BY <1>2, <2>2, <3>3, <3>4
  <2> QED BY <1>2, <1>5, <2>3 DEF Create, TypeOK
<1>6. ASSUME NEW s \in Call, Commit(s) PROVE repository'[o][n].id = repository[o][n].id
  BY <1>2, <1>6, CommitReplaces DEF Commit, At, TypeOK
<1>7. ASSUME NEW a \in Org, NEW b \in Name,
             CustomerCommits(a, b) \/ CustomerCreates(a, b) \/ CustomerRemoves(a, b)
      PROVE  \/ repository'[o][n].id \in {0, repository[o][n].id}
             \/ <<c, k>> \in displaced'
  <2>1. CASE CustomerCommits(a, b)
    <3>1. PICK content \in Content :
            repository' = [repository EXCEPT ![a][b] =
              [id |-> repository[a][b].id, head |-> repository[a][b].head + 1, content |-> content]]
      BY <2>1 DEF CustomerCommits
    <3>2. repository'[o][n].id = repository[o][n].id
      BY <1>2, <3>1 DEF TypeOK
    <3> QED BY <3>2
  <2>2. CASE CustomerCreates(a, b)
    <3>1. CASE a = o /\ b = n
      <4>1. <<c, k>> \in ReadingAt(a, b)
        BY <3>1 DEF ReadingAt
      <4> QED BY <2>2, <4>1 DEF CustomerCreates
    <3>2. CASE ~ (a = o /\ b = n)
      <4>1. PICK content :
              repository' = [repository EXCEPT ![a][b] =
                [id |-> lastId', head |-> 0, content |-> content]]
        BY <2>2 DEF CustomerCreates
      <4>2. repository'[o][n] = repository[o][n]
        BY <1>2, <3>2, <4>1 DEF TypeOK
      <4> QED BY <4>2
    <3> QED BY <3>1, <3>2
  <2>3. CASE CustomerRemoves(a, b)
    BY <1>2, <2>3 DEF CustomerRemoves, NoRepository, TypeOK
  <2> QED BY <1>7, <2>1, <2>2, <2>3
<1> QED BY <1>2, <1>3, <1>4, <1>5, <1>6, <1>7, RepositoryShape

\* What a call that does not act knows stays true.
LEMMA OthersKnow ==
  ASSUME TypeOK, IInv, [Next]_vars, NEW t \in Call, call'[t] = call[t]
  PROVE  CallOK(t)'
<1> DEFINE c == call[t].company
           k == call[t].key
           v == call[t].view
<1> SUFFICES ASSUME call[t].pc # "idle" PROVE CallOK(t)'
  BY DEF CallOK
<1>1. Knows(t, c, k, v) /\ c \in Company /\ Advances(c)
  BY StepAdvances DEF IInv, CallOK, Knows
<1>2. displaced \subseteq displaced'
  BY WorkShape
<1>3. ASSUME call[t].pc \in {"creating", "recording"}
      PROVE  k \in Key /\ setup'[c].project[k].status = "creating"
  <2>1. k \in Key /\ setup[c].project[k].status = "creating" /\ setup[c].org # None
    BY <1>1, <1>3 DEF Knows, Working
  <2>2. CASE setup'[c] = setup[c] \/ Asked(c) \/ Approved(c)
    BY <2>1, <2>2 DEF Asked, Approved
  <2>3. ASSUME NEW s \in Call, NEW j \in Key, EditedBy(s, c, j)
        PROVE  setup'[c].project[k].status = "creating"
    <3>1. CASE j # k
      BY <2>1, <2>3, <3>1 DEF EditedBy, Edited
    <3>2. CASE j = k
      <4>1. call[s].pc = "recording" /\ call[s].company = c /\ call[s].key = k /\ Moves(s)
        BY <2>1, <2>3, <3>2 DEF EditedBy, Begun, RecordedNow, Finished
      <4> QED BY <1>3, <4>1 DEF IInv, OneCreator, Moves
    <3> QED BY <3>1, <3>2
  <2> QED BY <1>1, <2>1, <2>2, <2>3, SetupShape
<1>4. call[t].pc = "creating" => \A x \in created' : x.company # c \/ x.key # k
  <2>1. ASSUME NEW s \in Call, CreatedBy(s), call[t].pc = "creating",
               call[s].company = c, call[s].key = k
        PROVE  FALSE
    BY <2>1 DEF CreatedBy, IInv, OneCreator, Moves
  <2> QED BY <1>1, <2>1, WorkShape DEF Knows, CreatedBy
<1>5. Knows(t, c, k, v)'
  <2>1. created \subseteq created'
    BY WorkShape DEF CreatedBy
  <2>2. call[t].pc \in Working =>
           /\ k \in Key /\ v.org # None /\ v.org = setup'[c].org /\ v.slug = setup'[c].slug
           /\ v.project[k].name # None /\ v.project[k].name = setup'[c].project[k].name
    BY <1>1 DEF Knows, Working, Advances, Onwards
  <2>3. call[t].pc \in Later =>
           /\ setup'[c].project[k].status \in {"initializing", "ready"}
           /\ v.project[k].id # 0 /\ v.project[k].id = setup'[c].project[k].id
    BY <1>1 DEF Knows, Working, Advances, Onwards
  <2>4. call[t].pc = "finishing" => application'[c][k] # None
    BY <1>1, ApplicationKept DEF Knows, Working, Later
  <2>5. call[t].pc = "reading" =>
          At(v, k)'.id \in {0, v.project[k].id} \/ <<c, k>> \in displaced'
    BY <1>1, ReadingStays DEF Knows, Working, Later, At, TypeOK
  <2>6. call[t].pc \in {"registering", "finishing"} => Filled(c, k, v.project[k].id)'
    BY <1>1, FilledKept DEF Knows, Working, Later
  <2>7. /\ call[t].pc \in {"verifying", "approving"} => v.slug # None
        /\ call[t].pc = "creating" => v.project[k].status = "creating" /\ v.project[k].id = 0
        /\ call[t].pc = "recording" =>
             /\ v.project[k].status = "initializing" /\ v.project[k].id # 0
             /\ [id |-> v.project[k].id, company |-> c, key |-> k, org |-> v.org] \in created'
        /\ call[t].pc \in Later =>
             v.project[k].status = IF call[t].pc = "finishing" THEN "ready" ELSE "initializing"
        /\ call[t].pc \in {"judging", "committing"} =>
             call[t].seen.id # 0 /\ (call[t].seen.id = v.project[k].id \/ <<c, k>> \in displaced')
        /\ call[t].pc = "committing" => call[t].seen.content = "readme"
    BY <1>1, <1>2, <2>1 DEF Knows
  <2> QED BY <1>1, <1>3, <1>4, <2>2, <2>3, <2>4, <2>5, <2>6, <2>7 DEF Knows
<1>6. ASSUME lock'[c] = t PROVE lock[c] = t /\ setup'[c] = setup[c]
  <2>1. lock[c] = t
    BY <1>1, <1>6, LockShape
  <2>2. t # None /\ ~ Moves(t)
    BY NoneIsNothing DEF Moves
  <2> QED BY <1>1, <1>6, <2>1, <2>2, SetupShape DEF Asked, Approved, EditedBy, Begun
<1>7. Connected(t)' => Edits(t, c, k, v)'
  BY <1>6 DEF Connected, IInv, CallOK, Edits
<1> QED BY <1>5, <1>7 DEF CallOK

\* What the call that acts knows afterwards: its own request first, then what it read.
LEMMA BeginKnows ==
  ASSUME TypeOK, IInv, [Next]_vars, NEW s \in Call, Begins(s)
  PROVE  CallOK(s)'
<1>1. ASSUME NEW c \in Company, BeginApproval(s, c) PROVE CallOK(s)'
  <2>1. /\ call'[s] = [pc |-> "verifying", company |-> c, key |-> None, view |-> setup[c],
                        seen |-> NoRepository]
        /\ setup' = setup
    BY <1>1 DEF BeginApproval, Enter, TypeOK
  <2>2. Knows(s, c, None, setup[c])'
    BY <1>1, <2>1 DEF BeginApproval, Knows, Working, Later
  <2>3. Edits(s, c, None, setup[c])'
    BY <1>1, <2>1 DEF BeginApproval, Edits, Working, Later
  <2> QED BY <2>1, <2>2, <2>3 DEF CallOK
<1>2. ASSUME NEW c \in Company, NEW k \in Key, Resume(s, c, k) PROVE CallOK(s)'
  <2>1. /\ call'[s] = [pc |-> "checking", company |-> c, key |-> k, view |-> setup[c],
                        seen |-> NoRepository]
        /\ setup' = setup /\ setup[c].project[k].status = "initializing"
    BY <1>2 DEF Resume, Enter, TypeOK
  <2>2. setup[c].org # None /\ setup[c].project[k].name # None /\ setup[c].project[k].id # 0
    BY <2>1 DEF IInv, SetupTrue, ProjectOK
  <2>3. Knows(s, c, k, setup[c])'
    BY <2>1, <2>2 DEF Knows, Working, Later
  <2>4. Edits(s, c, k, setup[c])'
    BY <2>1 DEF Edits, Working, Later
  <2> QED BY <2>1, <2>3, <2>4 DEF CallOK
<1>3. ASSUME NEW c \in Company, NEW k \in Key, NEW n \in Name, BeginProject(s, c, k, n)
      PROVE  CallOK(s)'
  <2> DEFINE v == setup'[c]
  <2>1. /\ call'[s] = [pc |-> "creating", company |-> c, key |-> k, view |-> v,
                        seen |-> NoRepository]
        /\ created' = created
    BY <1>3 DEF BeginProject, Enter, TypeOK, history
  <2>2a. EditedBy(s, c, k)
    BY <1>3, BeginEdits
  <2>2b. call[s].pc = "idle"
    BY <1>3 DEF BeginProject, Enter, Idle
  <2>2. EditedBy(s, c, k) /\ call[s].pc = "idle"
    BY <2>2a, <2>2b
  <2>3. Begun(s, c, k, setup[c].project[k], v.project[k]) /\ Edited(c, k)
    BY <2>2 DEF EditedBy, RecordedNow, Finished
  <2>4. \A x \in created' : x.company # c \/ x.key # k
    BY <2>1, <2>3 DEF Begun, IInv, WorkIsRecorded
  <2>5. Knows(s, c, k, call[s].view)'
    BY <2>1, <2>3, <2>4 DEF Knows, Working, Later, Begun, Edited
  <2>6. Edits(s, c, k, call[s].view)'
    BY <2>1 DEF Edits, Working, Later
  <2> QED BY <2>1, <2>5, <2>6 DEF CallOK
<1> QED BY <1>1, <1>2, <1>3 DEF Begins

\* A call goes on: its company and key stay, and it moves to pc with view.
Goes(s, pc, view, seen) ==
  call'[s] = [pc |-> pc, company |-> call[s].company, key |-> call[s].key, view |-> view,
              seen |-> seen]

LEMMA ContinueGoes ==
  ASSUME TypeOK, NEW s \in Call, NEW pc, NEW view, NEW seen, Continue(s, pc, view, seen)
  PROVE  Goes(s, pc, view, seen) /\ lock' = lock
BY DEF Continue, Goes, TypeOK

\* What a call knows when it has verified the organization, made the repository or
\* recorded it.
LEMMA EarlyKnows ==
  ASSUME TypeOK, IInv, [Next]_vars, NEW s \in Call, call'[s].pc # "idle",
         Verify(s) \/ Create(s) \/ RecordRepository(s)
  PROVE  CallOK(s)'
<1>c. PICK c, k, v : c = call[s].company /\ k = call[s].key /\ v = call[s].view
  OBVIOUS
<1> USE <1>c
<1>0. /\ call[s].pc # "idle" /\ c \in Company /\ Knows(s, c, k, v) /\ v \in Setup
      /\ Connected(s) => Edits(s, c, k, v)
  <2>1. call[s].pc # "idle"
    BY DEF Verify, Create, RecordRepository
  <2>2. Knows(s, c, k, v) /\ (Connected(s) => Edits(s, c, k, v))
    BY <2>1 DEF IInv, CallOK
  <2> QED BY <2>1, <2>2 DEF Knows, TypeOK
<1>1. ~ Leave(s)
  BY DEF Leave, Idle, TypeOK
<1>2. ASSUME NEW pc, NEW view, Goto(s, pc, view)
      PROVE  Goes(s, pc, view, NoRepository) /\ lock' = lock
  BY <1>2, ContinueGoes DEF Goto
<1>3. CASE Verify(s)
  <2>w. PICK w : w = WithOrganization(v, v.slug, installed[v.slug])
    OBVIOUS
  <2> USE <2>w
  <2>1. Goes(s, "approving", w, NoRepository) /\ UNCHANGED <<lock, setup>>
        /\ installed[v.slug] # None /\ call[s].pc = "verifying"
    BY <1>1, <1>2, <1>3 DEF Verify, Refused
  <2>2. w.slug = v.slug /\ w.project = v.project /\ w.org = installed[v.slug]
    BY DEF WithOrganization
  <2>3. Knows(s, c, k, w)'
    BY <1>0, <2>1, <2>2 DEF Goes, Knows, Working, Later
  <2>4. Connected(s) => Edits(s, c, k, w)'
    BY <1>0, <2>1, <2>2 DEF Goes, Edits, Working, Later
  <2> QED BY <2>1, <2>3, <2>4 DEF CallOK, Goes, Connected
<1>4. CASE Create(s)
  <2>w. PICK w : w = WithProject(v, k, "initializing", v.project[k].name, lastId + 1)
    OBVIOUS
  <2> USE <2>w
  <2>1. /\ Goes(s, "recording", w, NoRepository) /\ UNCHANGED <<lock, setup>>
        /\ call[s].pc = "creating"
        /\ [id |-> lastId + 1, company |-> c, key |-> k, org |-> v.org] \in created'
    BY <1>1, <1>2, <1>4 DEF Create, Fault
  <2>2. k \in Key /\ v.project \in [Key -> Project]
    BY <1>0, <2>1 DEF Knows, Working, Setup
  <2>3. /\ w.slug = v.slug /\ w.org = v.org
        /\ w.project[k] = [status |-> "initializing", name |-> v.project[k].name, id |-> lastId + 1]
        /\ \A j \in Key : j # k => w.project[j] = v.project[j]
    BY <2>2 DEF WithProject
  <2>4. lastId + 1 # 0
    BY DEF TypeOK
  <2>5. call'[s] = [pc |-> "recording", company |-> c, key |-> k, view |-> w, seen |-> NoRepository]
    BY <2>1 DEF Goes
  <2>6. /\ v.org # None /\ v.org = setup[c].org /\ v.slug = setup[c].slug
        /\ v.project[k].name # None /\ v.project[k].name = setup[c].project[k].name
        /\ setup[c].project[k].status = "creating"
    BY <1>0, <2>1 DEF Knows, Working
  <2> HIDE <2>w, <1>c
  <2>7. Knows(s, c, k, w)'
    BY <1>0, <2>1, <2>2, <2>3, <2>4, <2>5, <2>6 DEF Knows, Working, Later
  <2>8. Connected(s) => Edits(s, c, k, w)'
    BY <1>0, <2>1, <2>3, <2>5 DEF Edits, Working, Later
  <2> QED BY <1>c, <2>1, <2>5, <2>7, <2>8 DEF CallOK, Connected
<1>5. CASE RecordRepository(s)
  <2>1. /\ Goes(s, "checking", v, NoRepository) /\ call[s].pc = "recording" /\ setup'[c] = v
    BY <1>0, <1>1, <1>2, <1>5 DEF RecordRepository, Refused, Fault, Save, TypeOK
  <2>2. Knows(s, c, k, v)'
    BY <1>0, <2>1 DEF Goes, Knows, Working, Later
  <2>3. Edits(s, c, k, v)'
    BY <2>1 DEF Goes, Edits, Working, Later
  <2> QED BY <2>1, <2>2, <2>3 DEF CallOK, Goes
<1> QED BY <1>3, <1>4, <1>5

\* initialize() and the registration: the state the call edits stays, and so does what it
\* knows of its request, but for what the step itself adds.
LEMMA InitializeKnows ==
  ASSUME TypeOK, IInv, [Next]_vars, NEW s \in Call, call'[s].pc # "idle",
         CheckRepository(s) \/ ReadBranch(s) \/ Judge(s) \/ Commit(s)
  PROVE  CallOK(s)'
<1>c. PICK c, k, v : c = call[s].company /\ k = call[s].key /\ v = call[s].view
  OBVIOUS
<1>0. /\ call[s].pc \in {"checking", "reading", "judging", "committing"} /\ Knows(s, c, k, v)
      /\ v \in Setup
      /\ Connected(s) => Edits(s, c, k, v)
  BY <1>c DEF CheckRepository, ReadBranch, Judge, Commit, IInv, CallOK, TypeOK
<1>1. /\ c \in Company /\ k \in Key /\ v.org # None /\ v.org = setup[c].org /\ v.slug = setup[c].slug
      /\ v.project[k].name # None /\ v.project[k].name = setup[c].project[k].name
      /\ v.project[k].status = "initializing"
      /\ setup[c].project[k].status \in {"initializing", "ready"}
      /\ v.project[k].id # 0 /\ v.project[k].id = setup[c].project[k].id
  BY <1>0 DEF Knows, Working, Later
<1>2. ~ Leave(s)
  BY DEF Leave, Idle, TypeOK
<1>3. PICK pc, seen :
        /\ Goes(s, pc, v, seen) /\ UNCHANGED <<lock, setup, displaced>>
        /\ \/ pc = "reading" /\ Same(v, k) /\ UNCHANGED repository
           \/ /\ pc = "judging" /\ seen = Found(v, k) /\ seen.id # 0 /\ call[s].pc = "reading"
           \/ /\ pc = "committing" /\ seen = call[s].seen /\ seen.content = "readme"
              /\ call[s].pc = "judging"
           \/ /\ pc = "registering" /\ call[s].pc \in {"judging", "committing"}
              /\ Carrying(s, call[s].seen.id) \in initialized'
  <2>1. CASE CheckRepository(s)
    <3>1. Goto(s, "reading", v) /\ Same(v, k) /\ UNCHANGED <<setup, displaced, repository>>
      BY <1>c, <1>2, <2>1 DEF CheckRepository, Refused, history, github
    <3> QED BY <1>c, <3>1, ContinueGoes DEF Goto
  <2>2. CASE ReadBranch(s)
    <3>1. /\ GotoSeen(s, "judging", Found(v, k)) /\ Found(v, k).id # 0
          /\ UNCHANGED <<setup, displaced>> /\ call[s].pc = "reading"
      BY <1>c, <1>2, <2>2 DEF ReadBranch, Refused, history
    <3> QED BY <1>c, <3>1, ContinueGoes DEF GotoSeen
  <2>3. CASE Judge(s)
    <3>1. UNCHANGED <<setup, displaced>> /\ call[s].pc = "judging"
      BY <2>3 DEF Judge
    <3>2. CASE call[s].seen.content = "readme" /\ GotoSeen(s, "committing", call[s].seen)
      BY <1>c, <3>1, <3>2, ContinueGoes DEF GotoSeen
    <3>3. CASE Carrying(s, call[s].seen.id) \in initialized' /\ Goto(s, "registering", v)
      BY <1>c, <3>1, <3>3, ContinueGoes DEF Goto
    <3> QED BY <1>c, <1>2, <2>3, <3>2, <3>3 DEF Judge, Refused
  <2>4. CASE Commit(s)
    <3>1. /\ Goto(s, "registering", v) /\ Carrying(s, call[s].seen.id) \in initialized'
          /\ UNCHANGED <<setup, displaced>> /\ call[s].pc = "committing"
      BY <1>c, <1>2, <2>4 DEF Commit, Fault
    <3> QED BY <1>c, <3>1, ContinueGoes DEF Goto
  <2> QED BY <2>1, <2>2, <2>3, <2>4
<1>4. call'[s].pc = pc /\ call'[s].seen = seen /\ pc \in Later /\ pc # "finishing"
  BY <1>3 DEF Goes, Later
<1>5. pc = "reading" => At(v, k)'.id = v.project[k].id
  BY <1>1, <1>3 DEF Same, Found, NoRepository, At
<1>6. pc \in {"judging", "committing"} =>
        seen.id # 0 /\ (seen.id = v.project[k].id \/ <<c, k>> \in displaced)
  <2>1. CASE pc = "judging"
    <3>1. seen = At(v, k) /\ seen.id # 0
      BY <1>3, <2>1 DEF Found, NoRepository
    <3> QED BY <1>c, <1>0, <1>3, <2>1, <3>1 DEF Knows
  <2>2. CASE pc = "committing"
    BY <1>c, <1>0, <1>3, <2>2 DEF Knows
  <2> QED BY <2>1, <2>2
<1>7. pc = "registering" => Filled(c, k, v.project[k].id)'
  <2> SUFFICES ASSUME pc = "registering" PROVE Filled(c, k, v.project[k].id)'
    OBVIOUS
  <2>1. call[s].seen.id = v.project[k].id \/ <<c, k>> \in displaced
    BY <1>c, <1>0, <1>3 DEF Knows
  <2>2. [id |-> call[s].seen.id, company |-> c, key |-> k] \in initialized'
    BY <1>c, <1>3 DEF Carrying
  <2> QED BY <1>3, <2>1, <2>2 DEF Filled, FilledFor
<1>8. Knows(s, c, k, v)'
  <2>1. /\ v.org = setup'[c].org /\ v.slug = setup'[c].slug
        /\ v.project[k].name = setup'[c].project[k].name
        /\ setup'[c].project[k].status \in {"initializing", "ready"}
        /\ v.project[k].id = setup'[c].project[k].id
    BY <1>1, <1>3
  <2> QED BY <1>1, <1>3, <1>4, <1>5, <1>6, <1>7, <2>1 DEF Knows, Working, Later
<1>9. Connected(s) => Edits(s, c, k, v)'
  <2> SUFFICES ASSUME Connected(s) PROVE Edits(s, c, k, v)'
    OBVIOUS
  <2>1. call[s].pc \in Working
    BY <1>0 DEF Working, Later
  <2>2. \A j \in Key : j # k => v.project[j] = setup'[c].project[j]
    BY <1>0, <1>3, <2>1 DEF Edits
  <2>3. call'[s].pc \notin {"verifying", "approving"}
    BY <1>4 DEF Later
  <2> QED BY <2>2, <2>3 DEF Edits
<1> QED BY <1>c, <1>3, <1>8, <1>9 DEF CallOK, Goes, Connected

LEMMA RegisterKnows ==
  ASSUME TypeOK, IInv, [Next]_vars, NEW s \in Call, call'[s].pc # "idle", Register(s)
  PROVE  CallOK(s)'
<1>c. PICK c, k, v : c = call[s].company /\ k = call[s].key /\ v = call[s].view
  OBVIOUS
<1>0. /\ call[s].pc = "registering" /\ Knows(s, c, k, v) /\ v \in Setup
      /\ Connected(s) => Edits(s, c, k, v)
  BY <1>c DEF Register, IInv, CallOK, TypeOK
<1>1. ~ Leave(s)
  BY DEF Leave, Idle, TypeOK
<1>w. PICK w : w = WithProject(v, k, "ready", v.project[k].name, v.project[k].id)
  OBVIOUS
<1>2. /\ Goes(s, "finishing", w, NoRepository)
      /\ UNCHANGED <<lock, setup, initialized, displaced>>
  <2>1. Goto(s, "finishing", w) /\ UNCHANGED <<setup, initialized, displaced>>
    BY <1>c, <1>w, <1>1 DEF Register, Fault, history
  <2> QED BY <2>1, ContinueGoes DEF Goto
<1>3. /\ c \in Company /\ k \in Key
      /\ v.org # None /\ v.org = setup[c].org /\ v.slug = setup[c].slug
      /\ v.project[k].name # None /\ v.project[k].name = setup[c].project[k].name
      /\ setup[c].project[k].status \in {"initializing", "ready"}
      /\ v.project[k].id # 0 /\ v.project[k].id = setup[c].project[k].id
      /\ Filled(c, k, v.project[k].id)
  BY <1>0 DEF Knows, Working, Later
<1>4. /\ w.slug = v.slug /\ w.org = v.org
      /\ w.project[k] = [status |-> "ready", name |-> v.project[k].name, id |-> v.project[k].id]
      /\ \A j \in Key : j # k => w.project[j] = v.project[j]
  BY <1>w, <1>0, <1>3 DEF WithProject, Setup
<1>5. application'[c][k] # None
  <2>1. application'[c][k] = Registered(c, k, <<v.slug, v.project[k].name>>)
    BY <1>c, <1>3 DEF Register, TypeOK
  <2>2. v.slug \in Slug /\ v.project[k].name \in Name
    BY <1>0, <1>3 DEF Setup, Project, IInv, SetupTrue
  <2>3. <<v.slug, v.project[k].name>> \in Slug \X Name
    BY <2>2
  <2>4. <<v.slug, v.project[k].name>> # None
    BY <2>3, NoneIsNothing
  <2> QED BY <2>1, <2>4 DEF Registered
<1>6. call'[s].pc = "finishing"
  BY <1>2 DEF Goes
<1>7. Filled(c, k, w.project[k].id)'
  BY <1>3, <1>4, FilledKept
<1>8. Knows(s, c, k, w)'
  <2>1. /\ w.org # None /\ w.org = setup'[c].org /\ w.slug = setup'[c].slug
        /\ w.project[k].name # None /\ w.project[k].name = setup'[c].project[k].name
        /\ w.project[k].status = "ready"
        /\ w.project[k].id # 0 /\ w.project[k].id = setup'[c].project[k].id
    BY <1>2, <1>3, <1>4
  <2>2. setup'[c].project[k].status \in {"initializing", "ready"}
    BY <1>2, <1>3
  <2> QED BY <1>3, <1>5, <1>6, <1>7, <2>1, <2>2 DEF Knows, Working, Later
<1>9. Connected(s) => Edits(s, c, k, w)'
  BY <1>0, <1>2, <1>4, <1>6 DEF Edits, Working, Later
<1> QED BY <1>c, <1>2, <1>8, <1>9 DEF CallOK, Goes, Connected

LEMMA StepKnows ==
  ASSUME TypeOK, IInv, [Next]_vars, NEW s \in Call, Proceed(s), call'[s].pc # "idle"
  PROVE  CallOK(s)'
<1>1. ~ Leave(s)
  BY DEF Leave, Idle, TypeOK
<1>2. CASE Approve(s) \/ CreateRefused(s) \/ CommitRefused(s) \/ Finish(s)
  BY <1>1, <1>2 DEF Approve, CreateRefused, CommitRefused, Finish, Refused, Fault
<1> QED BY <1>2, EarlyKnows, InitializeKnows, RegisterKnows DEF Proceed

\* The calls a step leaves alone: all but the one that acts.
LEMMA OneActs ==
  ASSUME TypeOK, [Next]_vars
  PROVE  \/ call' = call
         \/ \E s \in Call : /\ Begins(s) \/ (Proceed(s) /\ call'[s].pc # "idle") \/ call'[s] = Idle
                            /\ \A t \in Call \ {s} : call'[t] = call[t]
<1>1. CASE UNCHANGED vars \/ Customer \/ \E c \in Company, g \in Slug : RequestOrganization(c, g)
  BY <1>1 DEF vars, Customer, Install, CustomerCommits, CustomerCreates, CustomerRemoves,
              Change, RequestOrganization
<1>2. ASSUME NEW s \in Call, Begins(s) PROVE \A t \in Call \ {s} : call'[t] = call[t]
  BY <1>2 DEF Begins, BeginApproval, Resume, BeginProject, Enter, TypeOK
<1>3. ASSUME NEW s \in Call, Leave(s)
      PROVE  call'[s] = Idle /\ \A t \in Call \ {s} : call'[t] = call[t]
  BY <1>3 DEF Leave, TypeOK
<1>4. ASSUME NEW s \in Call, NEW pc \in Position \ {"idle"}, NEW view, NEW seen,
             Continue(s, pc, view, seen)
      PROVE  call'[s].pc # "idle" /\ \A t \in Call \ {s} : call'[t] = call[t]
  BY <1>4 DEF Continue, TypeOK
<1>6. ASSUME NEW s \in Call, Fails(s) PROVE Leave(s)
  BY <1>6 DEF Fails, Fault
<1>7. ASSUME NEW s \in Call, LoseConnection(s) PROVE call' = call
  BY <1>7 DEF LoseConnection
<1> QED BY NextSplits, StepMoves, <1>1, <1>2, <1>3, <1>4, <1>6, <1>7

LEMMA NextCalls ==
  ASSUME TypeOK, IInv, [Next]_vars
  PROVE  \A t \in Call : CallOK(t)'
<1>1. CASE call' = call
  BY <1>1, OthersKnow
<1>2. ASSUME NEW s \in Call, call'[s] = Idle PROVE CallOK(s)'
  BY <1>2 DEF CallOK, Idle
<1> QED BY <1>1, <1>2, OneActs, BeginKnows, StepKnows, OthersKnow

\* Only a request that was absent gets a new creator.
LEMMA NextCreator ==
  ASSUME TypeOK, IInv, [Next]_vars
  PROVE  OneCreator'
<1> DEFINE Creating(pc) == pc \in {"creating", "recording"}
<1>1. CASE call' = call
  BY <1>1 DEF IInv, OneCreator
<1>2. ASSUME NEW s \in Call, \A t \in Call \ {s} : call'[t] = call[t],
             Creating(call'[s].pc) => /\ Creating(call[s].pc)
                                      /\ call'[s].company = call[s].company
                                      /\ call'[s].key = call[s].key
      PROVE  OneCreator'
  BY <1>2 DEF IInv, OneCreator
<1>3. ASSUME NEW s \in Call, Begins(s), \A t \in Call \ {s} : call'[t] = call[t]
      PROVE  OneCreator'
  <2>1. ASSUME NEW c \in Company,
               BeginApproval(s, c) \/ \E k \in Key : Resume(s, c, k)
        PROVE  ~ Creating(call'[s].pc)
    BY <2>1 DEF BeginApproval, Resume, Enter, TypeOK
  <2>2. ASSUME NEW c \in Company, NEW k \in Key, NEW n \in Name, BeginProject(s, c, k, n)
        PROVE  OneCreator'
    <3>1. setup[c].project[k].status = "absent" /\ call'[s].company = c /\ call'[s].key = k
      BY <2>2 DEF BeginProject, Requests, Enter, TypeOK
    <3>2. ASSUME NEW t \in Call \ {s}, Creating(call[t].pc)
          PROVE  call[t].company # c \/ call[t].key # k
      BY <3>1, <3>2 DEF IInv, CallOK, Knows
    <3> QED BY <1>3, <3>1, <3>2 DEF IInv, OneCreator
  <2> QED BY <1>2, <1>3, <2>1, <2>2 DEF Begins
<1>4. ASSUME NEW s \in Call, Proceed(s), call'[s].pc # "idle", Creating(call'[s].pc)
      PROVE  /\ Creating(call[s].pc)
             /\ call'[s].company = call[s].company /\ call'[s].key = call[s].key
  <2>1. ~ Leave(s)
    BY <1>4 DEF Leave, Idle, TypeOK
  <2>2. CASE Create(s)
    BY <2>1, <2>2 DEF Create, Goto, Continue, Fault, TypeOK
  <2>3. CASE ~ Create(s)
    <3> DEFINE Past == \E pc \in Position \ {"creating", "recording"} :
                         \E view, seen : Continue(s, pc, view, seen)
    <3>1. CASE Verify(s) \/ Approve(s) \/ CreateRefused(s) \/ RecordRepository(s)
      <4>1. Past
        BY <2>1, <3>1 DEF Verify, Approve, CreateRefused, RecordRepository, Refused, Fault, Goto,
                          Position
      <4> QED BY <1>4, <4>1 DEF Continue, TypeOK
    <3>2. CASE CheckRepository(s) \/ ReadBranch(s) \/ Judge(s)
      <4>1. Past
        BY <2>1, <3>2 DEF CheckRepository, ReadBranch, Judge, Refused, Goto, GotoSeen, Position
      <4> QED BY <1>4, <4>1 DEF Continue, TypeOK
    <3>3. CASE Commit(s) \/ CommitRefused(s) \/ Register(s) \/ Finish(s)
      <4>1. Past
        BY <2>1, <3>3 DEF Commit, CommitRefused, Register, Finish, Refused, Fault, Goto, Position
      <4> QED BY <1>4, <4>1 DEF Continue, TypeOK
    <3> QED BY <1>4, <2>3, <3>1, <3>2, <3>3 DEF Proceed
  <2> QED BY <2>2, <2>3
<1>5. ASSUME NEW s \in Call, call'[s] = Idle PROVE ~ Creating(call'[s].pc)
  BY <1>5 DEF Idle
<1> QED BY <1>1, <1>2, <1>3, <1>4, <1>5, OneActs

LEMMA NextInv == TypeOK /\ IInv /\ [Next]_vars => IInv'
<1> SUFFICES ASSUME TypeOK, IInv, [Next]_vars PROVE IInv'
  OBVIOUS
<1>1. WorkIsRecorded'
  BY NextCreated, NextApplications, NextRepositories DEF WorkIsRecorded
<1> QED BY <1>1, NextLock, NextSetup, NextNames, NextCalls, NextCreator, NextCreated, NextOrganizations DEF IInv

-----------------------------------------------------------------------------
(***************************************************************************)
(* The theorems.                                                           *)
(***************************************************************************)
LEMMA Invariance == Spec => [](TypeOK /\ IInv)
<1>1. TypeOK /\ IInv /\ [Next]_vars => (TypeOK /\ IInv)'
  BY NextType, NextInv
<1> QED BY InitInv, <1>1, PTL DEF Spec

\* Every variable keeps its type: postgres-project-store.ts writes whole states only.
THEOREM TypeCorrect == Spec => []TypeOK
BY Invariance, PTL

\* createProject never makes a second repository for a request key, for any number of
\* calls, retries, lost locks and lost replies.
THEOREM OneRepository == Spec => []OneRepositoryPerRequest
<1>1. IInv => OneRepositoryPerRequest
  BY DEF IInv
<1> QED BY <1>1, Invariance, PTL

\* The repository id a project records is one that create() made for it.
THEOREM NothingAdopted == Spec => []RecordedIsCreated
<1>1. IInv => RecordedIsCreated
  BY DEF IInv, SetupTrue, ProjectOK, RecordedIsCreated
<1> QED BY <1>1, Invariance, PTL

\* approveOrganization verifies an organization for one company.
THEOREM OneCompany == Spec => []OrganizationHasOneCompany
<1>1. IInv => OrganizationHasOneCompany
  BY DEF IInv
<1> QED BY <1>1, Invariance, PTL

\* A project is ready when its application is registered under its repository's address
\* and that repository was initialized, whatever is retried, lost or changed by the
\* customer; only a repository put in its place between the comparison of its id and the
\* reading of its branch is initialized instead.
THEOREM ReadyComplete == Spec => []ReadyIsComplete
<1>1. IInv => ReadyIsComplete
  BY DEF IInv, SetupTrue, ProjectOK, WorkIsRecorded, Filled, ReadyIsComplete
<1> QED BY <1>1, Invariance, PTL

\* No save, by a call with or without its lock, takes a company's setup back.
THEOREM OnlyAdvances == Spec => SetupOnlyAdvances
<1> DEFINE Onward == \A c \in Company :
       /\ setup[c].org # None => setup'[c].org = setup[c].org /\ setup'[c].slug = setup[c].slug
       /\ \A k \in Key :
            LET p == setup[c].project[k]
                q == setup'[c].project[k] IN
            /\ Rank(p.status) <= Rank(q.status)
            /\ p.name # None => q.name = p.name
            /\ p.id # 0 => q.id = p.id
<1>1. TypeOK /\ IInv /\ [Next]_vars => Onward
  <2> SUFFICES ASSUME TypeOK, IInv, [Next]_vars, NEW c \in Company PROVE
       /\ setup[c].org # None => setup'[c].org = setup[c].org /\ setup'[c].slug = setup[c].slug
       /\ \A k \in Key :
            LET p == setup[c].project[k]
                q == setup'[c].project[k] IN
            /\ Rank(p.status) <= Rank(q.status)
            /\ p.name # None => q.name = p.name
            /\ p.id # 0 => q.id = p.id
    OBVIOUS
  <2>1. Advances(c) /\ TypeOK'
    BY StepAdvances, NextType
  <2>2. ASSUME NEW k \in Key
        PROVE  Rank(setup[c].project[k].status) <= Rank(setup'[c].project[k].status)
    <3>1. /\ setup[c].project[k].status \in {"absent", "creating", "initializing", "ready"}
          /\ setup'[c].project[k].status \in {"absent", "creating", "initializing", "ready"}
      BY <2>1 DEF TypeOK, Setup, Project
    <3>2. Onwards(setup[c].project[k], setup'[c].project[k])
      BY <2>1 DEF Advances
    <3> QED BY <3>1, <3>2 DEF Rank, Onwards
  <2> QED BY <2>1, <2>2 DEF Advances, Onwards
<1>2. [](TypeOK /\ IInv) /\ [][Next]_vars => [][Onward]_vars
  BY <1>1, PTL
<1> QED BY <1>2, Invariance, PTL DEF Spec, SetupOnlyAdvances

\* What the customer commits beyond a lone README.md is never overwritten, in whatever
\* repository has the name and whenever it arrives: the branch is moved only from the
\* commit that was read, and a repository is made only under a free name.
THEOREM WorkKept == Spec => CustomerWorkKept
<1> DEFINE Kept == \A o \in Org, n \in Name :
       repository[o][n].content \in {"template", "changed"} /\ changes' = changes =>
         repository'[o][n] = repository[o][n]
<1>1. TypeOK /\ IInv /\ [Next]_vars => Kept
  <2> SUFFICES ASSUME TypeOK, IInv, [Next]_vars, NEW o \in Org, NEW n \in Name,
                      repository[o][n].content \in {"template", "changed"}, changes' = changes
               PROVE  repository'[o][n] = repository[o][n]
    OBVIOUS
  <2>1. ASSUME NEW s \in Call, Create(s) PROVE repository'[o][n] = repository[o][n]
    <3>1. At(call[s].view, call[s].key).id = 0
      BY <2>1 DEF Create
    <3>2. repository[o][n].id # 0
      BY DEF IInv, WorkIsRecorded
    <3> QED BY <2>1, <3>1, <3>2 DEF Create, At, TypeOK
  <2>2. ASSUME NEW s \in Call, Commit(s) PROVE repository'[o][n] = repository[o][n]
    BY <2>2, CommitReplaces DEF Commit, At, TypeOK
  <2>3. ASSUME NEW a \in Org, NEW b \in Name,
               CustomerCommits(a, b) \/ CustomerCreates(a, b) \/ CustomerRemoves(a, b)
        PROVE  FALSE
    BY <2>3 DEF CustomerCommits, CustomerCreates, CustomerRemoves, Change, TypeOK
  <2> QED BY <2>1, <2>2, <2>3, RepositoryShape
<1>2. [](TypeOK /\ IInv) /\ [][Next]_vars => [][Kept]_vars
  BY <1>1, PTL
<1> QED BY <1>2, Invariance, PTL DEF Spec, CustomerWorkKept

-----------------------------------------------------------------------------
(***************************************************************************)
(* Onboarding.                                                             *)
(***************************************************************************)

\* Repository ids are handed out in order; the template is put on the repository of a
\* request that has recorded it.
IdsInOrder == \A x \in created : x.id <= lastId

FilledIsRecorded ==
  \A x \in initialized : setup[x.company].project[x.key].status \in {"initializing", "ready"}

\* An application is registered after initialize() is done for its request.
RegisteredIsFilled ==
  \A c \in Company, k \in Key : application[c][k] # None => FilledFor(c, k) # {}

MadeInv == IdsInOrder /\ FilledIsRecorded /\ RegisteredIsFilled

Quiet == UNCHANGED <<application, created, initialized>>

\* initialize() puts the template on the branch, or finds it there.
Fills(s) ==
  /\ call[s].pc \in {"judging", "committing"}
  /\ initialized' = initialized \cup {Carrying(s, call[s].seen.id)}
  /\ UNCHANGED <<setup, application, created, lastId>>

\* The steps by which a request comes further.
LEMMA StepKinds ==
  ASSUME [Next]_vars
  PROVE  \/ \E s \in Call : Create(s) \/ Fills(s) \/ Register(s)
         \/ Quiet /\ \E s \in Call : Approve(s) \/ RecordRepository(s) \/ Finish(s)
         \/ Quiet /\ \E s \in Call, c \in Company, k \in Key, n \in Name : BeginProject(s, c, k, n)
         \/ Quiet /\ \E c \in Company, g \in Slug : RequestOrganization(c, g)
         \/ Quiet /\ UNCHANGED setup
<1>1. CASE UNCHANGED vars \/ Customer
  BY <1>1 DEF vars, Customer, Install, CustomerCommits, CustomerCreates, CustomerRemoves, Change,
              history, Quiet
<1>2. ASSUME NEW c \in Company, NEW g \in Slug, RequestOrganization(c, g) PROVE Quiet
  BY <1>2 DEF RequestOrganization, history, Quiet
<1>3. ASSUME NEW s \in Call, Begins(s)
      PROVE  \/ Quiet /\ UNCHANGED setup
             \/ Quiet /\ \E c \in Company, k \in Key, n \in Name : BeginProject(s, c, k, n)
  BY <1>3 DEF Begins, BeginApproval, Resume, BeginProject, history, Quiet
<1>4. ASSUME NEW s \in Call,
             \/ Verify(s) \/ CreateRefused(s) \/ CheckRepository(s) \/ ReadBranch(s)
             \/ CommitRefused(s) \/ Fails(s) \/ LoseConnection(s)
      PROVE  Quiet /\ UNCHANGED setup
  BY <1>4 DEF Verify, CreateRefused, CheckRepository, ReadBranch, CommitRefused, Fails,
              LoseConnection, history, Quiet
<1>6. ASSUME NEW s \in Call, Judge(s) \/ Commit(s)
      PROVE  Fills(s) \/ (Quiet /\ UNCHANGED setup)
  BY <1>6 DEF Judge, Commit, Fills, github, Quiet
<1>5. ASSUME NEW s \in Call, Approve(s) \/ RecordRepository(s) \/ Finish(s) PROVE Quiet
  BY <1>5 DEF Approve, RecordRepository, Finish, history, Quiet
<1> QED BY NextSplits, <1>1, <1>2, <1>3, <1>4, <1>5, <1>6 DEF Proceed

\* A request whose repository is initialized has recorded it.
LEMMA FillsFor ==
  ASSUME TypeOK, IInv, NEW s \in Call, Fills(s),
         NEW c, NEW k, c = call[s].company, k = call[s].key
  PROVE  /\ c \in Company /\ k \in Key
         /\ setup[c].project[k].status \in {"initializing", "ready"}
         /\ FilledFor(c, k)' # {}
         /\ \A d \in Company, j \in Key : d # c \/ j # k => FilledFor(d, j)' = FilledFor(d, j)
<1>1. Knows(s, c, k, call[s].view) /\ call[s].pc \in {"judging", "committing"}
  BY DEF Fills, IInv, CallOK
<1>2. c \in Company /\ k \in Key /\ setup[c].project[k].status \in {"initializing", "ready"}
  BY <1>1 DEF Knows, Working, Later
<1>3. initialized' = initialized \cup {[id |-> call[s].seen.id, company |-> c, key |-> k]}
  BY DEF Fills, Carrying
<1>4. FilledFor(c, k)' # {}
  <2>1. [id |-> call[s].seen.id, company |-> c, key |-> k] \in FilledFor(c, k)'
    BY <1>3 DEF FilledFor
  <2> QED BY <2>1
<1>5. \A d \in Company, j \in Key : d # c \/ j # k => FilledFor(d, j)' = FilledFor(d, j)
  BY <1>3 DEF FilledFor
<1> QED BY <1>2, <1>4, <1>5

LEMMA NextMade ==
  ASSUME TypeOK, IInv, MadeInv, [Next]_vars
  PROVE  MadeInv'
<1>1. IdsInOrder'
  <2>0. /\ lastId \in Nat /\ (lastId' = lastId \/ lastId' = lastId + 1)
        /\ \A x \in created : x.id \in Nat /\ x.id <= lastId
    BY RepositoryShape
    DEF TypeOK, MadeInv, IdsInOrder, Create, Commit, CustomerCommits, CustomerCreates, CustomerRemoves
  <2>1. CASE created' = created
    BY <2>0, <2>1 DEF IdsInOrder
  <2>2. ASSUME NEW s \in Call, Create(s) PROVE IdsInOrder'
    <3>1. PICK y : created' = created \cup {y} /\ y.id = lastId + 1 /\ lastId' = lastId + 1
      BY <2>2 DEF Create
    <3> QED BY <2>0, <3>1 DEF IdsInOrder
  <2> QED BY <2>1, <2>2, StepKinds DEF Quiet, Fills, Register, history
<1>2. ASSUME NEW c \in Company, NEW k \in Key, setup[c].project[k].status \in {"initializing", "ready"}
      PROVE  setup'[c].project[k].status \in {"initializing", "ready"}
  BY <1>2, StepAdvances DEF Advances, Onwards
<1>3. FilledIsRecorded'
  <2>1. ASSUME NEW x \in initialized
        PROVE  setup'[x.company].project[x.key].status \in {"initializing", "ready"}
    <3>1. x.company \in Company /\ x.key \in Key
      BY DEF TypeOK
    <3> QED BY <1>2, <3>1 DEF MadeInv, FilledIsRecorded
  <2>2. CASE initialized' = initialized
    BY <2>1, <2>2 DEF FilledIsRecorded
  <2>3. ASSUME NEW s \in Call, Fills(s) PROVE FilledIsRecorded'
    <3>1. setup'[call[s].company].project[call[s].key].status \in {"initializing", "ready"}
      BY <1>2, <2>3, FillsFor
    <3> QED BY <2>1, <2>3, <3>1 DEF FilledIsRecorded, Fills, Carrying
  <2> QED BY <2>2, <2>3, StepKinds DEF Quiet, Create, Register, history
<1>4. ASSUME NEW c \in Company, NEW k \in Key, application'[c][k] # None
      PROVE  FilledFor(c, k)' # {}
  <2>1. FilledFor(c, k) # {}
    <3>1. CASE application'[c][k] = application[c][k]
      BY <1>4, <3>1 DEF MadeInv, RegisteredIsFilled
    <3>2. ASSUME NEW s \in Call, RegisteredBy(s), application'[c][k] # application[c][k]
          PROVE  FilledFor(c, k) # {}
      <4>1. call[s].company = c /\ call[s].key = k /\ call[s].pc = "registering"
        BY <3>2 DEF RegisteredBy, Registered, TypeOK
      <4>2. Knows(s, c, k, call[s].view)
        BY <4>1 DEF IInv, CallOK
      <4> QED BY <4>1, <4>2 DEF Knows, Filled
    <3> QED BY <3>1, <3>2, WorkShape
  <2> QED BY <2>1, FilledKept
<1>5. RegisteredIsFilled'
  BY <1>4 DEF RegisteredIsFilled
<1> QED BY <1>1, <1>3, <1>5 DEF MadeInv

Orgs == [c \in Company |-> setup[c].org]
Stages == [c \in Company |-> [k \in Key |-> Stage(c, k)]]

\* One request comes further, and nothing else.
LEMMA Advancing ==
  ASSUME NEW c \in Company, NEW k \in Key, NEW from, NEW to,
         Stage(c, k) = from, Stage(c, k)' = to,
         \A d \in Company, j \in Key : d # c \/ j # k => Stage(d, j)' = Stage(d, j),
         \A d \in Company : setup'[d].org = setup[d].org,
         created' = created
  PROVE  Promised!Advance(c, k, from, to)
<1>1. Orgs' = Orgs
  BY DEF Orgs
<1>2. Stages' = [Stages EXCEPT ![c][k] = to]
  BY DEF Stages
<1> QED BY <1>1, <1>2 DEF Promised!Advance, Orgs, Stages

\* No request comes further.
LEMMA Standing ==
  ASSUME \A d \in Company, j \in Key : Stage(d, j)' = Stage(d, j)
  PROVE  Stages' = Stages
BY DEF Stages

\* A request keeps its stage when its project and what it rests on stay.
LEMMA SameStage ==
  ASSUME NEW c \in Company, NEW k \in Key,
         setup'[c].project[k] = setup[c].project[k],
         application'[c][k] = application[c][k],
         FilledFor(c, k)' = FilledFor(c, k)
  PROVE  Stage(c, k)' = Stage(c, k)
BY DEF Stage

\* Nothing is initialized, registered or created.
LEMMA QuietFills ==
  ASSUME UNCHANGED initialized
  PROVE  \A c, k : FilledFor(c, k)' = FilledFor(c, k)
BY DEF FilledFor

\* A request is absent for Onboarding when it is not stored.
LEMMA AbsentStage ==
  ASSUME NEW c \in Company, NEW k \in Key
  PROVE  Stage(c, k) = "absent" <=> setup[c].project[k].status = "absent"
BY DEF Stage

\* An organization is verified.
LEMMA ApproveApproves ==
  ASSUME TypeOK, IInv, Quiet, NEW s \in Call, Approve(s)
  PROVE  Promised!Next \/ UNCHANGED Promised!vars
<1> DEFINE c == call[s].company
<1>1. CASE UNCHANGED setup
  <2>1. Stages' = Stages
    BY <1>1, SameStage, QuietFills, Standing DEF Quiet
  <2> QED BY <1>1, <2>1 DEF Promised!vars, Stages, Quiet
<1>2. CASE Save(s, call[s].view)
  <2>1. call[s].pc = "approving" /\ Moves(s)
    BY <1>2 DEF Approve, Refused, Fault, Leave, Idle, Moves, TypeOK
  <2>2. Approved(c) /\ \A d \in Company \ {c} : setup'[d] = setup[d]
    BY <1>2, <2>1, SaveApproves
  <2>3. c \in Company
    BY <2>1 DEF IInv, CallOK, Knows
  <2>4. PICK o : o = setup'[c].org
    OBVIOUS
  <2>5. o \in Org /\ o # None
    BY <1>2, <2>2, <2>3, <2>4 DEF Approved, Save, TypeOK, Setup
  <2>6. Stages' = Stages
    BY <2>2, <2>3, SameStage, QuietFills, Standing DEF Quiet, Approved
  <2>7. Orgs' = [Orgs EXCEPT ![c] = o]
    BY <2>2, <2>3, <2>4 DEF Orgs, Approved
  <2>8. Promised!Approve(c, o)
    BY <2>2, <2>3, <2>4, <2>5, <2>6, <2>7 DEF Promised!Approve, Orgs, Stages, Approved, Quiet
  <2> QED BY <2>3, <2>5, <2>8 DEF Promised!Next
<1> QED BY <1>1, <1>2 DEF Approve

\* A request is stored.
LEMMA BeginAsks ==
  ASSUME TypeOK, Quiet, NEW s \in Call, NEW c \in Company, NEW k \in Key, NEW n \in Name,
         BeginProject(s, c, k, n)
  PROVE  Promised!Ask(c, k)
<1>1. EditedBy(s, c, k) /\ \A d \in Company \ {c} : setup'[d] = setup[d]
  BY BeginEdits
<1>2. setup'[c].project[k].status = "creating"
  BY DEF BeginProject, WithProject, TypeOK, Setup
<1>3. Stage(c, k) = "absent" /\ Stage(c, k)' = "creating"
  BY <1>2, AbsentStage DEF BeginProject, Requests, Stage
<1>4. \A d \in Company, j \in Key : d # c \/ j # k => Stage(d, j)' = Stage(d, j)
  BY <1>1, SameStage, QuietFills DEF EditedBy, Edited, Quiet
<1>5. \A d \in Company : setup'[d].org = setup[d].org
  BY <1>1 DEF EditedBy, Edited
<1>6. Promised!Advance(c, k, "absent", "creating")
  BY <1>3, <1>4, <1>5, Advancing DEF Quiet
<1>7. Promised!Requested(c) = Requests(setup[c])
  BY AbsentStage DEF Promised!Requested, Requests
<1>8. setup[c].org # None /\ Cardinality(Requests(setup[c])) < ProjectLimit
  BY DEF BeginProject
<1>9. Promised!Cardinality(Requests(setup[c])) = Cardinality(Requests(setup[c]))
  BY DEF Promised!Cardinality, Cardinality
<1> QED BY <1>6, <1>7, <1>8, <1>9 DEF Promised!Ask

\* GitHub creates a repository.
LEMMA CreateCreates ==
  ASSUME TypeOK, IInv, MadeInv, NEW s \in Call, Create(s)
  PROVE  Promised!Create(call[s].company, call[s].key)
<1> DEFINE c == call[s].company
           k == call[s].key
           x == [id |-> lastId + 1, company |-> c, key |-> k, org |-> call[s].view.org]
<1>1. call[s].pc = "creating" /\ Knows(s, c, k, call[s].view)
  BY DEF Create, IInv, CallOK
<1>2. /\ c \in Company /\ k \in Key
      /\ call[s].view.org = setup[c].org
      /\ setup[c].project[k].status = "creating"
      /\ \A y \in created : y.company # c \/ y.key # k
  BY <1>1 DEF Knows, Working
<1>3. UNCHANGED <<setup, application, initialized>> /\ created' = created \cup {x}
  BY DEF Create
<1>4. \A y \in created : y.id # x.id
  BY DEF MadeInv, IdsInOrder, TypeOK
<1>5. Orgs' = Orgs /\ Stages' = Stages
  BY <1>3, SameStage, QuietFills, Standing DEF Orgs
<1>6. Promised!RepositoryOf(c, k) = {} /\ Stage(c, k) = "creating"
  BY <1>2 DEF Promised!RepositoryOf, Stage
<1> QED BY <1>2, <1>3, <1>4, <1>5, <1>6 DEF Promised!Create, Orgs, Stages

\* A repository is recorded, or a request is ready.
LEMMA SaveAdvances ==
  ASSUME TypeOK, IInv, MadeInv, Quiet, NEW s \in Call, RecordRepository(s) \/ Finish(s)
  PROVE  Promised!Next \/ UNCHANGED Promised!vars
<1>1. CASE UNCHANGED setup
  <2>1. Stages' = Stages
    BY <1>1, SameStage, QuietFills, Standing DEF Quiet
  <2> QED BY <1>1, <2>1 DEF Promised!vars, Stages, Quiet
<1>2. CASE Save(s, call[s].view)
  <2>1. call[s].pc \in {"recording", "finishing"} /\ Moves(s)
    BY <1>2 DEF RecordRepository, Finish, Goto, Continue, Refused, Fault, Leave, Idle, Moves, TypeOK
  <2>2. PICK c \in Company, k \in Key :
          EditedBy(s, c, k) /\ \A d \in Company \ {c} : setup'[d] = setup[d]
    BY <1>2, <2>1, SaveEdits
  <2> DEFINE p == setup[c].project[k]
             q == setup'[c].project[k]
  <2>3. \A d \in Company, j \in Key : d # c \/ j # k => Stage(d, j)' = Stage(d, j)
    BY <2>2, SameStage, QuietFills DEF EditedBy, Edited, Quiet
  <2>4. \A d \in Company : setup'[d].org = setup[d].org
    BY <2>2 DEF EditedBy, Edited
  <2>5. RecordedNow(s, c, k, p, q) \/ Finished(s, c, k, p, q)
    BY <2>1, <2>2 DEF EditedBy, Begun
  <2>6. CASE RecordedNow(s, c, k, p, q)
    <3>1. PICK x \in created : x.id = q.id /\ x.company = c /\ x.key = k
      BY <2>6 DEF RecordedNow
    <3>2. FilledFor(c, k)' = {}
      BY <2>6, QuietFills DEF RecordedNow, MadeInv, FilledIsRecorded, FilledFor, Quiet
    <3>3. Stage(c, k) = "creating" /\ Stage(c, k)' = "recorded"
      BY <2>6, <3>2 DEF RecordedNow, Stage, Quiet
    <3>4. Promised!Advance(c, k, "creating", "recorded")
      BY <2>2, <2>3, <2>4, <3>3, Advancing DEF Quiet
    <3>5. Promised!Record(c, k)
      BY <3>1, <3>4 DEF Promised!Record, Promised!RepositoryOf
    <3> QED BY <2>2, <3>5 DEF Promised!Next
  <2>7. CASE Finished(s, c, k, p, q) /\ p.status = "ready"
    <3>1. Stage(c, k)' = Stage(c, k)
      BY <2>7 DEF Finished, Stage
    <3>2. Stages' = Stages
      BY <2>3, <3>1, Standing
    <3>3. Orgs' = Orgs
      BY <2>4 DEF Orgs
    <3> QED BY <3>2, <3>3 DEF Promised!vars, Stages, Orgs, Quiet
  <2>8. CASE Finished(s, c, k, p, q) /\ p.status = "initializing"
    <3>1. Stage(c, k) = "registered" /\ Stage(c, k)' = "ready"
      BY <2>8, QuietFills DEF Finished, Filled, Stage, Quiet
    <3>2. Promised!Advance(c, k, "registered", "ready")
      BY <2>2, <2>3, <2>4, <3>1, Advancing DEF Quiet
    <3> QED BY <2>2, <3>2 DEF Promised!Next, Promised!Complete
  <2> QED BY <2>5, <2>6, <2>7, <2>8 DEF Finished
<1> QED BY <1>1, <1>2 DEF RecordRepository, Finish

\* The repository of a request is initialized, once.
LEMMA FillsOnce ==
  ASSUME TypeOK, IInv, MadeInv, NEW s \in Call, Fills(s)
  PROVE  Promised!Next \/ UNCHANGED Promised!vars
<1>0. PICK c, k : c = call[s].company /\ k = call[s].key
  OBVIOUS
<1> DEFINE p == setup[c].project[k]
<1>1. /\ c \in Company /\ k \in Key /\ p.status \in {"initializing", "ready"}
      /\ FilledFor(c, k)' # {}
  BY <1>0, FillsFor
<1>2. UNCHANGED <<setup, application, created>>
  BY DEF Fills
<1>3. ASSUME NEW d \in Company, NEW j \in Key, d # c \/ j # k
      PROVE  Stage(d, j)' = Stage(d, j)
  <2>1. FilledFor(d, j)' = FilledFor(d, j)
    BY <1>0, <1>3, FillsFor
  <2> QED BY <1>2, <2>1, SameStage
<1>4. CASE p.status = "ready" \/ FilledFor(c, k) # {}
  <2>1. Stage(c, k)' = Stage(c, k)
    BY <1>1, <1>2, <1>4 DEF Stage
  <2>2. Stages' = Stages
    BY <1>3, <2>1, Standing
  <2> QED BY <1>2, <2>2 DEF Promised!vars, Stages
<1>5. CASE p.status = "initializing" /\ FilledFor(c, k) = {}
  <2>1. application[c][k] = None
    BY <1>1, <1>5 DEF MadeInv, RegisteredIsFilled
  <2>2. Stage(c, k) = "recorded" /\ Stage(c, k)' = "filled"
    BY <1>1, <1>2, <1>5, <2>1 DEF Stage
  <2>3. Promised!Advance(c, k, "recorded", "filled")
    BY <1>1, <1>2, <1>3, <2>2, Advancing
  <2> QED BY <1>1, <2>3 DEF Promised!Next, Promised!Fill
<1> QED BY <1>1, <1>4, <1>5

\* The application is registered, once.
LEMMA RegisterRegisters ==
  ASSUME TypeOK, IInv, MadeInv, [Next]_vars, NEW s \in Call, Register(s)
  PROVE  Promised!Next \/ UNCHANGED Promised!vars
<1>0. PICK c, k : c = call[s].company /\ k = call[s].key
  OBVIOUS
<1> DEFINE p == setup[c].project[k]
           url == <<call[s].view.slug, call[s].view.project[k].name>>
<1>1. call[s].pc = "registering" /\ Knows(s, c, k, call[s].view)
  BY <1>0 DEF Register, IInv, CallOK
<1>2. /\ c \in Company /\ k \in Key /\ FilledFor(c, k) # {}
      /\ p.status \in {"initializing", "ready"}
  BY <1>1 DEF Knows, Working, Later, Filled
<1>3. UNCHANGED <<setup, created, initialized>> /\ FilledFor(c, k)' = FilledFor(c, k)
  BY QuietFills DEF Register, history
<1>4. application' = [application EXCEPT ![c][k] = Registered(c, k, url)]
  BY <1>0 DEF Register
<1>5. ASSUME NEW d \in Company, NEW j \in Key, d # c \/ j # k
      PROVE  Stage(d, j)' = Stage(d, j)
  <2>1. application'[d][j] = application[d][j]
    BY <1>2, <1>4, <1>5 DEF TypeOK
  <2> QED BY <1>3, <2>1, SameStage, QuietFills
<1>6. CASE p.status = "ready" \/ application[c][k] # None
  <2>1. application[c][k] # None => application'[c][k] = application[c][k]
    BY <1>2, ApplicationKept
  <2>2. Stage(c, k)' = Stage(c, k)
    BY <1>3, <1>6, <2>1 DEF Stage
  <2>3. Stages' = Stages
    BY <1>5, <2>2, Standing
  <2> QED BY <1>3, <2>3 DEF Promised!vars, Stages
<1>7. CASE p.status = "initializing" /\ application[c][k] = None
  <2>1. application'[c][k] = url /\ url # None
    <3>1. application'[c][k] = url
      BY <1>2, <1>4, <1>7 DEF Registered, TypeOK
    <3>2. url \in Slug \X Name
      BY <1>1, <1>2 DEF IInv, Knows, Working, Later, SetupTrue, TypeOK, Setup, Project
    <3> QED BY <3>1, <3>2, NoneIsNothing
  <2>2. Stage(c, k) = "filled" /\ Stage(c, k)' = "registered"
    BY <1>2, <1>3, <1>7, <2>1 DEF Stage
  <2>3. Promised!Advance(c, k, "filled", "registered")
    BY <1>2, <1>3, <1>5, <2>2, Advancing
  <2> QED BY <1>2, <2>3 DEF Promised!Next, Promised!Register
<1> QED BY <1>2, <1>6, <1>7

\* Asking for an organization is no step of Onboarding.
LEMMA RequestStutters ==
  ASSUME TypeOK, Quiet, NEW c \in Company, NEW g \in Slug, RequestOrganization(c, g)
  PROVE  UNCHANGED Promised!vars
<1>1. \A d \in Company : setup'[d].org = setup[d].org /\ setup'[d].project = setup[d].project
  BY DEF RequestOrganization, WithOrganization, TypeOK
<1>2. Orgs' = Orgs
  BY <1>1 DEF Orgs
<1>3. Stages' = Stages
  BY <1>1, SameStage, QuietFills, Standing DEF Quiet
<1> QED BY <1>2, <1>3 DEF Promised!vars, Orgs, Stages, Quiet

\* Project provisioning implements Onboarding: an organization is verified once and for
\* one company, a request gets one repository and takes its steps once and in order, for
\* any number of companies and calls, lost connections, lost replies and changes on GitHub.
THEOREM KeepsPromise == Spec => ImplementsOnboarding
<1>1. Init => MadeInv /\ Promised!Init
  BY DEF Init, MadeInv, IdsInOrder, FilledIsRecorded, RegisteredIsFilled, Promised!Init,
         NoSetup, NoProject, Stage
<1>2. TypeOK /\ IInv /\ MadeInv /\ [Next]_vars => MadeInv'
  BY NextMade
<1>3. TypeOK /\ IInv /\ MadeInv /\ [Next]_vars => [Promised!Next]_(Promised!vars)
  <2> SUFFICES ASSUME TypeOK, IInv, MadeInv, [Next]_vars
               PROVE  Promised!Next \/ UNCHANGED Promised!vars
    OBVIOUS
  <2>1. ASSUME NEW s \in Call, Create(s) PROVE Promised!Next
    <3>1. call[s].company \in Company /\ call[s].key \in Key
      BY <2>1 DEF Create, IInv, CallOK, Knows, Working
    <3> QED BY <2>1, <3>1, CreateCreates DEF Promised!Next
  <2>2. ASSUME Quiet, NEW s \in Call, NEW c \in Company, NEW k \in Key, NEW n \in Name,
               BeginProject(s, c, k, n)
        PROVE  Promised!Next
    BY <2>2, BeginAsks DEF Promised!Next
  <2>3. ASSUME Quiet, UNCHANGED setup PROVE UNCHANGED Promised!vars
    <3>1. Stages' = Stages
      BY <2>3, SameStage, QuietFills, Standing DEF Quiet
    <3> QED BY <2>3, <3>1 DEF Promised!vars, Stages, Quiet
  <2> QED BY <2>1, <2>2, <2>3, ApproveApproves, SaveAdvances, FillsOnce, RegisterRegisters,
             RequestStutters, StepKinds
<1> QED BY <1>1, <1>2, <1>3, Invariance, PTL DEF Spec, ImplementsOnboarding, Promised!Spec
=============================================================================
