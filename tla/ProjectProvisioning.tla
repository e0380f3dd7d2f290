------------------------- MODULE ProjectProvisioning -------------------------
(***************************************************************************)
(* Creating applications through the platform: a company asks for a GitHub *)
(* organization, an operator approves it, and createProject makes the      *)
(* repository, writes the template into it and registers the application,  *)
(* with a checkpoint in the database between any two calls of GitHub.      *)
(*                                                                         *)
(* PostgresProjectStore.exclusive pins a connection that holds a session   *)
(* lock of the company and saves through that connection.  When the        *)
(* connection is lost the lock is free again, while the call goes on until *)
(* its next save.                                                          *)
(*                                                                         *)
(* An application and a project carry the request key that made them: the  *)
(* code's project id is a fresh name for it.  An installation of the       *)
(* platform's GitHub App stands for its organization.  A repository is     *)
(* what its name leads to: its id, what its branch holds, and how often    *)
(* the branch has moved, which stands for the commit it points to.         *)
(***************************************************************************)
EXTENDS Naturals, FiniteSets

CONSTANTS
  Company,
  Slug,          \* GitHub organization names (logins)
  Org,           \* GitHub organizations, by their immutable id
  Name,          \* repository names
  Key,           \* request keys of createProject
  Call,          \* concurrent approval and creation requests
  None,          \* no slug, organization, name, key, company, call or application
  ProjectLimit,  \* projects a company may have: 100 in the code
  MaxFaults,     \* bound: lost replies, lost connections, failed or dead calls
  MaxChanges     \* bound: what the customer does on GitHub

ASSUME NoneIsNothing ==
  None \notin Company \cup Slug \cup Org \cup Name \cup Key \cup Call \cup (Slug \X Name)
ASSUME Bounds == ProjectLimit \in Nat /\ MaxFaults \in Nat /\ MaxChanges \in Nat

VARIABLES
  setup,        \* company_project_setup.record: organization and projects
  lock,         \* the call whose connection holds the company's advisory lock
  call,         \* where each call stands, and the state it loaded and edits
  application,  \* applications.repository_url, by company and request key
  installed,    \* GitHub: the organization with the App installed, by its login
  repository,   \* GitHub: the repository of each name
  lastId,       \* GitHub: repository ids handed out
  faults, changes

\* History variables.
VARIABLES
  created,      \* repositories the platform created, and for which request
  initialized,  \* repositories the template was put on, or found on, and for which request
  displaced     \* requests whose repository the customer replaced after initialize() had
                \* compared its id and before it read the branch

github == <<installed, repository, lastId>>
history == <<created, initialized, displaced>>
vars == <<setup, lock, call, application, github, faults, changes, history>>

NoProject == [status |-> "absent", name |-> None, id |-> 0]
NoSetup == [slug |-> None, org |-> None, project |-> [k \in Key |-> NoProject]]
NoRepository == [id |-> 0, head |-> 0, content |-> "none"]
Idle == [pc |-> "idle", company |-> None, key |-> None, view |-> NoSetup, seen |-> NoRepository]

Project == [status : {"absent", "creating", "initializing", "ready"},
            name : Name \cup {None}, id : Nat]
\* A branch holds one commit with a README.md and nothing else, exactly the template's
\* files, or anything else.
Content == {"readme", "template", "changed"}
Repository == [id : Nat, head : Nat, content : Content \cup {"none"}]
Setup == [slug : Slug \cup {None}, org : Org \cup {None}, project : [Key -> Project]]

\* A company's state with another organization, or with a project added or advanced.
WithOrganization(st, g, o) == [slug |-> g, org |-> o, project |-> st.project]
WithProject(st, k, status, name, id) ==
  [slug |-> st.slug, org |-> st.org,
   project |-> [st.project EXCEPT ![k] = [status |-> status, name |-> name, id |-> id]]]

TypeOK ==
  /\ setup \in [Company -> Setup]
  /\ lock \in [Company -> Call \cup {None}]
  /\ call \in [Call -> [pc : {"idle", "verifying", "approving", "creating", "recording",
                              "checking", "reading", "judging", "committing",
                              "registering", "finishing"},
                        company : Company \cup {None}, key : Key \cup {None}, view : Setup,
                        seen : Repository]]
  /\ application \in [Company -> [Key -> (Slug \X Name) \cup {None}]]
  /\ installed \in [Slug -> Org \cup {None}]
  /\ repository \in [Org -> [Name -> Repository]]
  /\ lastId \in Nat /\ faults \in Nat /\ changes \in Nat
  /\ created \subseteq [id : Nat, company : Company, key : Key, org : Org]
  /\ initialized \subseteq [id : Nat, company : Company, key : Key]
  /\ displaced \subseteq Company \X Key

Init ==
  /\ setup = [c \in Company |-> NoSetup]
  /\ lock = [c \in Company |-> None]
  /\ call = [s \in Call |-> Idle]
  /\ application = [c \in Company |-> [k \in Key |-> None]]
  /\ installed = [g \in Slug |-> None]
  /\ repository = [o \in Org |-> [n \in Name |-> NoRepository]]
  /\ lastId = 0 /\ faults = 0 /\ changes = 0
  /\ created = {} /\ initialized = {} /\ displaced = {}

-----------------------------------------------------------------------------
(***************************************************************************)
(* PostgresProjectStore.exclusive.                                         *)
(***************************************************************************)

\* pg_try_advisory_lock: a call that does not get the lock is refused at once.
Enter(s, c, k, pc, view) ==
  /\ call[s] = Idle
  /\ lock[c] = None
  /\ lock' = [lock EXCEPT ![c] = s]
  /\ call' = [call EXCEPT ![s] = [pc |-> pc, company |-> c, key |-> k, view |-> view,
                                     seen |-> NoRepository]]

\* finally: pg_advisory_unlock, on the connection that took the lock.
Leave(s) ==
  /\ call' = [call EXCEPT ![s] = Idle]
  /\ lock' = [c \in Company |-> IF lock[c] = s THEN None ELSE lock[c]]

\* A call that failed, or that took effect while its reply was lost, ends the request.
Fault(s) == faults < MaxFaults /\ faults' = faults + 1 /\ Leave(s)

\* The awaited call answered: the request goes on, with the state it edits and with what
\* it has read of the branch.
Continue(s, pc, view, seen) ==
  /\ call' = [call EXCEPT ![s] = [pc |-> pc, company |-> call[s].company, key |-> call[s].key,
                                   view |-> view, seen |-> seen]]
  /\ UNCHANGED <<lock, faults>>

Goto(s, pc, view) == Continue(s, pc, view, NoRepository)
GotoSeen(s, pc, seen) == Continue(s, pc, call[s].view, seen)

Refused(s) == Leave(s) /\ UNCHANGED faults

\* save() needs the pinned connection.
Connected(s) == lock[call[s].company] = s

\* organization_id is unique over the companies.
Taken(c, o) == o # None /\ \E d \in Company \ {c} : setup[d].org = o

\* Mutant: save() takes any connection of the pool.
SaveAnywhere(s, view) ==
  /\ ~ Taken(call[s].company, view.org)
  /\ setup' = [setup EXCEPT ![call[s].company] = view]

\* Mutant: the organization column is not unique.
SaveShared(s, view) ==
  /\ Connected(s)
  /\ setup' = [setup EXCEPT ![call[s].company] = view]

\* The whole state is written, in one transaction with its event.
Save(s, view) ==
  /\ Connected(s)
  /\ ~ Taken(call[s].company, view.org)
  /\ setup' = [setup EXCEPT ![call[s].company] = view]

SaveFails(s, view) == ~ Connected(s) \/ Taken(call[s].company, view.org)

-----------------------------------------------------------------------------
(***************************************************************************)
(* ProjectProvisioningService.  The load and the checks run under the lock *)
(* up to the first call of GitHub, which is where others may step in.      *)
(***************************************************************************)
Requests(st) == {k \in Key : st.project[k].status # "absent"}

RequestOrganization(c, g) ==
  /\ lock[c] = None
  /\ setup[c].slug # g
  /\ setup[c].org = None /\ Requests(setup[c]) = {}
  /\ setup' = [setup EXCEPT ![c] = WithOrganization(setup[c], g, None)]
  /\ UNCHANGED <<lock, call, application, github, faults, changes, history>>

BeginApproval(s, c) ==
  /\ setup[c].slug # None /\ setup[c].org = None
  /\ Enter(s, c, None, "verifying", setup[c])
  /\ UNCHANGED <<setup, application, github, faults, changes, history>>

\* GitHubProjectGateway.verify: the active installation of the organization.
Verify(s) ==
  LET st == call[s].view
      o == installed[st.slug] IN
  /\ call[s].pc = "verifying"
  /\ IF o = None THEN Refused(s)
     ELSE Goto(s, "approving", WithOrganization(st, st.slug, o))
  /\ UNCHANGED <<setup, application, github, changes, history>>

Approve(s) ==
  /\ call[s].pc = "approving"
  /\ \/ Save(s, call[s].view) /\ (Refused(s) \/ Fault(s))
     \/ SaveFails(s, call[s].view) /\ Refused(s) /\ UNCHANGED setup
  /\ UNCHANGED <<application, github, changes, history>>

\* The intent is saved before GitHub is called.
BeginProject(s, c, k, n) ==
  LET st == setup[c]
      view == WithProject(st, k, "creating", n, 0) IN
  /\ st.org # None
  /\ k \notin Requests(st)
  /\ \A j \in Requests(st) : st.project[j].name # n
  /\ Cardinality(Requests(st)) < ProjectLimit
  /\ Enter(s, c, k, "creating", view)
  /\ setup' = [setup EXCEPT ![c] = view]
  /\ UNCHANGED <<application, github, faults, changes, history>>

\* Mutant: a request left creating is tried again.
ResumeCreating(s, c, k) ==
  LET st == setup[c] IN
  /\ st.project[k].status \in {"creating", "initializing"}
  /\ Enter(s, c, k, IF st.project[k].status = "creating" THEN "creating" ELSE "checking", st)
  /\ UNCHANGED <<setup, application, github, faults, changes, history>>

\* Mutant: an initializing request answers that it is under way.
ResumeNever(s, c, k) ==
  FALSE /\ Enter(s, c, k, "checking", setup[c]) /\ UNCHANGED <<setup, application, github, faults, changes, history>>

\* The same key again: ready answers with the application, creating is refused.
Resume(s, c, k) ==
  /\ setup[c].project[k].status = "initializing"
  /\ Enter(s, c, k, "checking", setup[c])
  /\ UNCHANGED <<setup, application, github, faults, changes, history>>

-----------------------------------------------------------------------------
(***************************************************************************)
(* The calls of GitHub.  create() and initialize() mint a token: the       *)
(* installation found at the organization's login must be the one that was *)
(* verified.                                                               *)
(***************************************************************************)
Trusted(st) == installed[st.slug] = st.org
At(st, k) == repository[st.org][st.project[k].name]

\* GitHub answers by name: a token opens no other organization's repositories, and
\* redirects are not followed.
Found(st, k) == IF Trusted(st) THEN At(st, k) ELSE NoRepository

\* Mutant: a repository that exists is taken for the one asked for.
CreateAdopts(s) ==
  LET st == call[s].view
      k == call[s].key IN
  /\ call[s].pc = "creating"
  /\ Trusted(st) /\ At(st, k).id # 0
  /\ Goto(s, "recording", WithProject(st, k, "initializing", st.project[k].name, At(st, k).id))
  /\ UNCHANGED <<setup, application, github, changes, history>>

\* POST /orgs/{slug}/repos: refused when the name is taken.
Create(s) ==
  LET st == call[s].view
      k == call[s].key
      id == lastId + 1 IN
  /\ call[s].pc = "creating"
  /\ Trusted(st) /\ At(st, k).id = 0
  /\ lastId' = id
  /\ repository' = [repository EXCEPT ![st.org][st.project[k].name] = [id |-> id, head |-> 0, content |-> "readme"]]
  /\ created' = created \cup {[id |-> id, company |-> call[s].company, key |-> k, org |-> st.org]}
  /\ \/ Goto(s, "recording", WithProject(st, k, "initializing", st.project[k].name, id))
     \/ Fault(s)
  /\ UNCHANGED <<setup, application, installed, changes, initialized, displaced>>

CreateRefused(s) ==
  /\ call[s].pc = "creating"
  /\ ~ (Trusted(call[s].view) /\ At(call[s].view, call[s].key).id = 0)
  /\ Refused(s)
  /\ UNCHANGED <<setup, application, github, changes, history>>

\* The checkpoint "repository.created".
RecordRepository(s) ==
  LET st == call[s].view IN
  /\ call[s].pc = "recording"
  /\ \/ Save(s, st) /\ (Goto(s, "checking", st) \/ Fault(s))
     \/ SaveFails(s, st) /\ Refused(s) /\ UNCHANGED setup
  /\ UNCHANGED <<application, github, changes, history>>

-----------------------------------------------------------------------------
(***************************************************************************)
(* GitHubProjectGateway.initialize.  The id of the repository is compared  *)
(* once; the branch is read and updated by name, the commit that was read  *)
(* and what it holds by hash.                                              *)
(***************************************************************************)
Carrying(s, id) == [id |-> id, company |-> call[s].company, key |-> call[s].key]

\* Mutant: the repository's id is not compared.
SameName(st, k) == Found(st, k).id # 0

\* checkRepository: the repository of that name is the recorded one.
Same(st, k) == Found(st, k).id # 0 /\ Found(st, k).id = st.project[k].id

CheckRepository(s) ==
  LET st == call[s].view IN
  /\ call[s].pc = "checking"
  /\ IF Same(st, call[s].key) THEN Goto(s, "reading", st) ELSE Refused(s)
  /\ UNCHANGED <<setup, application, github, changes, history>>

\* GET git/ref/heads: the commit at the branch's head, of whatever has the name now.
ReadBranch(s) ==
  LET found == Found(call[s].view, call[s].key) IN
  /\ call[s].pc = "reading"
  /\ IF found.id # 0 THEN GotoSeen(s, "judging", found) ELSE Refused(s)
  /\ UNCHANGED <<setup, application, github, changes, history>>

\* The commit, its tree, its blobs and its history are found only where it was made: a
\* lone README is replaced, the whole template is accepted, anything else is refused.
Judge(s) ==
  LET seen == call[s].seen
      there == Found(call[s].view, call[s].key).id = seen.id IN
  /\ call[s].pc = "judging"
  /\ \/ there /\ seen.content = "readme" /\ GotoSeen(s, "committing", seen) /\ UNCHANGED initialized
     \/ /\ there /\ seen.content = "template"
        /\ initialized' = initialized \cup {Carrying(s, seen.id)}
        /\ Goto(s, "registering", call[s].view)
     \/ /\ ~ (there /\ seen.content \in {"readme", "template"})
        /\ Refused(s) /\ UNCHANGED initialized
  /\ UNCHANGED <<setup, application, github, changes, created, displaced>>

\* Mutant: the branch update is forced.
UnmovedForced(s) == Found(call[s].view, call[s].key).id = call[s].seen.id

\* The update is not forced: the new commit's one parent, which was read, is still the head.
Unmoved(s) == Found(call[s].view, call[s].key) = call[s].seen

Commit(s) ==
  LET st == call[s].view
      seen == call[s].seen IN
  /\ call[s].pc = "committing"
  /\ Unmoved(s)
  /\ repository' = [repository EXCEPT ![st.org][st.project[call[s].key].name] =
                      [id |-> seen.id, head |-> At(st, call[s].key).head + 1, content |-> "template"]]
  /\ initialized' = initialized \cup {Carrying(s, seen.id)}
  /\ Goto(s, "registering", st) \/ Fault(s)
  /\ UNCHANGED <<setup, application, installed, lastId, changes, created, displaced>>

CommitRefused(s) ==
  /\ call[s].pc = "committing"
  /\ ~ Unmoved(s)
  /\ Refused(s)
  /\ UNCHANGED <<setup, application, github, changes, history>>

-----------------------------------------------------------------------------
(***************************************************************************)
(* ApplicationService.register and the last checkpoint.                    *)
(***************************************************************************)

\* on conflict (company_id, idempotency_key) do nothing: the first row is returned.
Registered(c, k, url) == IF application[c][k] # None THEN application[c][k] ELSE url

Register(s) ==
  LET st == call[s].view
      c == call[s].company
      k == call[s].key IN
  /\ call[s].pc = "registering"
  /\ application' = [application EXCEPT ![c][k] = Registered(c, k, <<st.slug, st.project[k].name>>)]
  /\ Goto(s, "finishing", WithProject(st, k, "ready", st.project[k].name, st.project[k].id)) \/ Fault(s)
  /\ UNCHANGED <<setup, github, changes, history>>

Finish(s) ==
  /\ call[s].pc = "finishing"
  /\ \/ Save(s, call[s].view) /\ (Refused(s) \/ Fault(s))
     \/ SaveFails(s, call[s].view) /\ Refused(s) /\ UNCHANGED setup
  /\ UNCHANGED <<application, github, changes, history>>

-----------------------------------------------------------------------------
(***************************************************************************)
(* What goes wrong, and what the customer does on GitHub.                  *)
(***************************************************************************)

\* The awaited call fails without effect, or the process dies.
Fails(s) ==
  /\ call[s].pc # "idle"
  /\ Fault(s)
  /\ UNCHANGED <<setup, application, github, changes, history>>

\* PostgreSQL drops the session: its lock is released, the call does not notice.
LoseConnection(s) ==
  /\ call[s].pc # "idle" /\ Connected(s)
  /\ faults < MaxFaults /\ faults' = faults + 1
  /\ lock' = [lock EXCEPT ![call[s].company] = None]
  /\ UNCHANGED <<setup, call, application, github, changes, history>>

Change ==
  /\ changes < MaxChanges /\ changes' = changes + 1
  /\ UNCHANGED <<setup, lock, call, application, faults, created, initialized>>

\* The App is installed, suspended or removed, or the organization is renamed.
Install(g, o) ==
  /\ installed[g] # o
  /\ o # None => \A h \in Slug : installed[h] # o
  /\ installed' = [installed EXCEPT ![g] = o]
  /\ Change
  /\ UNCHANGED <<repository, lastId, displaced>>

\* Anything may be committed, also in place of what was there: a README.md alone again, or
\* what happens to be the template.
CustomerCommits(o, n) ==
  /\ repository[o][n].id # 0
  /\ \E content \in Content :
       repository' = [repository EXCEPT ![o][n] =
                       [id |-> repository[o][n].id, head |-> repository[o][n].head + 1, content |-> content]]
  /\ Change
  /\ UNCHANGED <<installed, lastId, displaced>>

\* The requests of calls that have compared a repository's id and not yet read its branch.
ReadingAt(o, n) ==
  {x \in Company \X Key :
     \E s \in Call :
       /\ call[s].pc = "reading" /\ <<call[s].company, call[s].key>> = x
       /\ call[s].view.org = o /\ call[s].view.project[call[s].key].name = n}

\* A repository made by the customer, possibly after deleting the one of that name.
CustomerCreates(o, n) ==
  /\ lastId' = lastId + 1
  /\ \E content \in {"readme", "changed"} :
       repository' = [repository EXCEPT ![o][n] = [id |-> lastId', head |-> 0, content |-> content]]
  /\ displaced' = displaced \cup ReadingAt(o, n)
  /\ Change
  /\ UNCHANGED installed

\* A repository is deleted, or given another name.
CustomerRemoves(o, n) ==
  /\ repository[o][n].id # 0
  /\ repository' = [repository EXCEPT ![o][n] = NoRepository]
  /\ Change
  /\ UNCHANGED <<installed, lastId, displaced>>

-----------------------------------------------------------------------------
Proceed(s) ==
  \/ Verify(s) \/ Approve(s)
  \/ Create(s) \/ CreateRefused(s) \/ RecordRepository(s)
  \/ CheckRepository(s) \/ ReadBranch(s) \/ Judge(s) \/ Commit(s) \/ CommitRefused(s)
  \/ Register(s) \/ Finish(s)

Customer ==
  \/ \E g \in Slug, o \in Org \cup {None} : Install(g, o)
  \/ \E o \in Org, n \in Name : 
       CustomerCommits(o, n) \/ CustomerCreates(o, n) \/ CustomerRemoves(o, n)

Next ==
  \/ \E c \in Company, g \in Slug : RequestOrganization(c, g)
  \/ \E s \in Call :
       \/ \E c \in Company : BeginApproval(s, c)
       \/ \E c \in Company, k \in Key : Resume(s, c, k) \/ \E n \in Name : BeginProject(s, c, k, n)
       \/ Proceed(s) \/ Fails(s) \/ LoseConnection(s)
  \/ Customer

\* Every call of GitHub has a timeout and every query returns or throws.  The company
\* keeps asking for a project that is initializing, as the portal's page offers.
Fairness ==
  /\ \A s \in Call : WF_vars(Proceed(s))
  /\ \A c \in Company, k \in Key : SF_vars(\E s \in Call : Resume(s, c, k))

Spec == Init /\ [][Next]_vars /\ Fairness
-----------------------------------------------------------------------------

\* A request creates at most one repository, whatever is retried, lost or overtaken
\* ("never creating a second repo", test/project-provisioning.test.ts).
OneRepositoryPerRequest ==
  \A x, y \in created : x.company = y.company /\ x.key = y.key => x = y

\* The repository a project records was created for it by the platform, in the
\* organization verified for its company: none is adopted.
RecordedIsCreated ==
  \A c \in Company, k \in Key :
    setup[c].project[k].id # 0 =>
      [id |-> setup[c].project[k].id, company |-> c, key |-> k, org |-> setup[c].org] \in created

\* An organization is verified for one company only, however approvals race.
OrganizationHasOneCompany ==
  \A c, d \in Company : setup[c].org # None /\ setup[c].org = setup[d].org => c = d

\* The repositories that held the template when initialize() left them for a request.
FilledFor(c, k) == {x \in initialized : x.company = c /\ x.key = k}

\* How far a request has come, in the vocabulary of Onboarding: an initializing one by
\* what was done on GitHub and is registered for it.
Stage(c, k) ==
  LET p == setup[c].project[k] IN
  IF p.status # "initializing" THEN p.status
  ELSE IF FilledFor(c, k) = {} THEN "recorded"
  ELSE IF application[c][k] = None THEN "filled" ELSE "registered"

Promised == INSTANCE Onboarding WITH
  NoOrg <- None,
  org <- [c \in Company |-> setup[c].org],
  stage <- [c \in Company |-> [k \in Key |-> Stage(c, k)]]

\* Project provisioning keeps the promises of Onboarding: whatever is retried, lost,
\* overtaken or done on GitHub, an organization is verified once and for one company, and
\* each request takes its steps once and in order.
ImplementsOnboarding == Promised!Spec

\* A ready project's application is registered under its repository's address, and the
\* repository it records has received the template, or had it already.  There is one way
\* around this: initialize() compares the repository's id once and goes on by name, so one
\* that the customer puts in its place just then is initialized instead.
ReadyIsComplete ==
  \A c \in Company, k \in Key :
    LET p == setup[c].project[k] IN
    p.status = "ready" =>
      /\ application[c][k] = <<setup[c].slug, p.name>>
      /\ \E x \in FilledFor(c, k) : x.id = p.id \/ <<c, k>> \in displaced

Rank(status) ==
  IF status = "absent" THEN 0 ELSE IF status = "creating" THEN 1
  ELSE IF status = "initializing" THEN 2 ELSE 3

\* A company's setup only advances: no save of a call that has lost its lock takes
\* back an approval, a checkpoint or another request's project.
SetupOnlyAdvances ==
  [][\A c \in Company :
       /\ setup[c].org # None => setup'[c].org = setup[c].org /\ setup'[c].slug = setup[c].slug
       /\ \A k \in Key :
            LET p == setup[c].project[k]
                q == setup'[c].project[k] IN
            /\ Rank(p.status) <= Rank(q.status)
            /\ p.name # None => q.name = p.name
            /\ p.id # 0 => q.id = p.id]_vars

\* The platform overwrites no work of the customer's beyond a lone README.md, also when it
\* arrives between initialize()'s reading of the branch and its update.
CustomerWorkKept ==
  [][\A o \in Org, n \in Name :
       repository[o][n].content \in {"template", "changed"} /\ changes' = changes =>
         repository'[o][n] = repository[o][n]]_vars

\* "Only the untouched GitHub auto-initialization README is eligible for replacement"
\* (github-project-gateway.ts:96): a branch that the platform updates has not moved since
\* its repository was made.
OnlyUntouchedReplaced ==
  [][\A o \in Org, n \in Name :
       repository[o][n].id # 0 /\ repository'[o][n] # repository[o][n] /\ changes' = changes =>
         repository[o][n].head = 0]_vars

\* A project whose repository is in a state that a resumed initialization accepts.
Resumable(c, k) ==
  /\ setup[c].project[k].status = "initializing"
  /\ Same(setup[c], k)
  /\ At(setup[c], k).content \in {"readme", "template"}

\* An initializing project that is asked for again becomes ready, unless the customer
\* takes its repository out of the platform's hands first.
InitializingBecomesReady ==
  \A c \in Company, k \in Key :
    Resumable(c, k) ~> setup[c].project[k].status = "ready" \/ ~ Resumable(c, k)
=============================================================================
