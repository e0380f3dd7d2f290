# A TLA+ verification project for the Vibe Code platform

The platform is a NestJS service with a PostgreSQL database and three kinds of
worker processes, a React portal, and a deployment script on the demonstration
host. Manifests are submitted for assessment, builds and releases are queued as
database rows and executed by workers, and a delivery pipeline dispatches GitHub
workflows that build an application and deploy it to Stage and then to Prod.

Most of its code is validation and I/O. What can go wrong in ways a unit test
hardly reaches is the coordination: several workers on one table, a crash between
two effects, a reply that is lost, a snapshot that is stale when it is used, a
workflow that answers late. This project models that part: one TLA+ module per
component, checked by TLC on small instances, with theorems that TLAPS proves for
every instance.

## Inventory

| Component | State | Operations | Talks to | What is hard | What makes it correct |
|---|---|---|---|---|---|
| Assessment queue (`assessment-service.ts`, `postgres-assessment-repository.ts`, `assessment-worker-host.ts`) | rows of `assessments`, `audit_events`; per worker a claimed job | submit, claimNext, complete, fail, tick | database, assessment engine | a running row is reclaimed after five minutes whether its worker is dead or slow; finish() checks no owner | one row per key, one final verdict with its audit event, verdicts earned by an engine run, nothing abandoned |
| Build queue (`build-job-service.ts`, `postgres-build-record-repository.ts`, `build-job-engine.ts`, `docker-build-pipeline.ts`) | rows of `builds`, artifacts | submit, claimNext, complete, fail, tick, execute | database, source repository, Docker, scanner, artifact store | the same discipline, with a far longer engine and a side effect before the verdict | a completed build names a stored artifact, made from the source that was scanned |
| Artifact store (`filesystem-artifact-store.ts`, `artifact-service.ts`, `artifact-security.ts`) | one file per artifact | put, get, deleteExpired | file system | it is written before the build record that names it | only approved artifacts are stored, each whole |
| Test releases (`release-service.ts`, `postgres-release-repository.ts`, `docker-test-deployment-engine.ts`) | rows of `releases`, containers, stable route | create, claimNext, deploy, verifyHealth, activate, rollback, healthy / rolledBack / fail | database, Docker, ingress router | deploy, switch and record are three effects; a rollback target is chosen long before it is used; deploying rows are never reclaimed | the route only moves to a verified release, its container is kept, records and route agree |
| Ingress routing (`filesystem-ingress-router.ts`, `traefik-file-reconciler.ts`, `ingress-reconciler-host.ts`) | one route file per application, Traefik's file, the host's `running` flag | activate, list, reconcile | releases (through the files only), Traefik | the reconciler writes a listing that may be stale; its calls fail, and the host may die in one | Traefik's file converges to the routes and never goes back |
| Delivery pipeline (`demo-pipeline.ts`, `portal/src/demo-pipeline.tsx`) | rows of `demo_pipeline_runs`, GitHub workflow runs | dispatch, list, refresh, reserve, update | database, GitHub, the portal's polling page | every await of a dispatch may be overtaken; the POST may be lost, refused or late; records are written whole | workflows run one at a time, once, on evidence; the record never runs ahead of them |
| Host deployment (`deploy/demo/deploy.py`) | containers, receipts, a host lock | deploy, restore | Docker, the pipeline's workflows | several docker calls replace a container | the environment is never left without its last good container |
| Project provisioning (`project-provisioning-service.ts`, `postgres-project-store.ts`, `github-project-gateway.ts`, `application-service.ts`) | one record per company: its organization and its projects with their checkpoints; a session lock per company; `applications` | requestOrganization, approveOrganization, createProject, register | GitHub, the operator, the customer | a chain of external calls with a checkpoint between any two; a lock that is lost with its connection; a customer who works in the same repository | one repository per request, nothing adopted, nothing overwritten but a lone README, resumed where it stopped |
| Scanner cache (`scanner-cache.ts`) | lock file, freshness stamp | refresh | file system, Trivy | a dead owner's lock | scans wait, or fail, but never read a half-written database |
| Browser sessions (`browser-session.ts`) | pending logins and sessions in two Maps; three cookies; the page's CSRF token | login, callback, session, logout, the onRequest hook | identity provider, browsers | a callback opened twice or elsewhere; requests and session checks in flight around a logout | a state makes one session, of the browser that began it; an ended session admits nobody |
| Identity (`identity.ts`, `oidc-access-token-verifier.ts`, `postgres-authorization-repository.ts`) and the controllers | `platform_roles`, `company_memberships`; the gates of each handler | resolveActor, requireStepUp | token verifier, database | token, operator role and membership are read at three awaits while they change | a service is entered only with a role held, a refusal has its reason |
| Scan evidence, checkout and restoration, portal pages, schema, in-memory repositories, architecture report, installation scripts | | | | validation, parsing, rendering, one-shot I/O | |

`PROJECT.json` lists every component with its sources and status, every hazard at
its line, and for each definition the lines it models.

## Modules

| Module | What it is |
|---|---|
| `JobLifecycle` | Abstract specification: what the platform promises about one durable job. Stored, started, decided once; every change of status in the same step as its audit event; fairness: nothing stored is abandoned. |
| `AssessmentQueue` | The assessment queue in detail. Implements `JobLifecycle`, fairness included. |
| `BuildQueue` | The build queue: the same rows with a result, the engine call by call, and the artifact store. Implements `AssessmentQueue`, fairness included. |
| `Releases` | Test releases of one application with their containers and the stable route. Implements the safety half of `JobLifecycle`. |
| `IngressRouting` | The reconciler of the public proxy, composed with `Releases` (EXTENDS): the route that workers switch is the route it lists. |
| `Promotion` | Abstract specification: workflows of one application run one at a time, start once, and start on evidence. |
| `DemoPipeline` | dispatch and list with every await, the rows, and GitHub. Implements `Promotion`. |
| `HostDeploy` | `deploy.py`: the replacement of a Stage or Prod container, call by call, with its except block and receipts. |
| `ScannerCache` | The lock of the vulnerability database and the scan under it. |
| `Onboarding` | Abstract specification: an organization is verified once and for one company, a request gets one new repository in it, and is recorded, filled, registered and ready in that order. |
| `ProjectProvisioning` | From an organization's request to a registered application, call by call, under the company's session lock, with GitHub and the customer beside it. Implements `Onboarding`. |
| `Access` | Browser sessions, tokens, grants and the gates of the API: what a request passes, await by await, before a service is called. |
| `MC*` | Instances for TLC: symmetry sets, a numbering of builds, the tokens and endpoints of `Access`. |
| `*Proofs` | Theorems about the component's module and their proofs. |

### AssessmentQueue

One action per repository transaction and per outcome of an engine run.
`SubmitNew` / `SubmitAgain` are `submit` (insert or return the row of the same
key); `ClaimNext` is the `update .. for update skip locked` with its stale-claim
clause; `EngineReturns` / `EngineThrows` are the engine; `Complete*` and `Fail*`
are the finishing transactions, which commit, are rejected because the row is
already finished, fail, or commit and lose their reply; `Crash` is the death of the
worker process. The order follows `tick()`: complete in the `try`, fail in its
`catch`, and a complete() that throws because the row is no longer running returns
through the same catch block.

The clock is reduced to what `claimNext` reads: `overdue[a]`, set by
`ClaimLapses` at any time while the row runs. So a worker may be slow or dead, the
model does not tell. What a manifest contains, and what the engine decides about
it, is data: it returns a result or throws. The terminal event's time is not
modelled (the code stores the time of the claim, `assessment-service.ts:152`).

### BuildQueue

The repository of builds repeats that of assessments row for row, so the
transactions are those of `AssessmentQueue` (`Queue == INSTANCE AssessmentQueue WITH
Assessment <- Build`), each joined with what it does to the `result` column and to
the engine. Between a claim and its verdict `stage[w]` goes through the calls of
`SourceBuildJobEngine.execute`: `Acquire` the checkout, `ScanSource`, `Restore` the
dependencies (the package manager may rewrite the source files in its workspace),
`BuildOutput` (only if the files still hash to the source artifact), `CheckOutput`,
`Publish` (the store's rename, then the return). `EngineThrows` is any of these calls
failing, `put()` possibly after its rename. An artifact is named by the claim that
made it and keeps two facts about its bytes: which source they were built from and
whether the content check passes them. Source scanning is modelled as configured,
which production requires (`README.md:75`). Expiry is left out: nothing calls
`deleteExpired()`.

### Releases

A release row is named by its idempotency key. `ReadTarget` and `InsertRelease` are
the two halves of `create`: the rollback target is the latest healthy release when
it is read, the row appears later. A worker's tick is a sequence of steps, one per
external effect: claim, deploy, verify, activate, record; in the catch block find
the target, restore it, remove the candidate, reverify, activate the target,
record; or fail. Every call of the engine may throw, before or after it changed a
container; calls of the database and the router throw or lose their reply
(`MaxFaults`), workers die (`MaxCrashes`), containers exit on their own.
`activate()` is one step because the router's in-process lock and its rename make
it one. Ports, URLs and the artifact's bytes are data: an expired or corrupt
artifact is one of the ways `deploy()` throws.

`NoReleaseIsAbandoned` is the promise that survives crashes: a release stays
`deploying` only if a worker is at work on it, or if a fault or a crash met its
processing (`hurt`).

### IngressRouting

`List` is the timer firing while `running` is unset: the flag is set and the route
files are read. `Write` is the rename over the file Traefik watches and the `finally`;
`ReconcileThrows` is a call that throws before or after that rename, `HostRestarts` a
process that dies in one. `calls` could hold two calls: that it does not is what the
flag is for, and the mutant that ignores it breaks `RoutesNeverGoBack`. `age` counts the
activations since a route was read, which makes "older" a matter of the history and not
of the route's value (a rollback may return to an earlier route). Other applications'
routes are in the same files and listing, and are left out: one application's route does
not depend on theirs, except that one unreadable route file makes `list()` throw for all
of them, which is one of the throws. Traefik's own reading of the file is external.

### DemoPipeline

A row is named by its idempotency key, which is also what GitHub shows in the title
of the workflow run. Each dispatch or list call runs in steps that end where the
code awaits: read the listing, read a workflow run from GitHub, write it, and so
on through the build and the Stage row to the reservation, the POST and the
confirmation. Between two steps the other calls and GitHub act. `BeginCall` keeps
what the call holds of its snapshot, no more: which rows it will look at and which
of them had a runId; once the evidence is in, nothing (`Proceed`). Status and conclusion are one value. GitHub creates the
workflow run of a POST at any time after the POST left, or never; runs advance,
and its search (needed for a row without a runId) may lag.

Left out: the wording of errors; the artifact check's content (a missing artifact
is `Abandon`, like any failing call); re-runs started by hand in GitHub; the
`created>=` filter of the search, which depends on the two clocks agreeing.
created_at is taken and the row inserted in one step. `asOf` and `judgedAt` are history:
how many rows were stored when a Prod call took its listing, kept with the row it stores,
so that `PromotionIsGated` can say which Stage row was the latest then.

### HostDeploy

A container is named by the run of the script that made it; a run is `deploy()` as
a sequence of docker calls: trial, probe, discard, stop the previous container,
start the replacement, verify, write the receipt; in the except block remove the
replacement and start the previous container again. `pc` is the call a run is about
to make, `changed` the script's own flag, `previous` what the receipt named when it
was read. Each call succeeds or raises; a call that raises has left the container
alone, or, when it exceeded its timeout (`Raises`), done what it was asked. Timeouts
that took effect, failures of the recovery itself and deaths of the process count as
`mishaps`. What the runs are asked to do (environment, manifest) is chosen in `Init`;
a run that is refused, by the candidate's verification or because the lock is held,
is `Refuse`. Whether an application answers is data: a probe of a container that
runs may fail, a probe of the stable port succeeds only if it is held by a container
of that revision.

### ProjectProvisioning

A call is a request to approve an organization or to create a project. `pc` is the await
it is at and `view` the state it loaded and edits; the load and the checks run under the
lock in one step, because nobody else may write then. `Enter` and `Leave` are
`exclusive`; `LoseConnection` frees the lock behind the call's back, and a call without it
goes on with GitHub until its next `Save`, which needs the pinned connection.
`requestOrganization` loads and saves under the lock with no other await, so it is one
step. Every call of GitHub and of the database answers, fails without effect (`Fails`,
also the death of the process), or takes effect and loses its reply (`Fault` beside it).
`initialize()` is four steps, because it is four reads and writes by name: `CheckRepository`
compares the repository's id, once; `ReadBranch` gets the head of whatever has the name then;
`Judge` looks at that commit, its tree, its blobs and its history, which are addressed by hash
and so are those that were read; `Commit` updates the branch, not forced, whose only condition
is that the commit read is still the head. Between any two the customer may commit, or put
another repository in that place. The gateway's other writes (blob, tree, commit objects) are
invisible to others and are part of `Commit`. `create()` and `initialize()` mint a token
for the installation that was verified (`Trusted`), and a token opens no other organization's
repositories (`Found`). The customer installs, suspends, removes and renames (`Install`), and
commits, creates and deletes repositories.

A repository is what its name leads to: its id, its head (how often the branch has moved) and
its content. Organization, repository and application identities are kept, their validation
and the template's files are data: the content is one commit with a README.md alone, exactly
the template, or anything else. That is what the code tells apart. The customer may commit
any of the three in place of what was there, also an amended README.md alone, which
the code takes for GitHub's. A whole template is accepted by its files whatever its history;
when it is judged, that is the step which counts as initialized.

`initialized` and `displaced` are history: for which request a repository had the template
when initialize() was done with it, and whose repository was replaced between the comparison
of its id and the reading of its branch.

`Stage` maps a request to `Onboarding`. The record knows three statuses; between
`initializing` and `ready` lie two effects outside it, the branch and the application, and
the mapping reads them where they are: in what was initialized for the request
(`FilledFor`) and in `applications`. The record of `creating` stands for both sides of GitHub's creation, which
Onboarding sees in `created`.

### Access

A request's `at` is the await it is at: introspection of its session, verification of its
token, the operator query, the membership query. `BrowserCalls` and `ProgramCalls` are its
arrival at the onRequest hook; what the hook read there (session, CSRF token) is what it
uses after the introspection, whatever happened meanwhile. `Admit` is `requireStepUp` and
a body parsed after it. Logins and their callbacks run beside it (`Callback` ends at the
code exchange, `Exchange` is the rest of the handler), and so do session checks of pages,
logouts, restarts, changes of the grants, revocations and expiries. The controllers are
their gates: which method, whether the action is sensitive, whether the body is parsed
before or after the actor is resolved; `EveryGateIsCalled` checks that the endpoints of an
instance meet every combination that occurs in the API.

`had`, `lacked` and `marks` are history: the roles the subject held and did not hold at
some moment since the request arrived, whether its session had ended before, and whether a
call it made failed. PKCE, nonces, signatures and cookie attributes are data; a token
verifies or not. A session or login past its time is gone in the model, while the code
deletes it when it is next used.

### ScannerCache

A scan is a call of `withScannerCache` with the scan inside it. `Acquire` is the
mkdir, `GiveUp` its deadline, `Release` the rmdir in the `finally`. Under the lock the
container starts, returns or outlives the killed docker call (`RunTimesOut`), is
removed or not (`RemoveFails`: the error is swallowed), and the evidence file is
written or not. A dead process leaves the directory; `OperatorUnlocks` removes it
when, as the procedure demands, neither the process nor its container is left.

## Checks

| Run | Instance | What it shows |
|---|---|---|
| `queue` | 2 workers, 2 rows, 2 keys, 2 attempts, 1 fault | Whatever overtakes whatever, every stored assessment is decided, once, by an engine run, with its audit event; `JobLifecycle` is implemented, fairness included. |
| `build` | 2 workers, 1 build, 3 claims, 1 fault | Only approved content of the scanned source is stored; a completed build names an artifact that is in the store; `AssessmentQueue` is implemented, fairness included. |
| `releases_safety` | 2 workers, 3 releases, 1 fault, 1 crash, symmetry | Rows, containers and route agree as far as they can; no release is left behind without a fault or a crash to blame; the lifecycle is implemented. |
| `ingress` | 1 worker without faults, 3 releases, up to 2 calls of reconcile() | Between ticks the route is the one the last verdict decided; Traefik's file follows it although calls fail and the host restarts, and never goes back. |
| `pipeline_safety` | 2 dispatch calls, 4 rows, racing while at most 2 other rows are stored, symmetry | Workflows run one at a time, once, on evidence, for Prod the latest Stage row of the listing; the record never runs ahead; `Promotion` is implemented. |
| `pipeline_liveness` | 1 dispatch call, 1 page, 2 rows, 1 failing read | Every workflow GitHub created is eventually recorded as completed. |
| `deploy` | 3 runs, 3 builds of 2 revisions, 2 mishaps | A replacement is done or undone; an environment taken down is served again; Prod gets what Stage records and serves. |
| `scanner` | 4 scans, 2 deaths, 1 container left behind | One container at a time uses the cache unless docker left one behind; only evidence on disk approves; a scan waiting for an abandoned lock ends, unapproved. |
| `provisioning` | 2 companies, 2 organization names, 1 organization, 1 repository name, 2 request keys, 2 calls, 1 fault, 2 changes by the customer | One repository per request, none adopted, no work of the customer's beyond a lone README overwritten, no approval or checkpoint taken back; `Onboarding` is implemented; what is ready is complete, and what can be resumed becomes ready. |
| `access` | 2 tokens (one with a step-up context, one password only), 1 subject, 2 companies, 2 browsers, 2 logins, 1 request, 2 callbacks, 3 changes, an endpoint for every gate, symmetry | One session per login, of the browser that began it; services are entered only by those who may; refusals have their reasons, members without step-up excepted; a session that ended admits nobody. |
| `releases_crashed`, `provisioning_untouched` | | Expected violations, see Findings. |

Type invariants and a number of weaker statements are proved and have no run of their own:
`AuditAgreesWithStatus` and `VerdictIsFinal` follow from the implemented lifecycle,
`RouteHasContainer` from `HealthyContainerKept` and `RouteIsAccountedFor`, and
`ClaimsAreDistinct`, `AttemptsArePaidFor`, `OneExecutor`, `HealthyWasRouted`,
`TargetsAreHealthyAndOlder`, `CompletedIsFinal` and `PreviousKept` are steps on the way to
the properties that the runs check. `OrganizationHasOneCompany` follows from
`ImplementsOnboarding`, and `ServedIsAccountedFor` and `ServedHasContainer` carry what is
proved of the stable route over to what Traefik serves.

Each property of a passing run has a mutant: a plausible bug in one of the mapped
definitions under which TLC finds the property violated.

**Why the bounds are enough.** *Queue:* two workers and two claims let a claim be
overtaken, by a worker that is before, between and after each step of the other; two
rows make claimNext choose and two keys tell a conflict from none. *Builds:* the rows' part
is checked by `queue`; one build claimed three times has two engines at work while a third
claim takes over, and a verdict that finds the row decided, running or reclaimed. *Releases:* three
releases are a base and two that roll back to it, whose ticks two workers interleave;
one fault or crash reaches each exit of tick(), and a fault and a crash may combine.
*Ingress:* three releases are a base
and two successors, so that a route moves on, fails and returns; two calls of reconcile()
would overlap if the flag let them. *Pipeline:* four rows are a build, its Prod
deployment, and two Stage deployments of which the second may come before the Prod call takes its
listing or after; two calls race at each await. `MaxRaced` bounds when: beside another call,
one begins only for a row not completed, with at most two other rows stored, which is
enough for the second Stage deployment to overtake a Prod call that has judged the first,
and keeps the run within minutes. With one
page in the liveness run the listing limit is one, so that an active row could
drop out of the listing if a newer one could be stored. *Host deployment:* Stage,
Prod, and another run of either that interferes need three runs; two of the three
builds share a revision, since health is judged by revision and approval by manifest;
two mishaps let a timeout be followed by a failing recovery. *Scanner:* a holder, a dead holder and
two that wait. *Provisioning:* two companies want one organization, two requests want one
repository name, and two calls may both believe they have the lock; one fault
is a lost reply, a lost connection or a death at each await, of which the retry must make
the best; two changes are the installation of the App, without which nothing begins, and one
change at any await after it: a commit, a deletion, a replaced repository, a renamed
organization. *Access:* two tokens are two sessions, or a session and a program's
token, before and after a step-up; with two browsers and two logins a callback may be
opened in the wrong browser and with the wrong state; three changes are, for instance, a
grant, a revocation and a restart around one request, and requests interact through
nothing but sessions and grants. What the proofs cover holds
without any of these bounds.

CHECK_DEADLOCK is off for `Releases`: a system whose releases are all decided,
or stuck in `deploying`, and whose containers are stopped, has nothing to do, and
`IngressRouting` with it; for `HostDeploy` and `ScannerCache`, whose runs and scans end;
and for `ProjectProvisioning` and `Access`, which may come to rest at their bounds.

**Fairness.** Workers: the host calls `tick()` from an interval as long as the
process lives (`*-worker-host.ts`), a crashed process is replaced, and every engine
call returns or throws, since the subprocess and HTTP calls have timeouts; so each
worker's `Tick` is weakly fair. Time passes: `ClaimLapses` is weakly fair. Clients
need not submit and nothing needs to fail. Pipeline: the portal page polls every
ten seconds while it is open, so `List` of a viewer is weakly fair; GitHub carries
out the workflows it accepted and its search catches up; dispatch calls have no
fairness, they may stop anywhere. Host: every docker call of the script has a
timeout, so a run that is not killed proceeds. Scanner: the lock and the docker
calls have deadlines; the operator and the stray container have no fairness. Ingress: the
host's interval keeps calling `run()`, and not every call of reconcile() fails or is cut
off (strong fairness of some `Write`); without that nothing would ever reach Traefik.
Provisioning: every call of GitHub has a timeout and every query ends, so `Proceed` is
weakly fair; the portal offers an initializing project for another try and the company
takes it, so `Resume` is strongly fair: the lock may be busy again and again. `Access` has
safety properties only: nobody has to log in, and a refusal is an answer. The liveness results say nothing about a portal
that nobody has open: list() is the only operation that refreshes without a request.

## Findings

* `releases_crashed`: a release left `deploying` by a dead worker, or by a `fail()`
  that threw, is never claimed again, unlike assessments and builds. README line 65
  promises a terminal failure.
* `provisioning_untouched`: initialize() takes a branch for untouched when its tree has one
  path, README.md, and its history one commit (`github-project-gateway.ts:84`, `:98`). A
  README.md that the customer amended in place passes, and is replaced; the comment at `:96`
  says that only the untouched one is eligible, and `docs/project-initialization.md:92` that
  only the new README-only history is accepted. `CustomerWorkKept` is what holds: nothing
  beyond a lone README.md is overwritten.
* `provisioning`: the repository's id is compared once (`github-project-gateway.ts:73`) and the
  branch read by name afterwards (`:76`). A repository that the customer puts in its place
  between the two is initialized, and the project becomes ready with the id of one that never
  was, although `docs/project-initialization.md:93-94` says that changed identity is rejected.
  `ReadyIsComplete` excepts exactly these requests (`displaced`), and fails without the
  exception.
* `pipeline_safety`: `deploy/platform/PIPELINE-DEMO.md:72` asks for a successful latest Stage
  deployment of the same build. The code looks for it in a listing taken at the beginning of the
  call (`demo-pipeline.ts:171`), several GitHub calls before Prod is reserved: another Stage
  deployment may be stored, and fail, in between, and Prod starts nevertheless.
  `PromotionIsGated` says what holds, latest as of the listing; latest when the row is reserved
  fails in the same run. `PIPELINE-DEMO.md:73` leaves the actual state to the runner, which
  is `PromotesStage` of `HostDeploy`.
* `access`: step-up is asked of company users too (`identity.ts:57`), while `README.md:102` says
  that company membership alone does not trigger it. `RefusalIsEarned` gives operators alone
  a 401 for missing step-up; the members whom the code refuses are excepted by name
  (`MemberWithoutStepUp`), and the property fails without the exception.

Behaviour worth knowing, met while modelling:

*Pipeline.* A dispatch that dies between the insert and the POST, or is refused
by GitHub, leaves its row active until an operator reconciles it. A late confirmation
without an id clears the runId that a poll had found, and a later poll finds it again by
title (`WorkflowIsRecorded` covers this).

*Host.* The flag that makes the except block restart the previous container is set after
`docker stop` returned (`deploy.py:238`). If that call raises although the container
stopped, the previous container stays down, which runbook line 94 does not foresee;
`ReplacedOrUndone` is therefore stated for runs without mishaps.

*Releases.* When a release's `healthy()` commits and its reply is lost, the catch block
rolls the release back and removes its container, and the record, already final, stays
healthy (`unconfirmed`, excepted in `HealthyContainerKept`). The rollback target is captured at
creation, as README line 65 says, so a failure may return the route to a release older than
the latest healthy one; `RollbackRestores` says under which use it does not. The container of
a restarted rollback target gets a new ephemeral port.

*Ingress.* The lock of `activate()` is per process; since one worker per process activates,
it is never contended, and processes rely on the rename. `compose.yaml:105` switches the
reconciler off in the platform's own composition.

*Scanner.* When the removal of a timed-out scanner container fails, the failure is swallowed
and the lock is released while the container still has the cache mounted (`strays`,
excepted in `CacheIsExclusive`).

*Provisioning.* An uncertain creation stays `creating`, which `docs/project-initialization.md`
says: the platform does not ask GitHub what became of it. When the reply of the branch update
is lost and the customer commits before the retry, the repository is neither the README nor
the template, and the project stays `initializing` (not `Resumable`). The gateway's error asks to
"verify the connection again" (`github-project-gateway.ts:48`), but `approveOrganization`
returns early for an organization that is verified (`project-provisioning-service.ts:68`),
so a changed installation cannot be verified again.

*Access.* `isPlatformOperator` and `hasCompanyAccess` read at two moments: a member who
is made an operator after the first query and loses the membership before the second is
refused although never without a role, which is why `EnteredIsAuthorized` and
`RefusalIsEarned` say "at some moment since the request arrived". A request past the hook goes on after a
logout. A late 401 of `/auth/session` or of the hook clears whatever session cookie the
browser has by then, possibly that of a new login. A revoked token still verifies offline
for programs, until it expires. The exchange of the code has no timeout, and the Map of
sessions is pruned only by the cookies that come back.

## Proofs

TLAPS proves, for every number of workers, calls and rows and without the bounds of
the runs:

* `AssessmentQueueProofs`: type correctness, `VerdictIsFinal`,
  `AuditAgreesWithStatus`, `OneAnswerPerKey`, `VerdictIsEarned`,
  `ClaimsAreDistinct`, `AttemptsArePaidFor`, and that every step is a step of
  `JobLifecycle` or a stutter. The argument rests on what a worker's position says
  of its row: a worker that is completing has a result in `engineRuns`, one that is
  failing has an error or a write fault. A claim number is handed out once because
  `claimNext` increments it, and each increment after the first needs `overdue`,
  which the claim resets.
* `BuildQueueProofs`: type correctness, that the build queue implements the safety half
  of `AssessmentQueue` (every step is one of its steps or a stutter), `StoredIsApproved`,
  `CompletedHasArtifact` and `ResultIsFinal`. The invariant says what each `Hand` has
  established: the approval of its claim from the scan on, the source of its draft from
  the build on, its content from the check on, its presence in the store once it is
  completing. Approvals and artifacts only grow (`OthersKeep`), so no other worker takes
  this away. The theorems of `AssessmentQueueProofs` are about its `Safety` formula so
  that they apply to the builds as well: the module ends with `OneAnswerPerKey`,
  `VerdictIsEarned`, `VerdictIsFinal`, `AuditAgreesWithStatus`, `ClaimsAreDistinct`,
  `AttemptsArePaidFor` and the lifecycle for the rows of builds, each by its theorem about
  assessments and the simulation, with no invariant of its own.
* `ReleasesProofs`: the same for releases, and `OneExecutor`,
  `TargetsAreHealthyAndOlder`, `RouteWasVerified`, `HealthyWasRouted`,
  `HealthyContainerKept`, `RouteHasContainer`, `RouteIsAccountedFor` and
  `NoReleaseIsAbandoned`. `TypeInv`
  carries the facts each needs of a tick (a busy worker has a release, a worker
  that rolls back has a target, dated rows). Containers are removed only by a worker
  that rolls back its own release, which is undecided or `unconfirmed`; hence those
  of healthy releases stay. `RouteFollowsRecords` is proved for one worker with a router:
  as long as no release met a fault or a crash (`RouteFollowsUntilFault`), and so always
  where nothing fails (`RouteFollows`). These hypotheses are the promise, not a
  convenience: two workers may switch the route in one order and have dated their verdicts
  in the other, and a fault may come between switching and recording. `CalmInv` is needed because
  the promise is about the latest verdict: verdicts are dated by the worker before it moves
  the route, so the invariant says that the date it holds is later than every verdict, that
  the route it is about to report has been switched, and that until then the route is the
  one last reported.

  `RollbackRestoresPrevious` is not a promise of the code, which captures the target at creation;
  `RollbackRestores` says under which use it holds: with a router, for any number of workers, crashes and faults,
  as long as releases are `Sequential`: no two between the reading of their targets and
  their verdicts, and none `unconfirmed`. The target read is then still the latest healthy
  release when it is used (`TargetIsLatest`), and no other worker moves the route between
  its restoration and its record (`RouteAtTarget`).

  The rest is about `IngressRouting`. At most one call of reconcile() is under way, and its
  listing is not older than the file it replaces (`CallsInv`), hence `RoutesNeverGoBack`.
  The composition implements `Releases` (`ReconcilerIsTransparent`), so every theorem above
  holds of it; and since what is listed or served was the stable route once, and a release
  that the route may point to stays healthy or `hurt` (`AccountedStays`), Traefik serves
  only such a release (`ServedAccountedFor`) and its container is not removed under it
  (`ServedKeepsContainer`), however late the file follows.
* `DemoPipelineProofs`: all safety properties of the pipeline and that it implements
  `Promotion`. None of them is inductive. `IInv` adds, for rows, that a status is
  `Behind` its workflow, that at most one row is active, and that a stored row's
  evidence was there before it, for Prod the latest Stage row of its call's listing
  (`RowsPromised`: places in created_at order never change, so which row was the latest of the
  first n does not either); for calls, what each position
  knows (`CallOK`: a value about to be written is behind the workflow, a
  reservation about to be made has its evidence) and that a call about to POST is
  the first for its row (`PostIsFirst`). Since every step lets the rows only grow
  (`Grows`), what one call knows survives the steps of the others; that lemma
  replaces the pairwise non-interference proofs.
* `HostDeployProofs`: type correctness, `PreviousKept`, `PromotesStage`,
  `ProdRanOnStage` and `ReplacedOrUndone`. The invariant says what each position knows:
  only the run that holds the lock is between two calls, `previous` is what the
  receipt still names, the containers it may touch are its own and that one, and,
  while there were no mishaps, which of the two is up. A promotion's check of Stage
  survives until its receipt because the one lock covers both environments.
* `ScannerCacheProofs`: type correctness, `CacheIsExclusive` and
  `ApprovalHasEvidence`. While nothing strayed, a container that runs belongs to the
  scan named by the lock, dead or alive.
* `ProjectProvisioningProofs`: all its safety properties and that it implements
  `Onboarding`. The invariant says what a company's
  record promises about GitHub and the applications (`SetupTrue`, `WorkIsRecorded`) and what
  each call `Knows` at its await, whether or not it still holds the lock: its `view` agrees
  with the record on everything that matters for its next effect, since the record only moves
  on (`Advances`) and only the lock's holder moves it. `OneCreator` is the heart of it: of the
  calls that could create the repository of a request there is one, because the intent is
  stored before GitHub is called and a `creating` request is never resumed. Hence one
  repository per request although the lock can be lost in between. Between the comparison of
  a repository's id and the reading of its branch that id stays at the name or the request is
  `displaced` (`ReadingStays`); after that a call knows the repository that it read, whatever has the
  name. What a branch holds now is in no invariant, since the customer may change it at any
  time: a call that is about to commit knows that it read a lone README.md, and the head tells
  whether that is still there (`CustomerWorkKept`). The refinement needs
  more (`MadeInv`): ids are handed out in order, a branch is filled only for a request
  that recorded its repository, and an application is registered only after that; otherwise
  one request's step could move another's, or two at once. Several calls may redo a step of
  the same request; all but the first are stutters.
* `AccessProofs`: all properties of `Access`. A pending login is unused, is in no exchange, and
  an exchange is the only one of its state (`PendingIsUnused`, `ExchangeIsAlone`), so the
  deletion before any check makes a state single-use; a browser's cookies name only what the
  browser began. For requests the invariant says what each await has established: that what
  it has seen includes what is so now (`Watched`), that a session which ended earlier and is
  still being introspected is one the provider will not call active (`Introspecting`), and that past
  the hook a request is of a page of its session (`PastHook`).

Assumptions on constants are that the sentinels (`NoKey`, `NoRun`, ...) are not
elements of the sets they stand beside, that requests and pages are different calls,
and that bounds are numbers.

Only model-checked: liveness (the prover does not reason about fairness and
ENABLED), hence `WorkflowIsRecorded`, `OutageEnds`, `ScanEnds`, `TraefikFollowsRoute`,
`InitializingBecomesReady` and the fairness halves of `ImplementsLifecycle` and
`ImplementsQueue`. Every invariant and every action property of the passing runs is proved.

## Plan

Done: every module above with its runs and proofs. What remains, in this order:

1. Scan evidence: files are published by rename and read back by id and company
   (`filesystem-scan-evidence.ts`); a reader action in `ScannerCache`.
2. Expiry of artifacts (`deleteExpired`), once something in the code calls it: a release may
   then name an artifact that is gone.
3. Step-up and restart of a sensitive action in the portal, with `Access`.

## Not modelled

Portal pages, the OpenAPI document, checkout, dependency restoration, scan evidence and
the wiring hold no coordination of their own: they validate, parse, render or run one
subprocess inside an engine call that here succeeds or throws. Of the schema only the
constraints are used, in the modules of the tables they constrain. The in-memory
repositories, grants and the local token verifier stand in for PostgreSQL and the identity
provider in tests. Installation scripts run once. The architecture report is a development
tool. `PROJECT.json` names each with its reason.
