------------------------------ MODULE Releases ------------------------------
(***************************************************************************)
(* Test releases of one application: ReleaseService.create, the PostgreSQL *)
(* release repository, the ReleaseWorker processes that deploy a release,  *)
(* verify it, switch the stable route to it and record the verdict, or     *)
(* roll back to the release captured when this one was created.            *)
(*                                                                         *)
(* Docker containers and the stable route are state of their own: a        *)
(* worker changes them by calls that interleave with the other workers,    *)
(* that may fail, and whose effect a crash leaves behind.  The in-process  *)
(* lock and the rename of FilesystemIngressRouter make one activation one  *)
(* step.                                                                   *)
(*                                                                         *)
(* A release row is named by its idempotency key: the unique index on      *)
(* (company, application, key) makes a second insert return the first row. *)
(***************************************************************************)
EXTENDS Naturals, Sequences

CONSTANTS
  Worker,             \* release worker processes
  Release,            \* release rows, named by idempotency key
  NoRelease,          \* no rollback target; no route; an idle worker's release
  IngressConfigured,  \* whether INGRESS_ROUTE_ROOT gives the workers a router
  MaxFaults,          \* bound: failing or unconfirmed database and router calls
  MaxCrashes          \* bound: worker process deaths

ASSUME NoReleaseIsNoRow == NoRelease \notin Release
ASSUME Bounds ==
  /\ IngressConfigured \in BOOLEAN
  /\ MaxFaults \in Nat
  /\ MaxCrashes \in Nat

VARIABLES
  status,       \* releases.status, "absent" before the insert
  target,       \* rollback_target_release_id: read by create(), then stored
  createdAt,    \* created_at: taken by create(), then stored; 0 before
  completedAt,  \* releases.completed_at, 0 while null
  audit,        \* audit_events of the row, in insertion order
  container,    \* container vcp-test-<release>: "none", "running" or "stopped"
  route,        \* releaseId of the application's stable route
  clock,        \* instants handed out so far
  pc,           \* where each worker's tick() stands
  current,      \* the release each worker's tick() claimed
  stamp,        \* the `now` the worker took before switching the route
  faults,       \* failing or unconfirmed calls so far
  crashes       \* worker process deaths so far

\* History variables.
VARIABLES
  verified,     \* verified[w]: releases w's tick has seen pass a health check
  routed,       \* releases that have been activated on the stable route
  unconfirmed,  \* releases whose healthy() committed but threw
  hurt          \* releases whose processing met a fault or a crash

row == <<status, target, createdAt, completedAt, audit>>
worker == <<pc, current, stamp, verified>>
history == <<routed, unconfirmed, hurt>>
vars == <<row, container, route, clock, worker, faults, crashes, history>>

Verdict == {"healthy", "rolled-back", "failed"}
Healthy == {r \in Release : status[r] = "healthy"}
Busy(w) == pc[w] # "idle"

TypeOK ==
  /\ status \in [Release -> {"absent", "pending", "deploying"} \cup Verdict]
  /\ target \in [Release -> Release \cup {NoRelease}]
  /\ createdAt \in [Release -> Nat]
  /\ completedAt \in [Release -> Nat]
  /\ audit \in [Release -> Seq({"queued"} \cup Verdict)]
  /\ container \in [Release -> {"none", "running", "stopped"}]
  /\ route \in Release \cup {NoRelease}
  /\ clock \in Nat
  /\ pc \in [Worker -> {"idle", "deploying", "verifying", "activating",
                        "recording", "catching", "restoring", "removing",
                        "reverifying", "reactivating", "recordingRollback",
                        "failing"}]
  /\ current \in [Worker -> Release \cup {NoRelease}]
  /\ stamp \in [Worker -> Nat]
  /\ faults \in Nat /\ crashes \in Nat
  /\ verified \in [Worker -> SUBSET Release]
  /\ routed \in SUBSET Release
  /\ unconfirmed \in SUBSET Release
  /\ hurt \in SUBSET Release

Init ==
  /\ status = [r \in Release |-> "absent"]
  /\ target = [r \in Release |-> NoRelease]
  /\ createdAt = [r \in Release |-> 0]
  /\ completedAt = [r \in Release |-> 0]
  /\ audit = [r \in Release |-> <<>>]
  /\ container = [r \in Release |-> "none"]
  /\ route = NoRelease
  /\ clock = 0
  /\ pc = [w \in Worker |-> "idle"]
  /\ current = [w \in Worker |-> NoRelease]
  /\ stamp = [w \in Worker |-> 0]
  /\ faults = 0
  /\ crashes = 0
  /\ verified = [w \in Worker |-> {}]
  /\ routed = {}
  /\ unconfirmed = {}
  /\ hurt = {}

-----------------------------------------------------------------------------
(***************************************************************************)
(* ReleaseService.create.  Its checks of the build read a completed build  *)
(* record, which is never changed again, so they are left out; a rejected  *)
(* request stores nothing.                                                 *)
(***************************************************************************)

\* where status = 'healthy' order by completed_at desc, first row
LatestHealthy ==
  IF Healthy = {} THEN {NoRelease}
  ELSE {r \in Healthy : \A s \in Healthy : completedAt[s] <= completedAt[r]}

\* latestHealthy and then `now`.  Of several create() calls with one key only the
\* one that inserts the row leaves a trace: the model follows that one.
ReadTarget(r) ==
  /\ createdAt[r] = 0
  /\ \E t \in LatestHealthy : target' = [target EXCEPT ![r] = t]
  /\ clock' = clock + 1
  /\ createdAt' = [createdAt EXCEPT ![r] = clock']
  /\ UNCHANGED <<status, completedAt, audit, container, route, worker, faults,
                 crashes, history>>

\* The insert and its audit event, with the target and created_at read earlier.
InsertRelease(r) ==
  /\ createdAt[r] # 0
  /\ status[r] = "absent"
  /\ status' = [status EXCEPT ![r] = "pending"]
  /\ audit' = [audit EXCEPT ![r] = Append(@, "queued")]
  /\ UNCHANGED <<target, createdAt, completedAt, container, route, clock, worker,
                 faults, crashes, history>>

-----------------------------------------------------------------------------
(***************************************************************************)
(* Steps of tick().                                                        *)
(***************************************************************************)

Goto(w, step) == pc' = [pc EXCEPT ![w] = step]

EndTick(w) ==
  /\ Goto(w, "idle")
  /\ current' = [current EXCEPT ![w] = NoRelease]
  /\ stamp' = [stamp EXCEPT ![w] = 0]
  /\ verified' = [verified EXCEPT ![w] = {}]

\* The step moves w on and leaves the rest of its tick's locals alone.
Continue(w, step) ==
  /\ Goto(w, step)
  /\ UNCHANGED <<current, stamp, verified>>

\* where status = 'pending': a deploying row is never claimed again.
Claimable(r) == status[r] = "pending"

\* order by created_at for update skip locked limit 1
ClaimNext(w, r) ==
  /\ pc[w] = "idle"
  /\ Claimable(r)
  /\ \A s \in Release : Claimable(s) => createdAt[r] <= createdAt[s]
  /\ status' = [status EXCEPT ![r] = "deploying"]
  /\ Goto(w, "deploying")
  /\ current' = [current EXCEPT ![w] = r]
  /\ UNCHANGED <<target, createdAt, completedAt, audit, container, route, clock,
                 stamp, verified, faults, crashes, history>>

\* Mutant: the route is switched as soon as the candidate runs.
DeployActivates(w) ==
  /\ pc[w] = "deploying"
  /\ container' = [container EXCEPT ![current[w]] = "running"]
  /\ route' = current[w]
  /\ routed' = routed \cup {current[w]}
  /\ Continue(w, "verifying")
  /\ UNCHANGED <<row, clock, faults, crashes, unconfirmed, hurt>>

\* deploy(): artifact fetched and verified, image scanned, docker run, docker port.
DeployReturns(w) ==
  /\ pc[w] = "deploying"
  /\ container' = [container EXCEPT ![current[w]] = "running"]
  /\ Continue(w, "verifying")
  /\ UNCHANGED <<row, route, clock, faults, crashes, history>>

\* deploy() throws before docker run, in it, or at docker port.
DeployThrows(w) ==
  /\ pc[w] = "deploying"
  /\ \E c \in {"none", "running", "stopped"} :
       container' = [container EXCEPT ![current[w]] = c]
  /\ Continue(w, "catching")
  /\ UNCHANGED <<row, route, clock, faults, crashes, history>>

\* A health check passes only while the container it asks is running.  The `now`
\* that dates the verdict is taken right after it, before the route is switched.
CheckPasses(w, r) ==
  /\ container[r] = "running"
  /\ verified' = [verified EXCEPT ![w] = @ \cup {r}]
  /\ clock' = clock + 1
  /\ stamp' = [stamp EXCEPT ![w] = clock']

VerifyPasses(w) ==
  /\ pc[w] = "verifying"
  /\ CheckPasses(w, current[w])
  /\ Goto(w, IF IngressConfigured THEN "activating" ELSE "recording")
  /\ UNCHANGED <<row, container, route, current, faults, crashes, history>>

VerifyFails(w) ==
  /\ pc[w] = "verifying"
  /\ Continue(w, "catching")
  /\ UNCHANGED <<row, container, route, clock, faults, crashes, history>>

Activate(r) ==
  /\ route' = r
  /\ routed' = routed \cup {r}

ActivateCandidate(w) ==
  /\ pc[w] = "activating"
  /\ Activate(current[w])
  /\ Continue(w, "recording")
  /\ UNCHANGED <<row, container, clock, faults, crashes, unconfirmed, hurt>>

\* Mutant: the update is keyed by id alone.
MayFinishAlways(r) == TRUE

\* where id = $1 and status = 'deploying'
MayFinish(r) == status[r] = "deploying"

\* The transaction of finish(): verdict, completed_at and audit event.
Finish(r, verdict, at) ==
  /\ status' = [status EXCEPT ![r] = verdict]
  /\ completedAt' = [completedAt EXCEPT ![r] = at]
  /\ audit' = [audit EXCEPT ![r] = Append(@, verdict)]
  /\ UNCHANGED <<target, createdAt>>

RecordHealthy(w) ==
  /\ pc[w] = "recording"
  /\ MayFinish(current[w])
  /\ Finish(current[w], "healthy", stamp[w])
  /\ EndTick(w)
  /\ UNCHANGED <<container, route, clock, faults, crashes, history>>

-----------------------------------------------------------------------------
(***************************************************************************)
(* The catch block.                                                        *)
(***************************************************************************)

\* target?.status === 'healthy' && target.deploymentUrl
MayRollBack(r) == target[r] \in Release /\ status[target[r]] = "healthy"

FindTarget(w) ==
  /\ pc[w] = "catching"
  /\ Continue(w, IF MayRollBack(current[w]) THEN "restoring" ELSE "failing")
  /\ UNCHANGED <<row, container, route, clock, faults, crashes, history>>

\* rollback(): docker inspect and docker start of the target's container.
RestoreTarget(w) ==
  LET t == target[current[w]] IN
  /\ pc[w] = "restoring"
  /\ container[t] # "none"
  /\ container' = [container EXCEPT ![t] = "running"]
  /\ Continue(w, "removing")
  /\ UNCHANGED <<row, route, clock, faults, crashes, history>>

\* Mutant: a failing rollback throws out of tick().
RestoreThrowsOut(w) ==
  /\ pc[w] = "restoring"
  /\ EndTick(w)
  /\ UNCHANGED <<row, container, route, clock, faults, crashes, history>>

\* There is no such container, or docker start fails.
RestoreThrows(w) ==
  /\ pc[w] = "restoring"
  /\ Continue(w, "failing")
  /\ UNCHANGED <<row, container, route, clock, faults, crashes, history>>

\* Mutant: the container removed is the target's.
RemoveTarget(w) ==
  /\ pc[w] = "removing"
  /\ container' \in {container, [container EXCEPT ![target[current[w]]] = "none"]}
  /\ Continue(w, "reverifying") \/ Continue(w, "failing")
  /\ UNCHANGED <<row, route, clock, faults, crashes, history>>

\* Mutant: the restored endpoint is not verified.
RemoveThenActivate(w) ==
  /\ pc[w] = "removing"
  /\ container' \in {container, [container EXCEPT ![current[w]] = "none"]}
  /\ Continue(w, "reactivating") \/ Continue(w, "failing")
  /\ UNCHANGED <<row, route, clock, faults, crashes, history>>

\* docker rm -f of the candidate, whose failure is swallowed; docker port of the
\* target may throw.
RemoveCandidate(w) ==
  /\ pc[w] = "removing"
  /\ container' \in {container, [container EXCEPT ![current[w]] = "none"]}
  /\ Continue(w, "reverifying") \/ Continue(w, "failing")
  /\ UNCHANGED <<row, route, clock, faults, crashes, history>>

\* Mutant: a rollback does not repoint the route.
ReverifyKeepsRoute(w) ==
  /\ pc[w] = "reverifying"
  /\ CheckPasses(w, target[current[w]])
  /\ Goto(w, "recordingRollback")
  /\ UNCHANGED <<row, container, route, current, faults, crashes, history>>

ReverifyPasses(w) ==
  /\ pc[w] = "reverifying"
  /\ CheckPasses(w, target[current[w]])
  /\ Goto(w, IF IngressConfigured THEN "reactivating" ELSE "recordingRollback")
  /\ UNCHANGED <<row, container, route, current, faults, crashes, history>>

ReverifyFails(w) ==
  /\ pc[w] = "reverifying"
  /\ Continue(w, "failing")
  /\ UNCHANGED <<row, container, route, clock, faults, crashes, history>>

ActivateTarget(w) ==
  /\ pc[w] = "reactivating"
  /\ Activate(target[current[w]])
  /\ Continue(w, "recordingRollback")
  /\ UNCHANGED <<row, container, clock, faults, crashes, unconfirmed, hurt>>

RecordRolledBack(w) ==
  /\ pc[w] = "recordingRollback"
  /\ MayFinish(current[w])
  /\ Finish(current[w], "rolled-back", stamp[w])
  /\ EndTick(w)
  /\ UNCHANGED <<container, route, clock, faults, crashes, history>>

\* rolledBack() finds the row already finalized: caught, and fail() is tried.
RollbackRejected(w) ==
  /\ pc[w] = "recordingRollback"
  /\ ~ MayFinish(current[w])
  /\ Continue(w, "failing")
  /\ UNCHANGED <<row, container, route, clock, faults, crashes, history>>

RecordFailed(w) ==
  /\ pc[w] = "failing"
  /\ MayFinish(current[w])
  /\ clock' = clock + 1
  /\ Finish(current[w], "failed", clock')
  /\ EndTick(w)
  /\ UNCHANGED <<container, route, faults, crashes, history>>

\* fail() throws out of tick(); the host logs cycle_failed.
FailRejected(w) ==
  /\ pc[w] = "failing"
  /\ ~ MayFinish(current[w])
  /\ EndTick(w)
  /\ UNCHANGED <<row, container, route, clock, faults, crashes, history>>

-----------------------------------------------------------------------------
(***************************************************************************)
(* Faults: a call of the database or of the router throws, before or after *)
(* it took effect; a worker process dies; a container exits.               *)
(***************************************************************************)
CallFault(w) ==
  /\ faults < MaxFaults
  /\ faults' = faults + 1
  /\ hurt' = hurt \cup {current[w]}
  /\ UNCHANGED <<container, clock, crashes>>

\* activate() of the candidate throws before or after its rename.
ActivateThrows(w) ==
  /\ pc[w] = "activating"
  /\ CallFault(w)
  /\ Activate(current[w]) \/ UNCHANGED <<route, routed>>
  /\ Continue(w, "catching")
  /\ UNCHANGED <<row, unconfirmed>>

\* activate() of the rollback target throws before or after its rename.
ReactivateThrows(w) ==
  /\ pc[w] = "reactivating"
  /\ CallFault(w)
  /\ Activate(target[current[w]]) \/ UNCHANGED <<route, routed>>
  /\ Continue(w, "failing")
  /\ UNCHANGED <<row, unconfirmed>>

\* healthy() or rolledBack() throws without committing.
WriteThrows(w) ==
  /\ \/ pc[w] = "recording" /\ Continue(w, "catching")
     \/ pc[w] = "recordingRollback" /\ Continue(w, "failing")
  /\ CallFault(w)
  /\ UNCHANGED <<row, route, routed, unconfirmed>>

\* healthy() commits but throws, so the catch block rolls a healthy release back.
HealthyUnconfirmed(w) ==
  /\ pc[w] = "recording"
  /\ MayFinish(current[w])
  /\ CallFault(w)
  /\ Finish(current[w], "healthy", stamp[w])
  /\ unconfirmed' = unconfirmed \cup {current[w]}
  /\ Continue(w, "catching")
  /\ UNCHANGED <<route, routed>>

\* rolledBack() commits but throws, so fail() is tried on a rolled-back release.
RollbackUnconfirmed(w) ==
  /\ pc[w] = "recordingRollback"
  /\ MayFinish(current[w])
  /\ CallFault(w)
  /\ Finish(current[w], "rolled-back", stamp[w])
  /\ Continue(w, "failing")
  /\ UNCHANGED <<route, routed, unconfirmed>>

\* findById in the catch block, or fail() itself, throws out of tick(): the row
\* stays deploying and no worker claims it again.
TickThrows(w) ==
  /\ pc[w] \in {"catching", "failing"}
  /\ CallFault(w)
  /\ EndTick(w)
  /\ UNCHANGED <<row, route, routed, unconfirmed>>

\* The worker process dies anywhere in tick() and a new one starts.
Crash(w) ==
  /\ Busy(w)
  /\ crashes < MaxCrashes
  /\ crashes' = crashes + 1
  /\ hurt' = hurt \cup {current[w]}
  /\ EndTick(w)
  /\ UNCHANGED <<row, container, route, clock, faults, routed, unconfirmed>>

\* A container exits on its own; docker run asks for no restart.
ContainerExits(r) ==
  /\ container[r] = "running"
  /\ container' = [container EXCEPT ![r] = "stopped"]
  /\ UNCHANGED <<row, route, clock, worker, faults, crashes, history>>

-----------------------------------------------------------------------------
Candidate(w) ==
  \/ \E r \in Release : ClaimNext(w, r)
  \/ DeployReturns(w) \/ DeployThrows(w)
  \/ VerifyPasses(w) \/ VerifyFails(w)
  \/ ActivateCandidate(w)
  \/ RecordHealthy(w)

Rollback(w) ==
  \/ FindTarget(w)
  \/ RestoreTarget(w) \/ RestoreThrows(w)
  \/ RemoveCandidate(w)
  \/ ReverifyPasses(w) \/ ReverifyFails(w)
  \/ ActivateTarget(w)
  \/ RecordRolledBack(w) \/ RollbackRejected(w)
  \/ RecordFailed(w) \/ FailRejected(w)

Tick(w) == Candidate(w) \/ Rollback(w)

Fault(w) ==
  \/ ActivateThrows(w) \/ ReactivateThrows(w)
  \/ WriteThrows(w)
  \/ HealthyUnconfirmed(w) \/ RollbackUnconfirmed(w)
  \/ TickThrows(w)
  \/ Crash(w)

Next ==
  \/ \E r \in Release : ReadTarget(r) \/ InsertRelease(r) \/ ContainerExits(r)
  \/ \E w \in Worker : Tick(w) \/ Fault(w)

\* The host's interval keeps calling tick(), and every call of the deployment
\* engine returns or throws: docker calls and health checks carry timeouts.
Fairness == \A w \in Worker : WF_vars(Tick(w))

Spec == Init /\ [][Next]_vars /\ Fairness

-----------------------------------------------------------------------------
(***************************************************************************)
(* Properties of every run.                                                *)
(***************************************************************************)

\* The row's status in the vocabulary of JobLifecycle.
JobStatus(r) ==
  IF status[r] = "pending" THEN "queued"
  ELSE IF status[r] = "deploying" THEN "running" ELSE status[r]

Lifecycle ==
  INSTANCE JobLifecycle WITH Job <- Release, Verdict <- Verdict,
                             status <- [r \in Release |-> JobStatus(r)]

\* A release is stored, started and decided once, each change of its status with
\* its audit event: the safety half of the lifecycle every durable job promises.
ImplementsLifecycleSafety == Lifecycle!Safety

\* A release's audit trail is the one its status calls for, also when finish()
\* committed and the worker, not knowing, went on to roll back and fail it.
AuditAgreesWithStatus ==
  \A r \in Release : audit[r] = Lifecycle!Trail(JobStatus(r))

\* A verdict is final: no late call of the worker that rolled a healthy release
\* back rewrites the row.
VerdictIsFinal ==
  [][\A r \in Release :
       status[r] \in Verdict =>
         /\ status'[r] = status[r]
         /\ target'[r] = target[r]
         /\ completedAt'[r] = completedAt[r]]_vars

\* A release is deployed, rolled back or recorded by at most one worker, and that
\* worker claimed it.
OneExecutor ==
  \A v, w \in Worker :
    Busy(v) =>
      /\ status[current[v]] \notin {"absent", "pending"}
      /\ Busy(w) /\ current[v] = current[w] => v = w

\* A release rolls back to one that was recorded healthy and was created earlier,
\* so following rollback targets ends at a release that has none.
TargetsAreHealthyAndOlder ==
  \A r \in Release :
    target[r] # NoRelease =>
      /\ status[target[r]] = "healthy"
      /\ createdAt[target[r]] < createdAt[r]

\* The stable route only ever moves to a release that the worker moving it has
\* seen pass a health check in the same tick.
RouteWasVerified ==
  [][route' # route => \E w \in Worker : route' \in verified[w]]_vars

\* With a router, a release is recorded healthy, or is a completed rollback's
\* target, only once the stable route has pointed to it.
HealthyWasRouted ==
  IngressConfigured =>
    \A r \in Release :
      /\ status[r] = "healthy" => r \in routed
      /\ status[r] = "rolled-back" => target[r] \in routed

\* The container of a healthy release is never removed, so that a rollback can
\* start it again; the exception is a release whose healthy() write committed
\* without the worker learning of it.
HealthyContainerKept ==
  \A r \in Release :
    status[r] = "healthy" => container[r] # "none" \/ r \in unconfirmed

\* The stable route never points to a removed container, unless the release it
\* points to met a fault between its activation and its verdict.
RouteHasContainer ==
  route # NoRelease => container[route] # "none" \/ route \in hurt

\* The stable route points to a healthy release, to one a worker is about to
\* record healthy, or to one whose processing met a fault or a crash.
RouteIsAccountedFor ==
  route # NoRelease =>
    \/ status[route] = "healthy"
    \/ route \in hurt
    \/ \E w \in Worker : current[w] = route /\ pc[w] = "recording"

\* A tick decides its release, whatever throws on the way: a deploying release is in the
\* hands of a worker, or met a fault or a crash (nothing claims it again).
NoReleaseIsAbandoned ==
  \A r \in Release :
    status[r] = "deploying" => r \in hurt \/ \E w \in Worker : Busy(w) /\ current[w] = r

\* Every inserted release is eventually decided.
ReleaseDecided ==
  \A r \in Release : status[r] = "pending" ~> status[r] \in Verdict

-----------------------------------------------------------------------------
(***************************************************************************)
(* Properties of a single worker that meets no fault.                      *)
(***************************************************************************)

\* The releases whose verdict moved or confirmed the route, the last one first.
RouteDeciders == {r \in Release : status[r] \in {"healthy", "rolled-back"}}
LastDecider(r) ==
  /\ r \in RouteDeciders
  /\ \A s \in RouteDeciders : completedAt[s] <= completedAt[r]

\* Between ticks the stable route is what the records say: the release last
\* recorded healthy, or the target of the one last rolled back.
RouteFollowsRecords ==
  (\A w \in Worker : ~ Busy(w)) =>
    \A r \in Release :
      LastDecider(r) => route = (IF status[r] = "healthy" THEN r ELSE target[r])

\* A rollback leaves the route on the release that is the latest healthy one by then.
\* create() captures the target and another release may become healthy before it is
\* used, so this needs releases created one after another's verdict.
RollbackRestoresPrevious ==
  [][\A r \in Release :
       status[r] = "deploying" /\ status'[r] = "rolled-back" =>
         route \in LatestHealthy]_vars
=============================================================================
