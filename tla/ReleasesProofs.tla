--------------------------- MODULE ReleasesProofs ---------------------------
(***************************************************************************)
(* What holds of releases for any set of workers and releases, with or     *)
(* without a router, and any number of faults and crashes, and what the    *)
(* reconciler does with their routes.                                      *)
(***************************************************************************)
EXTENDS IngressRouting, TLAPS

-----------------------------------------------------------------------------
(***************************************************************************)
(* The inductive invariant.                                                *)
(***************************************************************************)

\* A worker inside tick() has a release, which has been dated.
BusyHasRelease ==
  \A w \in Worker :
    Busy(w) => current[w] \in Release /\ createdAt[current[w]] # 0

\* created_at dates a stored row, from instants already handed out.
DatedRows ==
  \A r \in Release :
    /\ createdAt[r] <= clock
    /\ status[r] # "absent" => createdAt[r] # 0

\* What has become of the row of a worker's release: it is deploying until the
\* worker decides it, unless a write committed without the worker learning of it.
Undecided(w) == status[current[w]] = "deploying"
DecidedUnawares(w) == status[current[w]] = "healthy" /\ current[w] \in unconfirmed

RowOfWorker ==
  \A w \in Worker :
    /\ pc[w] \in {"deploying", "verifying", "activating", "recording"} => Undecided(w)
    /\ pc[w] \in {"catching", "restoring", "removing", "reverifying",
                  "reactivating", "recordingRollback"} =>
         Undecided(w) \/ DecidedUnawares(w)
    /\ pc[w] = "failing" =>
         Undecided(w) \/ DecidedUnawares(w) \/ status[current[w]] = "rolled-back"

\* A rollback under way has a target.
RollbackHasTarget ==
  \A w \in Worker :
    pc[w] \in {"restoring", "removing", "reverifying", "reactivating",
               "recordingRollback"} => target[current[w]] # NoRelease

\* The check that must precede an activation, and the activation that must
\* precede a record, have taken place.
ActivationIsVerified ==
  \A w \in Worker :
    /\ pc[w] = "activating" => current[w] \in verified[w]
    /\ pc[w] = "reactivating" => target[current[w]] \in verified[w]
RecordIsActivated ==
  IngressConfigured =>
    \A w \in Worker :
      /\ pc[w] = "recording" => current[w] \in routed
      /\ pc[w] = "recordingRollback" => target[current[w]] \in routed

\* A candidate that was deployed keeps its container until the catch block.
CandidateHasContainer ==
  \A w \in Worker :
    pc[w] \in {"verifying", "activating", "recording"} => container[current[w]] # "none"

\* An unconfirmed release met a fault.
UnconfirmedIsHurt == unconfirmed \subseteq hurt

TypeInv == TypeOK /\ BusyHasRelease /\ DatedRows /\ RollbackHasTarget

-----------------------------------------------------------------------------
(***************************************************************************)
(* The steps of a run, by what they do: the split every proof below uses.  *)
(***************************************************************************)

\* A worker's step that touches neither its release's row nor the route, and
\* leads from `from` to `to`.
Engine(w) ==
  \/ DeployReturns(w) \/ DeployThrows(w)
  \/ VerifyFails(w)
  \/ FindTarget(w)
  \/ RestoreTarget(w) \/ RestoreThrows(w)
  \/ RemoveCandidate(w)
  \/ ReverifyFails(w)
  \/ RollbackRejected(w)
  \/ WriteThrows(w)
Check(w) == VerifyPasses(w) \/ ReverifyPasses(w)
Route(w) ==
  \/ ActivateCandidate(w) \/ ActivateThrows(w)
  \/ ActivateTarget(w) \/ ReactivateThrows(w)
Record(w) ==
  \/ RecordHealthy(w) \/ RecordRolledBack(w) \/ RecordFailed(w)
  \/ HealthyUnconfirmed(w) \/ RollbackUnconfirmed(w)
GiveUp(w) == FailRejected(w) \/ TickThrows(w) \/ Crash(w)

\* Every step is of one of these kinds.
LEMMA StepCases ==
  ASSUME [Next]_vars
  PROVE  \/ \E r \in Release : ReadTarget(r)
         \/ \E r \in Release : InsertRelease(r)
         \/ \E r \in Release : ContainerExits(r)
         \/ \E w \in Worker, r \in Release : ClaimNext(w, r)
         \/ \E w \in Worker : Engine(w)
         \/ \E w \in Worker : Check(w)
         \/ \E w \in Worker : Route(w)
         \/ \E w \in Worker : Record(w)
         \/ \E w \in Worker : GiveUp(w)
         \/ UNCHANGED vars
BY DEF Next, Tick, Candidate, Rollback, Fault, Engine, Check, Route, Record, GiveUp

-----------------------------------------------------------------------------
(***************************************************************************)
(* Type correctness.                                                       *)
(***************************************************************************)

\* Initially nothing is stored and every worker is idle.
LEMMA InitTypeInv == Init => TypeInv
BY NoReleaseIsNoRow
DEF Init, TypeInv, TypeOK, BusyHasRelease, DatedRows, RollbackHasTarget, Busy, Verdict

\* A step that leaves rows and ticks alone leaves BusyHasRelease, DatedRows and
\* RollbackHasTarget alone.
LEMMA FrameTypeInv ==
  ASSUME TypeInv, UNCHANGED <<row, clock, pc, current>>
  PROVE  /\ BusyHasRelease' /\ DatedRows' /\ RollbackHasTarget'
BY DEF TypeInv, BusyHasRelease, DatedRows, RollbackHasTarget, Busy, row

\* create() and the container runtime write values of the right types, and
\* create() writes the target and the date of a new row only.
LEMMA ClientTypeInv ==
  ASSUME TypeInv, NEW r \in Release,
         ReadTarget(r) \/ InsertRelease(r) \/ ContainerExits(r)
  PROVE  TypeInv'
<1>1. CASE ReadTarget(r)
  <2>1. PICK t \in LatestHealthy : target' = [target EXCEPT ![r] = t]
    BY <1>1 DEF ReadTarget
  <2>2. t \in Release \cup {NoRelease}
    BY DEF LatestHealthy, Healthy
  <2>3. TypeOK'
    BY <1>1, <2>1, <2>2 DEF TypeInv, TypeOK, Verdict, ReadTarget, worker, history
  <2>4. \A w \in Worker : Busy(w) => current[w] # r
    BY <1>1 DEF TypeInv, BusyHasRelease, ReadTarget
  <2>5. BusyHasRelease' /\ RollbackHasTarget'
    BY <1>1, <2>1, <2>4
    DEF TypeInv, TypeOK, BusyHasRelease, RollbackHasTarget, Busy, ReadTarget, worker
  <2>6. DatedRows'
    BY <1>1 DEF TypeInv, TypeOK, DatedRows, ReadTarget
  <2> QED BY <2>3, <2>5, <2>6 DEF TypeInv
<1>2. CASE InsertRelease(r)
  <2>1. TypeOK'
    BY <1>2 DEF TypeInv, TypeOK, Verdict, InsertRelease, worker, history
  <2> QED
    BY <1>2, <2>1 DEF TypeInv, TypeOK, BusyHasRelease, DatedRows, RollbackHasTarget,
       Busy, InsertRelease, worker
<1>3. CASE ContainerExits(r)
  <2>1. TypeOK'
    BY <1>3 DEF TypeInv, TypeOK, Verdict, ContainerExits, row, worker, history
  <2> QED BY <1>3, <2>1, FrameTypeInv DEF TypeInv, ContainerExits, worker
<1> QED BY <1>1, <1>2, <1>3

\* A claim gives the worker a stored, hence dated, release.
LEMMA ClaimTypeInv ==
  ASSUME TypeInv, NEW w \in Worker, NEW r \in Release, ClaimNext(w, r)
  PROVE  TypeInv'
<1>1. TypeOK'
  BY DEF TypeInv, TypeOK, Verdict, ClaimNext, Goto, history
<1> QED
  BY <1>1 DEF TypeInv, TypeOK, BusyHasRelease, DatedRows, RollbackHasTarget, Busy,
     ClaimNext, Claimable, Goto

\* A worker inside tick() has a release, and a rollback has a target.
LEMMA WorkersRelease ==
  ASSUME TypeInv, NEW w \in Worker, Busy(w)
  PROVE  /\ current[w] \in Release
         /\ pc[w] \in {"restoring", "removing", "reverifying", "reactivating",
                       "recordingRollback"} => target[current[w]] \in Release
BY DEF TypeInv, TypeOK, BusyHasRelease, RollbackHasTarget

\* Steps of the deployment engine move the tick on and may change containers.
LEMMA EngineStep ==
  ASSUME TypeInv, NEW w \in Worker, Engine(w)
  PROVE  /\ Busy(w)
         /\ \E p \in {"verifying", "catching", "restoring", "removing",
                      "reverifying", "failing"} :
              /\ Continue(w, p)
              /\ p \in {"restoring", "removing", "reverifying"} =>
                   target[current[w]] # NoRelease
         /\ UNCHANGED <<row, route, clock, crashes, routed, unconfirmed>>
<1>1. current[w] \in Release /\ target[current[w]] \in Release \cup {NoRelease}
  BY DEF TypeInv, TypeOK, BusyHasRelease, Busy, Engine, DeployReturns, DeployThrows,
     VerifyFails, FindTarget, RestoreTarget, RestoreThrows, RemoveCandidate,
     ReverifyFails, RollbackRejected, WriteThrows
<1>2. CASE DeployReturns(w) \/ DeployThrows(w) \/ VerifyFails(w)
  BY <1>2 DEF DeployReturns, DeployThrows, VerifyFails, Busy, history
<1>3. CASE FindTarget(w)
  BY <1>1, <1>3, NoReleaseIsNoRow DEF FindTarget, MayRollBack, Busy, history
<1>4. CASE RestoreTarget(w) \/ RestoreThrows(w) \/ RemoveCandidate(w)
  BY <1>4 DEF TypeInv, RollbackHasTarget, RestoreTarget, RestoreThrows,
     RemoveCandidate, Busy, history
<1>5. CASE ReverifyFails(w) \/ RollbackRejected(w) \/ WriteThrows(w)
  BY <1>5 DEF ReverifyFails, RollbackRejected, WriteThrows, CallFault, Busy, history
<1> QED BY <1>2, <1>3, <1>4, <1>5 DEF Engine

\* The deployment engine's steps keep every type and every rollback's target.
LEMMA EngineTypeInv ==
  ASSUME TypeInv, NEW w \in Worker, Engine(w)
  PROVE  TypeInv'
<1>1. /\ Busy(w) /\ current[w] \in Release
      /\ UNCHANGED <<row, route, clock, crashes, routed, unconfirmed>>
  BY EngineStep, WorkersRelease
<1>2. PICK p \in {"verifying", "catching", "restoring", "removing", "reverifying",
                  "failing"} :
        /\ Continue(w, p)
        /\ p \in {"restoring", "removing", "reverifying"} =>
             target[current[w]] # NoRelease
  BY EngineStep
<1>3. container' \in [Release -> {"none", "running", "stopped"}]
  BY <1>1 DEF TypeInv, TypeOK, Engine, DeployReturns, DeployThrows, VerifyFails,
     FindTarget, RestoreTarget, RestoreThrows, RemoveCandidate, ReverifyFails,
     RollbackRejected, WriteThrows, CallFault
<1>4. faults' \in Nat /\ hurt' \in SUBSET Release
  BY <1>1 DEF TypeInv, TypeOK, Engine, DeployReturns, DeployThrows, VerifyFails,
     FindTarget, RestoreTarget, RestoreThrows, RemoveCandidate, ReverifyFails,
     RollbackRejected, WriteThrows, CallFault, history
<1>5. TypeOK'
  BY <1>1, <1>2, <1>3, <1>4 DEF TypeInv, TypeOK, Verdict, Continue, Goto, row
<1>6. BusyHasRelease' /\ DatedRows' /\ RollbackHasTarget'
  BY <1>1, <1>2 DEF TypeInv, TypeOK, BusyHasRelease, DatedRows, RollbackHasTarget,
     Busy, Continue, Goto, row
<1> QED BY <1>5, <1>6 DEF TypeInv

\* A health check that passes asks a release that exists.
LEMMA CheckTypeInv ==
  ASSUME TypeInv, NEW w \in Worker, Check(w)
  PROVE  TypeInv'
<1>1. /\ current[w] \in Release
      /\ pc[w] = "reverifying" => target[current[w]] \in Release
  BY WorkersRelease DEF Check, VerifyPasses, ReverifyPasses, Busy
<1>2. PICK r \in Release : CheckPasses(w, r)
  BY <1>1 DEF Check, VerifyPasses, ReverifyPasses
<1>3. verified' \in [Worker -> SUBSET Release]
  <2>1. verified[w] \cup {r} \in SUBSET Release
    BY DEF TypeInv, TypeOK
  <2> QED BY <1>2, <2>1 DEF TypeInv, TypeOK, CheckPasses
<1>4. PICK p \in {"activating", "recording", "reactivating", "recordingRollback"} :
        /\ Goto(w, p)
        /\ p \in {"reactivating", "recordingRollback"} => target[current[w]] # NoRelease
  BY DEF Check, VerifyPasses, ReverifyPasses, TypeInv, RollbackHasTarget
<1>5. UNCHANGED <<row, container, route, current, faults, crashes, history>>
  BY DEF Check, VerifyPasses, ReverifyPasses
<1>6. clock' = clock + 1 /\ stamp' = [stamp EXCEPT ![w] = clock']
  BY <1>2 DEF CheckPasses
<1>7. TypeOK'
  BY <1>3, <1>4, <1>5, <1>6 DEF TypeInv, TypeOK, Verdict, Goto, row, history
<1>8. Busy(w)
  BY DEF Check, VerifyPasses, ReverifyPasses, Busy
<1>9. BusyHasRelease' /\ RollbackHasTarget'
  BY <1>1, <1>4, <1>5, <1>8 DEF TypeInv, TypeOK, BusyHasRelease, RollbackHasTarget,
     Busy, Goto, row
<1>10. DatedRows'
  BY <1>5, <1>6 DEF TypeInv, TypeOK, DatedRows, row
<1> QED BY <1>7, <1>9, <1>10 DEF TypeInv

\* An activation points the route to the candidate or to its target, or fails.
LEMMA RouteTypeInv ==
  ASSUME TypeInv, NEW w \in Worker, Route(w)
  PROVE  TypeInv'
<1>1. /\ Busy(w) /\ current[w] \in Release
      /\ pc[w] = "reactivating" => target[current[w]] \in Release
  BY WorkersRelease DEF Route, ActivateCandidate, ActivateThrows, ActivateTarget,
     ReactivateThrows, Busy
<1>2. PICK p \in {"recording", "recordingRollback", "catching", "failing"} :
        /\ Continue(w, p)
        /\ p = "recordingRollback" => target[current[w]] # NoRelease
  BY DEF Route, ActivateCandidate, ActivateThrows, ActivateTarget, ReactivateThrows,
     TypeInv, RollbackHasTarget
<1>3. route' \in Release \cup {NoRelease} /\ routed' \in SUBSET Release
  BY <1>1 DEF TypeInv, TypeOK, Route, ActivateCandidate, ActivateThrows,
     ActivateTarget, ReactivateThrows, Activate
<1>4. faults' \in Nat /\ hurt' \in SUBSET Release
  BY <1>1 DEF TypeInv, TypeOK, Route, ActivateCandidate, ActivateThrows,
     ActivateTarget, ReactivateThrows, CallFault
<1>5. UNCHANGED <<row, container, clock, crashes, unconfirmed>>
  BY DEF Route, ActivateCandidate, ActivateThrows, ActivateTarget,
     ReactivateThrows, CallFault
<1>6. TypeOK'
  BY <1>1, <1>2, <1>3, <1>4, <1>5 DEF TypeInv, TypeOK, Verdict, Continue, Goto, row
<1>7. BusyHasRelease' /\ DatedRows' /\ RollbackHasTarget'
  BY <1>1, <1>2, <1>5 DEF TypeInv, TypeOK, BusyHasRelease, DatedRows,
     RollbackHasTarget, Busy, Continue, Goto, row
<1> QED BY <1>6, <1>7 DEF TypeInv

\* A finishing write decides a deploying release and ends the tick, unless the
\* worker does not learn of it.
LEMMA RecordStep ==
  ASSUME NEW w \in Worker, Record(w)
  PROVE  /\ Busy(w) /\ Undecided(w)
         /\ \E v, at : v \in Verdict /\ Finish(current[w], v, at)
         /\ \/ EndTick(w)
            \/ \E p \in {"catching", "failing"} : Continue(w, p)
BY DEF Record, RecordHealthy, RecordRolledBack, RecordFailed, HealthyUnconfirmed,
   RollbackUnconfirmed, MayFinish, Busy, Undecided, Verdict

\* A finishing write stores a verdict, its instant and its audit event.
LEMMA RecordTypeInv ==
  ASSUME TypeInv, NEW w \in Worker, Record(w)
  PROVE  TypeInv'
<1>1. Busy(w) /\ current[w] \in Release /\ Undecided(w)
  BY RecordStep, WorkersRelease
<1>2. PICK v \in Verdict, at \in Nat : Finish(current[w], v, at)
  BY DEF TypeInv, TypeOK, Record, RecordHealthy, RecordRolledBack, RecordFailed,
     HealthyUnconfirmed, RollbackUnconfirmed, Verdict
<1>3. EndTick(w) \/ \E p \in {"catching", "failing"} : Continue(w, p)
  BY RecordStep
<1>4. /\ faults' \in Nat /\ hurt' \in SUBSET Release /\ unconfirmed' \in SUBSET Release
      /\ clock' \in Nat /\ clock' >= clock
  BY <1>1 DEF TypeInv, TypeOK, Record, RecordHealthy, RecordRolledBack, RecordFailed,
     HealthyUnconfirmed, RollbackUnconfirmed, CallFault, history
<1>5. UNCHANGED <<container, route, crashes, routed>>
  BY DEF Record, RecordHealthy, RecordRolledBack, RecordFailed,
     HealthyUnconfirmed, RollbackUnconfirmed, CallFault, history
<1>6. /\ status' \in [Release -> {"absent", "pending", "deploying"} \cup Verdict]
      /\ completedAt' \in [Release -> Nat]
      /\ audit' \in [Release -> Seq({"queued"} \cup Verdict)]
      /\ UNCHANGED <<target, createdAt>>
  BY <1>1, <1>2 DEF TypeInv, TypeOK, Finish
<1>7. TypeOK'
  <2>1. /\ pc' \in [Worker -> {"idle", "deploying", "verifying", "activating",
                              "recording", "catching", "restoring", "removing",
                              "reverifying", "reactivating", "recordingRollback",
                              "failing"}]
        /\ current' \in [Worker -> Release \cup {NoRelease}]
        /\ stamp' \in [Worker -> Nat]
        /\ verified' \in [Worker -> SUBSET Release]
    <3>1. CASE EndTick(w)
      BY <3>1 DEF TypeInv, TypeOK, EndTick, Goto
    <3>2. ASSUME NEW p \in {"catching", "failing"}, Continue(w, p)
          PROVE  /\ pc' \in [Worker -> {"idle", "deploying", "verifying", "activating",
                              "recording", "catching", "restoring", "removing",
                              "reverifying", "reactivating", "recordingRollback",
                              "failing"}]
                 /\ UNCHANGED <<current, stamp, verified>>
      BY <3>2 DEF TypeInv, TypeOK, Continue, Goto
    <3> QED BY <1>3, <3>1, <3>2 DEF TypeInv, TypeOK
  <2> QED BY <1>4, <1>5, <1>6, <2>1 DEF TypeInv, TypeOK, Verdict
<1>8. BusyHasRelease' /\ RollbackHasTarget'
  BY <1>1, <1>3, <1>6 DEF TypeInv, TypeOK, BusyHasRelease, RollbackHasTarget, Busy,
     EndTick, Continue, Goto
<1>9. DatedRows'
  BY <1>1, <1>2, <1>4, <1>6 DEF TypeInv, TypeOK, DatedRows, Finish, Undecided
<1> QED BY <1>7, <1>8, <1>9 DEF TypeInv

\* A tick that throws, or a process that dies, leaves rows and containers alone.
LEMMA GiveUpTypeInv ==
  ASSUME TypeInv, NEW w \in Worker, GiveUp(w)
  PROVE  TypeInv'
<1>1. Busy(w) /\ current[w] \in Release
  BY WorkersRelease DEF GiveUp, FailRejected, TickThrows, Crash, Busy
<1>2. /\ EndTick(w)
      /\ UNCHANGED <<row, container, route, clock, routed, unconfirmed>>
  BY DEF GiveUp, FailRejected, TickThrows, Crash, CallFault, history
<1>3. faults' \in Nat /\ crashes' \in Nat /\ hurt' \in SUBSET Release
  BY <1>1 DEF TypeInv, TypeOK, GiveUp, FailRejected, TickThrows, Crash, CallFault,
     history
<1>4. TypeOK'
  BY <1>1, <1>2, <1>3 DEF TypeInv, TypeOK, Verdict, EndTick, Goto, row
<1>5. BusyHasRelease' /\ DatedRows' /\ RollbackHasTarget'
  BY <1>2 DEF TypeInv, TypeOK, BusyHasRelease, DatedRows, RollbackHasTarget, Busy,
     EndTick, Goto, row
<1> QED BY <1>4, <1>5 DEF TypeInv

\* TypeInv is inductive.
LEMMA NextTypeInv ==
  ASSUME TypeInv, [Next]_vars
  PROVE  TypeInv'
<1>1. CASE UNCHANGED vars
  BY <1>1 DEF TypeInv, TypeOK, BusyHasRelease, DatedRows, RollbackHasTarget, Busy,
     vars, row, worker, history
<1> QED
  BY <1>1, StepCases, ClientTypeInv, ClaimTypeInv, EngineTypeInv, CheckTypeInv,
     RouteTypeInv, RecordTypeInv, GiveUpTypeInv

\* Every variable keeps its type, and a worker rolls back to a release, never to
\* a missing target: target?.status guards every use of the target.
THEOREM TypeCorrect == Spec => []TypeOK
<1>1. Spec => []TypeInv
  BY InitTypeInv, NextTypeInv, PTL DEF Spec
<1> QED BY <1>1, PTL DEF TypeInv

-----------------------------------------------------------------------------
(***************************************************************************)
(* Rows: how a step may change one.                                        *)
(***************************************************************************)

\* The row of a release is left alone, or changed as the lifecycle allows; its
\* target and its date are written once, before the row is stored.
LEMMA RowSteps ==
  ASSUME TypeInv, [Next]_vars, NEW r \in Release
  PROVE  /\ \/ status'[r] = status[r] /\ audit'[r] = audit[r]
               /\ completedAt'[r] = completedAt[r]
            \/ /\ status[r] = "absent" /\ status'[r] = "pending"
               /\ audit'[r] = Append(audit[r], "queued")
            \/ /\ status[r] = "pending" /\ status'[r] = "deploying"
               /\ audit'[r] = audit[r]
            \/ /\ status[r] = "deploying" /\ status'[r] \in Verdict
               /\ audit'[r] = Append(audit[r], status'[r])
         /\ createdAt[r] # 0 => target'[r] = target[r] /\ createdAt'[r] = createdAt[r]
<1>1. ASSUME NEW s \in Release, ReadTarget(s)
      PROVE  /\ status'[r] = status[r] /\ audit'[r] = audit[r]
                /\ completedAt'[r] = completedAt[r]
             /\ createdAt[r] # 0 => target'[r] = target[r] /\ createdAt'[r] = createdAt[r]
  BY <1>1 DEF TypeInv, TypeOK, ReadTarget
<1>2. ASSUME NEW s \in Release, InsertRelease(s)
      PROVE  /\ \/ status'[r] = status[r] /\ audit'[r] = audit[r]
                   /\ completedAt'[r] = completedAt[r]
                \/ /\ status[r] = "absent" /\ status'[r] = "pending"
                   /\ audit'[r] = Append(audit[r], "queued")
             /\ target'[r] = target[r] /\ createdAt'[r] = createdAt[r]
  BY <1>2 DEF TypeInv, TypeOK, InsertRelease
<1>3. ASSUME NEW w \in Worker, NEW s \in Release, ClaimNext(w, s)
      PROVE  /\ \/ status'[r] = status[r] /\ audit'[r] = audit[r]
                   /\ completedAt'[r] = completedAt[r]
                \/ /\ status[r] = "pending" /\ status'[r] = "deploying"
                   /\ audit'[r] = audit[r]
             /\ target'[r] = target[r] /\ createdAt'[r] = createdAt[r]
  BY <1>3 DEF TypeInv, TypeOK, ClaimNext, Claimable
<1>4. ASSUME NEW w \in Worker, Record(w)
      PROVE  /\ \/ status'[r] = status[r] /\ audit'[r] = audit[r]
                   /\ completedAt'[r] = completedAt[r]
                \/ /\ status[r] = "deploying" /\ status'[r] \in Verdict
                   /\ audit'[r] = Append(audit[r], status'[r])
             /\ target'[r] = target[r] /\ createdAt'[r] = createdAt[r]
  <2>1. PICK v, at : v \in Verdict /\ Finish(current[w], v, at)
    BY <1>4, RecordStep
  <2>2. current[w] \in Release /\ status[current[w]] = "deploying"
    BY <1>4, RecordStep, WorkersRelease DEF Undecided
  <2> QED BY <2>1, <2>2 DEF TypeInv, TypeOK, Finish
<1>5. ASSUME \/ \E s \in Release : ContainerExits(s)
             \/ \E w \in Worker : Engine(w) \/ Check(w) \/ Route(w) \/ GiveUp(w)
             \/ UNCHANGED vars
      PROVE  UNCHANGED row
  <2>1. CASE \E s \in Release : ContainerExits(s)
    BY <2>1 DEF ContainerExits
  <2>2. CASE \E w \in Worker : Engine(w)
    BY <2>2, EngineStep
  <2>3. CASE \E w \in Worker : Check(w) \/ Route(w) \/ GiveUp(w)
    BY <2>3 DEF Check, VerifyPasses, ReverifyPasses, Route, ActivateCandidate,
       ActivateThrows, ActivateTarget, ReactivateThrows, GiveUp, FailRejected,
       TickThrows, Crash
  <2>4. CASE UNCHANGED vars
    BY <2>4 DEF vars
  <2> QED BY <1>5, <2>1, <2>2, <2>3, <2>4
<1>6. UNCHANGED row =>
        /\ status'[r] = status[r] /\ audit'[r] = audit[r]
           /\ completedAt'[r] = completedAt[r]
        /\ target'[r] = target[r] /\ createdAt'[r] = createdAt[r]
  BY DEF row
<1> QED BY <1>1, <1>2, <1>3, <1>4, <1>5, <1>6, StepCases

\* No step rewrites a decided release: finish() requires a deploying row, claims
\* a pending one, and the insert stores a new one.
THEOREM VerdictsAreFinal == Spec => VerdictIsFinal
<1>1. ASSUME TypeInv, [Next]_vars, NEW r \in Release, status[r] \in Verdict
      PROVE  /\ status'[r] = status[r]
             /\ target'[r] = target[r]
             /\ completedAt'[r] = completedAt[r]
  <2>1. createdAt[r] # 0
    BY <1>1 DEF TypeInv, DatedRows, Verdict
  <2> QED BY <1>1, <2>1, RowSteps DEF Verdict
<1>2. Spec => []TypeInv
  BY InitTypeInv, NextTypeInv, PTL DEF Spec
<1>3. TypeInv /\ [Next]_vars =>
        [\A r \in Release :
           status[r] \in Verdict =>
             /\ status'[r] = status[r]
             /\ target'[r] = target[r]
             /\ completedAt'[r] = completedAt[r]]_vars
  BY <1>1
<1> QED BY <1>2, <1>3, PTL DEF Spec, VerdictIsFinal

\* The audit trail of every release is the one its status calls for.
THEOREM AuditAgrees == Spec => []AuditAgreesWithStatus
<1>1. Init => AuditAgreesWithStatus
  BY DEF Init, AuditAgreesWithStatus, JobStatus, Lifecycle!Trail, Verdict
<1>2. ASSUME TypeInv, AuditAgreesWithStatus, [Next]_vars
      PROVE  AuditAgreesWithStatus'
  <2> SUFFICES ASSUME NEW r \in Release
               PROVE  (audit[r] = Lifecycle!Trail(JobStatus(r)))'
    BY DEF AuditAgreesWithStatus, JobStatus, Lifecycle!Trail
  <2>1. audit[r] = Lifecycle!Trail(JobStatus(r))
    BY <1>2 DEF AuditAgreesWithStatus
  <2> QED
    BY <1>2, <2>1, RowSteps DEF Lifecycle!Trail, JobStatus, Verdict
<1>3. Spec => []TypeInv
  BY InitTypeInv, NextTypeInv, PTL DEF Spec
<1> QED BY <1>1, <1>2, <1>3, PTL DEF Spec

-----------------------------------------------------------------------------
(***************************************************************************)
(* Executors and targets.                                                  *)
(***************************************************************************)

\* A release's rollback target stays healthy, and older than the release.
LEMMA TargetsStep ==
  ASSUME TypeInv, TargetsAreHealthyAndOlder, [Next]_vars
  PROVE  TargetsAreHealthyAndOlder'
<1>1. \A r \in Release : status[r] = "healthy" =>
        status'[r] = "healthy" /\ createdAt'[r] = createdAt[r]
  BY RowSteps DEF Verdict, TypeInv, DatedRows
<1>2. ASSUME NEW s \in Release, ReadTarget(s)
      PROVE  TargetsAreHealthyAndOlder'
  <2> SUFFICES ASSUME NEW r \in Release, target'[r] # NoRelease
               PROVE  /\ status'[target'[r]] = "healthy"
                      /\ createdAt'[target'[r]] < createdAt'[r]
    BY DEF TargetsAreHealthyAndOlder
  <2>1. PICK t \in LatestHealthy : target' = [target EXCEPT ![s] = t]
    BY <1>2 DEF ReadTarget
  <2>2. CASE r = s
    <3>1. target'[r] = t /\ t \in Release /\ status[t] = "healthy"
      BY <2>1, <2>2 DEF TypeInv, TypeOK, LatestHealthy, Healthy
    <3>2. createdAt[t] <= clock /\ createdAt'[r] = clock + 1
      BY <1>2, <2>2, <3>1 DEF TypeInv, TypeOK, DatedRows, ReadTarget
    <3>3. createdAt[t] \in Nat /\ clock \in Nat
      BY <3>1 DEF TypeInv, TypeOK
    <3> QED BY <1>1, <3>1, <3>2, <3>3
  <2>3. CASE r # s
    <3>1. target'[r] = target[r] /\ target[r] \in Release
      BY <2>1, <2>3 DEF TypeInv, TypeOK
    <3>2. createdAt'[r] = createdAt[r]
      BY <1>2, <2>3 DEF TypeInv, TypeOK, ReadTarget
    <3> QED BY <1>1, <3>1, <3>2 DEF TargetsAreHealthyAndOlder
  <2> QED BY <2>2, <2>3
<1>3. ASSUME UNCHANGED <<target, createdAt>>
      PROVE  TargetsAreHealthyAndOlder'
  BY <1>1, <1>3 DEF TypeInv, TypeOK, TargetsAreHealthyAndOlder
<1>4. \/ \E s \in Release : ReadTarget(s)
      \/ UNCHANGED <<target, createdAt>>
  <2>1. ASSUME NEW w \in Worker, Record(w)
        PROVE  UNCHANGED <<target, createdAt>>
    BY <2>1, RecordStep DEF Finish
  <2>2. ASSUME NEW w \in Worker, Check(w) \/ Route(w) \/ GiveUp(w)
        PROVE  UNCHANGED <<target, createdAt>>
    BY <2>2 DEF Check, VerifyPasses, ReverifyPasses, Route, ActivateCandidate,
       ActivateThrows, ActivateTarget, ReactivateThrows, GiveUp, FailRejected,
       TickThrows, Crash, row
  <2>3. ASSUME NEW w \in Worker, Engine(w)
        PROVE  UNCHANGED <<target, createdAt>>
    BY <2>3, EngineStep DEF row
  <2> QED
    BY <2>1, <2>2, <2>3, StepCases DEF InsertRelease, ContainerExits, ClaimNext, vars, row
<1> QED BY <1>2, <1>3, <1>4

\* Every rollback target is a healthy release created earlier.
THEOREM TargetsHealthyAndOlder == Spec => []TargetsAreHealthyAndOlder
<1>1. Init => TargetsAreHealthyAndOlder
  BY DEF Init, TargetsAreHealthyAndOlder
<1>2. Spec => []TypeInv
  BY InitTypeInv, NextTypeInv, PTL DEF Spec
<1> QED BY <1>1, <1>2, TargetsStep, PTL DEF Spec

\* A worker's step leaves the other workers alone.
LEMMA OthersKeep ==
  ASSUME TypeInv, NEW w \in Worker, NEW v \in Worker, v # w,
         Engine(w) \/ Check(w) \/ Route(w) \/ Record(w) \/ GiveUp(w)
  PROVE  /\ pc'[v] = pc[v] /\ current'[v] = current[v]
         /\ verified'[v] = verified[v]
<1>1. CASE Engine(w)
  BY <1>1, EngineStep DEF TypeInv, TypeOK, Continue, Goto
<1>2. CASE Check(w)
  BY <1>2 DEF TypeInv, TypeOK, Check, VerifyPasses, ReverifyPasses, CheckPasses, Goto
<1>3. CASE Route(w)
  BY <1>3 DEF TypeInv, TypeOK, Route, ActivateCandidate, ActivateThrows,
     ActivateTarget, ReactivateThrows, Continue, Goto
<1>4. CASE Record(w)
  <2>1. CASE EndTick(w)
    BY <2>1 DEF TypeInv, TypeOK, EndTick, Goto
  <2>2. ASSUME NEW p, Continue(w, p)
        PROVE  /\ pc'[v] = pc[v] /\ current'[v] = current[v]
               /\ verified'[v] = verified[v]
    BY <2>2 DEF TypeInv, TypeOK, Continue, Goto
  <2> QED BY <1>4, <2>1, <2>2, RecordStep
<1>5. CASE GiveUp(w)
  BY <1>5 DEF TypeInv, TypeOK, GiveUp, FailRejected, TickThrows, Crash, EndTick, Goto
<1> QED BY <1>1, <1>2, <1>3, <1>4, <1>5

\* A busy worker keeps its release or becomes idle.
LEMMA ReleaseKept ==
  ASSUME TypeInv, NEW w \in Worker,
         Engine(w) \/ Check(w) \/ Route(w) \/ Record(w) \/ GiveUp(w)
  PROVE  Busy(w) /\ (Busy(w)' => current'[w] = current[w])
<1>1. CASE Engine(w)
  BY <1>1, EngineStep DEF TypeInv, TypeOK, Continue, Goto
<1>2. CASE Check(w)
  BY <1>2 DEF TypeInv, TypeOK, Busy, Check, VerifyPasses, ReverifyPasses
<1>3. CASE Route(w)
  BY <1>3 DEF TypeInv, TypeOK, Busy, Route, ActivateCandidate, ActivateThrows,
     ActivateTarget, ReactivateThrows, Continue, Goto
<1>4. CASE Record(w)
  <2>1. CASE EndTick(w)
    BY <1>4, <2>1, RecordStep DEF TypeInv, TypeOK, Busy, EndTick, Goto
  <2>2. ASSUME NEW p, Continue(w, p)
        PROVE  current'[w] = current[w]
    BY <2>2 DEF Continue
  <2> QED BY <1>4, <2>1, <2>2, RecordStep
<1>5. CASE GiveUp(w)
  BY <1>5 DEF TypeInv, TypeOK, Busy, GiveUp, FailRejected, TickThrows, Crash, EndTick,
     Goto
<1> QED BY <1>1, <1>2, <1>3, <1>4, <1>5

\* A release is in the hands of at most one worker, and only once claimed.
LEMMA OneExecutorStep ==
  ASSUME TypeInv, OneExecutor, [Next]_vars
  PROVE  OneExecutor'
<1>1. \A r \in Release : status[r] \notin {"absent", "pending"} =>
        status'[r] \notin {"absent", "pending"}
  BY RowSteps DEF Verdict
<1>2. ASSUME NEW w \in Worker,
             Engine(w) \/ Check(w) \/ Route(w) \/ Record(w) \/ GiveUp(w)
      PROVE  OneExecutor'
  <2>1. \A v \in Worker : Busy(v)' => Busy(v) /\ current'[v] = current[v]
    BY <1>2, OthersKeep, ReleaseKept DEF Busy
  <2> QED BY <1>1, <2>1, WorkersRelease DEF OneExecutor, Busy
<1>3. ASSUME NEW w \in Worker, NEW r \in Release, ClaimNext(w, r)
      PROVE  OneExecutor'
  <2>1. \A v \in Worker : v # w =>
          pc'[v] = pc[v] /\ current'[v] = current[v] /\ (Busy(v) => current[v] # r)
    BY <1>3 DEF TypeInv, TypeOK, ClaimNext, Goto, Claimable, OneExecutor
  <2>2. current'[w] = r /\ status'[r] = "deploying"
    BY <1>3 DEF TypeInv, TypeOK, ClaimNext
  <2> QED BY <1>1, <2>1, <2>2, WorkersRelease DEF OneExecutor, Busy
<1>4. ASSUME UNCHANGED <<pc, current>>
      PROVE  OneExecutor'
  BY <1>1, <1>4, WorkersRelease DEF OneExecutor, Busy
<1> QED
  BY <1>2, <1>3, <1>4, StepCases
  DEF ReadTarget, InsertRelease, ContainerExits, vars, worker

\* No release is ever deployed, rolled back or recorded by two workers.
THEOREM OneExecutorHolds == Spec => []OneExecutor
<1>1. Init => OneExecutor
  BY DEF Init, OneExecutor, Busy
<1>2. Spec => []TypeInv
  BY InitTypeInv, NextTypeInv, PTL DEF Spec
<1> QED BY <1>1, <1>2, OneExecutorStep, PTL DEF Spec

-----------------------------------------------------------------------------
(***************************************************************************)
(* What has become of a worker's row, while it is at work on it.           *)
(***************************************************************************)

\* Only its own worker decides a release that is being worked on.
LEMMA OthersRow ==
  ASSUME TypeInv, OneExecutor, [Next]_vars, NEW v \in Worker, Busy(v),
         \A w \in Worker : Record(w) => w # v
  PROVE  status'[current[v]] = status[current[v]]
<1>1. current[v] \in Release /\ status[current[v]] \notin {"absent", "pending"}
  BY WorkersRelease DEF OneExecutor
<1>2. ASSUME NEW w \in Worker, Record(w)
      PROVE  status'[current[v]] = status[current[v]]
  <2>1. current[w] # current[v] /\ current[w] \in Release
    BY <1>2, RecordStep, WorkersRelease DEF OneExecutor
  <2>2. PICK d, at : d \in Verdict /\ Finish(current[w], d, at)
    BY <1>2, RecordStep
  <2> QED BY <1>1, <2>1, <2>2 DEF Finish, TypeInv, TypeOK
<1>3. ASSUME NEW r \in Release, NEW w \in Worker, ClaimNext(w, r)
      PROVE  status'[current[v]] = status[current[v]]
  BY <1>1, <1>3 DEF ClaimNext, Claimable, TypeInv, TypeOK
<1>4. ASSUME NEW r \in Release, InsertRelease(r)
      PROVE  status'[current[v]] = status[current[v]]
  BY <1>1, <1>4 DEF InsertRelease, TypeInv, TypeOK
<1>5. ASSUME NEW w \in Worker, Engine(w)
      PROVE  status' = status
  BY <1>5, EngineStep DEF row
<1>6. ASSUME NEW w \in Worker, Check(w) \/ Route(w) \/ GiveUp(w)
      PROVE  status' = status
  BY <1>6 DEF Check, VerifyPasses, ReverifyPasses, Route, ActivateCandidate,
     ActivateThrows, ActivateTarget, ReactivateThrows, GiveUp, FailRejected,
     TickThrows, Crash, row
<1> QED
  BY <1>2, <1>3, <1>4, <1>5, <1>6, StepCases
  DEF ReadTarget, ContainerExits, vars, row

\* unconfirmed and hurt only grow.
LEMMA HistoryGrows ==
  ASSUME [Next]_vars
  PROVE  unconfirmed \subseteq unconfirmed' /\ hurt \subseteq hurt'
         /\ routed \subseteq routed'
BY DEF Next, ReadTarget, InsertRelease, ContainerExits, Tick, Candidate, ClaimNext,
   DeployReturns, DeployThrows, VerifyPasses, VerifyFails, ActivateCandidate, Activate,
   RecordHealthy, Rollback, FindTarget, RestoreTarget, RestoreThrows, RemoveCandidate,
   ReverifyPasses, ReverifyFails, ActivateTarget, RecordRolledBack, RollbackRejected,
   RecordFailed, FailRejected, Fault, CallFault, ActivateThrows, ReactivateThrows,
   WriteThrows, HealthyUnconfirmed, RollbackUnconfirmed, TickThrows, Crash, vars, history

\* A worker's row is as far as its tick is, unless a write went unconfirmed.
LEMMA RowOfWorkerStep ==
  ASSUME TypeInv, OneExecutor, RowOfWorker, [Next]_vars
  PROVE  RowOfWorker'
<1> DEFINE RowOf(v) ==
      /\ pc[v] \in {"deploying", "verifying", "activating", "recording"} => Undecided(v)
      /\ pc[v] \in {"catching", "restoring", "removing", "reverifying",
                    "reactivating", "recordingRollback"} =>
           Undecided(v) \/ DecidedUnawares(v)
      /\ pc[v] = "failing" =>
           Undecided(v) \/ DecidedUnawares(v) \/ status[current[v]] = "rolled-back"
<1> SUFFICES ASSUME NEW v \in Worker PROVE RowOf(v)'
  BY DEF RowOfWorker
<1>1. RowOf(v)
  BY DEF RowOfWorker
<1>2. CASE UNCHANGED <<pc[v], current[v]>> /\ \A w \in Worker : Record(w) => w # v
  <2>1. ~ Busy(v) => RowOf(v)'
    BY <1>2 DEF Busy
  <2>2. Busy(v) => status'[current[v]] = status[current[v]]
    BY <1>2, OthersRow
  <2> QED BY <1>1, <1>2, <2>1, <2>2, HistoryGrows DEF Undecided, DecidedUnawares
<1>3. CASE Engine(v)
  <2>1. /\ pc' = [pc EXCEPT ![v] = pc'[v]]
        /\ current' = current /\ status' = status /\ unconfirmed' = unconfirmed
    BY <1>3, EngineStep DEF Continue, Goto, row, TypeInv, TypeOK
  <2>2. /\ pc[v] \in {"deploying", "verifying", "recording"} =>
             pc'[v] \in {"verifying", "catching"}
        /\ pc[v] = "deploying" \/ pc'[v] # "verifying"
        /\ pc'[v] \in {"verifying", "catching", "restoring", "removing",
                       "reverifying", "failing"}
        /\ pc[v] \in {"deploying", "verifying", "recording", "catching", "restoring",
                      "removing", "reverifying", "recordingRollback"}
    BY <1>3 DEF TypeInv, TypeOK, Engine, DeployReturns, DeployThrows, VerifyFails,
       FindTarget, RestoreTarget, RestoreThrows, RemoveCandidate, ReverifyFails,
       RollbackRejected, WriteThrows, Continue, Goto
  <2> QED BY <1>1, <2>1, <2>2 DEF Undecided, DecidedUnawares
<1>4. CASE Check(v)
  BY <1>1, <1>4 DEF Check, VerifyPasses, ReverifyPasses, Goto, row, history, Undecided,
     DecidedUnawares, TypeInv, TypeOK
<1>5. CASE Route(v)
  BY <1>1, <1>5 DEF Route, ActivateCandidate, ActivateThrows, ActivateTarget,
     ReactivateThrows, Continue, Goto, row, Undecided, DecidedUnawares, TypeInv, TypeOK
<1>6. CASE Record(v)
  <2>1. current[v] \in Release
    BY <1>6, RecordStep, WorkersRelease
  <2>2. CASE EndTick(v)
    BY <2>2 DEF EndTick, Goto, TypeInv, TypeOK
  <2>3. CASE HealthyUnconfirmed(v)
    BY <2>1, <2>3 DEF HealthyUnconfirmed, Finish, Continue, Goto, DecidedUnawares,
       TypeInv, TypeOK
  <2>4. CASE RollbackUnconfirmed(v)
    BY <2>1, <2>4 DEF RollbackUnconfirmed, Finish, Continue, Goto, TypeInv, TypeOK
  <2> QED
    BY <1>6, <2>2, <2>3, <2>4 DEF Record, RecordHealthy, RecordRolledBack, RecordFailed
<1>7. CASE GiveUp(v)
  BY <1>7 DEF GiveUp, FailRejected, TickThrows, Crash, EndTick, Goto, TypeInv, TypeOK
<1>8. CASE \E r \in Release : ClaimNext(v, r)
  BY <1>8 DEF ClaimNext, Goto, Undecided, TypeInv, TypeOK
<1>9. ASSUME NEW w \in Worker, w # v, NEW r \in Release, ClaimNext(w, r)
      PROVE  UNCHANGED <<pc[v], current[v]>>
  BY <1>9 DEF ClaimNext, Goto, TypeInv, TypeOK
<1>10. \A w \in Worker : Record(w) /\ w = v => Record(v)
  OBVIOUS
<1> QED
  BY <1>2, <1>3, <1>4, <1>5, <1>6, <1>7, <1>8, <1>9, <1>10, OthersKeep, StepCases
  DEF ReadTarget, InsertRelease, ContainerExits, vars, worker

-----------------------------------------------------------------------------
(***************************************************************************)
(* Verification comes before activation, and activation before the record. *)
(***************************************************************************)

\* A worker's release keeps the target it was created with.
LEMMA TargetKept ==
  ASSUME TypeInv, [Next]_vars, NEW v \in Worker, Busy(v)
  PROVE  target'[current[v]] = target[current[v]]
BY RowSteps, WorkersRelease DEF TypeInv, BusyHasRelease

\* No tick comes to an activation but by the health check before it.
LEMMA ActivationIsVerifiedStep ==
  ASSUME TypeInv, ActivationIsVerified, [Next]_vars
  PROVE  ActivationIsVerified'
<1> SUFFICES ASSUME NEW v \in Worker, pc'[v] \in {"activating", "reactivating"}
             PROVE  /\ pc'[v] = "activating" => current'[v] \in verified'[v]
                    /\ pc'[v] = "reactivating" =>
                         target'[current'[v]] \in verified'[v]
  BY DEF ActivationIsVerified
<1>1. CASE pc'[v] = pc[v] /\ current'[v] = current[v] /\ verified'[v] = verified[v]
  BY <1>1, TargetKept DEF ActivationIsVerified, Busy
<1>2. CASE Check(v)
  <2>1. Busy(v)
    BY <1>2 DEF Check, VerifyPasses, ReverifyPasses, Busy
  <2>2. CASE VerifyPasses(v)
    BY <2>2 DEF VerifyPasses, CheckPasses, Goto, TypeInv, TypeOK
  <2>3. CASE ReverifyPasses(v)
    <3>1. current' = current /\ pc'[v] \in {"reactivating", "recordingRollback"}
      BY <2>3 DEF ReverifyPasses, Goto, TypeInv, TypeOK
    <3>2. target[current[v]] \in verified'[v]
      BY <2>3 DEF ReverifyPasses, CheckPasses, TypeInv, TypeOK
    <3> QED BY <2>1, <3>1, <3>2, TargetKept
  <2> QED BY <1>2, <2>2, <2>3 DEF Check
<1>3. ~ (Engine(v) \/ Route(v) \/ Record(v) \/ GiveUp(v) \/ \E r \in Release : ClaimNext(v, r))
  <2>1. ~ Engine(v)
    BY EngineStep DEF Continue, Goto, TypeInv, TypeOK
  <2>2. ~ Route(v)
    BY DEF Route, ActivateCandidate, ActivateThrows, ActivateTarget, ReactivateThrows,
       Continue, Goto, TypeInv, TypeOK
  <2>3. ~ Record(v)
    BY RecordStep DEF EndTick, Continue, Goto, TypeInv, TypeOK
  <2>4. ~ GiveUp(v)
    BY DEF GiveUp, FailRejected, TickThrows, Crash, EndTick, Goto, TypeInv, TypeOK
  <2>5. ~ \E r \in Release : ClaimNext(v, r)
    BY DEF ClaimNext, Goto, TypeInv, TypeOK
  <2> QED BY <2>1, <2>2, <2>3, <2>4, <2>5
<1>4. ASSUME NEW w \in Worker, w # v, NEW r \in Release, ClaimNext(w, r)
      PROVE  pc'[v] = pc[v] /\ current'[v] = current[v] /\ verified'[v] = verified[v]
  BY <1>4 DEF ClaimNext, Goto, TypeInv, TypeOK
<1> QED
  BY <1>1, <1>2, <1>3, <1>4, OthersKeep, StepCases
  DEF ReadTarget, InsertRelease, ContainerExits, vars, worker

\* The route moves only to a release its mover has just seen pass a health check.
THEOREM RouteVerified == Spec => RouteWasVerified
<1>1. Init => ActivationIsVerified
  BY DEF Init, ActivationIsVerified
<1>2. ASSUME TypeInv, ActivationIsVerified, [Next]_vars, route' # route
      PROVE  \E w \in Worker : route' \in verified[w]
  <2>1. PICK w \in Worker : Route(w)
    <3>1. ASSUME NEW w \in Worker, Check(w) \/ Record(w) \/ GiveUp(w)
          PROVE  route' = route
      BY <3>1 DEF Check, VerifyPasses, ReverifyPasses, Record, RecordHealthy,
         RecordRolledBack, RecordFailed, HealthyUnconfirmed, RollbackUnconfirmed,
         GiveUp, FailRejected, TickThrows, Crash
    <3>2. ASSUME NEW w \in Worker, Engine(w)
          PROVE  route' = route
      BY <1>2, <3>2, EngineStep
    <3>3. ASSUME NEW s \in Release,
                 \/ ReadTarget(s) \/ InsertRelease(s) \/ ContainerExits(s)
                 \/ \E w \in Worker : ClaimNext(w, s)
          PROVE  route' = route
      BY <3>3 DEF ReadTarget, InsertRelease, ContainerExits, ClaimNext
    <3>4. UNCHANGED vars => route' = route
      BY DEF vars
    <3> QED BY <1>2, <3>1, <3>2, <3>3, <3>4, StepCases
  <2> QED
    BY <1>2, <2>1 DEF Route, ActivateCandidate, ActivateThrows, ActivateTarget,
       ReactivateThrows, Activate, ActivationIsVerified
<1>3. Spec => [](TypeInv /\ ActivationIsVerified)
  BY <1>1, InitTypeInv, NextTypeInv, ActivationIsVerifiedStep, PTL DEF Spec
<1>4. TypeInv /\ ActivationIsVerified /\ [Next]_vars =>
        [route' # route => \E w \in Worker : route' \in verified[w]]_vars
  BY <1>2
<1> QED BY <1>3, <1>4, PTL DEF Spec, RouteWasVerified

\* With a router, no tick comes to a verdict but by the activation before it.
LEMMA RecordIsActivatedStep ==
  ASSUME TypeInv, RecordIsActivated, [Next]_vars
  PROVE  RecordIsActivated'
<1> SUFFICES ASSUME IngressConfigured, NEW v \in Worker,
                    pc'[v] \in {"recording", "recordingRollback"}
             PROVE  /\ pc'[v] = "recording" => current'[v] \in routed'
                    /\ pc'[v] = "recordingRollback" =>
                         target'[current'[v]] \in routed'
  BY DEF RecordIsActivated
<1>1. CASE pc'[v] = pc[v] /\ current'[v] = current[v]
  BY <1>1, TargetKept, HistoryGrows DEF RecordIsActivated, Busy
<1>2. CASE Route(v)
  <2>1. Busy(v) /\ current' = current
    BY <1>2 DEF Route, ActivateCandidate, ActivateThrows, ActivateTarget,
       ReactivateThrows, Continue, Busy
  <2>2. \/ pc'[v] = "recording" /\ Activate(current[v])
        \/ pc'[v] = "recordingRollback" /\ Activate(target[current[v]])
    BY <1>2 DEF Route, ActivateCandidate, ActivateThrows, ActivateTarget,
       ReactivateThrows, Continue, Goto, TypeInv, TypeOK
  <2> QED BY <2>1, <2>2, TargetKept DEF Activate
<1>3. ~ (Engine(v) \/ Check(v) \/ Record(v) \/ GiveUp(v)
         \/ \E r \in Release : ClaimNext(v, r))
  <2>1. ~ Engine(v)
    BY EngineStep DEF Continue, Goto, TypeInv, TypeOK
  <2>2. ~ Check(v)
    BY DEF Check, VerifyPasses, ReverifyPasses, Goto, TypeInv, TypeOK
  <2>3. ~ Record(v)
    BY RecordStep DEF EndTick, Continue, Goto, TypeInv, TypeOK
  <2>4. ~ GiveUp(v)
    BY DEF GiveUp, FailRejected, TickThrows, Crash, EndTick, Goto, TypeInv, TypeOK
  <2>5. ~ \E r \in Release : ClaimNext(v, r)
    BY DEF ClaimNext, Goto, TypeInv, TypeOK
  <2> QED BY <2>1, <2>2, <2>3, <2>4, <2>5
<1>4. ASSUME NEW w \in Worker, w # v, NEW r \in Release, ClaimNext(w, r)
      PROVE  pc'[v] = pc[v] /\ current'[v] = current[v]
  BY <1>4 DEF ClaimNext, Goto, TypeInv, TypeOK
<1> QED
  BY <1>1, <1>2, <1>3, <1>4, OthersKeep, StepCases
  DEF ReadTarget, InsertRelease, ContainerExits, vars, worker

\* Only a worker that has activated records a healthy or rolled-back release.
LEMMA HealthyWasRoutedStep ==
  ASSUME TypeInv, RecordIsActivated, HealthyWasRouted, [Next]_vars
  PROVE  HealthyWasRouted'
<1> SUFFICES ASSUME IngressConfigured, NEW r \in Release
             PROVE  /\ status'[r] = "healthy" => r \in routed'
                    /\ status'[r] = "rolled-back" => target'[r] \in routed'
  BY DEF HealthyWasRouted
<1>1. status'[r] \in {"healthy", "rolled-back"} => target'[r] = target[r]
  BY RowSteps DEF TypeInv, DatedRows, Verdict
<1>2. CASE status'[r] = status[r]
  BY <1>1, <1>2, HistoryGrows DEF HealthyWasRouted
<1>3. CASE status'[r] # status[r] /\ status'[r] \in {"healthy", "rolled-back"}
  <2>1. PICK w \in Worker : Record(w)
    <3>1. ASSUME NEW w \in Worker, Engine(w)
          PROVE  FALSE
      BY <1>3, <3>1, EngineStep DEF row
    <3>2. ASSUME NEW w \in Worker, Check(w) \/ Route(w) \/ GiveUp(w)
          PROVE  FALSE
      BY <1>3, <3>2 DEF Check, VerifyPasses, ReverifyPasses, Route, ActivateCandidate,
         ActivateThrows, ActivateTarget, ReactivateThrows, GiveUp, FailRejected,
         TickThrows, Crash, row
    <3>3. ASSUME NEW s \in Release,
                 \/ ReadTarget(s) \/ InsertRelease(s) \/ ContainerExits(s)
                 \/ \E w \in Worker : ClaimNext(w, s)
          PROVE  FALSE
      BY <1>3, <3>3 DEF ReadTarget, InsertRelease, ContainerExits, ClaimNext, row,
         TypeInv, TypeOK
    <3> QED BY <1>3, <3>1, <3>2, <3>3, StepCases DEF vars, row
  <2>2. PICK v, at : v \in Verdict /\ Finish(current[w], v, at)
    BY <2>1, RecordStep
  <2>3. r = current[w] /\ status'[r] = v
    BY <1>3, <2>2, <2>1, RecordStep, WorkersRelease DEF Finish, TypeInv, TypeOK
  <2>4. /\ v = "healthy" => pc[w] = "recording"
        /\ v = "rolled-back" => pc[w] = "recordingRollback"
    BY <2>1, <2>2, <2>3 DEF Record, RecordHealthy, RecordRolledBack, RecordFailed,
       HealthyUnconfirmed, RollbackUnconfirmed, Finish, TypeInv, TypeOK
  <2> QED BY <1>1, <1>3, <2>3, <2>4, HistoryGrows DEF RecordIsActivated
<1> QED BY <1>2, <1>3

\* With a router, no release is recorded healthy or rolled back before the
\* stable route has pointed to what the record says serves.
THEOREM HealthyRouted == Spec => []HealthyWasRouted
<1>1. Init => RecordIsActivated /\ HealthyWasRouted
  BY DEF Init, RecordIsActivated, HealthyWasRouted
<1>2. Spec => []TypeInv
  BY InitTypeInv, NextTypeInv, PTL DEF Spec
<1> QED BY <1>1, <1>2, RecordIsActivatedStep, HealthyWasRoutedStep, PTL DEF Spec

-----------------------------------------------------------------------------
(***************************************************************************)
(* Containers and the route.                                               *)
(***************************************************************************)

\* A container is removed by the catch block of the worker that deployed it, or
\* was never made by a failing deploy().
LEMMA Removals ==
  ASSUME TypeInv, [Next]_vars, NEW r \in Release,
         container[r] # "none", container'[r] = "none"
  PROVE  \E w \in Worker : /\ current[w] = r
                           /\ DeployThrows(w) \/ RemoveCandidate(w)
<1>1. ASSUME NEW s \in Release,
             \/ ReadTarget(s) \/ InsertRelease(s) \/ ContainerExits(s)
             \/ \E w \in Worker : ClaimNext(w, s)
      PROVE  FALSE
  BY <1>1 DEF ReadTarget, InsertRelease, ContainerExits, ClaimNext, TypeInv, TypeOK
<1>2. ASSUME NEW w \in Worker, Check(w) \/ Route(w) \/ Record(w) \/ GiveUp(w)
      PROVE  FALSE
  BY <1>2 DEF Check, VerifyPasses, ReverifyPasses, Route, ActivateCandidate,
     ActivateThrows, ActivateTarget, ReactivateThrows, Record, RecordHealthy,
     RecordRolledBack, RecordFailed, HealthyUnconfirmed, RollbackUnconfirmed, GiveUp,
     FailRejected, TickThrows, Crash, CallFault
<1>3. ASSUME NEW w \in Worker, Engine(w)
      PROVE  current[w] = r /\ (DeployThrows(w) \/ RemoveCandidate(w))
  BY <1>3 DEF Engine, DeployReturns, DeployThrows, VerifyFails, FindTarget,
     RestoreTarget, RestoreThrows, RemoveCandidate, ReverifyFails, RollbackRejected,
     WriteThrows, CallFault, TypeInv, TypeOK
<1>4. ~ UNCHANGED vars
  BY DEF vars
<1> QED BY <1>1, <1>2, <1>3, <1>4, StepCases

\* A removed container's release was not decided, or was unawares.
LEMMA RemovedWasUndecided ==
  ASSUME TypeInv, RowOfWorker, [Next]_vars, NEW r \in Release,
         container[r] # "none", container'[r] = "none"
  PROVE  \E w \in Worker :
           /\ current[w] = r /\ pc[w] \in {"deploying", "removing"}
           /\ Undecided(w) \/ DecidedUnawares(w)
<1>1. PICK w \in Worker : current[w] = r /\ (DeployThrows(w) \/ RemoveCandidate(w))
  BY Removals
<1>2. pc[w] \in {"deploying", "removing"}
  BY <1>1 DEF DeployThrows, RemoveCandidate
<1> QED BY <1>1, <1>2 DEF RowOfWorker

\* Nobody removes the container of a candidate that is being verified.
LEMMA CandidateHasContainerStep ==
  ASSUME TypeInv, OneExecutor, CandidateHasContainer, [Next]_vars
  PROVE  CandidateHasContainer'
<1> SUFFICES ASSUME NEW v \in Worker, pc'[v] \in {"verifying", "activating", "recording"}
             PROVE  container'[current'[v]] # "none"
  BY DEF CandidateHasContainer
<1>1. ASSUME pc[v] \in {"verifying", "activating", "recording"},
             current'[v] = current[v]
      PROVE  container'[current'[v]] # "none"
  <2>1. Busy(v) /\ current[v] \in Release /\ container[current[v]] # "none"
    BY <1>1, WorkersRelease DEF CandidateHasContainer, Busy
  <2>2. ASSUME NEW w \in Worker, current[w] = current[v],
               DeployThrows(w) \/ RemoveCandidate(w)
        PROVE  FALSE
    <3>1. Busy(w) /\ pc[w] \in {"deploying", "removing"}
      BY <2>2 DEF DeployThrows, RemoveCandidate, Busy
    <3> QED BY <1>1, <2>1, <2>2, <3>1 DEF OneExecutor
  <2> QED BY <1>1, <2>1, <2>2, Removals
<1>2. CASE pc'[v] = pc[v] /\ current'[v] = current[v]
  BY <1>1, <1>2
<1>3. CASE Engine(v)
  <2>1. CASE DeployReturns(v)
    <3>1. current[v] \in Release
      BY <2>1, WorkersRelease DEF DeployReturns, Busy
    <3> QED BY <2>1, <3>1 DEF DeployReturns, Continue, TypeInv, TypeOK
  <2>2. CASE ~ DeployReturns(v)
    BY <1>3, <2>2 DEF Engine, DeployThrows, VerifyFails, FindTarget, RestoreTarget,
       RestoreThrows, RemoveCandidate, ReverifyFails, RollbackRejected, WriteThrows,
       Continue, Goto, TypeInv, TypeOK
  <2> QED BY <2>1, <2>2
<1>4. CASE Check(v)
  BY <1>1, <1>4 DEF Check, VerifyPasses, ReverifyPasses, Goto, TypeInv, TypeOK
<1>5. CASE Route(v)
  BY <1>1, <1>5 DEF Route, ActivateCandidate, ActivateThrows, ActivateTarget,
     ReactivateThrows, Continue, Goto, TypeInv, TypeOK
<1>6. ~ (Record(v) \/ GiveUp(v) \/ \E r \in Release : ClaimNext(v, r))
  <2>1. ~ Record(v)
    BY RecordStep DEF EndTick, Continue, Goto, TypeInv, TypeOK
  <2>2. ~ GiveUp(v)
    BY DEF GiveUp, FailRejected, TickThrows, Crash, EndTick, Goto, TypeInv, TypeOK
  <2>3. ~ \E r \in Release : ClaimNext(v, r)
    BY DEF ClaimNext, Goto, TypeInv, TypeOK
  <2> QED BY <2>1, <2>2, <2>3
<1>7. ASSUME NEW w \in Worker, w # v, NEW r \in Release, ClaimNext(w, r)
      PROVE  pc'[v] = pc[v] /\ current'[v] = current[v]
  BY <1>7 DEF ClaimNext, Goto, TypeInv, TypeOK
<1> QED
  BY <1>2, <1>3, <1>4, <1>5, <1>6, <1>7, OthersKeep, StepCases
  DEF ReadTarget, InsertRelease, ContainerExits, vars, worker

\* A release becomes healthy with its container, and nobody removes it after.
LEMMA HealthyContainerStep ==
  ASSUME TypeInv, OneExecutor, RowOfWorker, CandidateHasContainer,
         HealthyContainerKept, [Next]_vars
  PROVE  HealthyContainerKept'
<1> SUFFICES ASSUME NEW r \in Release, status'[r] = "healthy", r \notin unconfirmed'
             PROVE  container'[r] # "none"
  BY DEF HealthyContainerKept
<1>1. r \notin unconfirmed
  BY HistoryGrows
<1>2. CASE status[r] = "healthy"
  <2>1. container[r] # "none"
    BY <1>1, <1>2 DEF HealthyContainerKept
  <2> QED
    BY <1>1, <1>2, <2>1, RemovedWasUndecided DEF Undecided, DecidedUnawares
<1>3. CASE status[r] # "healthy"
  <2>1. PICK w \in Worker : Record(w) /\ current[w] = r
    <3>1. status[r] = "deploying"
      BY <1>3, RowSteps
    <3>2. ASSUME NEW w \in Worker, Record(w), current[w] # r
          PROVE  FALSE
      BY <1>3, <3>2, RecordStep DEF Finish, TypeInv, TypeOK
    <3>3. ASSUME NEW w \in Worker, Engine(w)
          PROVE  FALSE
      BY <1>3, <3>3, EngineStep DEF row
    <3>4. ASSUME NEW w \in Worker, Check(w) \/ Route(w) \/ GiveUp(w)
          PROVE  FALSE
      BY <1>3, <3>4 DEF Check, VerifyPasses, ReverifyPasses, Route, ActivateCandidate,
         ActivateThrows, ActivateTarget, ReactivateThrows, GiveUp, FailRejected,
         TickThrows, Crash, row
    <3>5. ASSUME NEW s \in Release,
                 \/ ReadTarget(s) \/ InsertRelease(s) \/ ContainerExits(s)
                 \/ \E w \in Worker : ClaimNext(w, s)
          PROVE  FALSE
      BY <1>3, <3>5 DEF ReadTarget, InsertRelease, ContainerExits, ClaimNext, row,
         TypeInv, TypeOK
    <3> QED BY <1>3, <3>2, <3>3, <3>4, <3>5, StepCases DEF vars, row
  <2>2. pc[w] = "recording" /\ container' = container
    BY <1>3, <2>1, RecordStep, WorkersRelease
    DEF Record, RecordHealthy, RecordRolledBack, RecordFailed, HealthyUnconfirmed,
        RollbackUnconfirmed, Finish, CallFault, TypeInv, TypeOK
  <2> QED BY <2>1, <2>2 DEF CandidateHasContainer
<1> QED BY <1>2, <1>3

\* The container of a healthy release is kept for the releases that may roll
\* back to it: only a lost reply of healthy() makes a worker remove it.
THEOREM ContainersKept == Spec => []HealthyContainerKept
<1>1. Init => RowOfWorker /\ CandidateHasContainer /\ HealthyContainerKept /\ OneExecutor
  BY DEF Init, RowOfWorker, CandidateHasContainer, HealthyContainerKept, OneExecutor, Busy
<1>2. Spec => []TypeInv
  BY InitTypeInv, NextTypeInv, PTL DEF Spec
<1> QED
  BY <1>1, <1>2, OneExecutorStep, RowOfWorkerStep, CandidateHasContainerStep,
     HealthyContainerStep, PTL DEF Spec

\* Whoever the catch block of a decided release belongs to, it met a fault.
LEMMA UnconfirmedIsHurtStep ==
  ASSUME UnconfirmedIsHurt, [Next]_vars
  PROVE  UnconfirmedIsHurt'
<1>1. ASSUME NEW w \in Worker, HealthyUnconfirmed(w)
      PROVE  UnconfirmedIsHurt'
  BY <1>1 DEF UnconfirmedIsHurt, HealthyUnconfirmed, CallFault
<1>2. ASSUME unconfirmed' = unconfirmed
      PROVE  UnconfirmedIsHurt'
  BY <1>2, HistoryGrows DEF UnconfirmedIsHurt
<1>3. \/ \E w \in Worker : HealthyUnconfirmed(w)
      \/ unconfirmed' = unconfirmed
  BY DEF Next, ReadTarget, InsertRelease, ContainerExits, Tick, Candidate, ClaimNext,
     DeployReturns, DeployThrows, VerifyPasses, VerifyFails, ActivateCandidate,
     RecordHealthy, Rollback, FindTarget, RestoreTarget, RestoreThrows, RemoveCandidate,
     ReverifyPasses, ReverifyFails, ActivateTarget, RecordRolledBack, RollbackRejected,
     RecordFailed, FailRejected, Fault, CallFault, ActivateThrows, ReactivateThrows,
     WriteThrows, RollbackUnconfirmed, TickThrows, Crash, vars, history
<1> QED BY <1>1, <1>2, <1>3

\* The steps that move the route.
LEMMA RouteMoves ==
  ASSUME TypeInv, [Next]_vars, route' # route
  PROVE  \E w \in Worker :
           \/ ActivateCandidate(w) /\ route' = current[w]
           \/ ActivateThrows(w) /\ route' = current[w]
           \/ /\ ActivateTarget(w) \/ ReactivateThrows(w)
              /\ route' = target[current[w]]
<1>1. ASSUME NEW w \in Worker, Check(w) \/ Record(w) \/ GiveUp(w)
      PROVE  FALSE
  BY <1>1 DEF Check, VerifyPasses, ReverifyPasses, Record, RecordHealthy,
     RecordRolledBack, RecordFailed, HealthyUnconfirmed, RollbackUnconfirmed,
     GiveUp, FailRejected, TickThrows, Crash
<1>2. ASSUME NEW w \in Worker, Engine(w)
      PROVE  FALSE
  BY <1>2, EngineStep
<1>3. ASSUME NEW s \in Release,
             \/ ReadTarget(s) \/ InsertRelease(s) \/ ContainerExits(s)
             \/ \E w \in Worker : ClaimNext(w, s)
      PROVE  FALSE
  BY <1>3 DEF ReadTarget, InsertRelease, ContainerExits, ClaimNext
<1>4. ~ UNCHANGED vars
  BY DEF vars
<1>5. PICK w \in Worker : Route(w)
  BY <1>1, <1>2, <1>3, <1>4, StepCases
<1> QED
  BY <1>5 DEF Route, ActivateCandidate, ActivateThrows, ActivateTarget,
     ReactivateThrows, Activate

\* A worker that leaves "recording" has recorded its release healthy, or the
\* release met a fault or a crash.
LEMMA LeavesRecording ==
  ASSUME TypeInv, [Next]_vars, NEW w \in Worker, pc[w] = "recording",
         ~ (pc'[w] = "recording" /\ current'[w] = current[w])
  PROVE  status'[current[w]] = "healthy" \/ current[w] \in hurt'
<1>1. current[w] \in Release
  BY WorkersRelease DEF Busy
<1>2. CASE Engine(w)
  BY <1>2 DEF Engine, DeployReturns, DeployThrows, VerifyFails, FindTarget,
     RestoreTarget, RestoreThrows, RemoveCandidate, ReverifyFails, RollbackRejected,
     WriteThrows, CallFault
<1>3. CASE Record(w)
  BY <1>1, <1>3 DEF Record, RecordHealthy, RecordRolledBack, RecordFailed,
     HealthyUnconfirmed, RollbackUnconfirmed, Finish, TypeInv, TypeOK
<1>4. CASE GiveUp(w)
  BY <1>4 DEF GiveUp, FailRejected, TickThrows, Crash
<1>5. ~ (Check(w) \/ Route(w) \/ \E r \in Release : ClaimNext(w, r))
  BY DEF Check, VerifyPasses, ReverifyPasses, Route, ActivateCandidate,
     ActivateThrows, ActivateTarget, ReactivateThrows, ClaimNext
<1>6. ASSUME NEW v \in Worker, v # w, NEW r \in Release, ClaimNext(v, r)
      PROVE  FALSE
  BY <1>6 DEF ClaimNext, Goto, TypeInv, TypeOK
<1> QED
  BY <1>2, <1>3, <1>4, <1>5, <1>6, OthersKeep, StepCases
  DEF ReadTarget, InsertRelease, ContainerExits, vars, worker

\* The route leaves a healthy release only for a healthy or verified one.
LEMMA RouteAccountedStep ==
  ASSUME TypeInv, RollbackHasTarget, TargetsAreHealthyAndOlder, RouteIsAccountedFor,
         [Next]_vars
  PROVE  RouteIsAccountedFor'
<1>1. \A r \in Release : status[r] = "healthy" => status'[r] = "healthy"
  BY RowSteps DEF Verdict
<1>2. CASE route' = route
  <2> SUFFICES ASSUME route # NoRelease, route \in Release
               PROVE  \/ status'[route] = "healthy"
                      \/ route \in hurt'
                      \/ \E w \in Worker : current'[w] = route /\ pc'[w] = "recording"
    BY <1>2 DEF RouteIsAccountedFor, TypeInv, TypeOK
  <2> QED
    BY <1>1, LeavesRecording, HistoryGrows DEF RouteIsAccountedFor
<1>3. CASE route' # route
  <2>1. PICK w \in Worker :
          \/ ActivateCandidate(w) /\ route' = current[w]
          \/ ActivateThrows(w) /\ route' = current[w]
          \/ /\ ActivateTarget(w) \/ ReactivateThrows(w)
             /\ route' = target[current[w]]
    BY <1>3, RouteMoves
  <2>2. CASE ActivateCandidate(w) /\ route' = current[w]
    <3>1. current'[w] = route' /\ pc'[w] = "recording"
      BY <2>2 DEF ActivateCandidate, Continue, Goto, TypeInv, TypeOK
    <3> QED BY <3>1 DEF RouteIsAccountedFor
  <2>3. CASE ActivateThrows(w) /\ route' = current[w]
    BY <2>3 DEF ActivateThrows, CallFault, RouteIsAccountedFor
  <2>4. CASE /\ ActivateTarget(w) \/ ReactivateThrows(w)
             /\ route' = target[current[w]]
    <3>1. pc[w] = "reactivating" /\ current[w] \in Release
      BY <2>4, WorkersRelease DEF ActivateTarget, ReactivateThrows, Busy
    <3>2. target[current[w]] \in Release /\ target[current[w]] # NoRelease
      BY <3>1, WorkersRelease, NoReleaseIsNoRow DEF Busy
    <3>3. status[target[current[w]]] = "healthy"
      BY <3>1, <3>2 DEF TargetsAreHealthyAndOlder
    <3> QED BY <1>1, <2>4, <3>2, <3>3 DEF RouteIsAccountedFor
  <2> QED BY <2>1, <2>2, <2>3, <2>4
<1> QED BY <1>2, <1>3

\* The route never points to a release that is neither healthy, nor about to be
\* recorded healthy, nor the victim of a fault.
THEOREM RouteAccountedFor == Spec => []RouteIsAccountedFor
<1>1. Init => TargetsAreHealthyAndOlder /\ RouteIsAccountedFor
  BY DEF Init, TargetsAreHealthyAndOlder, RouteIsAccountedFor
<1>2. Spec => [](TypeInv /\ RollbackHasTarget)
  BY InitTypeInv, NextTypeInv, PTL DEF Spec, TypeInv
<1> QED BY <1>1, <1>2, TargetsStep, RouteAccountedStep, PTL DEF Spec

\* A worker that removes its candidate has not routed to it, but for a fault.
LEMMA RouteContainerStep ==
  ASSUME TypeInv, OneExecutor, RowOfWorker, TargetsAreHealthyAndOlder,
         CandidateHasContainer, UnconfirmedIsHurt, HealthyContainerKept,
         RouteIsAccountedFor, RouteHasContainer, [Next]_vars
  PROVE  RouteHasContainer'
<1> SUFFICES ASSUME route' \in Release, route' \notin hurt'
             PROVE  container'[route'] # "none"
  BY NextTypeInv DEF RouteHasContainer, TypeInv, TypeOK
<1>1. route' \notin hurt
  BY HistoryGrows
<1>2. CASE route' = route
  <2>1. container[route] # "none"
    BY <1>1, <1>2, NoReleaseIsNoRow DEF RouteHasContainer
  <2>2. ASSUME container'[route] = "none"
        PROVE  FALSE
    <3>1. PICK w \in Worker : /\ current[w] = route /\ pc[w] \in {"deploying", "removing"}
                              /\ Undecided(w) \/ DecidedUnawares(w)
      BY <1>2, <2>1, <2>2, RemovedWasUndecided
    <3>2. ~ DecidedUnawares(w)
      BY <1>1, <1>2, <3>1 DEF DecidedUnawares, UnconfirmedIsHurt
    <3>3. PICK v \in Worker : current[v] = route /\ pc[v] = "recording"
      BY <1>1, <1>2, <3>1, <3>2, NoReleaseIsNoRow DEF RouteIsAccountedFor, Undecided
    <3>4. v = w
      BY <3>1, <3>3 DEF OneExecutor, Busy
    <3> QED BY <3>1, <3>3, <3>4
  <2> QED BY <1>2, <2>2
<1>3. CASE route' # route
  <2>1. PICK w \in Worker :
          \/ ActivateCandidate(w) /\ route' = current[w]
          \/ ActivateThrows(w) /\ route' = current[w]
          \/ /\ ActivateTarget(w) \/ ReactivateThrows(w)
             /\ route' = target[current[w]]
    BY <1>3, RouteMoves
  <2>2. container' = container
    BY <2>1 DEF ActivateCandidate, ActivateThrows, ActivateTarget, ReactivateThrows,
       CallFault
  <2>3. CASE ActivateCandidate(w) /\ route' = current[w]
    BY <2>2, <2>3 DEF ActivateCandidate, CandidateHasContainer
  <2>4. CASE ActivateThrows(w) /\ route' = current[w]
    BY <2>4 DEF ActivateThrows, CallFault
  <2>5. CASE /\ ActivateTarget(w) \/ ReactivateThrows(w)
             /\ route' = target[current[w]]
    <3>1. current[w] \in Release
      BY <2>5, WorkersRelease DEF ActivateTarget, ReactivateThrows, Busy
    <3>2. status[route'] = "healthy"
      BY <2>5, <3>1, NoReleaseIsNoRow DEF TargetsAreHealthyAndOlder
    <3> QED
      BY <1>1, <2>2, <3>2 DEF HealthyContainerKept, UnconfirmedIsHurt
  <2> QED BY <2>1, <2>3, <2>4, <2>5
<1> QED BY <1>2, <1>3

\* The stable route never points to a removed container, except of a release
\* that met a fault.
THEOREM RouteContainer == Spec => []RouteHasContainer
<1>1. Init => /\ OneExecutor /\ RowOfWorker /\ CandidateHasContainer
              /\ HealthyContainerKept /\ UnconfirmedIsHurt /\ RouteHasContainer
  BY DEF Init, OneExecutor, RowOfWorker, CandidateHasContainer, HealthyContainerKept,
     UnconfirmedIsHurt, RouteHasContainer, Busy
<1>2. Spec => []TypeInv
  BY InitTypeInv, NextTypeInv, PTL DEF Spec
<1>3. Spec => [](TargetsAreHealthyAndOlder /\ RouteIsAccountedFor)
  BY TargetsHealthyAndOlder, RouteAccountedFor, PTL
<1> QED
  BY <1>1, <1>2, <1>3, OneExecutorStep, RowOfWorkerStep, CandidateHasContainerStep,
     HealthyContainerStep, UnconfirmedIsHurtStep, RouteContainerStep, PTL DEF Spec

\* A worker leaves its release with the row decided, or after a fault or a crash.
LEMMA EndsDecided ==
  ASSUME TypeInv, [Next]_vars, NEW w \in Worker, Busy(w),
         status'[current[w]] = "deploying", current[w] \notin hurt'
  PROVE  Busy(w)' /\ current'[w] = current[w]
<1>1. current[w] \in Release /\ w \in DOMAIN pc
  BY WorkersRelease DEF TypeInv, TypeOK
<1>2. ~ GiveUp(w)
  BY <1>1 DEF GiveUp, FailRejected, MayFinish, TickThrows, CallFault, Crash, row
<1>3. CASE Engine(w)
  BY <1>1, <1>3, EngineStep DEF Continue, Goto, Busy, TypeInv, TypeOK
<1>4. CASE Check(w)
  BY <1>1, <1>4 DEF Check, VerifyPasses, ReverifyPasses, Goto, Busy, TypeInv, TypeOK
<1>5. CASE Route(w)
  BY <1>1, <1>5 DEF Route, ActivateCandidate, ActivateThrows, ActivateTarget,
     ReactivateThrows, Continue, Goto, Busy, TypeInv, TypeOK
<1>6. ASSUME Record(w)
      PROVE  FALSE
  <2>1. PICK v, at : v \in Verdict /\ Finish(current[w], v, at)
    BY <1>6, RecordStep
  <2> QED BY <1>1, <2>1 DEF Finish, Verdict, TypeInv, TypeOK
<1>7. ASSUME NEW v \in Worker, NEW r \in Release, ClaimNext(v, r)
      PROVE  Busy(w)' /\ current'[w] = current[w]
  BY <1>7 DEF ClaimNext, Goto, Busy, TypeInv, TypeOK
<1>8. ASSUME NEW v \in Worker, v # w, Engine(v) \/ Check(v) \/ Route(v) \/ Record(v) \/ GiveUp(v)
      PROVE  Busy(w)' /\ current'[w] = current[w]
  BY <1>8, OthersKeep DEF Busy
<1>9. CASE \/ \E r \in Release : ReadTarget(r) \/ InsertRelease(r) \/ ContainerExits(r)
          \/ UNCHANGED vars
  BY <1>9 DEF ReadTarget, InsertRelease, ContainerExits, vars, worker, Busy
<1> QED BY <1>2, <1>3, <1>4, <1>5, <1>6, <1>7, <1>8, <1>9, StepCases

\* A row that is deploying was so before, or has just been claimed.
LEMMA AbandonedStep ==
  ASSUME TypeInv, NoReleaseIsAbandoned, [Next]_vars
  PROVE  NoReleaseIsAbandoned'
<1> SUFFICES ASSUME NEW r \in Release, status'[r] = "deploying", r \notin hurt'
             PROVE  \E w \in Worker : Busy(w)' /\ current'[w] = r
  BY DEF NoReleaseIsAbandoned
<1>1. r \notin hurt
  BY HistoryGrows
<1>2. CASE status[r] = "deploying"
  BY <1>1, <1>2, EndsDecided DEF NoReleaseIsAbandoned
<1>3. CASE status[r] # "deploying"
  <2>1. status[r] = "pending"
    BY <1>3, RowSteps DEF Verdict
  <2>2. ASSUME NEW s \in Release, ReadTarget(s) \/ InsertRelease(s) \/ ContainerExits(s)
        PROVE  FALSE
    BY <2>1, <2>2 DEF ReadTarget, InsertRelease, ContainerExits, TypeInv, TypeOK, row
  <2>3. ASSUME NEW w \in Worker, Record(w)
        PROVE  FALSE
    <3>1. status[current[w]] = "deploying" /\ current[w] \in Release
      BY <2>3, RecordStep, WorkersRelease DEF Undecided
    <3>2. PICK v, at : Finish(current[w], v, at)
      BY <2>3, RecordStep
    <3> QED BY <2>1, <3>1, <3>2 DEF Finish, TypeInv, TypeOK
  <2>4. ASSUME NEW w \in Worker, Engine(w) \/ Check(w) \/ Route(w) \/ GiveUp(w)
        PROVE  UNCHANGED row
    BY <2>4, EngineStep DEF Check, VerifyPasses, ReverifyPasses, Route, ActivateCandidate,
       ActivateThrows, ActivateTarget, ReactivateThrows, GiveUp, FailRejected, TickThrows, Crash
  <2>5. ~ UNCHANGED row /\ ~ UNCHANGED vars
    BY <1>3 DEF row, vars
  <2>6. PICK w \in Worker, s \in Release : ClaimNext(w, s)
    BY <2>2, <2>3, <2>4, <2>5, StepCases
  <2>7. s = r
    BY <1>3, <2>6 DEF ClaimNext, TypeInv, TypeOK
  <2> QED BY <2>6, <2>7 DEF ClaimNext, Goto, Busy, TypeInv, TypeOK
<1> QED BY <1>2, <1>3

\* No release stays deploying without a worker, but for a fault or a crash.
THEOREM NoneAbandoned == Spec => []NoReleaseIsAbandoned
<1>1. Init => NoReleaseIsAbandoned
  BY DEF Init, NoReleaseIsAbandoned
<1>2. Spec => []TypeInv
  BY InitTypeInv, NextTypeInv, PTL DEF Spec
<1> QED BY <1>1, <1>2, AbandonedStep, PTL DEF Spec

-----------------------------------------------------------------------------
(***************************************************************************)
(* Refinement: a release has the lifecycle of every durable job.           *)
(***************************************************************************)

\* The step of one release is a step of the lifecycle.
LEMMA LifecycleStep ==
  ASSUME TypeInv, [Next]_vars, NEW r \in Release,
         ~ (status'[r] = status[r] /\ audit'[r] = audit[r]),
         \A s \in Release : s # r => status'[s] = status[s] /\ audit'[s] = audit[s]
  PROVE  Lifecycle!Next
<1> DEFINE st == [s \in Release |-> JobStatus(s)]
<1>1. st' = [st EXCEPT ![r] = JobStatus(r)']
  BY DEF JobStatus
<1>2. audit' = [audit EXCEPT ![r] = audit'[r]]
  BY NextTypeInv DEF TypeInv, TypeOK
<1>3. CASE status[r] = "absent"
  <2>1. Lifecycle!Store(r)
    BY <1>1, <1>2, <1>3, RowSteps DEF Verdict, Lifecycle!Store, JobStatus
  <2> QED BY <2>1 DEF Lifecycle!Next
<1>4. CASE status[r] = "pending"
  <2>1. audit' = audit
    BY <1>2, <1>4, RowSteps DEF Verdict, TypeInv, TypeOK
  <2>2. Lifecycle!Start(r)
    BY <1>1, <1>4, <2>1, RowSteps DEF Verdict, Lifecycle!Start, JobStatus
  <2> QED BY <2>2 DEF Lifecycle!Next
<1>5. CASE status[r] = "deploying"
  <2>1. status'[r] \in Verdict /\ audit'[r] = Append(audit[r], status'[r])
    BY <1>5, RowSteps DEF Verdict
  <2>2. JobStatus(r)' = status'[r]
    BY <2>1 DEF JobStatus, Verdict
  <2>3. Lifecycle!Decide(r, status'[r])
    BY <1>1, <1>2, <1>5, <2>1, <2>2 DEF Lifecycle!Decide, JobStatus
  <2> QED BY <2>1, <2>3 DEF Lifecycle!Next
<1>6. status[r] \notin Verdict
  BY RowSteps DEF Verdict
<1> QED BY <1>3, <1>4, <1>5, <1>6 DEF TypeInv, TypeOK

\* A step changes the row of at most one release.
LEMMA OneRowChanges ==
  ASSUME TypeInv, [Next]_vars
  PROVE  \/ UNCHANGED <<status, audit>>
         \/ \E r \in Release : \A s \in Release :
              s # r => status'[s] = status[s] /\ audit'[s] = audit[s]
<1>1. ASSUME NEW w \in Worker, Record(w)
      PROVE  \A s \in Release : s # current[w] =>
               status'[s] = status[s] /\ audit'[s] = audit[s]
  BY <1>1, RecordStep, WorkersRelease DEF Finish, TypeInv, TypeOK
<1>2. ASSUME NEW w \in Worker, Record(w)
      PROVE  current[w] \in Release
  BY <1>2, RecordStep, WorkersRelease
<1>3. ASSUME NEW r \in Release,
             \/ ReadTarget(r) \/ InsertRelease(r) \/ ContainerExits(r)
             \/ \E w \in Worker : ClaimNext(w, r)
      PROVE  \A s \in Release : s # r => status'[s] = status[s] /\ audit'[s] = audit[s]
  BY <1>3 DEF ReadTarget, InsertRelease, ContainerExits, ClaimNext, row, TypeInv, TypeOK
<1>4. ASSUME NEW w \in Worker, Engine(w)
      PROVE  UNCHANGED <<status, audit>>
  BY <1>4, EngineStep DEF row
<1>5. ASSUME NEW w \in Worker, Check(w) \/ Route(w) \/ GiveUp(w)
      PROVE  UNCHANGED <<status, audit>>
  BY <1>5 DEF Check, VerifyPasses, ReverifyPasses, Route, ActivateCandidate,
     ActivateThrows, ActivateTarget, ReactivateThrows, GiveUp, FailRejected,
     TickThrows, Crash, row
<1>6. UNCHANGED vars => UNCHANGED <<status, audit>>
  BY DEF vars, row
<1> QED BY <1>1, <1>2, <1>3, <1>4, <1>5, <1>6, StepCases

\* A release is stored, started and decided once, each with its audit event.
THEOREM ImplementsLifecycle == Spec => ImplementsLifecycleSafety
<1>1. Init => Lifecycle!Init
  BY DEF Init, Lifecycle!Init, JobStatus
<1>2. ASSUME TypeInv, [Next]_vars
      PROVE  [Lifecycle!Next]_(Lifecycle!vars)
  <2>1. CASE \A s \in Release : status'[s] = status[s] /\ audit'[s] = audit[s]
    <3>1. audit' = audit
      BY <1>2, <2>1, NextTypeInv DEF TypeInv, TypeOK
    <3>2. \A s \in Release : JobStatus(s)' = JobStatus(s)
      BY <2>1 DEF JobStatus
    <3> QED BY <3>1, <3>2 DEF Lifecycle!vars
  <2>2. CASE \E s \in Release : ~ (status'[s] = status[s] /\ audit'[s] = audit[s])
    BY <1>2, <2>2, OneRowChanges, LifecycleStep
  <2> QED BY <2>1, <2>2
<1>3. Spec => []TypeInv
  BY InitTypeInv, NextTypeInv, PTL DEF Spec
<1> QED BY <1>1, <1>2, <1>3, PTL DEF Spec, ImplementsLifecycleSafety, Lifecycle!Safety

-----------------------------------------------------------------------------
(***************************************************************************)
(* The route and the records, with a router and one worker, as long as no  *)
(* release has met a fault or a crash (hurt = {}).                         *)
(***************************************************************************)

\* The installation in which the route is promised to follow the records.
Calm == (\A v, w \in Worker : v = w) /\ IngressConfigured = TRUE

\* The release that the verdict of r says the route points to.
Reported(r) == IF status[r] = "healthy" THEN r ELSE target[r]

\* A verdict is dated by an instant already handed out.
DatedVerdicts == \A r \in RouteDeciders : completedAt[r] <= clock

\* The instant that will date a verdict is later than every verdict so far.
NextVerdictIsLater ==
  \A w \in Worker :
    pc[w] \in {"activating", "recording", "reactivating", "recordingRollback"} =>
      /\ stamp[w] <= clock
      /\ \A r \in RouteDeciders : completedAt[r] < stamp[w]

\* Without a fault the worker's release is undecided, and a worker that is about to
\* record a verdict has moved the route to the release it will report.
SwitchedToReport ==
  \A w \in Worker :
    /\ Busy(w) => Undecided(w)
    /\ pc[w] = "recording" => route = current[w]
    /\ pc[w] = "recordingRollback" => route = target[current[w]]

\* Until the worker moves the route, it points where the last verdict left it.
RouteAsReported ==
  (\A w \in Worker : pc[w] \notin {"recording", "recordingRollback"}) =>
    \A r \in Release : LastDecider(r) => route = Reported(r)

CalmInv == DatedVerdicts /\ NextVerdictIsLater /\ SwitchedToReport /\ RouteAsReported

\* A fault or a crash is on record.
LEMMA CalmHasNoFault ==
  ASSUME hurt' = {}, NEW w \in Worker
  PROVE  ~ Fault(w)
BY DEF Fault, ActivateThrows, ReactivateThrows, WriteThrows,
   HealthyUnconfirmed, RollbackUnconfirmed, TickThrows, Crash, CallFault

\* Only a finishing write decides a release.
LEMMA OnlyRecordDecides ==
  ASSUME TypeInv, [Next]_vars, \A w \in Worker : ~ Record(w), NEW r \in Release
  PROVE  \/ status'[r] = status[r]
         \/ status[r] = "absent" /\ status'[r] = "pending"
         \/ status[r] = "pending" /\ status'[r] = "deploying"
<1>1. ASSUME NEW s \in Release, NEW w \in Worker, ClaimNext(w, s)
      PROVE  \/ status'[r] = status[r]
             \/ status[r] = "pending" /\ status'[r] = "deploying"
  BY <1>1 DEF ClaimNext, Claimable, TypeInv, TypeOK
<1>2. ASSUME NEW s \in Release, InsertRelease(s)
      PROVE  \/ status'[r] = status[r]
             \/ status[r] = "absent" /\ status'[r] = "pending"
  BY <1>2 DEF InsertRelease, TypeInv, TypeOK
<1>3. ASSUME NEW w \in Worker, Engine(w)
      PROVE  status' = status
  BY <1>3, EngineStep DEF row
<1>4. ASSUME NEW w \in Worker, Check(w) \/ Route(w) \/ GiveUp(w)
      PROVE  status' = status
  BY <1>4 DEF Check, VerifyPasses, ReverifyPasses, Route, ActivateCandidate,
     ActivateThrows, ActivateTarget, ReactivateThrows, GiveUp, FailRejected,
     TickThrows, Crash, row
<1>. QED BY <1>1, <1>2, <1>3, <1>4, StepCases DEF ReadTarget, ContainerExits, vars, row

\* A step that neither confirms a candidate nor completes a rollback keeps the deciders
\* of the route, and the last one.
LEMMA DecidersKept ==
  ASSUME TypeInv, [Next]_vars, \A w \in Worker : ~ Fault(w),
         \A w \in Worker : ~ (RecordHealthy(w) \/ RecordRolledBack(w))
  PROVE  /\ RouteDeciders' = RouteDeciders
         /\ \A r \in RouteDeciders :
              completedAt'[r] = completedAt[r] /\ Reported(r)' = Reported(r)
         /\ \A r \in Release : LastDecider(r)' <=> LastDecider(r)
<1>1. ASSUME NEW r \in RouteDeciders
      PROVE  /\ status'[r] = status[r] /\ target'[r] = target[r]
             /\ completedAt'[r] = completedAt[r]
  <2>1. createdAt[r] # 0 /\ r \in Release
    BY DEF RouteDeciders, TypeInv, DatedRows
  <2>. QED BY <2>1, RowSteps DEF RouteDeciders, Verdict
<1>2. ASSUME NEW r \in Release, status[r] \notin {"healthy", "rolled-back"}
      PROVE  status'[r] \notin {"healthy", "rolled-back"}
  <2>1. ASSUME NEW w \in Worker, Record(w)
        PROVE  status'[r] \in {status[r], "failed"}
    <3>1. RecordFailed(w)
      BY <2>1 DEF Record, Fault
    <3>. QED BY <3>1, WorkersRelease DEF RecordFailed, Finish, Busy, TypeInv, TypeOK
  <2>. QED BY <1>2, <2>1, OnlyRecordDecides
<1>3. RouteDeciders' = RouteDeciders
  BY <1>1, <1>2 DEF RouteDeciders
<1>4. \A r \in RouteDeciders :
        completedAt'[r] = completedAt[r] /\ Reported(r)' = Reported(r)
  BY <1>1 DEF Reported
<1>5. \A r \in Release : LastDecider(r)' <=> LastDecider(r)
  BY <1>3, <1>4 DEF LastDecider
<1>. QED BY <1>3, <1>4, <1>5

\* The clock does not run backwards.
LEMMA ClockGrows ==
  ASSUME TypeInv, [Next]_vars
  PROVE  clock \in Nat /\ clock' \in Nat /\ clock <= clock'
<1>1. clock \in Nat
  BY DEF TypeInv, TypeOK
<1>2. clock' \in {clock, clock + 1}
  <2>1. ASSUME NEW w \in Worker, Engine(w)
        PROVE  clock' = clock
    BY <2>1, EngineStep
  <2>2. ASSUME NEW w \in Worker, Check(w) \/ Route(w) \/ Record(w) \/ GiveUp(w)
        PROVE  clock' \in {clock, clock + 1}
    BY <2>2 DEF Check, VerifyPasses, ReverifyPasses, CheckPasses, Route, ActivateCandidate,
       ActivateThrows, ActivateTarget, ReactivateThrows, Record, RecordHealthy,
       RecordRolledBack, RecordFailed, HealthyUnconfirmed, RollbackUnconfirmed, GiveUp,
       FailRejected, TickThrows, Crash, CallFault
  <2>. QED BY <2>1, <2>2, StepCases
           DEF ReadTarget, InsertRelease, ContainerExits, ClaimNext, vars
<1>. QED BY <1>1, <1>2

\* What the sole worker's step does to its tick, when nothing fails.
LEMMA CalmTick ==
  ASSUME Calm, TypeInv, [Next]_vars, hurt' = {}, SwitchedToReport, NEW w \in Worker,
         ~ (RecordHealthy(w) \/ RecordRolledBack(w))
  PROVE  \/ UNCHANGED <<pc, current, stamp, route>>
         \/ /\ route' = route
            /\ pc'[w] \in {"idle", "deploying", "verifying", "catching", "restoring",
                           "removing", "reverifying", "failing"}
            /\ pc[w] \notin {"recording", "recordingRollback"}
         \/ Check(w)
         \/ ActivateCandidate(w) \/ ActivateTarget(w)
<1>1. \A v \in Worker : v = w /\ ~ Fault(v)
  BY CalmHasNoFault DEF Calm
<1>2. CASE Engine(w)
  <2>1. ~ RollbackRejected(w)
    BY DEF SwitchedToReport, RollbackRejected, MayFinish, Undecided, Busy
  <2>2. pc[w] \notin {"recording", "recordingRollback"}
    BY <1>1, <1>2, <2>1 DEF Fault, Engine, DeployReturns, DeployThrows, VerifyFails,
       FindTarget, RestoreTarget, RestoreThrows, RemoveCandidate, ReverifyFails
  <2>. QED BY <1>2, <2>2, EngineStep DEF Continue, Goto, TypeInv, TypeOK
<1>3. CASE Route(w)
  BY <1>1, <1>3 DEF Route, Fault
<1>4. CASE Record(w)
  <2>1. RecordFailed(w)
    BY <1>1, <1>4 DEF Record, Fault
  <2>. QED BY <2>1 DEF RecordFailed, EndTick, Goto, TypeInv, TypeOK
<1>5. CASE GiveUp(w)
  <2>1. FailRejected(w)
    BY <1>1, <1>5 DEF GiveUp, Fault
  <2>. QED BY <2>1 DEF FailRejected, EndTick, Goto, TypeInv, TypeOK
<1>6. ASSUME NEW r \in Release, ClaimNext(w, r)
      PROVE  /\ route' = route /\ pc'[w] = "deploying" /\ pc[w] = "idle"
  BY <1>6 DEF ClaimNext, Goto, TypeInv, TypeOK
<1>7. ASSUME NEW r \in Release, ReadTarget(r) \/ InsertRelease(r) \/ ContainerExits(r)
      PROVE  UNCHANGED <<pc, current, stamp, route>>
  BY <1>7 DEF ReadTarget, InsertRelease, ContainerExits, worker
<1>8. UNCHANGED vars => UNCHANGED <<pc, current, stamp, route>>
  BY DEF vars, worker
<1>. QED BY <1>1, <1>2, <1>3, <1>4, <1>5, <1>6, <1>7, <1>8, StepCases

\* A verdict that confirms the candidate or completes the rollback becomes the last one,
\* and the route already points where it says.
LEMMA VerdictIsLast ==
  ASSUME Calm, TypeInv, CalmInv, [Next]_vars, NEW w \in Worker,
         RecordHealthy(w) \/ RecordRolledBack(w)
  PROVE  CalmInv'
<1>1. \A v \in Worker : v = w
  BY DEF Calm
<1>2. /\ pc[w] \in {"recording", "recordingRollback"} /\ current[w] \in Release
      /\ route' = route /\ clock' = clock
      /\ pc' = [pc EXCEPT ![w] = "idle"]
      /\ target' = target
  BY WorkersRelease DEF RecordHealthy, RecordRolledBack, Finish, EndTick, Goto, Busy
<1>3. pc'[w] = "idle"
  BY <1>2 DEF TypeInv, TypeOK
<1>4. /\ status'[current[w]] = IF pc[w] = "recording" THEN "healthy" ELSE "rolled-back"
      /\ completedAt'[current[w]] = stamp[w]
      /\ \A s \in Release : s # current[w] =>
           status'[s] = status[s] /\ completedAt'[s] = completedAt[s]
  BY <1>2 DEF RecordHealthy, RecordRolledBack, Finish, TypeInv, TypeOK
<1>5. RouteDeciders' = RouteDeciders \cup {current[w]} /\ current[w] \notin RouteDeciders
  <2>1. status[current[w]] = "deploying"
    BY DEF RecordHealthy, RecordRolledBack, MayFinish
  <2>. QED BY <1>2, <1>4, <2>1 DEF RouteDeciders
<1>6. stamp[w] \in Nat /\ stamp[w] <= clock /\ \A r \in RouteDeciders : completedAt[r] < stamp[w]
  BY <1>2 DEF CalmInv, NextVerdictIsLater, TypeInv, TypeOK
<1>7. \A r \in RouteDeciders : r \in Release /\ completedAt[r] \in Nat /\ r # current[w]
  BY <1>5 DEF RouteDeciders, TypeInv, TypeOK
<1>8. DatedVerdicts'
  BY <1>2, <1>4, <1>5, <1>6, <1>7 DEF CalmInv, DatedVerdicts
<1>9. ASSUME NEW r \in Release, LastDecider(r)'
      PROVE  r = current[w]
  <2>1. r \in RouteDeciders' /\ completedAt'[current[w]] <= completedAt'[r]
    BY <1>5, <1>9 DEF LastDecider
  <2>2. SUFFICES ASSUME r # current[w] PROVE FALSE
    OBVIOUS
  <2>3. r \in RouteDeciders /\ completedAt'[r] = completedAt[r]
    BY <1>4, <1>5, <2>1, <2>2
  <2>4. stamp[w] <= completedAt[r] /\ completedAt[r] < stamp[w] /\ completedAt[r] \in Nat
    BY <1>4, <1>6, <1>7, <2>1, <2>3
  <2>. QED BY <1>6, <2>4
<1>10. ASSUME NEW r \in Release, LastDecider(r)'
       PROVE  route' = Reported(r)'
  <2>1. r = current[w]
    BY <1>9, <1>10
  <2>2. Reported(r)' = IF pc[w] = "recording" THEN r ELSE target[r]
    BY <1>2, <1>4, <2>1 DEF Reported
  <2>. QED BY <1>2, <2>1, <2>2 DEF CalmInv, SwitchedToReport
<1>11. RouteAsReported'
  BY <1>10 DEF RouteAsReported
<1>12. NextVerdictIsLater' /\ SwitchedToReport'
  BY <1>1, <1>3 DEF NextVerdictIsLater, SwitchedToReport, Busy
<1>. QED BY <1>8, <1>11, <1>12 DEF CalmInv

\* CalmInv is inductive.
LEMMA CalmInvStep ==
  ASSUME Calm, TypeInv, CalmInv, [Next]_vars, hurt' = {}
  PROVE  CalmInv'
<1>. SUFFICES ASSUME \A w \in Worker : ~ (RecordHealthy(w) \/ RecordRolledBack(w))
              PROVE  CalmInv'
  BY VerdictIsLast
<1>1. /\ RouteDeciders' = RouteDeciders
      /\ \A r \in RouteDeciders :
           completedAt'[r] = completedAt[r] /\ Reported(r)' = Reported(r)
      /\ \A r \in Release : LastDecider(r)' <=> LastDecider(r)
  BY DecidersKept, CalmHasNoFault
<1>2. /\ clock \in Nat /\ clock' \in Nat /\ clock <= clock'
      /\ \A r \in RouteDeciders :
           /\ completedAt[r] \in Nat /\ completedAt[r] <= clock
           /\ r \in Release
  BY ClockGrows DEF CalmInv, DatedVerdicts, RouteDeciders, TypeInv, TypeOK
<1>3. DatedVerdicts'
  BY <1>1, <1>2 DEF DatedVerdicts
<1>4. CASE UNCHANGED <<pc, current, stamp, route>>
  <2>1. NextVerdictIsLater'
    BY <1>1, <1>2, <1>4 DEF CalmInv, NextVerdictIsLater, TypeInv, TypeOK
  <2>2. ASSUME NEW w \in Worker, Busy(w)
        PROVE  /\ status'[current[w]] = status[current[w]]
               /\ target'[current[w]] = target[current[w]]
    <3>1. ~ Record(w)
      <4>1. SUFFICES ASSUME RecordFailed(w) PROVE FALSE
        BY CalmHasNoFault DEF Record, Fault
      <4>. QED BY <1>4, <4>1 DEF RecordFailed, EndTick, Goto, TypeInv, TypeOK
    <3>2. \A v \in Worker : ~ Record(v)
      BY <3>1 DEF Calm
    <3>3. current[w] \in Release /\ status[current[w]] = "deploying"
      BY <2>2, WorkersRelease DEF CalmInv, SwitchedToReport, Undecided
    <3>. QED BY <2>2, <3>2, <3>3, OnlyRecordDecides, TargetKept
  <2>3. SwitchedToReport'
    BY <1>4, <2>2 DEF CalmInv, SwitchedToReport, Undecided, Busy
  <2>4. RouteAsReported'
    BY <1>1, <1>4 DEF CalmInv, RouteAsReported, LastDecider
  <2>. QED BY <1>3, <2>1, <2>3, <2>4 DEF CalmInv
<1>5. ASSUME NEW w \in Worker, ~ UNCHANGED <<pc, current, stamp, route>>
      PROVE  CalmInv'
  <2>1. \A v \in Worker : v = w
    BY DEF Calm
  <2>2. CASE /\ route' = route
             /\ pc'[w] \in {"idle", "deploying", "verifying", "catching", "restoring",
                            "removing", "reverifying", "failing"}
             /\ pc[w] \notin {"recording", "recordingRollback"}
    <3>1. NextVerdictIsLater'
      BY <2>1, <2>2 DEF NextVerdictIsLater
    <3>2. RouteAsReported'
      BY <1>1, <2>1, <2>2 DEF CalmInv, RouteAsReported, LastDecider
    <3>3. SwitchedToReport'
      <4>1. CASE \E r \in Release : ClaimNext(w, r)
        BY <2>1, <4>1 DEF ClaimNext, SwitchedToReport, Undecided, Goto, TypeInv, TypeOK
      <4>2. CASE Engine(w)
        BY <2>1, <2>2, <4>2, EngineStep DEF CalmInv, SwitchedToReport, Undecided,
           Continue, row
      <4>3. CASE Record(w) \/ GiveUp(w)
        <5>1. EndTick(w)
          BY <4>3, CalmHasNoFault DEF Record, GiveUp, Fault, RecordFailed, FailRejected
        <5>. QED BY <2>1, <5>1 DEF EndTick, Goto, SwitchedToReport, Busy, TypeInv, TypeOK
      <4>4. ~ (Check(w) \/ Route(w))
        BY <2>2, CalmHasNoFault DEF Check, VerifyPasses, ReverifyPasses, Route, Fault,
           ActivateCandidate, ActivateTarget, Continue, Goto, Calm, TypeInv, TypeOK
      <4>. QED BY <1>5, <2>1, <4>1, <4>2, <4>3, <4>4, StepCases
               DEF ReadTarget, InsertRelease, ContainerExits, vars, worker
    <3>. QED BY <1>3, <3>1, <3>2, <3>3 DEF CalmInv
  <2>3. CASE Check(w)
    <3>1. /\ Busy(w) /\ pc[w] \notin {"recording", "recordingRollback"}
          /\ pc'[w] \in {"activating", "reactivating"}
          /\ clock' = clock + 1 /\ stamp'[w] = clock + 1
          /\ UNCHANGED <<row, route, current>>
      BY <2>3 DEF Check, VerifyPasses, ReverifyPasses, CheckPasses, Goto, Busy, Calm,
         TypeInv, TypeOK
    <3>2. NextVerdictIsLater'
      BY <1>1, <1>2, <2>1, <3>1 DEF NextVerdictIsLater
    <3>3. SwitchedToReport'
      BY <2>1, <3>1 DEF CalmInv, SwitchedToReport, Undecided, row
    <3>4. RouteAsReported'
      BY <1>1, <2>1, <3>1 DEF CalmInv, RouteAsReported, LastDecider
    <3>. QED BY <1>3, <3>2, <3>3, <3>4 DEF CalmInv
  <2>4. CASE ActivateCandidate(w) \/ ActivateTarget(w)
    <3>1. /\ Busy(w) /\ pc[w] \in {"activating", "reactivating"}
          /\ pc[w] = "activating" => pc'[w] = "recording" /\ route' = current[w]
          /\ pc[w] = "reactivating" =>
               pc'[w] = "recordingRollback" /\ route' = target[current[w]]
          /\ UNCHANGED <<row, clock, current, stamp>>
      BY <2>4 DEF ActivateCandidate, ActivateTarget, Activate, Continue, Goto, Busy,
         TypeInv, TypeOK
    <3>2. NextVerdictIsLater'
      BY <1>1, <1>2, <2>1, <3>1 DEF CalmInv, NextVerdictIsLater
    <3>3. SwitchedToReport'
      BY <2>1, <3>1 DEF CalmInv, SwitchedToReport, Undecided, row
    <3>4. RouteAsReported'
      BY <3>1 DEF RouteAsReported
    <3>. QED BY <1>3, <3>2, <3>3, <3>4 DEF CalmInv
  <2>. QED BY <1>5, <2>2, <2>3, <2>4, CalmTick DEF CalmInv
<1>6. UNCHANGED <<pc, current, stamp, route>> \/ \E w \in Worker : TRUE
  BY StepCases DEF ReadTarget, InsertRelease, ContainerExits, vars, worker
<1>. QED BY <1>4, <1>5, <1>6

\* With a router and one worker, and as long as no release met a fault or a crash, the stable
\* route between ticks is the release last recorded healthy or the target of the one last
\* rolled back.
THEOREM RouteFollowsUntilFault ==
  ASSUME Calm
  PROVE  Spec => [](hurt = {} => RouteFollowsRecords)
<1>1. Init => CalmInv
  BY DEF Init, CalmInv, DatedVerdicts, NextVerdictIsLater, SwitchedToReport,
     RouteAsReported, LastDecider, RouteDeciders, Busy
<1>2. TypeInv /\ (hurt = {} => CalmInv) /\ [Next]_vars => (hurt = {} => CalmInv)'
  BY CalmInvStep, HistoryGrows
<1>3. CalmInv => RouteFollowsRecords
  BY DEF CalmInv, RouteAsReported, RouteFollowsRecords, Reported, Busy
<1>4. Spec => []TypeInv
  BY InitTypeInv, NextTypeInv, PTL DEF Spec
<1>. QED BY <1>1, <1>2, <1>3, <1>4, PTL DEF Spec

\* Where nothing fails, the stable route follows the records.
THEOREM RouteFollows ==
  ASSUME Calm, MaxFaults = 0, MaxCrashes = 0
  PROVE  Spec => []RouteFollowsRecords
<1>1. Init => hurt = {}
  BY DEF Init
<1>2. TypeInv /\ hurt = {} /\ [Next]_vars => (hurt = {})'
  <2>. SUFFICES ASSUME TypeInv, hurt = {}, [Next]_vars PROVE hurt' = {}
    OBVIOUS
  <2>1. faults \in Nat /\ crashes \in Nat
    BY DEF TypeInv, TypeOK
  <2>2. \A w \in Worker : ~ Fault(w)
    BY <2>1 DEF Fault, ActivateThrows, ReactivateThrows, WriteThrows, HealthyUnconfirmed,
       RollbackUnconfirmed, TickThrows, Crash, CallFault
  <2>. QED
    BY <2>2 DEF Next, ReadTarget, InsertRelease, ContainerExits, Tick, Candidate, ClaimNext,
       DeployReturns, DeployThrows, VerifyPasses, VerifyFails, ActivateCandidate, Activate,
       RecordHealthy, Rollback, FindTarget, RestoreTarget, RestoreThrows, RemoveCandidate,
       ReverifyPasses, ReverifyFails, ActivateTarget, RecordRolledBack, RollbackRejected,
       RecordFailed, FailRejected, vars, history
<1>3. Spec => []TypeInv
  BY InitTypeInv, NextTypeInv, PTL DEF Spec
<1>4. Spec => [](hurt = {} => RouteFollowsRecords)
  BY RouteFollowsUntilFault
<1>. QED BY <1>1, <1>2, <1>3, <1>4, PTL DEF Spec

-----------------------------------------------------------------------------
(***************************************************************************)
(* Rollback to the latest healthy release.  The target is read when the    *)
(* release is created and used when it fails: RollbackRestoresPrevious     *)
(* does not hold of releases whose ways overlap.  It does hold where each  *)
(* is created after the verdict on the one before, for any number of       *)
(* workers, crashes and faults but that of a healthy() that committed      *)
(* without its worker learning of it.                                      *)
(***************************************************************************)

\* Between the reading of its target and its verdict.
UnderWay(r) == createdAt[r] # 0 /\ status[r] \notin Verdict

Sequential ==
  /\ \A r, s \in Release : UnderWay(r) /\ UnderWay(s) => r = s
  /\ unconfirmed = {}

TargetIsLatest == \A r \in Release : UnderWay(r) => target[r] \in LatestHealthy

RouteAtTarget == \A w \in Worker : pc[w] = "recordingRollback" => route = target[current[w]]

\* Only a recorded verdict changes which releases are the latest healthy ones.
LEMMA LatestHealthyKept ==
  ASSUME TypeInv, [Next]_vars, \A w \in Worker : ~ Record(w)
  PROVE  LatestHealthy' = LatestHealthy
<1>1. Healthy' = Healthy
  BY OnlyRecordDecides DEF Healthy
<1>2. \A r \in Healthy : completedAt'[r] = completedAt[r]
  BY RowSteps DEF Healthy
<1>. QED BY <1>1, <1>2 DEF LatestHealthy

\* create() dates a release when it reads its target.
LEMMA NewlyCreated ==
  ASSUME TypeInv, [Next]_vars, NEW r \in Release, createdAt'[r] # createdAt[r]
  PROVE  ReadTarget(r)
<1>1. ASSUME NEW w \in Worker, Engine(w) \/ Check(w) \/ Route(w) \/ Record(w) \/ GiveUp(w)
      PROVE  createdAt' = createdAt
  <2>1. CASE Engine(w)
    BY <2>1, EngineStep DEF row
  <2>2. CASE Record(w)
    BY <2>2, RecordStep DEF Finish
  <2>3. CASE Check(w) \/ Route(w) \/ GiveUp(w)
    BY <2>3 DEF Check, VerifyPasses, ReverifyPasses, Route, ActivateCandidate, ActivateThrows,
       ActivateTarget, ReactivateThrows, GiveUp, FailRejected, TickThrows, Crash, row
  <2>. QED BY <1>1, <2>1, <2>2, <2>3
<1>2. ASSUME NEW s \in Release,
             InsertRelease(s) \/ ContainerExits(s) \/ \E w \in Worker : ClaimNext(w, s)
      PROVE  createdAt' = createdAt
  BY <1>2 DEF InsertRelease, ContainerExits, ClaimNext, row
<1>3. UNCHANGED vars => createdAt' = createdAt
  BY DEF vars, row
<1>4. ASSUME NEW s \in Release, ReadTarget(s)
      PROVE  s = r
  BY <1>4 DEF ReadTarget, TypeInv, TypeOK
<1>. QED BY <1>1, <1>2, <1>3, <1>4, StepCases

\* A new release reads the latest healthy one, and no verdict comes between.
LEMMA TargetIsLatestStep ==
  ASSUME TypeInv, Sequential, TargetIsLatest, [Next]_vars
  PROVE  TargetIsLatest'
<1>. SUFFICES ASSUME NEW r \in Release, UnderWay(r)'
              PROVE  target'[r] \in LatestHealthy'
  BY DEF TargetIsLatest
<1>1. createdAt[r] # 0 => UnderWay(r) /\ target'[r] = target[r]
  BY RowSteps DEF UnderWay, Verdict
<1>2. CASE \A w \in Worker : ~ Record(w)
  <2>1. LatestHealthy' = LatestHealthy
    BY <1>2, LatestHealthyKept
  <2>2. CASE createdAt[r] # 0
    BY <1>1, <2>1, <2>2 DEF TargetIsLatest
  <2>3. CASE createdAt[r] = 0
    <3>1. createdAt'[r] # createdAt[r]
      BY <2>3 DEF UnderWay
    <3>2. ReadTarget(r)
      BY <3>1, NewlyCreated
    <3>. QED BY <2>1, <3>2 DEF ReadTarget, TypeInv, TypeOK
  <2>. QED BY <2>2, <2>3
<1>3. ASSUME NEW w \in Worker, Record(w)
      PROVE  FALSE
  <2>1. /\ Busy(w) /\ Undecided(w)
        /\ \E v, at : v \in Verdict /\ Finish(current[w], v, at)
    BY <1>3, RecordStep
  <2>2. current[w] \in Release /\ UnderWay(current[w])
    BY <2>1 DEF UnderWay, Undecided, Verdict, TypeInv, BusyHasRelease
  <2>3. status'[current[w]] \in Verdict /\ createdAt' = createdAt
    BY <2>1, <2>2 DEF Finish, TypeInv, TypeOK
  <2>4. UnderWay(r) /\ r # current[w]
    BY <1>1, <2>3 DEF UnderWay
  <2>. QED BY <2>2, <2>4 DEF Sequential
<1>. QED BY <1>2, <1>3

\* A worker about to record a rollback has moved the route, and no other worker moves it.
LEMMA RouteAtTargetStep ==
  ASSUME IngressConfigured = TRUE, TypeInv, OneExecutor, RowOfWorker, Sequential, RouteAtTarget,
         [Next]_vars
  PROVE  RouteAtTarget'
<1>. SUFFICES ASSUME NEW v \in Worker, pc'[v] = "recordingRollback"
              PROVE  route' = target'[current'[v]]
  BY DEF RouteAtTarget
<1>1. CASE pc[v] = "recordingRollback" /\ current'[v] = current[v]
  <2>1. Busy(v) /\ target'[current[v]] = target[current[v]]
    BY <1>1, TargetKept DEF Busy
  <2>2. ASSUME route' # route PROVE FALSE
    <3>1. PICK w \in Worker : Busy(w) /\ pc[w] \in {"activating", "reactivating"}
      BY <2>2, RouteMoves DEF ActivateCandidate, ActivateThrows, ActivateTarget,
         ReactivateThrows, Busy
    <3>2. UnderWay(current[w]) /\ current[w] \in Release
      BY <3>1 DEF RowOfWorker, DecidedUnawares, Undecided, Sequential, UnderWay, Verdict,
         TypeInv, BusyHasRelease
    <3>3. UnderWay(current[v]) /\ current[v] \in Release
      BY <1>1, <2>1 DEF RowOfWorker, DecidedUnawares, Undecided, Sequential, UnderWay, Verdict,
         TypeInv, BusyHasRelease
    <3>4. current[v] = current[w]
      BY <3>2, <3>3 DEF Sequential
    <3>5. v = w
      BY <2>1, <3>1, <3>4 DEF OneExecutor
    <3>. QED BY <1>1, <3>1, <3>5
  <2>. QED BY <1>1, <2>1, <2>2 DEF RouteAtTarget
<1>2. CASE ActivateTarget(v)
  <2>1. Busy(v) /\ current'[v] = current[v] /\ route' = target[current[v]]
    BY <1>2 DEF ActivateTarget, Activate, Continue, Busy
  <2>. QED BY <2>1, TargetKept
<1>3. /\ ~ Engine(v) /\ ~ Check(v) /\ (Route(v) => ActivateTarget(v))
      /\ ~ Record(v) /\ ~ GiveUp(v) /\ ~ \E r \in Release : ClaimNext(v, r)
  <2>1. ~ Engine(v)
    BY EngineStep DEF Continue, Goto, TypeInv, TypeOK
  <2>2. ~ Check(v)
    BY DEF Check, VerifyPasses, ReverifyPasses, Goto, TypeInv, TypeOK
  <2>3. Route(v) => ActivateTarget(v)
    BY DEF Route, ActivateCandidate, ActivateThrows, ReactivateThrows, Continue, Goto,
       TypeInv, TypeOK
  <2>4. ~ Record(v)
    BY RecordStep DEF EndTick, Continue, Goto, TypeInv, TypeOK
  <2>5. ~ GiveUp(v)
    BY DEF GiveUp, FailRejected, TickThrows, Crash, EndTick, Goto, TypeInv, TypeOK
  <2>6. ~ \E r \in Release : ClaimNext(v, r)
    BY DEF ClaimNext, Goto, TypeInv, TypeOK
  <2>. QED BY <2>1, <2>2, <2>3, <2>4, <2>5, <2>6
<1>4. ASSUME NEW w \in Worker, w # v, NEW r \in Release, ClaimNext(w, r)
      PROVE  pc'[v] = pc[v] /\ current'[v] = current[v]
  BY <1>4 DEF ClaimNext, Goto, TypeInv, TypeOK
<1>. QED
  BY <1>1, <1>2, <1>3, <1>4, OthersKeep, StepCases
  DEF ReadTarget, InsertRelease, ContainerExits, vars, worker

\* With a router, and if every release is created after the verdict on the one before,
\* a rollback leaves the route on the latest healthy release.
THEOREM RollbackRestores ==
  ASSUME IngressConfigured = TRUE
  PROVE  Spec /\ []Sequential => RollbackRestoresPrevious
<1>. DEFINE Restores ==
       \A r \in Release :
         status[r] = "deploying" /\ status'[r] = "rolled-back" => route \in LatestHealthy
<1>1. Init => OneExecutor /\ RowOfWorker /\ TargetIsLatest /\ RouteAtTarget
  BY DEF Init, OneExecutor, RowOfWorker, TargetIsLatest, RouteAtTarget, UnderWay, Busy
<1>2. TypeInv /\ TargetIsLatest /\ RouteAtTarget /\ [Next]_vars => Restores
  <2>. SUFFICES ASSUME TypeInv, TargetIsLatest, RouteAtTarget, [Next]_vars,
                       NEW r \in Release, status[r] = "deploying", status'[r] = "rolled-back"
                PROVE  route \in LatestHealthy
    OBVIOUS
  <2>1. PICK w \in Worker : Record(w)
    BY OnlyRecordDecides
  <2>2. /\ current[w] \in Release /\ createdAt[current[w]] # 0
        /\ \E v, at : Finish(current[w], v, at)
    BY <2>1, RecordStep DEF TypeInv, BusyHasRelease
  <2>3. current[w] = r
    BY <2>2 DEF Finish, TypeInv, TypeOK
  <2>4. pc[w] = "recordingRollback"
    BY <2>1, <2>3 DEF Record, RecordHealthy, RecordFailed, HealthyUnconfirmed, WriteThrows,
       RecordRolledBack, RollbackUnconfirmed, Finish, row, TypeInv, TypeOK
  <2>5. UnderWay(r) /\ route = target[r]
    BY <2>2, <2>3, <2>4 DEF RouteAtTarget, UnderWay, Verdict
  <2>. QED BY <2>5 DEF TargetIsLatest
<1>3. Spec => []TypeInv
  BY InitTypeInv, NextTypeInv, PTL DEF Spec
<1>4. /\ TypeInv /\ OneExecutor /\ RowOfWorker /\ Sequential /\ RouteAtTarget /\ [Next]_vars
      => RouteAtTarget'
  BY RouteAtTargetStep
<1>5. TypeInv /\ Sequential /\ TargetIsLatest /\ [Next]_vars => TargetIsLatest'
  BY TargetIsLatestStep
<1>6. Spec /\ []Sequential => [](TypeInv /\ TargetIsLatest /\ RouteAtTarget)
  BY <1>1, <1>3, <1>4, <1>5, OneExecutorStep, RowOfWorkerStep, PTL DEF Spec
<1>7. TypeInv /\ TargetIsLatest /\ RouteAtTarget /\ [Next]_vars => [Restores]_vars
  BY <1>2
<1>. QED BY <1>6, <1>7, PTL DEF Spec, RollbackRestoresPrevious

-----------------------------------------------------------------------------
(***************************************************************************)
(* The reconciler of the public proxy.                                     *)
(***************************************************************************)

\* At most one call of reconcile() is under way, and the route it listed is not older
\* than the one it will replace.
CallsInv ==
  /\ age \in Nat
  /\ \/ calls = <<>>
     \/ running = TRUE /\ \E x, n : calls = <<[route |-> x, age |-> n]>> /\ n \in Nat /\ n <= age

LEMMA CallEnds ==
  ASSUME CallsInv, NEW c \in DOMAIN calls
  PROVE  /\ c = 1 /\ RemoveAt(calls, c) = <<>>
         /\ calls[c].age \in Nat /\ calls[c].age <= age
<1>1. calls # <<>>
  OBVIOUS
<1>2. PICK x, n : running = TRUE /\ calls = <<[route |-> x, age |-> n]>> /\ n \in Nat /\ n <= age
  BY <1>1 DEF CallsInv
<1>3. c = 1
  BY <1>2
<1>4. calls[c].age = n
  BY <1>2, <1>3
<1>5. RemoveAt(calls, c) = <<>>
  BY <1>2, <1>3 DEF RemoveAt
<1>. QED BY <1>2, <1>3, <1>4, <1>5

LEMMA CallsInvStep ==
  ASSUME CallsInv, [IngressNext]_ingressVars
  PROVE  CallsInv' /\ (age' > age => route' # route)
<1>1. CASE List
  <2>1. calls = <<>>
    BY <1>1 DEF List, MayRun, CallsInv
  <2>2. /\ calls' = <<[route |-> route, age |-> 0]>> /\ running' = TRUE /\ age' = age
    BY <1>1, <2>1 DEF List
  <2>3. age \in Nat /\ 0 \in Nat /\ 0 <= age
    BY DEF CallsInv
  <2>4. \E x, n : calls' = <<[route |-> x, age |-> n]>> /\ n \in Nat /\ n <= age'
    BY <2>2, <2>3
  <2>5. age' \in Nat /\ ~ (age' > age)
    BY <2>2, <2>3
  <2>. QED BY <2>2, <2>4, <2>5 DEF CallsInv
<1>2. ASSUME NEW c \in DOMAIN calls, Write(c) \/ ReconcileThrows(c)
      PROVE  CallsInv' /\ (age' > age => route' # route)
  <2>1. calls' = <<>> /\ age' \in {calls[c].age, age}
    BY <1>2, CallEnds DEF Write, ReconcileThrows, Return, Replace
  <2>. QED BY <2>1, CallEnds DEF CallsInv
<1>3. CASE HostRestarts
  BY <1>3 DEF HostRestarts, CallsInv
<1>4. ASSUME NEW changed \in {0, 1}, changed = 1 => route' # route, UNCHANGED running,
             calls' = [c \in DOMAIN calls |-> [calls[c] EXCEPT !.age = @ + changed]],
             age' = age + changed
      PROVE  CallsInv' /\ (age' > age => route' # route)
  <2>1. age' \in Nat /\ (age' > age => route' # route)
    BY <1>4 DEF CallsInv
  <2>2. CASE calls = <<>>
    BY <1>4, <2>1, <2>2 DEF CallsInv
  <2>3. CASE calls # <<>>
    <3>1. PICK x, n : running = TRUE /\ calls = <<[route |-> x, age |-> n]>> /\ n \in Nat /\ n <= age
      BY <2>3 DEF CallsInv
    <3>2. [calls[1] EXCEPT !.age = @ + changed] = [route |-> x, age |-> n + changed]
      BY <3>1
    <3>3. calls' = <<[route |-> x, age |-> n + changed]>>
      BY <1>4, <3>1, <3>2
    <3>4. n + changed \in Nat /\ n + changed <= age'
      BY <1>4, <3>1 DEF CallsInv
    <3>. QED BY <1>4, <2>1, <3>1, <3>3, <3>4 DEF CallsInv
  <2>. QED BY <2>2, <2>3
<1>5. CASE UNCHANGED ingressVars
  BY <1>5 DEF ingressVars, reconciler, CallsInv
<1>6. CASE /\ calls' = [c \in DOMAIN calls |-> [calls[c] EXCEPT !.age = @ + (IF route' = route THEN 0 ELSE 1)]]
           /\ age' = age + (IF route' = route THEN 0 ELSE 1)
           /\ UNCHANGED running
  <2>. PICK changed : changed = IF route' = route THEN 0 ELSE 1
    OBVIOUS
  <2>1. changed \in {0, 1} /\ (changed = 1 => route' # route)
    OBVIOUS
  <2>. QED BY <1>4, <1>6, <2>1
<1>. QED BY <1>1, <1>2, <1>3, <1>5, <1>6 DEF IngressNext

\* The public route never goes back to one older than it shows.
THEOREM NeverBack == IngressSpec => RoutesNeverGoBack
<1>. DEFINE Step == age' > age => route' # route
<1>1. IngressInit => CallsInv
  BY DEF IngressInit, CallsInv
<1>2. CallsInv /\ [IngressNext]_ingressVars => CallsInv' /\ Step
  BY CallsInvStep
<1>. HIDE DEF Step
<1>3. CallsInv /\ [][IngressNext]_ingressVars => [][Step]_ingressVars
  BY <1>2, PTL
<1>4. CallsInv /\ [][IngressNext]_ingressVars => RoutesNeverGoBack
  BY <1>3 DEF RoutesNeverGoBack, Step
<1>. QED BY <1>1, <1>4, PTL DEF IngressSpec

-----------------------------------------------------------------------------
(***************************************************************************)
(* The composition.                                                        *)
(***************************************************************************)

\* The reconciler's steps are no step of the releases.
LEMMA ReconcilerStutters ==
  ASSUME [IngressNext]_ingressVars
  PROVE  /\ [Next]_vars
         /\ ~ UNCHANGED vars => UNCHANGED published
<1>1. ASSUME NEW c \in DOMAIN calls, Write(c) \/ ReconcileThrows(c)
      PROVE  UNCHANGED vars
  BY <1>1 DEF Write, ReconcileThrows, Return
<1>2. List \/ HostRestarts => UNCHANGED vars
  BY DEF List, HostRestarts
<1>. QED BY <1>1, <1>2 DEF IngressNext, ingressVars, reconciler

\* The reconciler beside the workers changes nothing for them: what is proved of Spec, under
\* any number of workers, faults and crashes, holds of the composition.
THEOREM ReconcilerIsTransparent == IngressSpec => Spec
<1>1. IngressInit => Init
  BY DEF IngressInit
<1>2. [IngressNext]_ingressVars => [Next]_vars
  BY ReconcilerStutters
<1>. QED BY <1>1, <1>2, PTL DEF IngressSpec, Spec

\* A release the stable route may point to.
Accounted(x) ==
  x = NoRelease \/
  /\ x \in Release
  /\ \/ status[x] = "healthy"
     \/ x \in hurt
     \/ \E w \in Worker : current[w] = x /\ pc[w] = "recording"

\* What Traefik serves and what a call has listed was the stable route once.
ServedInv ==
  /\ Accounted(published)
  /\ \A x, n : calls = <<[route |-> x, age |-> n]>> => Accounted(x)

\* Once accounted for, a release stays so.
LEMMA AccountedStays ==
  ASSUME TypeInv, [Next]_vars, NEW x, Accounted(x)
  PROVE  Accounted(x)'
<1>1. CASE x \in Release /\ status[x] = "healthy"
  BY <1>1, RowSteps DEF Accounted, Verdict
<1>2. CASE x \in hurt
  BY <1>2, HistoryGrows DEF Accounted
<1>3. ASSUME NEW w \in Worker, current[w] = x, pc[w] = "recording"
      PROVE  Accounted(x)'
  BY <1>3, LeavesRecording DEF Accounted
<1>. QED BY <1>1, <1>2, <1>3 DEF Accounted

\* A listing takes the stable route, and a write publishes what was listed.
LEMMA ServedInvStep ==
  ASSUME TypeInv, CallsInv, RouteIsAccountedFor, ServedInv, [IngressNext]_ingressVars
  PROVE  ServedInv'
<1>1. \A x : Accounted(x) => Accounted(x)'
  BY ReconcilerStutters, AccountedStays
<1>2. CASE List
  <2>1. calls = <<>>
    BY <1>2 DEF List, MayRun, CallsInv
  <2>2. calls' = <<[route |-> route, age |-> 0]>> /\ published' = published
    BY <1>2, <2>1 DEF List
  <2>3. Accounted(route)
    BY DEF RouteIsAccountedFor, Accounted, TypeInv, TypeOK
  <2>4. ASSUME NEW x, NEW n, calls' = <<[route |-> x, age |-> n]>>
        PROVE  x = route
    <3>1. calls'[1] = [route |-> x, age |-> n] /\ calls'[1] = [route |-> route, age |-> 0]
      BY <2>2, <2>4
    <3>. QED BY <3>1
  <2>. QED BY <1>1, <2>2, <2>3, <2>4 DEF ServedInv
<1>3. ASSUME NEW c \in DOMAIN calls, Write(c) \/ ReconcileThrows(c)
      PROVE  ServedInv'
  <2>1. calls # <<>>
    OBVIOUS
  <2>2. PICK x, n : calls = <<[route |-> x, age |-> n]>>
    BY <2>1 DEF CallsInv
  <2>3. c = 1 /\ calls' = <<>>
    BY <1>3, CallEnds DEF Write, ReconcileThrows, Return
  <2>4. published' \in {x, published}
    BY <1>3, <2>2, <2>3 DEF Write, ReconcileThrows, Return, Replace
  <2>5. Accounted(x) /\ Accounted(published)
    BY <2>2 DEF ServedInv
  <2>. QED BY <1>1, <2>3, <2>4, <2>5 DEF ServedInv
<1>4. CASE HostRestarts
  BY <1>1, <1>4 DEF HostRestarts, ServedInv
<1>5. ASSUME DOMAIN calls' = DOMAIN calls, \A c \in DOMAIN calls : calls'[c].route = calls[c].route,
             published' = published
      PROVE  ServedInv'
  <2>1. ASSUME NEW x, NEW n, calls' = <<[route |-> x, age |-> n]>>
        PROVE  Accounted(x)
    <3>1. DOMAIN calls = {1} /\ calls'[1].route = x
      BY <1>5, <2>1
    <3>2. calls # <<>>
      BY <3>1
    <3>3. PICK y, m : calls = <<[route |-> y, age |-> m]>>
      BY <3>2 DEF CallsInv
    <3>4. y = x
      BY <1>5, <3>1, <3>3
    <3>. QED BY <3>3, <3>4 DEF ServedInv
  <2>. QED BY <1>1, <1>5, <2>1 DEF ServedInv
<1>6. CASE UNCHANGED ingressVars
  BY <1>5, <1>6 DEF ingressVars, reconciler
<1>7. ASSUME NEW changed,
             calls' = [c \in DOMAIN calls |-> [calls[c] EXCEPT !.age = @ + changed]],
             published' = published
      PROVE  ServedInv'
  <2>1. DOMAIN calls' = DOMAIN calls
    BY <1>7
  <2>2. ASSUME NEW c \in DOMAIN calls
        PROVE  calls'[c].route = calls[c].route
    <3>1. calls # <<>>
      OBVIOUS
    <3>2. PICK x, n : calls = <<[route |-> x, age |-> n]>>
      BY <3>1 DEF CallsInv
    <3>3. c = 1 /\ calls[1] = [route |-> x, age |-> n]
      BY <3>2
    <3>4. [calls[1] EXCEPT !.age = @ + changed] = [route |-> x, age |-> n + changed]
      BY <3>3
    <3>. QED BY <1>7, <3>3, <3>4
  <2>. QED BY <1>5, <1>7, <2>1, <2>2
<1>8. CASE /\ calls' = [c \in DOMAIN calls |-> [calls[c] EXCEPT !.age = @ + (IF route' = route THEN 0 ELSE 1)]]
           /\ UNCHANGED published
  <2>. PICK changed : changed = IF route' = route THEN 0 ELSE 1
    OBVIOUS
  <2>. QED BY <1>7, <1>8
<1>. QED BY <1>2, <1>3, <1>4, <1>6, <1>8 DEF IngressNext

\* Initially nothing is listed or served.
LEMMA InitServed == IngressInit => CallsInv /\ ServedInv
BY DEF IngressInit, CallsInv, ServedInv, Accounted

\* The invariant of what is listed and served, and those of the releases it rests on.
LEMMA ServedInvariant == IngressSpec => [](TypeInv /\ ServedInv)
<1>1. Spec => []TypeInv
  BY InitTypeInv, NextTypeInv, PTL DEF Spec
<1>2. CallsInv /\ [IngressNext]_ingressVars => CallsInv'
  BY CallsInvStep
<1>3. TypeInv /\ CallsInv /\ RouteIsAccountedFor /\ ServedInv /\ [IngressNext]_ingressVars => ServedInv'
  BY ServedInvStep
<1>. QED BY <1>1, <1>2, <1>3, InitServed, ReconcilerIsTransparent, RouteAccountedFor, PTL
         DEF IngressSpec

\* The public proxy serves only what the stable route may point to, however late its file
\* follows.
THEOREM ServedAccountedFor == IngressSpec => []ServedIsAccountedFor
<1>1. ServedInv => ServedIsAccountedFor
  BY DEF ServedInv, Accounted, ServedIsAccountedFor
<1>. QED BY <1>1, ServedInvariant, PTL

\* The container of what the public proxy serves is not removed under it.
THEOREM ServedKeepsContainer == IngressSpec => []ServedHasContainer
<1>1. Init => OneExecutor /\ RowOfWorker /\ CandidateHasContainer /\ HealthyContainerKept /\ UnconfirmedIsHurt
  BY DEF Init, OneExecutor, RowOfWorker, CandidateHasContainer, HealthyContainerKept,
     UnconfirmedIsHurt, Busy
<1>2. Spec => []TypeInv
  BY InitTypeInv, NextTypeInv, PTL DEF Spec
<1>3. Spec => [](TargetsAreHealthyAndOlder /\ RouteIsAccountedFor)
  BY TargetsHealthyAndOlder, RouteAccountedFor, PTL
<1>4. Spec => [](CandidateHasContainer /\ UnconfirmedIsHurt /\ HealthyContainerKept)
  BY <1>1, <1>2, <1>3, OneExecutorStep, RowOfWorkerStep, CandidateHasContainerStep,
     HealthyContainerStep, UnconfirmedIsHurtStep, PTL DEF Spec
<1>5. /\ TypeInv /\ ServedInv
      /\ CandidateHasContainer /\ UnconfirmedIsHurt /\ HealthyContainerKept
      => ServedHasContainer
  <2>. SUFFICES ASSUME TypeInv, ServedInv, CandidateHasContainer, UnconfirmedIsHurt,
                       HealthyContainerKept, published # NoRelease, published \notin hurt
                PROVE  container[published] # "none"
    BY DEF ServedHasContainer
  <2>1. Accounted(published)
    BY DEF ServedInv
  <2>2. CASE published \in Release /\ status[published] = "healthy"
    BY <2>2 DEF HealthyContainerKept, UnconfirmedIsHurt, TypeInv, TypeOK
  <2>3. ASSUME NEW w \in Worker, published \in Release, current[w] = published,
               pc[w] = "recording"
        PROVE  container[published] # "none"
    BY <2>3 DEF CandidateHasContainer, UnconfirmedIsHurt, Busy, TypeInv, TypeOK
  <2>. QED BY <2>1, <2>2, <2>3 DEF Accounted
<1>. QED BY <1>4, <1>5, ServedInvariant, ReconcilerIsTransparent, PTL
=============================================================================
