-------------------------- MODULE HostDeployProofs --------------------------
(***************************************************************************)
(* What holds of deploy.py for any number of runs, any manifests, and any  *)
(* number of timeouts, failing recoveries and deaths.                      *)
(***************************************************************************)
EXTENDS HostDeploy, TLAPS

-----------------------------------------------------------------------------
(***************************************************************************)
(* The inductive invariant.                                                *)
(***************************************************************************)

\* The lock keeps runs apart.
OneAtATime ==
  \A d, x \in Deployment : Running(d) /\ Running(x) => d = x

\* A receipt names a run of its environment that ended well.
ReceiptsAreHealthy ==
  \A e \in Environment :
    receipt[e] # NoDeployment =>
      pc[receipt[e]] = "healthy" /\ environment[receipt[e]] = e

\* What a run replaces is what the receipt names as long as it runs.
ReplacesCurrent ==
  \A d \in Deployment :
    Running(d) /\ pc[d] # "preparing" => previous[d] = receipt[environment[d]]

ReplacementLives ==
  \A d \in Deployment : pc[d] \in {"verifying", "recording"} => container[d] = "live"

RestoresSomething ==
  \A d \in Deployment : pc[d] = "restoring" => previous[d] # NoDeployment

ControlInv ==
  OneAtATime /\ ReceiptsAreHealthy /\ ReplacesCurrent /\ ReplacementLives
             /\ RestoresSomething /\ PreviousKept

\* A promotion under way has been approved, and Stage has not changed since.
Approved ==
  \A d \in Deployment :
    Running(d) /\ pc[d] # "preparing" /\ environment[d] = "prod" =>
      /\ receipt["stage"] # NoDeployment
      /\ manifest[receipt["stage"]] = manifest[d]
      /\ Serves("stage", Revision(manifest[d]))

\* Where a run has no container.
NoContainerAt == {"idle", "preparing", "trying", "stopping", "starting", "restoring", "failed"}

\* A run that has not set its flag, and one that must have.
FlagAgrees ==
  \A d \in Deployment :
    /\ pc[d] \in {"idle", "preparing", "trying", "probing", "discarding", "stopping"} =>
         ~changed[d]
    /\ pc[d] \in {"starting", "verifying", "recording", "restoring"} => changed[d]

\* The environment is without its recorded container only while a run replaces it.
Down(e) ==
  \E d \in Deployment : Running(d) /\ changed[d] /\ environment[d] = e

\* The containers, as long as nothing but the replacement's own steps failed.
Orderly ==
  /\ \A d \in Deployment : pc[d] # "killed"
  /\ \A d \in Deployment : pc[d] \in NoContainerAt => container[d] = "absent"
  /\ \A e \in Environment :
       receipt[e] # NoDeployment => container[receipt[e]] = "live" \/ Down(e)
  /\ \A d \in Deployment :
       pc[d] = "healthy" /\ container[d] = "live" => receipt[environment[d]] = d
  /\ \A d \in Deployment :
       Running(d) /\ changed[d] /\ previous[d] # NoDeployment =>
         container[previous[d]] = "stopped"

OrderlyInv == mishaps = 0 => Orderly

-----------------------------------------------------------------------------
(***************************************************************************)
(* The shape of a step: it moves one run and touches one container.        *)
(***************************************************************************)
Step(d) == Begin(d) \/ Refuse(d) \/ Proceed(d) \/ Die(d)

Over == {"healthy", "failed", "killed"}

Status == {"absent", "trial", "live", "stopped"}

\* A step moves its run's position, and counts a mishap or none.
LEMMA StepMoves ==
  ASSUME NEW d \in Deployment, Step(d)
  PROVE  /\ \E p \in Position \cup Over : Go(d, p)
         /\ UNCHANGED <<environment, manifest>>
         /\ mishaps' = mishaps \/ Mishap
         /\ pc[d] = "idle" \/ Running(d)
<1> USE DEF Position, Over, Running
<1>1. CASE Begin(d) \/ Refuse(d) \/ Die(d)
  BY <1>1 DEF Begin, Refuse, Die
<1>2. CASE Prepare(d) \/ PrepareFails(d) \/ ProbeTrial(d) \/ VerifyReplacement(d)
  BY <1>2 DEF Prepare, PrepareFails, ProbeTrial, VerifyReplacement
<1>3. CASE StartTrial(d) \/ DiscardTrial(d)
  BY <1>3 DEF StartTrial, DiscardTrial, Raises
<1>4. CASE StopPrevious(d) \/ StopFails(d) \/ StartReplacement(d) \/ StartFails(d)
  BY <1>4 DEF StopPrevious, StopFails, StartReplacement, StartFails, Raises
<1>5. CASE Record(d) \/ RecordFails(d)
  BY <1>5 DEF Record, RecordFails
<1>6. CASE CleanUp(d) \/ CleanUpFails(d)
  BY <1>6 DEF CleanUp, CleanUpFails, AfterCleanup
<1>7. CASE Restore(d) \/ RestoreFails(d)
  BY <1>7 DEF Restore, RestoreFails
<1> QED BY <1>1, <1>2, <1>3, <1>4, <1>5, <1>6, <1>7 DEF Step, Proceed

\* Only three steps write what a run remembers or the receipts.
LEMMA StepRemembers ==
  ASSUME NEW d \in Deployment, Step(d)
  PROVE  /\ Prepare(d) \/ UNCHANGED previous
         /\ StopPrevious(d) \/ UNCHANGED changed
         /\ Record(d) \/ UNCHANGED receipt
<1>1. CASE Begin(d) \/ Refuse(d) \/ Die(d)
  BY <1>1 DEF Begin, Refuse, Die
<1>2. CASE Prepare(d) \/ PrepareFails(d) \/ ProbeTrial(d) \/ VerifyReplacement(d)
  BY <1>2 DEF Prepare, PrepareFails, ProbeTrial, VerifyReplacement
<1>3. CASE StartTrial(d) \/ DiscardTrial(d)
  BY <1>3 DEF StartTrial, DiscardTrial
<1>4. CASE StopPrevious(d) \/ StopFails(d) \/ StartReplacement(d) \/ StartFails(d)
  BY <1>4 DEF StopPrevious, StopFails, StartReplacement, StartFails
<1>5. CASE Record(d) \/ RecordFails(d)
  BY <1>5 DEF Record, RecordFails
<1>6. CASE CleanUp(d) \/ CleanUpFails(d)
  BY <1>6 DEF CleanUp, CleanUpFails
<1>7. CASE Restore(d) \/ RestoreFails(d)
  BY <1>7 DEF Restore, RestoreFails
<1> QED BY <1>1, <1>2, <1>3, <1>4, <1>5, <1>6, <1>7 DEF Step, Proceed

\* A step touches the container of its run, or stops or starts the previous one.
LEMMA StepTouches ==
  ASSUME TypeOK, NEW d \in Deployment, Step(d)
  PROVE  \/ UNCHANGED container
         \/ /\ pc[d] \in {"trying", "discarding", "starting", "cleaning"}
            /\ \E s \in Status : Becomes(d, s)
         \/ /\ pc[d] \in {"stopping", "restoring"}
            /\ pc[d] = "stopping" => previous[d] # NoDeployment
            /\ \E s \in {"stopped", "live"} : Becomes(previous[d], s)
<1> USE DEF Status
<1>1. CASE Begin(d) \/ Refuse(d) \/ Die(d)
  BY <1>1 DEF Begin, Refuse, Die
<1>2. CASE Prepare(d) \/ PrepareFails(d) \/ ProbeTrial(d) \/ VerifyReplacement(d)
  BY <1>2 DEF Prepare, PrepareFails, ProbeTrial, VerifyReplacement
<1>3. CASE StartTrial(d) \/ DiscardTrial(d)
  BY <1>3 DEF StartTrial, DiscardTrial, Raises
<1>4. CASE StopPrevious(d)
  BY <1>4 DEF StopPrevious
<1>5. CASE StopFails(d)
  <2>1. CASE Becomes(previous[d], container[previous[d]])
    BY <1>5, <2>1 DEF Becomes, TypeOK
  <2>2. CASE Becomes(previous[d], "stopped")
    BY <1>5, <2>2 DEF StopFails
  <2> QED BY <1>5, <2>1, <2>2 DEF StopFails, Raises
<1>6. CASE StartReplacement(d) \/ StartFails(d)
  BY <1>6 DEF StartReplacement, StartFails, Raises
<1>7. CASE Record(d) \/ RecordFails(d)
  BY <1>7 DEF Record, RecordFails
<1>8. CASE CleanUp(d) \/ CleanUpFails(d)
  BY <1>8 DEF CleanUp, CleanUpFails
<1>9. CASE Restore(d) \/ RestoreFails(d)
  BY <1>9 DEF Restore, RestoreFails
<1> QED
  BY <1>1, <1>2, <1>3, <1>4, <1>5, <1>6, <1>7, <1>8, <1>9 DEF Step, Proceed

-----------------------------------------------------------------------------
(***************************************************************************)
(* Type correctness.                                                       *)
(***************************************************************************)
LEMMA InitType == Init => TypeOK
BY DEF Init, TypeOK

LEMMA NextType == TypeOK /\ [Next]_vars => TypeOK'
<1> SUFFICES ASSUME TypeOK, [Next]_vars PROVE TypeOK'
  OBVIOUS
<1>1. CASE UNCHANGED vars
  BY <1>1 DEF vars, script, TypeOK
<1>2. ASSUME NEW d \in Deployment, Step(d) PROVE TypeOK'
  <2>1. /\ pc' \in [Deployment -> Position \cup {"idle", "healthy", "failed", "killed"}]
        /\ environment' \in [Deployment -> Environment]
        /\ manifest' \in [Deployment -> Build]
    BY <1>2, StepMoves DEF TypeOK, Go, Over
  <2>2. mishaps' \in Nat
    BY <1>2, StepMoves DEF TypeOK, Mishap
  <2>3. previous' \in [Deployment -> Deployment \cup {NoDeployment}]
    BY <1>2, StepRemembers DEF TypeOK, Prepare
  <2>4. changed' \in [Deployment -> BOOLEAN]
    BY <1>2, StepRemembers DEF TypeOK, StopPrevious
  <2>5. receipt' \in [Environment -> Deployment \cup {NoDeployment}]
    BY <1>2, StepRemembers DEF TypeOK, Record
  <2>6. container' \in [Deployment -> {"absent", "trial", "live", "stopped"}]
    BY <1>2, StepTouches DEF TypeOK, Becomes, Status
  <2> QED BY <2>1, <2>2, <2>3, <2>4, <2>5, <2>6 DEF TypeOK
<1> QED BY <1>1, <1>2 DEF Next, Step

\* Every variable of the script keeps its type.
THEOREM TypeCorrect == Spec => []TypeOK
BY InitType, NextType, PTL DEF Spec

-----------------------------------------------------------------------------
(***************************************************************************)
(* Control: the lock, the receipts, and what a position says.              *)
(***************************************************************************)
LEMMA InitControl == Init => ControlInv
BY NoDeploymentIsNone
   DEF Init, ControlInv, OneAtATime, ReceiptsAreHealthy, ReplacesCurrent,
       ReplacementLives, RestoresSomething, PreviousKept, Running, Position

\* The lock is free when a run begins and held while it proceeds.
LEMMA NextOneAtATime ==
  ASSUME TypeOK, OneAtATime, NEW d \in Deployment, Step(d)
  PROVE  OneAtATime'
<1>1. PICK p \in Position \cup Over : Go(d, p)
  BY StepMoves
<1>2. CASE pc[d] = "idle"
  <2>1. Begin(d) \/ pc'[d] = "failed"
    BY <1>2 DEF Step, Begin, Refuse, Go, TypeOK, Proceed, Die, Running, Position,
       Prepare, PrepareFails, StartTrial, ProbeTrial, DiscardTrial, StopPrevious,
       StopFails, StartReplacement, StartFails, VerifyReplacement, Record,
       RecordFails, CleanUp, CleanUpFails, Restore, RestoreFails
  <2>2. CASE Begin(d)
    BY <1>1, <2>2 DEF Begin, LockFree, OneAtATime, Running, Go, TypeOK, Position
  <2>3. CASE pc'[d] = "failed"
    BY <1>1, <2>3 DEF OneAtATime, Running, Go, TypeOK, Position
  <2> QED BY <2>1, <2>2, <2>3
<1>3. CASE Running(d)
  BY <1>1, <1>3 DEF OneAtATime, Running, Go, TypeOK
<1> QED BY <1>2, <1>3, StepMoves

\* A run that is over stays as it ended.
LEMMA HealthyStays ==
  ASSUME TypeOK, NEW d \in Deployment, Step(d),
         NEW x \in Deployment, pc[x] = "healthy"
  PROVE  pc'[x] = "healthy"
BY StepMoves DEF Go, TypeOK, Running, Position

LEMMA NextReceipts ==
  ASSUME TypeOK, ReceiptsAreHealthy, NEW d \in Deployment, Step(d)
  PROVE  ReceiptsAreHealthy'
<1>1. environment' = environment
  BY StepMoves
<1>2. CASE Record(d)
  <2> SUFFICES ASSUME NEW e \in Environment, receipt'[e] # NoDeployment
               PROVE  pc'[receipt'[e]] = "healthy" /\ environment[receipt'[e]] = e
    BY <1>1 DEF ReceiptsAreHealthy
  <2>1. CASE e = environment[d]
    BY <1>2, <2>1 DEF Record, Go, TypeOK
  <2>2. CASE e # environment[d]
    <3>1. receipt'[e] = receipt[e] /\ receipt[e] \in Deployment
      BY <1>2, <2>2 DEF Record, TypeOK
    <3> QED BY <3>1, HealthyStays DEF ReceiptsAreHealthy
  <2> QED BY <2>1, <2>2
<1>3. CASE UNCHANGED receipt
  <2>1. \A e \in Environment :
          receipt[e] # NoDeployment => receipt[e] \in Deployment
    BY DEF TypeOK
  <2> QED BY <1>1, <1>3, <2>1, HealthyStays DEF ReceiptsAreHealthy
<1> QED BY <1>2, <1>3, StepRemembers

LEMMA NextReplaces ==
  ASSUME TypeOK, OneAtATime, ReplacesCurrent, NEW d \in Deployment, Step(d)
  PROVE  ReplacesCurrent'
<1> SUFFICES ASSUME NEW x \in Deployment, Running(x)', pc'[x] # "preparing"
             PROVE  previous'[x] = receipt'[environment[x]]
  BY StepMoves DEF ReplacesCurrent
<1>1. PICK p \in Position \cup Over : Go(d, p)
  BY StepMoves
<1>2. CASE x # d
  <2>1. Running(x) /\ pc[x] # "preparing"
    BY <1>1, <1>2 DEF Go, Running, TypeOK
  <2>2. ~Running(d)
    BY <1>2, <2>1 DEF OneAtATime
  <2>3. UNCHANGED <<previous, receipt>>
    BY <2>2, StepRemembers DEF Prepare, Record, Running, Position
  <2> QED BY <2>1, <2>3 DEF ReplacesCurrent
<1>3. CASE x = d
  <2>1. ~Record(d)
    BY <1>3 DEF Record, Go, Running, Position, TypeOK
  <2>2. CASE Prepare(d)
    BY <1>3, <2>2 DEF Prepare, TypeOK
  <2>3. CASE ~Prepare(d)
    <3>1. UNCHANGED <<previous, receipt>>
      BY <2>1, <2>3, StepRemembers
    <3>2. Running(d)
      BY <1>1, <1>3, StepMoves DEF Step, Begin, Refuse, Go, Running, Position, TypeOK,
         Proceed, Die, Prepare, PrepareFails, StartTrial, ProbeTrial, DiscardTrial,
         StopPrevious, StopFails, StartReplacement, StartFails, VerifyReplacement,
         Record, RecordFails, CleanUp, CleanUpFails, Restore, RestoreFails
    <3>3. pc[d] # "preparing"
      BY <1>1, <1>3, <2>3 DEF Step, Begin, Refuse, Go, Running, Position, TypeOK,
         Proceed, Die, PrepareFails, StartTrial, ProbeTrial, DiscardTrial,
         StopPrevious, StopFails, StartReplacement, StartFails, VerifyReplacement,
         Record, RecordFails, CleanUp, CleanUpFails, Restore, RestoreFails
    <3> QED BY <1>3, <3>1, <3>2, <3>3 DEF ReplacesCurrent
  <2> QED BY <2>2, <2>3
<1> QED BY <1>2, <1>3

\* Positions whose container is the one that just came to life.
LEMMA NextReplacementLives ==
  ASSUME TypeOK, OneAtATime, ReplacementLives, NEW d \in Deployment, Step(d)
  PROVE  ReplacementLives'
<1> SUFFICES ASSUME NEW x \in Deployment, pc'[x] \in {"verifying", "recording"}
             PROVE  container'[x] = "live"
  BY DEF ReplacementLives
<1>1. PICK p \in Position \cup Over : Go(d, p)
  BY StepMoves
<1>2. CASE x # d
  <2>1. pc[x] \in {"verifying", "recording"}
    BY <1>1, <1>2 DEF Go, TypeOK
  <2>2. pc[d] = "idle"
    BY <1>2, <2>1, StepMoves DEF OneAtATime, Running, Position
  <2>3. UNCHANGED container
    BY <2>2, StepTouches
  <2> QED BY <2>1, <2>3 DEF ReplacementLives
<1>3. CASE x = d
  <2>1. StartReplacement(d) \/ VerifyReplacement(d)
    BY <1>3 DEF Step, Begin, Refuse, Go, TypeOK, AfterCleanup,
       Proceed, Die, Prepare, PrepareFails, StartTrial, ProbeTrial, DiscardTrial,
       StopPrevious, StopFails, StartFails, Record, RecordFails, CleanUp,
       CleanUpFails, Restore, RestoreFails
  <2>2. CASE StartReplacement(d)
    BY <1>3, <2>2 DEF StartReplacement, Becomes, TypeOK
  <2>3. CASE VerifyReplacement(d)
    BY <1>3, <2>3 DEF VerifyReplacement, ReplacementLives
  <2> QED BY <2>1, <2>2, <2>3
<1> QED BY <1>2, <1>3

LEMMA NextRestores ==
  ASSUME TypeOK, OneAtATime, RestoresSomething, NEW d \in Deployment, Step(d)
  PROVE  RestoresSomething'
<1> SUFFICES ASSUME NEW x \in Deployment, pc'[x] = "restoring"
             PROVE  previous'[x] # NoDeployment
  BY DEF RestoresSomething
<1>1. PICK p \in Position \cup Over : Go(d, p)
  BY StepMoves
<1>2. CASE x # d
  <2>1. pc[x] = "restoring"
    BY <1>1, <1>2 DEF Go, TypeOK
  <2>2. ~Prepare(d)
    BY <1>2, <2>1 DEF OneAtATime, Running, Position, Prepare
  <2> QED BY <2>1, <2>2, StepRemembers DEF RestoresSomething
<1>3. CASE x = d
  <2>1. CleanUp(d) \/ CleanUpFails(d)
    BY <1>3 DEF Step, Begin, Refuse, Go, TypeOK,
       Proceed, Die, Prepare, PrepareFails, StartTrial, ProbeTrial, DiscardTrial,
       StopPrevious, StopFails, StartReplacement, StartFails, VerifyReplacement,
       Record, RecordFails, Restore, RestoreFails
  <2>2. previous' = previous /\ previous[d] # NoDeployment
    BY <1>3, <2>1 DEF CleanUp, CleanUpFails, AfterCleanup, Go, TypeOK
  <2> QED BY <1>3, <2>2
<1> QED BY <1>2, <1>3

\* A run touches its own container while it runs, and the previous one only to stop
\* or to start it.
LEMMA NextKept ==
  ASSUME TypeOK, ControlInv, NEW d \in Deployment, Step(d)
  PROVE  PreviousKept'
<1> SUFFICES ASSUME NEW x \in Deployment, pc'[x] = "healthy"
             PROVE  container'[x] \in {"live", "stopped"}
  BY DEF PreviousKept
<1>1. PICK p \in Position \cup Over : Go(d, p)
  BY StepMoves
<1>2. CASE x = d
  <2>1. Record(d)
    BY <1>2, StepMoves
    DEF Step, Begin, Refuse, Go, TypeOK, AfterCleanup, Running, Position,
        Proceed, Die, Prepare, PrepareFails, StartTrial, ProbeTrial, DiscardTrial,
        StopPrevious, StopFails, StartReplacement, StartFails, VerifyReplacement,
        RecordFails, CleanUp, CleanUpFails, Restore, RestoreFails
  <2> QED BY <1>2, <2>1 DEF Record, ControlInv, ReplacementLives
<1>3. CASE x # d
  <2>1. pc[x] = "healthy"
    BY <1>1, <1>3 DEF Go, TypeOK
  <2>2. container[x] \in {"live", "stopped"}
    BY <2>1 DEF ControlInv, PreviousKept
  <2>3. CASE UNCHANGED container
    BY <2>2, <2>3
  <2>4. ASSUME NEW s \in Status, Becomes(d, s)
        PROVE  container'[x] = container[x]
    BY <1>3, <2>4 DEF Becomes, TypeOK
  <2>5. ASSUME NEW s \in {"stopped", "live"}, Becomes(previous[d], s)
        PROVE  container'[x] \in {"live", "stopped"}
    BY <2>2, <2>5 DEF Becomes, TypeOK
  <2> QED BY <2>2, <2>3, <2>4, <2>5, StepTouches
<1> QED BY <1>2, <1>3

LEMMA NextControl == TypeOK /\ ControlInv /\ [Next]_vars => ControlInv'
<1> SUFFICES ASSUME TypeOK, ControlInv, [Next]_vars PROVE ControlInv'
  OBVIOUS
<1>1. CASE UNCHANGED vars
  BY <1>1 DEF vars, script, ControlInv, OneAtATime, ReceiptsAreHealthy,
     ReplacesCurrent, ReplacementLives, RestoresSomething, PreviousKept, Running
<1>2. ASSUME NEW d \in Deployment, Step(d) PROVE ControlInv'
  BY <1>2, NextOneAtATime, NextReceipts, NextReplaces, NextReplacementLives,
     NextRestores, NextKept DEF ControlInv
<1> QED BY <1>1, <1>2 DEF Next, Step

THEOREM ControlCorrect == Spec => []ControlInv
BY InitType, NextType, InitControl, NextControl, PTL DEF Spec

\* The containers of released builds are kept, whatever dies or times out.
THEOREM ContainersKept == Spec => []PreviousKept
<1>1. ControlInv => PreviousKept
  BY DEF ControlInv
<1> QED BY <1>1, ControlCorrect, PTL

-----------------------------------------------------------------------------
(***************************************************************************)
(* Promotion.                                                              *)
(***************************************************************************)

\* The container a run replaces is of its environment and of a run that ended well.
LEMMA PreviousIsReleased ==
  ASSUME TypeOK, ControlInv, NEW d \in Deployment, Running(d), pc[d] # "preparing",
         previous[d] # NoDeployment
  PROVE  /\ previous[d] \in Deployment
         /\ pc[previous[d]] = "healthy"
         /\ environment[previous[d]] = environment[d]
BY DEF ControlInv, ReplacesCurrent, ReceiptsAreHealthy, TypeOK

\* What a run of Prod does leaves the containers of Stage alone.
LEMMA ProdLeavesStage ==
  ASSUME TypeOK, ControlInv, NEW d \in Deployment, Step(d), environment[d] = "prod",
         NEW x \in Deployment, environment[x] = "stage"
  PROVE  container'[x] = container[x]
<1>1. x # d
  OBVIOUS
<1>2. ASSUME NEW s \in Status, Becomes(d, s) PROVE container'[x] = container[x]
  BY <1>1, <1>2 DEF Becomes, TypeOK
<1>3. ASSUME pc[d] \in {"stopping", "restoring"},
             pc[d] = "stopping" => previous[d] # NoDeployment,
             NEW s \in {"stopped", "live"}, Becomes(previous[d], s)
      PROVE  container'[x] = container[x]
  <2>1. previous[d] # NoDeployment
    BY <1>3 DEF ControlInv, RestoresSomething
  <2>2. previous[d] # x
    BY <1>3, <2>1, PreviousIsReleased DEF Running, Position
  <2> QED BY <1>3, <2>2 DEF Becomes, TypeOK
<1> QED BY <1>2, <1>3, StepTouches

\* Stage's answer stays as it was while a run of Prod goes on.
LEMMA StageStillServes ==
  ASSUME TypeOK, ControlInv, NEW d \in Deployment, Step(d), environment[d] = "prod",
         NEW r, Serves("stage", r)
  PROVE  Serves("stage", r)'
<1>1. PICK x \in Deployment : PortHolder(x, "stage") /\ Revision(manifest[x]) = r
  BY DEF Serves
<1>2. UNCHANGED <<environment, manifest>>
  BY StepMoves
<1>3. PortHolder(x, "stage")'
  BY <1>1, <1>2, ProdLeavesStage DEF PortHolder
<1> QED BY <1>1, <1>2, <1>3 DEF Serves

LEMMA NextApproved ==
  ASSUME TypeOK, ControlInv, Approved, NEW d \in Deployment, Step(d)
  PROVE  Approved'
<1> SUFFICES ASSUME NEW x \in Deployment,
                    Running(x)', pc'[x] # "preparing", environment'[x] = "prod"
             PROVE  /\ receipt'["stage"] # NoDeployment
                    /\ manifest'[receipt'["stage"]] = manifest'[x]
                    /\ Serves("stage", Revision(manifest[x]))'
  BY StepMoves DEF Approved
<1>0. environment[x] = "prod" /\ UNCHANGED <<environment, manifest>>
  BY StepMoves
<1>1. PICK p \in Position \cup Over : Go(d, p)
  BY StepMoves
<1>2. CASE x # d
  <2>1. Running(x) /\ pc[x] # "preparing"
    BY <1>1, <1>2 DEF Go, Running, TypeOK
  <2>2. ~Running(d)
    BY <1>2, <2>1 DEF ControlInv, OneAtATime
  <2>3. pc[d] = "idle"
    BY <2>2, StepMoves
  <2>4. UNCHANGED <<container, receipt>>
    BY <2>3, StepTouches, StepRemembers DEF Record
  <2> QED BY <1>0, <2>1, <2>4 DEF Approved, Serves, PortHolder
<1>3. CASE x = d
  <2>1. ~Record(d)
    BY <1>3 DEF Record, Go, Running, Position, TypeOK
  <2>2. UNCHANGED receipt
    BY <2>1, StepRemembers
  <2>3. /\ receipt["stage"] # NoDeployment
        /\ manifest[receipt["stage"]] = manifest[d]
        /\ Serves("stage", Revision(manifest[d]))
    <3>1. CASE Prepare(d)
      BY <1>0, <1>3, <3>1 DEF Prepare, StageApproves
    <3>2. CASE ~Prepare(d)
      <4>1. Running(d) /\ pc[d] # "preparing"
        BY <1>1, <1>3, <3>2, StepMoves
        DEF Step, Begin, Refuse, Go, Running, Position, TypeOK,
            Proceed, Die, PrepareFails, StartTrial, ProbeTrial, DiscardTrial,
            StopPrevious, StopFails, StartReplacement, StartFails,
            VerifyReplacement, Record, RecordFails, CleanUp, CleanUpFails, Restore,
            RestoreFails
      <4> QED BY <1>0, <1>3, <4>1 DEF Approved
    <3> QED BY <3>1, <3>2
  <2> QED BY <1>0, <1>3, <2>2, <2>3, StageStillServes
<1> QED BY <1>2, <1>3

LEMMA InitApproved == Init => Approved
BY DEF Init, Approved, Running, Position

THEOREM ApprovalHolds == Spec => []Approved
<1>1. TypeOK /\ ControlInv /\ Approved /\ [Next]_vars => Approved'
  <2> SUFFICES ASSUME TypeOK, ControlInv, Approved, [Next]_vars PROVE Approved'
    OBVIOUS
  <2>1. CASE UNCHANGED vars
    BY <2>1 DEF vars, script, Approved, Running, Serves, PortHolder
  <2> QED BY <2>1, NextApproved DEF Next, Step
<1> QED BY <1>1, InitApproved, TypeCorrect, ControlCorrect, PTL DEF Spec

\* Prod is recorded only for what Stage has recorded and serves.
THEOREM OnlyStagePromoted == Spec => PromotesStage
<1>1. TypeOK /\ Approved /\ [Next]_vars =>
        (receipt'["prod"] # receipt["prod"] =>
           LET promoted == manifest[receipt'["prod"]]
           IN  /\ receipt["stage"] # NoDeployment
               /\ manifest[receipt["stage"]] = promoted
               /\ Serves("stage", Revision(promoted)))
  <2> SUFFICES ASSUME TypeOK, Approved, [Next]_vars, receipt'["prod"] # receipt["prod"]
               PROVE  /\ receipt["stage"] # NoDeployment
                      /\ manifest[receipt["stage"]] = manifest[receipt'["prod"]]
                      /\ Serves("stage", Revision(manifest[receipt'["prod"]]))
    OBVIOUS
  <2>1. PICK d \in Deployment : Record(d)
    BY StepRemembers DEF Next, Step, vars
  <2>2. environment[d] = "prod" /\ receipt'["prod"] = d
    BY <2>1 DEF Record, TypeOK, Environment
  <2> QED BY <2>1, <2>2 DEF Approved, Record, Running, Position
<1> QED BY <1>1, TypeCorrect, ApprovalHolds, PTL DEF Spec, PromotesStage

LEMMA NextProdRan ==
  ASSUME TypeOK, ControlInv, Approved, ProdRanOnStage, NEW d \in Deployment, Step(d)
  PROVE  ProdRanOnStage'
<1> SUFFICES ASSUME NEW x \in Deployment, environment'[x] = "prod",
                    container'[x] # "absent"
             PROVE  \E s \in Deployment :
                      environment'[s] = "stage" /\ manifest'[s] = manifest'[x]
                        /\ pc'[s] = "healthy"
  BY DEF ProdRanOnStage
<1>0. UNCHANGED <<environment, manifest>>
  BY StepMoves
<1>1. ASSUME NEW s \in Deployment, environment[s] = "stage", manifest[s] = manifest[x],
             pc[s] = "healthy"
      PROVE  \E t \in Deployment :
               environment'[t] = "stage" /\ manifest'[t] = manifest'[x]
                 /\ pc'[t] = "healthy"
  BY <1>0, <1>1, HealthyStays
<1>2. CASE container[x] # "absent"
  BY <1>0, <1>1, <1>2 DEF ProdRanOnStage
<1>3. CASE container[x] = "absent"
  <2>1. x = d /\ Running(d) /\ pc[d] # "preparing"
    <3>1. ~UNCHANGED container
      BY <1>3
    <3>2. ASSUME NEW s \in Status, Becomes(d, s) PROVE x = d
      BY <1>3, <3>2 DEF Becomes, TypeOK
    <3>3. ASSUME pc[d] \in {"stopping", "restoring"},
                 pc[d] = "stopping" => previous[d] # NoDeployment,
                 NEW s \in {"stopped", "live"}, Becomes(previous[d], s)
          PROVE  FALSE
      <4>1. previous[d] # NoDeployment
        BY <3>3 DEF ControlInv, RestoresSomething
      <4>2. container[previous[d]] # "absent" /\ previous[d] \in Deployment
        BY <3>3, <4>1, PreviousIsReleased DEF Running, Position, ControlInv, PreviousKept
      <4> QED BY <1>3, <3>3, <4>2 DEF Becomes, TypeOK
    <3> QED BY <3>1, <3>2, <3>3, StepTouches DEF Running, Position
  <2>2. /\ receipt["stage"] \in Deployment
        /\ environment[receipt["stage"]] = "stage"
        /\ manifest[receipt["stage"]] = manifest[x]
        /\ pc[receipt["stage"]] = "healthy"
    BY <1>0, <2>1 DEF Approved, ControlInv, ReceiptsAreHealthy, TypeOK, Environment
  <2> QED BY <1>1, <2>2
<1> QED BY <1>2, <1>3

\* Whatever dies or times out, Prod only ever runs what Stage ran well.
THEOREM ProdAfterStage == Spec => []ProdRanOnStage
<1>1. Init => ProdRanOnStage
  BY DEF Init, ProdRanOnStage
<1>2. TypeOK /\ ControlInv /\ Approved /\ ProdRanOnStage /\ [Next]_vars => ProdRanOnStage'
  <2> SUFFICES ASSUME TypeOK, ControlInv, Approved, ProdRanOnStage, [Next]_vars
               PROVE  ProdRanOnStage'
    OBVIOUS
  <2>1. CASE UNCHANGED vars
    BY <2>1 DEF vars, script, ProdRanOnStage
  <2> QED BY <2>1, NextProdRan DEF Next, Step
<1> QED BY <1>1, <1>2, TypeCorrect, ControlCorrect, ApprovalHolds, PTL DEF Spec

-----------------------------------------------------------------------------
(***************************************************************************)
(* A replacement is done or undone.                                        *)
(***************************************************************************)
LEMMA NextFlag ==
  ASSUME TypeOK, FlagAgrees, NEW d \in Deployment, Step(d)
  PROVE  FlagAgrees'
<1> DEFINE Unset == {"idle", "preparing", "trying", "probing", "discarding", "stopping"}
           Set == {"starting", "verifying", "recording", "restoring"}
<1> SUFFICES ASSUME NEW x \in Deployment
             PROVE  /\ pc'[x] \in Unset => ~changed'[x]
                    /\ pc'[x] \in Set => changed'[x]
  BY DEF FlagAgrees
<1>0. /\ pc[x] \in Unset => ~changed[x]
      /\ pc[x] \in Set => changed[x]
  BY DEF FlagAgrees
<1>1. PICK p \in Position \cup Over : Go(d, p)
  BY StepMoves
<1>2. CASE x # d
  <2>1. pc'[x] = pc[x]
    BY <1>1, <1>2 DEF Go, TypeOK
  <2>2. changed'[x] = changed[x]
    BY <1>2, StepRemembers DEF StopPrevious, TypeOK
  <2> QED BY <1>0, <2>1, <2>2
<1>3. CASE x = d /\ StopPrevious(d)
  BY <1>3 DEF StopPrevious, Go, TypeOK
<1>4. CASE x = d /\ ~StopPrevious(d)
  <2>1. changed' = changed
    BY <1>4, StepRemembers
  <2>2. CASE Begin(d) \/ Refuse(d) \/ Die(d)
    BY <1>0, <1>4, <2>1, <2>2 DEF Begin, Refuse, Die, Go, TypeOK
  <2>3. CASE \/ Prepare(d) \/ PrepareFails(d) \/ StartTrial(d) \/ ProbeTrial(d)
             \/ DiscardTrial(d)
    BY <1>0, <1>4, <2>1, <2>3
    DEF Prepare, PrepareFails, StartTrial, ProbeTrial, DiscardTrial, Go, TypeOK
  <2>4. CASE \/ StopFails(d) \/ StartReplacement(d) \/ StartFails(d)
             \/ VerifyReplacement(d) \/ Record(d) \/ RecordFails(d)
    BY <1>0, <1>4, <2>1, <2>4
    DEF StopFails, StartReplacement, StartFails, VerifyReplacement, Record,
        RecordFails, Go, TypeOK
  <2>5. CASE CleanUp(d) \/ CleanUpFails(d) \/ Restore(d) \/ RestoreFails(d)
    BY <1>0, <1>4, <2>1, <2>5
    DEF CleanUp, CleanUpFails, AfterCleanup, Restore, RestoreFails, Go, TypeOK
  <2> QED BY <1>4, <2>2, <2>3, <2>4, <2>5 DEF Step, Proceed
<1> QED BY <1>2, <1>3, <1>4

THEOREM FlagCorrect == Spec => []FlagAgrees
<1>1. Init => FlagAgrees
  BY DEF Init, FlagAgrees
<1>2. TypeOK /\ FlagAgrees /\ [Next]_vars => FlagAgrees'
  <2> SUFFICES ASSUME TypeOK, FlagAgrees, [Next]_vars PROVE FlagAgrees'
    OBVIOUS
  <2>1. CASE UNCHANGED vars
    BY <2>1 DEF vars, script, FlagAgrees
  <2> QED BY <2>1, NextFlag DEF Next, Step
<1> QED BY <1>1, <1>2, TypeCorrect, PTL DEF Spec

\* With nothing else wrong, a run that restores finds its port free.
LEMMA PortFreeToRestore ==
  ASSUME TypeOK, ControlInv, FlagAgrees, Orderly,
         NEW d \in Deployment, pc[d] = "restoring"
  PROVE  PortFree(environment[d])
<1> SUFFICES ASSUME NEW x \in Deployment, PortHolder(x, environment[d]) PROVE FALSE
  BY DEF PortFree
<1>1. Running(d) /\ changed[d] /\ previous[d] # NoDeployment /\ container[d] = "absent"
  BY DEF Running, Position, FlagAgrees, ControlInv, RestoresSomething, Orderly,
         NoContainerAt
<1>2. CASE pc[x] = "healthy"
  <2>1. receipt[environment[d]] = x
    BY <1>2 DEF PortHolder, Orderly
  <2>2. previous[d] = x
    BY <1>1, <2>1 DEF ControlInv, ReplacesCurrent
  <2> QED BY <1>1, <2>2 DEF Orderly, PortHolder
<1>3. CASE Running(x)
  BY <1>1, <1>3 DEF ControlInv, OneAtATime, PortHolder
<1>4. CASE pc[x] \in {"idle", "failed", "killed"}
  BY <1>4 DEF Orderly, NoContainerAt, PortHolder
<1> QED BY <1>2, <1>3, <1>4 DEF TypeOK, Running

\* Where a step that is not a mishap leaves the container of its run.
LEMMA NextContainer ==
  ASSUME TypeOK, ControlInv, FlagAgrees, Orderly,
         NEW d \in Deployment, Step(d), mishaps' = mishaps
  PROVE  pc'[d] \in NoContainerAt => container'[d] = "absent"
<1> SUFFICES ASSUME pc'[d] \in NoContainerAt PROVE container'[d] = "absent"
  OBVIOUS
<1> USE DEF NoContainerAt
<1>1. CASE Begin(d) \/ Refuse(d) \/ Prepare(d) \/ PrepareFails(d)
  <2>1. container[d] = "absent"
    BY <1>1 DEF Begin, Refuse, Prepare, PrepareFails, Orderly
  <2> QED BY <1>1, <2>1 DEF Begin, Refuse, Prepare, PrepareFails
<1>2. CASE StartTrial(d) \/ ProbeTrial(d)
  BY <1>2 DEF StartTrial, ProbeTrial, Go, TypeOK
<1>3. CASE DiscardTrial(d)
  BY <1>3 DEF DiscardTrial, Becomes, Go, TypeOK
<1>4. CASE StopPrevious(d)
  <2>1. container[d] = "absent"
    BY <1>4 DEF StopPrevious, Orderly
  <2>2. previous[d] # d
    BY <1>4, PreviousIsReleased, NoDeploymentIsNone DEF StopPrevious, Running, Position
  <2> QED BY <1>4, <2>1, <2>2 DEF StopPrevious, Becomes, TypeOK
<1>5. CASE \/ StopFails(d) \/ StartReplacement(d) \/ StartFails(d)
           \/ VerifyReplacement(d) \/ Record(d) \/ RecordFails(d)
  BY <1>5 DEF StopFails, StartReplacement, StartFails, VerifyReplacement, Record,
              RecordFails, Go, TypeOK
<1>6. CASE CleanUp(d)
  BY <1>6 DEF CleanUp, Becomes, TypeOK
<1>7. CASE Restore(d)
  <2>1. container[d] = "absent"
    BY <1>7 DEF Restore, Orderly
  <2>2. previous[d] # d
    BY <1>7, PreviousIsReleased, NoDeploymentIsNone
    DEF Restore, Running, Position, ControlInv, RestoresSomething
  <2> QED BY <1>7, <2>1, <2>2 DEF Restore, Becomes, TypeOK
<1>8. ~(CleanUpFails(d) \/ Die(d))
  BY DEF CleanUpFails, Die, Mishap, TypeOK
<1>9. ~RestoreFails(d)
  BY PortFreeToRestore DEF RestoreFails, Mishap, TypeOK
<1> QED
  BY <1>1, <1>2, <1>3, <1>4, <1>5, <1>6, <1>7, <1>8, <1>9 DEF Step, Proceed

\* A step without a mishap touches the previous container to stop it or restore it.
LEMMA OtherContainers ==
  ASSUME TypeOK, ControlInv, NEW d \in Deployment, Step(d), mishaps' = mishaps,
         NEW x \in Deployment, x # d, container'[x] # container[x]
  PROVE  /\ Running(d) /\ pc[d] # "preparing" /\ previous[d] = x
         /\ \/ StopPrevious(d) /\ container'[x] = "stopped"
            \/ Restore(d) /\ container'[x] = "live"
<1>1. ASSUME NEW s \in Status, Becomes(d, s) PROVE FALSE
  BY <1>1 DEF Becomes, TypeOK
<1>2. /\ pc[d] \in {"stopping", "restoring"}
      /\ \E s \in {"stopped", "live"} : Becomes(previous[d], s)
  BY <1>1, StepTouches
<1>3. previous[d] = x
  BY <1>2 DEF Becomes, TypeOK
<1>4. Running(d) /\ pc[d] # "preparing"
  BY <1>2 DEF Running, Position
<1>5. CASE pc[d] = "stopping"
  <2>1. ~Mishap
    BY DEF Mishap, TypeOK
  <2>2. StopPrevious(d) \/ StopFails(d)
    BY <1>5, <2>1 DEF Step, Proceed, Begin, Refuse, Die, Prepare, PrepareFails, StartTrial,
       ProbeTrial, DiscardTrial, StartReplacement, StartFails, VerifyReplacement,
       Record, RecordFails, CleanUp, CleanUpFails, Restore, RestoreFails
  <2>3. ~StopFails(d)
    BY <1>3, <2>1 DEF StopFails, Raises, Becomes, TypeOK
  <2>4. container'[x] = "stopped"
    BY <1>3, <2>2, <2>3, NoDeploymentIsNone DEF StopPrevious, Becomes, TypeOK
  <2> QED BY <1>3, <1>4, <2>2, <2>3, <2>4
<1>6. CASE pc[d] = "restoring"
  <2>1. Restore(d)
    BY <1>6 DEF Step, Proceed, Begin, Refuse, Die, Prepare, PrepareFails, StartTrial,
       ProbeTrial, DiscardTrial, StopPrevious, StopFails, StartReplacement, StartFails,
       VerifyReplacement, Record, RecordFails, CleanUp, CleanUpFails, RestoreFails
  <2>2. container'[x] = "live"
    BY <1>3, <2>1 DEF Restore, Becomes, TypeOK
  <2> QED BY <1>3, <1>4, <2>1, <2>2
<1> QED BY <1>2, <1>5, <1>6

\* A run that gave up the port and ends without a mishap has put a container back.
LEMMA PutBack ==
  ASSUME TypeOK, ControlInv, FlagAgrees, Orderly,
         NEW d \in Deployment, Step(d), mishaps' = mishaps,
         Running(d), changed[d], ~Running(d)', previous[d] # NoDeployment
  PROVE  Record(d) \/ Restore(d)
<1>1. pc[d] \notin {"preparing", "trying", "probing", "discarding", "stopping"}
  BY DEF FlagAgrees
<1>2. ~(CleanUpFails(d) \/ Die(d))
  BY DEF CleanUpFails, Die, Mishap, TypeOK
<1>3. ~RestoreFails(d)
  BY PortFreeToRestore DEF RestoreFails, Mishap, TypeOK
<1>4. pc'[d] \notin Position
  BY DEF Running
<1> QED
  BY <1>1, <1>2, <1>3, <1>4
  DEF Step, Proceed, Begin, Refuse, Prepare, PrepareFails, StartTrial, ProbeTrial,
      DiscardTrial, StopPrevious, StopFails, StartReplacement, StartFails,
      VerifyReplacement, RecordFails, CleanUp, AfterCleanup, Go, TypeOK, Running,
      Position

\* The recorded containers run, but while they are replaced.
LEMMA NextServed ==
  ASSUME TypeOK, ControlInv, FlagAgrees, Orderly,
         NEW d \in Deployment, Step(d), mishaps' = mishaps,
         NEW e \in Environment, receipt'[e] # NoDeployment
  PROVE  container'[receipt'[e]] = "live" \/ Down(e)'
<1>0. PICK p \in Position \cup Over : Go(d, p)
  BY StepMoves
<1>1. UNCHANGED environment
  BY StepMoves
<1>2. CASE Record(d) /\ environment[d] = e
  <2>1. receipt'[e] = d /\ container'[d] = "live"
    BY <1>2 DEF Record, ControlInv, ReplacementLives, TypeOK
  <2> QED BY <2>1
<1>3. CASE ~(Record(d) /\ environment[d] = e)
  <2> DEFINE r == receipt[e]
  <2>1. receipt'[e] = r
    BY <1>3, StepRemembers DEF Record, TypeOK
  <2>2. r \in Deployment /\ pc[r] = "healthy" /\ environment[r] = e /\ r # d
    BY <2>1, StepMoves DEF TypeOK, ControlInv, ReceiptsAreHealthy, Running, Position
  <2>3. CASE \E x \in Deployment : Running(x) /\ changed[x] /\ environment[x] = e
    <3>1. PICK x \in Deployment : Running(x) /\ changed[x] /\ environment[x] = e
      BY <2>3
    <3>2. CASE x # d
      <4>1. Running(x)'
        BY <1>0, <3>1, <3>2 DEF Running, Go, TypeOK
      <4>2. changed'[x]
        BY <3>1, <3>2, StepRemembers DEF StopPrevious, TypeOK
      <4> QED BY <1>1, <3>1, <4>1, <4>2 DEF Down
    <3>3. CASE x = d /\ Running(d)'
      <4>1. changed'[d]
        BY <3>1, <3>3, StepRemembers DEF StopPrevious, TypeOK
      <4> QED BY <1>1, <3>1, <3>3, <4>1 DEF Down
    <3>4. CASE x = d /\ ~Running(d)'
      <4>1. pc[d] # "preparing"
        BY <3>1, <3>4 DEF FlagAgrees
      <4>2. previous[d] = r
        BY <3>1, <3>4, <4>1 DEF ControlInv, ReplacesCurrent
      <4>3. Restore(d)
        BY <1>3, <2>1, <3>1, <3>4, <4>2, PutBack
      <4>4. container'[r] = "live"
        BY <2>2, <4>2, <4>3 DEF Restore, Becomes, TypeOK
      <4> QED BY <2>1, <4>4
    <3> QED BY <3>2, <3>3, <3>4
  <2>4. CASE ~\E x \in Deployment : Running(x) /\ changed[x] /\ environment[x] = e
    <3>1. container[r] = "live"
      BY <2>1, <2>4 DEF Orderly, Down
    <3>2. CASE container'[r] = container[r]
      BY <2>1, <3>1, <3>2
    <3>3. CASE container'[r] # container[r]
      <4>1. /\ Running(d) /\ pc[d] # "preparing" /\ previous[d] = r
            /\ \/ StopPrevious(d) /\ container'[r] = "stopped"
               \/ Restore(d) /\ container'[r] = "live"
        BY <2>2, <3>3, OtherContainers
      <4>2. environment[d] = e
        BY <2>2, <4>1, PreviousIsReleased, NoDeploymentIsNone
      <4>3. CASE StopPrevious(d)
        <5>1. changed'[d] /\ Running(d)'
          BY <4>3 DEF StopPrevious, Go, Running, Position, TypeOK
        <5> QED BY <1>1, <4>2, <5>1 DEF Down
      <4>4. CASE container'[r] = "live"
        BY <2>1, <4>4
      <4> QED BY <4>1, <4>3, <4>4
    <3> QED BY <3>2, <3>3
  <2> QED BY <2>3, <2>4
<1> QED BY <1>2, <1>3

\* No released container runs but the recorded one.
LEMMA NextOnlyCurrent ==
  ASSUME TypeOK, ControlInv, FlagAgrees, Orderly,
         NEW d \in Deployment, Step(d), mishaps' = mishaps,
         NEW x \in Deployment, pc'[x] = "healthy", container'[x] = "live"
  PROVE  receipt'[environment[x]] = x
<1>0. PICK p \in Position \cup Over : Go(d, p)
  BY StepMoves
<1>1. CASE x = d
  <2>1. Record(d)
    BY <1>1, StepMoves
    DEF Step, Begin, Refuse, Go, TypeOK, AfterCleanup, Running, Position,
        Proceed, Die, Prepare, PrepareFails, StartTrial, ProbeTrial, DiscardTrial,
        StopPrevious, StopFails, StartReplacement, StartFails, VerifyReplacement,
        RecordFails, CleanUp, CleanUpFails, Restore, RestoreFails
  <2> QED BY <1>1, <2>1 DEF Record, TypeOK
<1>2. CASE x # d
  <2>1. pc[x] = "healthy"
    BY <1>0, <1>2 DEF Go, TypeOK
  <2>2. CASE container[x] = "live"
    <3>1. receipt[environment[x]] = x
      BY <2>1, <2>2 DEF Orderly
    <3>2. CASE Record(d) /\ environment[d] = environment[x]
      <4>1. Running(d) /\ pc[d] # "preparing" /\ changed[d]
        BY <3>2 DEF Record, Running, Position, FlagAgrees
      <4>2. previous[d] = x
        BY <3>1, <3>2, <4>1 DEF ControlInv, ReplacesCurrent
      <4>3. container[x] = "stopped"
        BY <4>1, <4>2, NoDeploymentIsNone DEF Orderly
      <4> QED BY <2>2, <4>3
    <3>3. CASE ~(Record(d) /\ environment[d] = environment[x])
      BY <3>1, <3>3, StepRemembers DEF Record, TypeOK
    <3> QED BY <3>2, <3>3
  <2>3. CASE container[x] # "live"
    <3>1. Restore(d) /\ Running(d) /\ pc[d] # "preparing" /\ previous[d] = x
      BY <1>2, <2>3, OtherContainers
    <3>2. environment[d] = environment[x] /\ receipt[environment[d]] = x
      BY <3>1, PreviousIsReleased, NoDeploymentIsNone DEF ControlInv, ReplacesCurrent
    <3> QED BY <3>1, <3>2 DEF Restore
  <2> QED BY <2>2, <2>3
<1> QED BY <1>1, <1>2

\* A run that has given up the port has stopped what it replaces.
LEMMA NextStopped ==
  ASSUME TypeOK, ControlInv, FlagAgrees, Orderly,
         NEW d \in Deployment, Step(d), mishaps' = mishaps,
         NEW x \in Deployment, Running(x)', changed'[x], previous'[x] # NoDeployment
  PROVE  container'[previous'[x]] = "stopped"
<1>0. PICK p \in Position \cup Over : Go(d, p)
  BY StepMoves
<1>1. CASE x # d
  <2>1. Running(x)
    BY <1>0, <1>1 DEF Go, Running, TypeOK
  <2>2. pc[d] = "idle"
    BY <1>1, <2>1, StepMoves DEF ControlInv, OneAtATime
  <2>3. UNCHANGED <<container, previous, changed>>
    BY <2>2, StepTouches, StepRemembers DEF Prepare, StopPrevious
  <2> QED BY <2>1, <2>3 DEF Orderly
<1>2. CASE x = d /\ StopPrevious(d)
  <2>1. previous'[x] = previous[d] /\ previous[d] # NoDeployment
    BY <1>2 DEF StopPrevious
  <2>2. previous[d] \in Deployment
    BY <2>1 DEF TypeOK
  <2> QED BY <1>2, <2>1, <2>2 DEF StopPrevious, Becomes, TypeOK
<1>3. CASE x = d /\ ~StopPrevious(d)
  <2>1. changed[d]
    BY <1>3, StepRemembers
  <2>2. Running(d) /\ pc[d] \notin {"preparing", "stopping"}
    BY <2>1, StepMoves DEF FlagAgrees
  <2>3. previous' = previous
    BY <2>2, StepRemembers DEF Prepare
  <2>4. container[previous[d]] = "stopped" /\ previous[d] \in Deployment
    BY <1>3, <2>1, <2>2, <2>3 DEF Orderly, TypeOK
  <2>5. previous[d] # d
    BY <1>3, <2>2, <2>3, PreviousIsReleased DEF Running, Position
  <2>6. ~Restore(d)
    BY <1>3 DEF Restore, Go, Running, Position, TypeOK
  <2>7. container'[previous[d]] = "stopped"
    BY <1>3, <2>4, <2>5, <2>6, OtherContainers
  <2> QED BY <1>3, <2>3, <2>7
<1> QED BY <1>1, <1>2, <1>3

LEMMA NextOrderly ==
  ASSUME TypeOK, ControlInv, FlagAgrees, Orderly,
         NEW d \in Deployment, Step(d), mishaps' = mishaps
  PROVE  Orderly'
<1>0. PICK p \in Position \cup Over : Go(d, p)
  BY StepMoves
<1>1. ASSUME NEW x \in Deployment PROVE pc'[x] # "killed"
  <2>1. ~Die(d)
    BY DEF Die, Mishap, TypeOK
  <2>2. pc'[d] # "killed"
    BY <2>1, StepMoves
    DEF Step, Begin, Refuse, Go, TypeOK, AfterCleanup, Running, Position,
        Proceed, Prepare, PrepareFails, StartTrial, ProbeTrial, DiscardTrial,
        StopPrevious, StopFails, StartReplacement, StartFails, VerifyReplacement,
        Record, RecordFails, CleanUp, CleanUpFails, Restore, RestoreFails
  <2> QED BY <1>0, <2>2 DEF Orderly, Go, TypeOK
<1>2. ASSUME NEW x \in Deployment, pc'[x] \in NoContainerAt
      PROVE  container'[x] = "absent"
  <2>1. CASE x = d
    BY <1>2, <2>1, NextContainer
  <2>2. CASE x # d
    <3>1. pc[x] = pc'[x] /\ container[x] = "absent"
      BY <1>0, <1>2, <2>2 DEF Go, TypeOK, Orderly
    <3>2. CASE container'[x] # container[x]
      <4>1. Running(d) /\ pc[d] # "preparing" /\ previous[d] = x
        BY <2>2, <3>2, OtherContainers
      <4>2. pc[x] = "healthy"
        BY <4>1, PreviousIsReleased, NoDeploymentIsNone
      <4> QED BY <1>2, <3>1, <4>2 DEF NoContainerAt
    <3> QED BY <3>1, <3>2
  <2> QED BY <2>1, <2>2
<1>3. ASSUME NEW e \in Environment, receipt'[e] # NoDeployment
      PROVE  container'[receipt'[e]] = "live" \/ Down(e)'
  BY <1>3, NextServed
<1>4. ASSUME NEW x \in Deployment, pc'[x] = "healthy", container'[x] = "live"
      PROVE  receipt'[environment'[x]] = x
  BY <1>4, NextOnlyCurrent, StepMoves
<1>5. ASSUME NEW x \in Deployment, Running(x)', changed'[x], previous'[x] # NoDeployment
      PROVE  container'[previous'[x]] = "stopped"
  BY <1>5, NextStopped
<1> QED BY <1>1, <1>2, <1>3, <1>4, <1>5 DEF Orderly

THEOREM OrderlyHolds == Spec => []OrderlyInv
<1>1. Init => OrderlyInv
  BY DEF Init, OrderlyInv, Orderly, Running, Position
<1>2. TypeOK /\ ControlInv /\ FlagAgrees /\ OrderlyInv /\ [Next]_vars => OrderlyInv'
  <2> SUFFICES ASSUME TypeOK, ControlInv, FlagAgrees, OrderlyInv, [Next]_vars,
                      mishaps' = 0
               PROVE  Orderly'
    BY DEF OrderlyInv
  <2>1. CASE UNCHANGED vars
    BY <2>1 DEF vars, script, OrderlyInv, Orderly, Down, Running
  <2>2. ASSUME NEW d \in Deployment, Step(d) PROVE Orderly'
    <3>1. mishaps' = mishaps /\ mishaps = 0
      BY <2>2, StepMoves DEF Mishap, TypeOK
    <3> QED BY <2>2, <3>1, NextOrderly DEF OrderlyInv
  <2> QED BY <2>1, <2>2 DEF Next, Step
<1> QED BY <1>1, <1>2, TypeCorrect, ControlCorrect, FlagCorrect, PTL DEF Spec

\* Whatever step of a replacement fails, it is done or undone, unless something else
\* goes wrong too.
THEOREM DoneOrUndone == Spec => []ReplacedOrUndone
<1>1. TypeOK /\ ControlInv /\ OrderlyInv => ReplacedOrUndone
  <2> SUFFICES ASSUME TypeOK, ControlInv, Orderly, \A d \in Deployment : ~Running(d)
               PROVE  /\ \A e \in Environment : Serving(e)
                      /\ \A d \in Deployment :
                           pc[d] # "healthy" => container[d] = "absent"
    BY DEF OrderlyInv, ReplacedOrUndone
  <2>1. ASSUME NEW e \in Environment PROVE Serving(e)
    BY <2>1 DEF Serving, PortHolder, Orderly, Down, ControlInv, ReceiptsAreHealthy
  <2>2. ASSUME NEW d \in Deployment, pc[d] # "healthy" PROVE container[d] = "absent"
    <3>1. pc[d] \in {"idle", "failed"}
      BY <2>2 DEF Running, TypeOK, Orderly
    <3> QED BY <3>1 DEF Orderly, NoContainerAt
  <2> QED BY <2>1, <2>2
<1> QED BY <1>1, TypeCorrect, ControlCorrect, OrderlyHolds, PTL
=============================================================================
