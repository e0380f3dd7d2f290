-------------------------- MODULE BuildQueueProofs --------------------------
(***************************************************************************)
(* What holds of the build queue for any number of workers, builds, claims *)
(* and faults.  Its rows inherit the theorems about the assessment queue   *)
(* through a step simulation.                                              *)
(***************************************************************************)
EXTENDS BuildQueue, TLAPS

QueueProofs == INSTANCE AssessmentQueueProofs WITH Assessment <- Build

-----------------------------------------------------------------------------
(***************************************************************************)
(* The simulation.                                                         *)
(***************************************************************************)

\* The theorems speak of the same operators as the module.
LEMMA SameStep == [Queue!Next]_(Queue!vars) => [QueueProofs!Next]_(QueueProofs!vars)
<1> USE DEF Queue!row, Queue!worker, Queue!history,
            QueueProofs!row, QueueProofs!worker, QueueProofs!history
<1>1. ASSUME NEW b \in Build
      PROVE  /\ \A k \in Key : Queue!SubmitNew(k, b) => QueueProofs!SubmitNew(k, b)
             /\ Queue!ClaimLapses(b) => QueueProofs!ClaimLapses(b)
  BY DEF Queue!SubmitNew, QueueProofs!SubmitNew, Queue!Conflicts,
         QueueProofs!Conflicts, Queue!Stored, QueueProofs!Stored,
         Queue!ClaimLapses, QueueProofs!ClaimLapses
<1>2. ASSUME NEW k \in Key
      PROVE  Queue!SubmitAgain(k) => QueueProofs!SubmitAgain(k)
  BY DEF Queue!SubmitAgain, QueueProofs!SubmitAgain, Queue!Conflicts,
         QueueProofs!Conflicts, Queue!Stored, QueueProofs!Stored
<1>3. ASSUME NEW w \in Worker, NEW b \in Build
      PROVE  Queue!ClaimNext(w, b) => QueueProofs!ClaimNext(w, b)
  BY DEF Queue!ClaimNext, QueueProofs!ClaimNext, Queue!NextClaim,
         QueueProofs!NextClaim, Queue!Claimable, QueueProofs!Claimable
<1>4. ASSUME NEW w \in Worker
      PROVE  Queue!Tick(w) => QueueProofs!Tick(w)
  BY <1>3 DEF Queue!Tick, QueueProofs!Tick, Queue!Goto, QueueProofs!Goto,
     Queue!EndTick, QueueProofs!EndTick, Queue!MayFinish, QueueProofs!MayFinish,
     Queue!Finish, QueueProofs!Finish,
     Queue!EngineReturns, QueueProofs!EngineReturns,
     Queue!EngineThrows, QueueProofs!EngineThrows,
     Queue!CompleteCommits, QueueProofs!CompleteCommits,
     Queue!CompleteRejected, QueueProofs!CompleteRejected,
     Queue!FailCommits, QueueProofs!FailCommits,
     Queue!FailRejected, QueueProofs!FailRejected
<1>5. ASSUME NEW w \in Worker
      PROVE  Queue!Fault(w) => QueueProofs!Fault(w)
  BY DEF Queue!Fault, QueueProofs!Fault, Queue!Goto, QueueProofs!Goto,
     Queue!EndTick, QueueProofs!EndTick, Queue!MayFinish, QueueProofs!MayFinish,
     Queue!Finish, QueueProofs!Finish,
     Queue!DatabaseFault, QueueProofs!DatabaseFault,
     Queue!CompleteErrors, QueueProofs!CompleteErrors,
     Queue!CompleteUnconfirmed, QueueProofs!CompleteUnconfirmed,
     Queue!FailErrors, QueueProofs!FailErrors, Queue!Crash, QueueProofs!Crash
<1>6. Queue!Next => QueueProofs!Next
  BY <1>1, <1>2, <1>4, <1>5 DEF Queue!Next, QueueProofs!Next
<1> QED BY <1>6 DEF Queue!vars, QueueProofs!vars

\* A step of a worker is a step of the queue's worker, or of its engine alone.
LEMMA WorkerStep ==
  ASSUME NEW w \in Worker, Tick(w) \/ FinishFaults(w) \/ Crash(w)
  PROVE  Queue!Tick(w) \/ Queue!Fault(w) \/ UNCHANGED queue
<1>1. CASE \E b \in Build : Claim(w, b)
  BY <1>1 DEF Claim, Queue!Tick
<1>2. CASE Acquire(w) \/ ScanSource(w) \/ Restore(w) \/ BuildOutput(w) \/ CheckOutput(w)
  BY <1>2 DEF Acquire, ScanSource, Restore, BuildOutput, CheckOutput, queue
<1>3. CASE Publish(w) \/ EngineThrows(w) \/ Finish(w)
  BY <1>3 DEF Publish, EngineThrows, Finish, Queue!Tick
<1>4. CASE FinishFaults(w) \/ Crash(w)
  BY <1>4 DEF FinishFaults, Crash, Queue!Fault
<1> QED BY <1>1, <1>2, <1>3, <1>4 DEF Tick

\* Every step of the build queue is a step of the assessment queue, or changes nothing
\* of it.
LEMMA QueueStep == [Next]_vars => [Queue!Next]_(Queue!vars)
<1> USE DEF queue, Queue!vars, Queue!row, Queue!worker, Queue!history
<1>1. CASE Outside
  BY <1>1 DEF Outside, Queue!Next
<1>2. ASSUME NEW w \in Worker, Tick(w) \/ FinishFaults(w) \/ Crash(w)
      PROVE  [Queue!Next]_(Queue!vars)
  BY <1>2, WorkerStep DEF Queue!Next
<1>3. CASE UNCHANGED vars
  BY <1>3 DEF vars
<1> QED BY <1>1, <1>2, <1>3 DEF Next

\* The build queue implements the safety half of the assessment queue, and with it what
\* is promised of every durable job.
THEOREM ImplementsQueueSafety == Spec => Queue!Safety
<1>1. Init => Queue!Init
  BY DEF Init
<1> QED BY <1>1, QueueStep, PTL DEF Spec, Queue!Safety

\* The theorems about the assessment queue apply.
LEMMA QueueTheoremsApply == Spec => QueueProofs!Safety
<1>1. Queue!Init => QueueProofs!Init
  BY DEF Queue!Init, QueueProofs!Init
<1>. QED BY <1>1, SameStep, ImplementsQueueSafety, PTL DEF Queue!Safety, QueueProofs!Safety

\* One build row per request key, whoever submits it and however often.
THEOREM OneAnswer == Spec => []Queue!OneAnswerPerKey
<1>1. QueueProofs!Safety => []QueueProofs!OneAnswerPerKey
  BY QueueProofs!OneAnswer, Sentinels, Bounds DEF QueueProofs!Sentinels, QueueProofs!Bounds
<1>2. QueueProofs!OneAnswerPerKey => Queue!OneAnswerPerKey
  BY DEF QueueProofs!OneAnswerPerKey, Queue!OneAnswerPerKey, QueueProofs!Stored, Queue!Stored
<1>. QED BY <1>1, <1>2, QueueTheoremsApply, PTL

\* A build is completed only by a run of the engine that stored an artifact, and failed only
\* by one that threw or a finishing write that went wrong.
THEOREM VerdictsAreEarned == Spec => []Queue!VerdictIsEarned
<1>1. QueueProofs!Safety => []QueueProofs!VerdictIsEarned
  BY QueueProofs!VerdictsAreEarned, Sentinels, Bounds DEF QueueProofs!Sentinels, QueueProofs!Bounds
<1>2. QueueProofs!VerdictIsEarned => Queue!VerdictIsEarned
  BY DEF QueueProofs!VerdictIsEarned, Queue!VerdictIsEarned
<1>. QED BY <1>1, <1>2, QueueTheoremsApply, PTL

\* A build has the lifecycle of every durable job: stored, started and decided once, each
\* with its audit event.
THEOREM ImplementsLifecycleSafety == Spec => Queue!Lifecycle!Safety
<1>1. QueueProofs!Safety => QueueProofs!Lifecycle!Safety
  BY QueueProofs!ImplementsLifecycleSafety, Sentinels, Bounds
     DEF QueueProofs!Sentinels, QueueProofs!Bounds
<1>2. QueueProofs!Lifecycle!Init => Queue!Lifecycle!Init
  BY DEF QueueProofs!Lifecycle!Init, Queue!Lifecycle!Init
<1>3. [QueueProofs!Lifecycle!Next]_(QueueProofs!Lifecycle!vars)
      => [Queue!Lifecycle!Next]_(Queue!Lifecycle!vars)
  BY DEF QueueProofs!Lifecycle!Next, Queue!Lifecycle!Next,
         QueueProofs!Lifecycle!Store, Queue!Lifecycle!Store,
         QueueProofs!Lifecycle!Start, Queue!Lifecycle!Start,
         QueueProofs!Lifecycle!Decide, Queue!Lifecycle!Decide,
         QueueProofs!Lifecycle!vars, Queue!Lifecycle!vars, QueueProofs!Verdict, Queue!Verdict
<1>. QED BY <1>1, <1>2, <1>3, QueueTheoremsApply, PTL
         DEF QueueProofs!Lifecycle!Safety, Queue!Lifecycle!Safety

\* No verdict on a build, its audit trail or its number of attempts is rewritten.
THEOREM VerdictsAreFinal == Spec => Queue!VerdictIsFinal
<1>1. QueueProofs!Safety => QueueProofs!VerdictIsFinal
  BY QueueProofs!VerdictsAreFinal, Sentinels, Bounds
     DEF QueueProofs!Sentinels, QueueProofs!Bounds
<1>2. [\A a \in Build :
         status[a] \in QueueProofs!Verdict =>
           /\ status'[a] = status[a]
           /\ audit'[a] = audit[a]
           /\ attempts'[a] = attempts[a]]_(QueueProofs!vars)
      => [\A a \in Build :
            status[a] \in Queue!Verdict =>
              /\ status'[a] = status[a]
              /\ audit'[a] = audit[a]
              /\ attempts'[a] = attempts[a]]_(Queue!vars)
  BY DEF QueueProofs!Verdict, Queue!Verdict, QueueProofs!vars, Queue!vars,
         QueueProofs!row, Queue!row, QueueProofs!worker, Queue!worker,
         QueueProofs!history, Queue!history
<1>. QED BY <1>1, <1>2, QueueTheoremsApply, PTL
         DEF QueueProofs!VerdictIsFinal, Queue!VerdictIsFinal

\* A build's audit trail is the one its status calls for.
THEOREM AuditAgrees == Spec => []Queue!AuditAgreesWithStatus
<1>1. QueueProofs!Safety => []QueueProofs!AuditAgreesWithStatus
  BY QueueProofs!AuditAgrees, Sentinels, Bounds DEF QueueProofs!Sentinels, QueueProofs!Bounds
<1>2. QueueProofs!AuditAgreesWithStatus => Queue!AuditAgreesWithStatus
  BY DEF QueueProofs!AuditAgreesWithStatus, Queue!AuditAgreesWithStatus,
         QueueProofs!Lifecycle!Trail, Queue!Lifecycle!Trail, QueueProofs!Verdict, Queue!Verdict
<1>. QED BY <1>1, <1>2, QueueTheoremsApply, PTL

\* Workers that execute one build have claims of their own, none ahead of the row.
THEOREM DistinctClaims == Spec => []Queue!ClaimsAreDistinct
<1>1. QueueProofs!Safety => []QueueProofs!ClaimsAreDistinct
  BY QueueProofs!DistinctClaims, Sentinels, Bounds DEF QueueProofs!Sentinels, QueueProofs!Bounds
<1>2. QueueProofs!ClaimsAreDistinct => Queue!ClaimsAreDistinct
  BY DEF QueueProofs!ClaimsAreDistinct, Queue!ClaimsAreDistinct, QueueProofs!Busy, Queue!Busy
<1>. QED BY <1>1, <1>2, QueueTheoremsApply, PTL

\* Every execution of a build after the first follows a claim that lapsed.
THEOREM AttemptsPaidFor == Spec => []Queue!AttemptsArePaidFor
<1>1. QueueProofs!Safety => []QueueProofs!AttemptsArePaidFor
  BY QueueProofs!AttemptsPaidFor, Sentinels, Bounds DEF QueueProofs!Sentinels, QueueProofs!Bounds
<1>2. QueueProofs!AttemptsArePaidFor => Queue!AttemptsArePaidFor
  BY DEF QueueProofs!AttemptsArePaidFor, Queue!AttemptsArePaidFor
<1>. QED BY <1>1, <1>2, QueueTheoremsApply, PTL

\* What the queue knows of types, and that a busy worker has a build.
QueueInv == QueueProofs!TypeInv

\* It holds of the build queue's rows.
LEMMA QueueInvStep == QueueInv /\ [Next]_vars => QueueInv'
BY QueueStep, SameStep, QueueProofs!NextTypeInv, Sentinels, Bounds
   DEF QueueInv, QueueProofs!Sentinels, QueueProofs!Bounds

-----------------------------------------------------------------------------
(***************************************************************************)
(* Type correctness.                                                       *)
(***************************************************************************)
Stage == {"none", "acquiring", "scanning", "restoring", "building", "checking",
          "publishing"}

EngineType ==
  /\ result \in [Build -> Artifact \cup {NoArtifact}]
  /\ stage \in [Worker -> Stage]
  /\ workspace \in [Worker -> {"original", "modified"}]
  /\ draft \in [Worker -> Artifact \cup {NoArtifact}]
  /\ approved \subseteq Build \X Nat
  /\ store \subseteq Artifact

\* The draft of a worker that stores or records it is an artifact.
Drafted ==
  \A w \in Worker :
    stage[w] \in {"checking", "publishing"} \/ pc[w] = "completing" => draft[w] \in Artifact

\* The engine runs while the tick waits for it.
InStep == \A w \in Worker : stage[w] # "none" <=> pc[w] = "assessing"

TypeInv == QueueInv /\ EngineType /\ Drafted /\ InStep

\* What QueueInv says of the variables read here.
LEMMA QueueFacts ==
  ASSUME QueueInv
  PROVE  /\ status \in [Build -> {"absent", "queued", "running"} \cup Queue!Verdict]
         /\ pc \in [Worker -> {"idle", "assessing", "completing", "failing"}]
         /\ job \in [Worker -> Build \cup {NoJob}]
         /\ attempt \in [Worker -> Nat]
         /\ attempts \in [Build -> Nat]
         /\ \A w \in Worker : pc[w] # "idle" => job[w] \in Build
         /\ Queue!TypeOK
BY DEF QueueInv, QueueProofs!TypeInv, QueueProofs!TypeOK, QueueProofs!BusyHasJob,
       QueueProofs!Verdict, Queue!Verdict, Queue!TypeOK

\* The step ends the engine run of w: its tick waits no longer.
LEMMA ForgetTypes ==
  ASSUME TypeInv, NEW w \in Worker, Forget(w)
  PROVE  /\ stage' = [stage EXCEPT ![w] = "none"] /\ stage' \in [Worker -> Stage]
         /\ workspace' \in [Worker -> {"original", "modified"}]
         /\ draft' = [draft EXCEPT ![w] = NoArtifact]
         /\ draft' \in [Worker -> Artifact \cup {NoArtifact}]
         /\ approved' = approved
BY DEF TypeInv, EngineType, Forget, Goto, Stage

\* Steps of the engine alone.
LEMMA EngineStepTypes ==
  ASSUME TypeInv, NEW w \in Worker,
         \/ Acquire(w) \/ ScanSource(w) \/ Restore(w) \/ BuildOutput(w) \/ CheckOutput(w)
  PROVE  EngineType' /\ Drafted' /\ InStep'
<1>1. job[w] \in Build /\ attempt[w] \in Nat /\ pc[w] = "assessing"
  BY QueueFacts DEF TypeInv, InStep, Acquire, ScanSource, Restore, BuildOutput,
     CheckOutput
<1>2. UNCHANGED <<pc, job, attempt, result, store>>
  BY DEF Acquire, ScanSource, Restore, BuildOutput, CheckOutput, queue
<1>3. stage' \in [Worker -> Stage] /\ stage' = [stage EXCEPT ![w] = stage'[w]]
      /\ stage'[w] # "none"
  BY DEF TypeInv, EngineType, Acquire, ScanSource, Restore, BuildOutput, CheckOutput,
     Goto, Stage
<1>4. workspace' \in [Worker -> {"original", "modified"}]
  BY DEF TypeInv, EngineType, Acquire, ScanSource, Restore, BuildOutput, CheckOutput
<1>5. approved' \subseteq Build \X Nat
  BY <1>1 DEF TypeInv, EngineType, Acquire, ScanSource, Restore, BuildOutput,
     CheckOutput
<1>6. /\ draft' \in [Worker -> Artifact \cup {NoArtifact}]
      /\ draft' = [draft EXCEPT ![w] = draft'[w]]
      /\ stage'[w] \in {"checking", "publishing"} => draft'[w] \in Artifact
  <2>1. CASE Acquire(w) \/ ScanSource(w) \/ Restore(w) \/ CheckOutput(w)
    BY <2>1 DEF TypeInv, EngineType, Drafted, Acquire, ScanSource, Restore,
       CheckOutput, Goto, Stage
  <2>2. CASE BuildOutput(w)
    <3>1. PICK c \in {"clean", "unsafe"} :
            draft' = [draft EXCEPT ![w] = [build |-> job[w], claim |-> attempt[w],
                                           source |-> workspace[w], content |-> c]]
      BY <2>2 DEF BuildOutput
    <3>2. [build |-> job[w], claim |-> attempt[w], source |-> workspace[w],
           content |-> c] \in Artifact
      BY <1>1 DEF TypeInv, EngineType, Artifact
    <3> QED BY <3>1, <3>2 DEF TypeInv, EngineType
  <2> QED BY <2>1, <2>2
<1>7. Drafted'
  BY <1>1, <1>2, <1>3, <1>6 DEF TypeInv, EngineType, Drafted
<1>8. InStep'
  BY <1>1, <1>2, <1>3 DEF TypeInv, EngineType, InStep
<1> QED BY <1>2, <1>3, <1>4, <1>5, <1>6, <1>7, <1>8 DEF TypeInv, EngineType

\* What a claim does to the queue's variables.
LEMMA ClaimEffect ==
  ASSUME QueueInv, NEW w \in Worker, NEW b \in Build, Claim(w, b)
  PROVE  /\ pc[w] = "idle" /\ pc' = [pc EXCEPT ![w] = "assessing"]
         /\ job' = [job EXCEPT ![w] = b]
         /\ attempt' = [attempt EXCEPT ![w] = attempts[b] + 1]
         /\ attempts' = [attempts EXCEPT ![b] = @ + 1]
         /\ status' = [status EXCEPT ![b] = "running"]
         /\ status[b] \in {"queued", "running"}
BY QueueFacts DEF Claim, Queue!ClaimNext, Queue!NextClaim, Queue!Claimable

\* What the end of an engine run does to them.
LEMMA EngineEffect ==
  ASSUME QueueInv, NEW w \in Worker
  PROVE  /\ Publish(w) => pc' = [pc EXCEPT ![w] = "completing"]
         /\ EngineThrows(w) => pc' = [pc EXCEPT ![w] = "failing"]
         /\ Publish(w) \/ EngineThrows(w) =>
              pc[w] = "assessing" /\ UNCHANGED <<job, attempt, attempts, status>>
BY QueueFacts DEF Publish, EngineThrows, Queue!EngineReturns, Queue!EngineThrows,
   Queue!Goto, Queue!row

\* What the end of a tick does to them: the worker is idle, or goes on to fail().
LEMMA FinishEffect ==
  ASSUME QueueInv, NEW w \in Worker, Finish(w) \/ FinishFaults(w) \/ Crash(w)
  PROVE  /\ pc' = [pc EXCEPT ![w] = pc'[w]] /\ pc'[w] \in {"idle", "failing"}
         /\ \A v \in Worker : pc'[v] # "idle" =>
              pc[v] # "idle" /\ job'[v] = job[v] /\ attempt'[v] = attempt[v]
         /\ attempts' = attempts
         /\ pc[w] # "idle"
BY QueueFacts DEF Finish, FinishFaults, Crash, Queue!CompleteCommits,
   Queue!CompleteRejected, Queue!FailCommits, Queue!FailRejected,
   Queue!CompleteUnconfirmed, Queue!CompleteErrors, Queue!FailErrors, Queue!Crash,
   Queue!Finish, Queue!EndTick, Queue!Goto, Queue!row

\* Claims, ends of engine runs and verdicts.
LEMMA TickStepTypes ==
  ASSUME TypeInv, NEW w \in Worker,
         \/ \E b \in Build : Claim(w, b)
         \/ Publish(w) \/ EngineThrows(w) \/ Finish(w) \/ FinishFaults(w) \/ Crash(w)
  PROVE  EngineType' /\ Drafted' /\ InStep'
<1> USE DEF TypeInv
<1>1. ASSUME NEW b \in Build, Claim(w, b)
      PROVE  EngineType' /\ Drafted' /\ InStep'
  <2>1. /\ stage' = [stage EXCEPT ![w] = "acquiring"]
        /\ UNCHANGED <<result, workspace, draft, approved, store>>
    BY <1>1 DEF Claim, Goto
  <2>2. pc[w] = "idle" /\ pc' = [pc EXCEPT ![w] = "assessing"]
    BY <1>1, ClaimEffect
  <2>3. EngineType'
    BY <2>1 DEF EngineType, Stage
  <2>4. Drafted' /\ InStep'
    BY <2>1, <2>2, QueueFacts DEF EngineType, Drafted, InStep
  <2> QED BY <2>3, <2>4
<1>2. CASE Publish(w)
  <2>1. /\ stage[w] = "publishing" /\ stage' = [stage EXCEPT ![w] = "none"]
        /\ UNCHANGED <<result, workspace, draft, approved>>
        /\ store' = store \cup {draft[w]}
    BY <1>2 DEF Publish, Goto, Put
  <2>2. draft[w] \in Artifact
    BY <2>1 DEF Drafted
  <2>3. pc' = [pc EXCEPT ![w] = "completing"]
    BY <1>2, EngineEffect
  <2>4. EngineType'
    BY <2>1, <2>2 DEF EngineType, Stage
  <2>5. Drafted' /\ InStep'
    BY <2>1, <2>2, <2>3, QueueFacts DEF EngineType, Drafted, InStep
  <2> QED BY <2>4, <2>5
<1>3. CASE EngineThrows(w)
  <2>1. Forget(w) /\ UNCHANGED result
        /\ (store' = store \/ (stage[w] = "publishing" /\ store' = store \cup {draft[w]}))
    BY <1>3 DEF EngineThrows, Put
  <2>2. store' \subseteq Artifact
    BY <2>1 DEF EngineType, Drafted
  <2>3. pc' = [pc EXCEPT ![w] = "failing"]
    BY <1>3, EngineEffect
  <2>4. EngineType'
    BY <2>1, <2>2, ForgetTypes DEF EngineType
  <2>5. Drafted' /\ InStep'
    BY <2>1, <2>3, ForgetTypes, QueueFacts DEF Drafted, InStep, EngineType
  <2> QED BY <2>4, <2>5
<1>4. CASE Finish(w) \/ FinishFaults(w) \/ Crash(w)
  <2>1. Forget(w) /\ store' = store
    BY <1>4 DEF Finish, FinishFaults, Crash, RecordResult, RecordFailure, RecordNothing
  <2>2. result' \in [Build -> Artifact \cup {NoArtifact}]
    BY <1>4 DEF Finish, FinishFaults, Crash, RecordResult, RecordFailure, RecordNothing,
       EngineType
  <2>3. EngineType'
    BY <2>1, <2>2, ForgetTypes DEF EngineType
  <2>4. Drafted' /\ InStep'
    BY <1>4, <2>1, FinishEffect, ForgetTypes, QueueFacts DEF Drafted, InStep, EngineType
  <2> QED BY <2>3, <2>4
<1> QED BY <1>1, <1>2, <1>3, <1>4

\* Steps of neither a worker nor its engine.
LEMMA OutsideFrame ==
  ASSUME Outside \/ UNCHANGED vars
  PROVE  UNCHANGED <<pc, job, attempt, attempts, result, engine>>
BY DEF Outside, Queue!SubmitNew, Queue!SubmitAgain, Queue!ClaimLapses, Queue!row,
   Queue!worker, vars, queue

\* Type correctness is inductive.
LEMMA TypeInvStep == TypeInv /\ [Next]_vars => TypeInv'
<1> SUFFICES ASSUME TypeInv, [Next]_vars PROVE TypeInv'
  OBVIOUS
<1>1. QueueInv'
  BY QueueInvStep DEF TypeInv
<1>2. EngineType' /\ Drafted' /\ InStep'
  <2>1. CASE Outside \/ UNCHANGED vars
    BY <2>1, OutsideFrame DEF TypeInv, EngineType, Drafted, InStep, engine
  <2>2. ASSUME NEW w \in Worker, Tick(w) \/ FinishFaults(w) \/ Crash(w)
        PROVE  EngineType' /\ Drafted' /\ InStep'
    BY <2>2, EngineStepTypes, TickStepTypes DEF Tick
  <2> QED BY <2>1, <2>2 DEF Next
<1> QED BY <1>1, <1>2 DEF TypeInv

\* Initially no engine runs.
LEMMA InitTypeInv == Init => TypeInv
<1> SUFFICES ASSUME Init PROVE TypeInv
  OBVIOUS
<1>1. QueueProofs!Init
  BY DEF Init, Queue!Init, QueueProofs!Init
<1>2. QueueInv
  BY <1>1, QueueProofs!InitTypeInv, Sentinels, Bounds
     DEF QueueInv, QueueProofs!Sentinels, QueueProofs!Bounds
<1>3. EngineType /\ Drafted /\ InStep
  BY DEF Init, Queue!Init, EngineType, Drafted, InStep, Stage
<1> QED BY <1>2, <1>3 DEF TypeInv

\* Every reachable state of the build queue is well typed.
THEOREM TypeCorrect == Spec => []TypeOK
<1>1. TypeInv => TypeOK
  BY QueueFacts DEF TypeInv, EngineType, TypeOK, Stage
<1> QED BY <1>1, InitTypeInv, TypeInvStep, PTL DEF Spec

-----------------------------------------------------------------------------
(***************************************************************************)
(* Artifacts.                                                              *)
(***************************************************************************)

\* What a worker has established about the artifact it is making or recording.
Hand(w) ==
  /\ stage[w] \in {"restoring", "building", "checking", "publishing"} =>
       <<job[w], attempt[w]>> \in approved
  /\ stage[w] \in {"checking", "publishing"} =>
       /\ draft[w].build = job[w]
       /\ draft[w].claim = attempt[w]
       /\ draft[w].source = "original"
  /\ stage[w] = "publishing" => draft[w].content = "clean"
  /\ pc[w] = "completing" => draft[w] \in store /\ draft[w].build = job[w]

Hands == \A w \in Worker : Hand(w)

ArtifactInv == TypeInv /\ Hands /\ StoredIsApproved /\ CompletedHasArtifact

\* Evidence and artifacts are never taken away, and a worker's step leaves what the
\* others hold alone.
LEMMA OthersKeep ==
  ASSUME TypeInv, NEW w \in Worker, Tick(w) \/ FinishFaults(w) \/ Crash(w)
  PROVE  /\ approved \subseteq approved' /\ store \subseteq store'
         /\ \A v \in Worker \ {w} :
              /\ UNCHANGED <<stage[v], pc[v], draft[v]>>
              /\ pc[v] # "idle" => UNCHANGED <<job[v], attempt[v]>>
<1> USE DEF TypeInv, EngineType
<1>1. ASSUME NEW b \in Build, Claim(w, b)
      PROVE  /\ UNCHANGED <<approved, store, draft>>
             /\ \A v \in Worker \ {w} : UNCHANGED <<stage[v], pc[v], job[v], attempt[v]>>
  <2>1. UNCHANGED <<approved, store, draft>>
        /\ \A v \in Worker \ {w} : UNCHANGED stage[v]
    BY <1>1 DEF Claim, Goto
  <2>2. \A v \in Worker \ {w} : UNCHANGED <<pc[v], job[v], attempt[v]>>
    BY <1>1, ClaimEffect, QueueFacts
  <2> QED BY <2>1, <2>2
<1>2. CASE Acquire(w) \/ ScanSource(w) \/ Restore(w) \/ BuildOutput(w) \/ CheckOutput(w)
  <2>1. UNCHANGED <<pc, job, attempt, store>>
    BY <1>2 DEF Acquire, ScanSource, Restore, BuildOutput, CheckOutput, queue
  <2>2. approved \subseteq approved'
    BY <1>2 DEF Acquire, ScanSource, Restore, BuildOutput, CheckOutput
  <2>3. \A v \in Worker \ {w} : UNCHANGED <<stage[v], draft[v]>>
    BY <1>2 DEF Acquire, ScanSource, Restore, BuildOutput, CheckOutput, Goto
  <2> QED BY <2>1, <2>2, <2>3
<1>3. CASE Publish(w)
  <2>1. /\ UNCHANGED <<approved, draft>> /\ store \subseteq store'
        /\ \A v \in Worker \ {w} : UNCHANGED stage[v]
    BY <1>3 DEF Publish, Goto, Put
  <2> QED BY <1>3, <2>1, EngineEffect, QueueFacts
<1>4. CASE EngineThrows(w)
  <2>1. Forget(w) /\ store \subseteq store'
    BY <1>4 DEF EngineThrows, Put
  <2> QED BY <1>4, <2>1, EngineEffect, QueueFacts, ForgetTypes
<1>5. CASE Finish(w) \/ FinishFaults(w) \/ Crash(w)
  <2>1. Forget(w) /\ store' = store
    BY <1>5 DEF Finish, FinishFaults, Crash, RecordResult, RecordFailure, RecordNothing
  <2>2. \A v \in Worker \ {w} : /\ UNCHANGED pc[v]
                                /\ pc[v] # "idle" => UNCHANGED <<job[v], attempt[v]>>
    BY <1>5, FinishEffect, QueueFacts
  <2> QED BY <2>1, <2>2, ForgetTypes
<1> QED BY <1>1, <1>2, <1>3, <1>4, <1>5 DEF Tick

\* What the worker that takes a step holds after it.
LEMMA OwnHand ==
  ASSUME ArtifactInv, NEW w \in Worker, Tick(w) \/ FinishFaults(w) \/ Crash(w)
  PROVE  Hand(w)'
<1> USE DEF ArtifactInv, TypeInv, EngineType
<1>1. ASSUME NEW b \in Build, Claim(w, b)
      PROVE  Hand(w)'
  <2>1. stage'[w] = "acquiring"
    BY <1>1 DEF Claim, Goto
  <2>2. pc'[w] = "assessing"
    BY <1>1, ClaimEffect, QueueFacts
  <2> QED BY <2>1, <2>2 DEF Hand
<1>2. CASE Acquire(w) \/ ScanSource(w) \/ Restore(w) \/ BuildOutput(w) \/ CheckOutput(w)
  <2>1. UNCHANGED <<pc, job, attempt, store>>
    BY <1>2 DEF Acquire, ScanSource, Restore, BuildOutput, CheckOutput, queue
  <2>2. Hand(w) /\ pc[w] = "assessing"
    BY <1>2, QueueFacts DEF Hands, InStep, Acquire, ScanSource, Restore, BuildOutput,
       CheckOutput
  <2>3. CASE Acquire(w) \/ ScanSource(w) \/ Restore(w)
    BY <2>1, <2>2, <2>3 DEF Hand, Acquire, ScanSource, Restore, Goto
  <2>4. CASE BuildOutput(w)
    <3>1. PICK c \in {"clean", "unsafe"} :
            draft' = [draft EXCEPT ![w] = [build |-> job[w], claim |-> attempt[w],
                                           source |-> workspace[w], content |-> c]]
      BY <2>4 DEF BuildOutput
    <3>2. /\ stage[w] = "building" /\ stage'[w] = "checking"
          /\ approved' = approved /\ workspace[w] = "original"
      BY <2>4 DEF BuildOutput, Goto, SourceIsIntact
    <3> QED BY <2>1, <2>2, <3>1, <3>2 DEF Hand
  <2>5. CASE CheckOutput(w)
    BY <2>1, <2>2, <2>5 DEF Hand, CheckOutput, Goto
  <2> QED BY <1>2, <2>3, <2>4, <2>5
<1>3. CASE Publish(w)
  <2>1. /\ stage[w] = "publishing" /\ stage'[w] = "none"
        /\ draft' = draft /\ draft[w] \in store'
    BY <1>3 DEF Publish, Goto, Put
  <2>2. job' = job
    BY <1>3, EngineEffect
  <2> QED BY <2>1, <2>2 DEF Hand, Hands
<1>4. CASE EngineThrows(w) \/ Finish(w) \/ FinishFaults(w) \/ Crash(w)
  <2>1. Forget(w)
    BY <1>4 DEF EngineThrows, Finish, FinishFaults, Crash, RecordResult, RecordFailure,
       RecordNothing
  <2>2. pc'[w] # "completing"
    BY <1>4, EngineEffect, FinishEffect, QueueFacts
  <2> QED BY <2>1, <2>2, ForgetTypes DEF Hand
<1> QED BY <1>1, <1>2, <1>3, <1>4 DEF Tick

\* What every worker holds after a step of one.
LEMMA HandsStep ==
  ASSUME ArtifactInv, NEW w \in Worker, Tick(w) \/ FinishFaults(w) \/ Crash(w)
  PROVE  Hands'
<1> SUFFICES ASSUME NEW v \in Worker PROVE Hand(v)'
  BY DEF Hands
<1>1. CASE v = w
  BY <1>1, OwnHand
<1>2. CASE v # w
  <2>1. /\ approved \subseteq approved' /\ store \subseteq store'
        /\ UNCHANGED <<stage[v], pc[v], draft[v]>>
        /\ pc[v] # "idle" => UNCHANGED <<job[v], attempt[v]>>
    BY <1>2, OthersKeep DEF ArtifactInv
  <2>2. stage[v] # "none" => pc[v] # "idle"
    BY DEF ArtifactInv, TypeInv, InStep
  <2> QED BY <2>1, <2>2 DEF Hand, Hands, ArtifactInv
<1> QED BY <1>1, <1>2

\* put() adds the artifact of a run that was approved and whose content passed.
LEMMA StoreStep ==
  ASSUME ArtifactInv, NEW w \in Worker, Tick(w) \/ FinishFaults(w) \/ Crash(w)
  PROVE  StoredIsApproved'
<1>1. approved \subseteq approved'
  BY OthersKeep DEF ArtifactInv
<1>2. store' = store \/ (stage[w] = "publishing" /\ store' = store \cup {draft[w]})
  BY DEF Tick, Claim, Acquire, ScanSource, Restore, BuildOutput, CheckOutput, Publish, Put,
     EngineThrows, Finish, FinishFaults, Crash
<1>3. stage[w] = "publishing" =>
        /\ <<draft[w].build, draft[w].claim>> \in approved
        /\ draft[w].source = "original" /\ draft[w].content = "clean"
  BY DEF ArtifactInv, Hands, Hand
<1>4. \A a \in store : /\ <<a.build, a.claim>> \in approved
                       /\ a.source = "original" /\ a.content = "clean"
  BY DEF ArtifactInv, StoredIsApproved
<1>5. SUFFICES ASSUME NEW a \in store'
               PROVE  /\ <<a.build, a.claim>> \in approved
                      /\ a.source = "original" /\ a.content = "clean"
  BY <1>1 DEF StoredIsApproved
<1>6. CASE a \in store
  BY <1>4, <1>6
<1>7. CASE a = draft[w] /\ stage[w] = "publishing"
  BY <1>3, <1>7
<1> QED BY <1>2, <1>5, <1>6, <1>7

\* A row is decided only while it is running, completed only with the draft of the
\* worker that completes it; otherwise its verdict and result stay.
ResultStep ==
  \/ UNCHANGED result /\ \A b \in Build : \/ status'[b] = status[b]
                                          \/ /\ status[b] \notin Queue!Verdict
                                             /\ status'[b] \notin Queue!Verdict
  \/ \E w \in Worker :
       /\ job[w] \in Build /\ status[job[w]] = "running"
       /\ \/ /\ pc[w] = "completing"
             /\ status' = [status EXCEPT ![job[w]] = "completed"]
             /\ result' = [result EXCEPT ![job[w]] = draft[w]]
          \/ /\ status' = [status EXCEPT ![job[w]] = "failed"]
             /\ result' = [result EXCEPT ![job[w]] = NoArtifact]

\* Every step treats results so.
LEMMA ResultSteps ==
  ASSUME TypeInv, [Next]_vars
  PROVE  ResultStep
<1>1. CASE UNCHANGED vars
  BY <1>1 DEF vars, queue, ResultStep
<1>2. CASE Outside
  <2>1. \A b \in Build : \/ status'[b] = status[b]
                         \/ status[b] = "absent" /\ status'[b] = "queued"
    BY <1>2, QueueFacts DEF TypeInv, Outside, Queue!SubmitAgain, Queue!SubmitNew,
       Queue!ClaimLapses, Queue!row
  <2> QED BY <1>2, <2>1 DEF Outside, ResultStep, Queue!Verdict
<1>3. ASSUME NEW w \in Worker, NEW b \in Build, Claim(w, b)
      PROVE  ResultStep
  <2>1. result' = result
    BY <1>3 DEF Claim
  <2>2. status[b] \in {"queued", "running"} /\ status' = [status EXCEPT ![b] = "running"]
    BY <1>3, ClaimEffect DEF TypeInv
  <2>3. \A c \in Build : c = b \/ status'[c] = status[c]
    BY <2>2
  <2>4. status'[b] = "running"
    BY <2>2, QueueFacts DEF TypeInv
  <2> QED BY <2>1, <2>2, <2>3, <2>4 DEF ResultStep, Queue!Verdict
<1>4. ASSUME NEW w \in Worker,
             \/ Acquire(w) \/ ScanSource(w) \/ Restore(w) \/ BuildOutput(w)
             \/ CheckOutput(w) \/ Publish(w) \/ EngineThrows(w)
      PROVE  ResultStep
  <2>1. UNCHANGED <<status, result>>
    BY <1>4, EngineEffect DEF TypeInv, Acquire, ScanSource, Restore, BuildOutput,
       CheckOutput, Publish, EngineThrows, queue
  <2> QED BY <2>1 DEF ResultStep
<1>5. ASSUME NEW w \in Worker, Finish(w) \/ FinishFaults(w) \/ Crash(w)
      PROVE  ResultStep
  <2>1. job[w] \in Build
    BY <1>5, FinishEffect, QueueFacts DEF TypeInv
  <2>2. CASE (Queue!CompleteCommits(w) \/ Queue!CompleteUnconfirmed(w)) /\ RecordResult(w)
    BY <2>1, <2>2 DEF Queue!CompleteCommits, Queue!CompleteUnconfirmed, Queue!MayFinish,
       Queue!Finish, RecordResult, ResultStep
  <2>3. CASE Queue!FailCommits(w) /\ RecordFailure(w)
    BY <2>1, <2>3 DEF Queue!FailCommits, Queue!MayFinish, Queue!Finish, RecordFailure,
       ResultStep
  <2>4. CASE /\ \/ Queue!CompleteRejected(w) \/ Queue!FailRejected(w)
                \/ Queue!CompleteErrors(w) \/ Queue!FailErrors(w)
             /\ RecordNothing(w)
    BY <2>4 DEF Queue!CompleteRejected, Queue!FailRejected, Queue!CompleteErrors,
       Queue!FailErrors, Queue!row, RecordNothing, ResultStep
  <2>5. CASE Crash(w)
    BY <2>5 DEF Crash, Queue!Crash, Queue!row, ResultStep
  <2> QED BY <1>5, <2>2, <2>3, <2>4, <2>5 DEF Finish, FinishFaults
<1> QED BY <1>1, <1>2, <1>3, <1>4, <1>5 DEF Next, Tick

\* Completed builds name a stored artifact of theirs after every step.
LEMMA CompletedStep ==
  ASSUME ArtifactInv, [Next]_vars, store \subseteq store'
  PROVE  CompletedHasArtifact'
<1> USE DEF ArtifactInv, TypeInv, EngineType, CompletedHasArtifact
<1>1. ResultStep
  BY ResultSteps
<1>2. CASE UNCHANGED result /\ \A b \in Build : \/ status'[b] = status[b]
                                                \/ /\ status[b] \notin Queue!Verdict
                                                   /\ status'[b] \notin Queue!Verdict
  <2>1. "completed" \in Queue!Verdict
    BY DEF Queue!Verdict
  <2> QED BY <1>2, <2>1
<1>3. ASSUME NEW w \in Worker, job[w] \in Build, pc[w] = "completing",
             status' = [status EXCEPT ![job[w]] = "completed"],
             result' = [result EXCEPT ![job[w]] = draft[w]]
      PROVE  CompletedHasArtifact'
  <2>1. draft[w] \in store /\ draft[w].build = job[w]
    BY <1>3 DEF Hands, Hand
  <2> QED BY <1>3, <2>1, QueueFacts
<1>4. ASSUME NEW w \in Worker, job[w] \in Build,
             status' = [status EXCEPT ![job[w]] = "failed"],
             result' = [result EXCEPT ![job[w]] = NoArtifact]
      PROVE  CompletedHasArtifact'
  BY <1>4, QueueFacts
<1> QED BY <1>1, <1>2, <1>3, <1>4 DEF ResultStep

\* The invariant is inductive.
LEMMA ArtifactInvStep == ArtifactInv /\ [Next]_vars => ArtifactInv'
<1> SUFFICES ASSUME ArtifactInv, [Next]_vars PROVE ArtifactInv'
  OBVIOUS
<1>1. TypeInv'
  BY TypeInvStep DEF ArtifactInv
<1>2. Hands' /\ StoredIsApproved' /\ store \subseteq store'
  <2>1. CASE Outside \/ UNCHANGED vars
    BY <2>1, OutsideFrame DEF ArtifactInv, Hands, Hand, StoredIsApproved, engine
  <2>2. ASSUME NEW w \in Worker, Tick(w) \/ FinishFaults(w) \/ Crash(w)
        PROVE  Hands' /\ StoredIsApproved' /\ store \subseteq store'
    BY <2>2, HandsStep, StoreStep, OthersKeep DEF ArtifactInv
  <2> QED BY <2>1, <2>2 DEF Next
<1> QED BY <1>1, <1>2, CompletedStep DEF ArtifactInv

\* Initially there is neither an artifact nor a verdict.
LEMMA InitArtifactInv == Init => ArtifactInv
BY InitTypeInv DEF Init, Queue!Init, ArtifactInv, Hands, Hand, StoredIsApproved,
   CompletedHasArtifact

\* Every stored artifact was built from the very source whose scan approved, and its
\* content passed: README.md:63, 77, for any number of workers, claims and crashes.
THEOREM StoredApproved == Spec => []StoredIsApproved
<1>1. ArtifactInv => StoredIsApproved
  BY DEF ArtifactInv
<1> QED BY <1>1, InitArtifactInv, ArtifactInvStep, PTL DEF Spec

\* A completed build names a stored artifact of its own: README.md:61.
THEOREM CompletedNamesArtifact == Spec => []CompletedHasArtifact
<1>1. ArtifactInv => CompletedHasArtifact
  BY DEF ArtifactInv
<1> QED BY <1>1, InitArtifactInv, ArtifactInvStep, PTL DEF Spec

\* No late worker replaces the result of a decided build.
THEOREM ResultsAreFinal == Spec => ResultIsFinal
<1>1. TypeInv /\ [Next]_vars =>
        [\A b \in Build : status[b] \in Queue!Verdict => result'[b] = result[b]]_vars
  <2> SUFFICES ASSUME TypeInv, [Next]_vars, NEW b \in Build, status[b] \in Queue!Verdict
               PROVE  result'[b] = result[b]
    OBVIOUS
  <2>1. ResultStep
    BY ResultSteps
  <2>2. status[b] # "running"
    BY DEF Queue!Verdict
  <2> QED BY <2>1, <2>2 DEF ResultStep, TypeInv, EngineType
<1> QED BY <1>1, InitTypeInv, TypeInvStep, PTL DEF Spec, ResultIsFinal
=============================================================================
