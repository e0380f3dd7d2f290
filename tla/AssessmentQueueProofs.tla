----------------------- MODULE AssessmentQueueProofs -----------------------
(***************************************************************************)
(* What holds of the assessment queue for any set of workers, rows and     *)
(* keys, and any number of attempts and faults.                            *)
(***************************************************************************)
EXTENDS AssessmentQueue, TLAPS

-----------------------------------------------------------------------------
(***************************************************************************)
(* Type correctness, with the one fact about control that the other        *)
(* invariants read from it: a busy worker has an assessment.               *)
(***************************************************************************)
BusyHasJob == \A w \in Worker : pc[w] # "idle" => job[w] \in Assessment

TypeInv == TypeOK /\ BusyHasJob

\* Initially nothing is stored and every worker is idle.
LEMMA InitTypeInv == Init => TypeInv
BY Sentinels DEF Init, TypeInv, TypeOK, BusyHasJob, Verdict

\* A new row is of the right type, and so is the answer its client is given.
LEMMA SubmitNewTypeInv ==
  ASSUME TypeInv, NEW k \in Key, NEW a \in Assessment, SubmitNew(k, a)
  PROVE  TypeInv'
<1> USE DEF TypeInv, TypeOK, BusyHasJob, SubmitNew, worker, Verdict
<1>1. answers' \in [Key -> SUBSET Assessment]
  <2>1. CASE answers' = answers
    BY <2>1
  <2>2. CASE answers' = [answers EXCEPT ![k] = @ \cup {a}]
    <3>1. answers[k] \cup {a} \in SUBSET Assessment
      OBVIOUS
    <3> QED BY <2>2, <3>1
  <2> QED BY <2>1, <2>2
<1>2. audit' \in [Assessment -> Seq({"queued"} \cup Verdict)]
  OBVIOUS
<1> QED BY <1>1, <1>2

\* A repeated submission is answered with a stored row.
LEMMA SubmitAgainTypeInv ==
  ASSUME TypeInv, NEW k \in Key, SubmitAgain(k)
  PROVE  TypeInv'
BY DEF TypeInv, TypeOK, BusyHasJob, SubmitAgain, Stored, row, worker, Verdict

\* A claim gives the worker an assessment.
LEMMA ClaimTypeInv ==
  ASSUME TypeInv, NEW w \in Worker, NEW a \in Assessment, ClaimNext(w, a)
  PROVE  TypeInv'
BY DEF TypeInv, TypeOK, BusyHasJob, ClaimNext, history, Verdict

\* Time passing touches the age of a claim and nothing else.
LEMMA LapseTypeInv ==
  ASSUME TypeInv, NEW a \in Assessment, ClaimLapses(a)
  PROVE  TypeInv'
<1>1. overdue' \in [Assessment -> BOOLEAN] /\ lapses' \in [Assessment -> Nat]
  BY DEF TypeInv, TypeOK, ClaimLapses
<1>2. UNCHANGED <<status, key, createdAt, attempts, lockedBy, audit, clock,
                  pc, job, attempt, faults, answers, engineRuns, writeFaults>>
  BY DEF ClaimLapses, worker
<1>3. TypeOK'
  BY <1>1, <1>2 DEF TypeInv, TypeOK, Verdict
<1>4. BusyHasJob'
  BY <1>2 DEF TypeInv, BusyHasJob
<1> QED BY <1>3, <1>4 DEF TypeInv

\* An engine run, however it ends, leaves the rows alone.
LEMMA EngineTypeInv ==
  ASSUME TypeInv, NEW w \in Worker, EngineReturns(w) \/ EngineThrows(w)
  PROVE  TypeInv'
<1>1. job[w] \in Assessment
  BY DEF TypeInv, BusyHasJob, EngineReturns, EngineThrows
<1>2. PICK out \in {"result", "error"} :
        engineRuns' = [engineRuns EXCEPT ![job[w]] = @ \cup {out}]
  BY DEF EngineReturns, EngineThrows
<1>3. engineRuns[job[w]] \cup {out} \in SUBSET {"result", "error"}
  BY <1>1 DEF TypeInv, TypeOK
<1>4. engineRuns' \in [Assessment -> SUBSET {"result", "error"}]
  BY <1>2, <1>3 DEF TypeInv, TypeOK
<1>5. /\ pc' \in [Worker -> {"idle", "assessing", "completing", "failing"}]
      /\ BusyHasJob'
  BY <1>1 DEF TypeInv, TypeOK, BusyHasJob, EngineReturns, EngineThrows, Goto
<1>6. UNCHANGED <<row, clock, job, attempt, faults, answers, writeFaults, lapses>>
  BY DEF EngineReturns, EngineThrows
<1> QED BY <1>4, <1>5, <1>6 DEF TypeInv, TypeOK, row

\* What finish() writes into a row is of the right type.
LEMMA FinishTypeInv ==
  ASSUME TypeInv, NEW a \in Assessment, NEW v \in Verdict, Finish(a, v)
  PROVE  /\ status' \in [Assessment -> {"absent", "queued", "running"} \cup Verdict]
         /\ lockedBy' \in [Assessment -> Worker \cup {NoWorker}]
         /\ audit' \in [Assessment -> Seq({"queued"} \cup Verdict)]
BY DEF TypeInv, TypeOK, Finish

\* A finishing write stores a verdict and ends the tick, or goes unconfirmed.
LEMMA VerdictWriteTypeInv ==
  ASSUME TypeInv, NEW w \in Worker,
         CompleteCommits(w) \/ FailCommits(w) \/ CompleteUnconfirmed(w)
  PROVE  TypeInv'
<1>1. job[w] \in Assessment
  BY DEF TypeInv, BusyHasJob, CompleteCommits, FailCommits, CompleteUnconfirmed
<1>2. \E v \in Verdict : Finish(job[w], v)
  BY DEF CompleteCommits, FailCommits, CompleteUnconfirmed, Verdict
<1>3. PICK v \in Verdict : Finish(job[w], v)
  BY <1>2
<1>4. /\ status' \in [Assessment -> {"absent", "queued", "running"} \cup Verdict]
      /\ lockedBy' \in [Assessment -> Worker \cup {NoWorker}]
      /\ audit' \in [Assessment -> Seq({"queued"} \cup Verdict)]
  BY <1>1, <1>3, FinishTypeInv
<1>5. UNCHANGED <<key, createdAt, attempts, overdue, clock, answers, engineRuns, lapses>>
  BY <1>3 DEF Finish, CompleteCommits, FailCommits, CompleteUnconfirmed,
              DatabaseFault, history
<1>6. /\ pc' \in [Worker -> {"idle", "assessing", "completing", "failing"}]
      /\ job' \in [Worker -> Assessment \cup {NoJob}]
      /\ attempt' \in [Worker -> Nat]
      /\ BusyHasJob'
  <2>1. CASE EndTick(w)
    BY <2>1 DEF TypeInv, TypeOK, BusyHasJob, EndTick, Goto
  <2>2. CASE Goto(w, "failing") /\ UNCHANGED <<job, attempt>>
    BY <1>1, <2>2 DEF TypeInv, TypeOK, BusyHasJob, Goto
  <2> QED
    BY <2>1, <2>2 DEF CompleteCommits, FailCommits, CompleteUnconfirmed
<1>7. faults' \in Nat /\ writeFaults' \in SUBSET Assessment
  BY <1>1 DEF TypeInv, TypeOK, CompleteCommits, FailCommits,
              CompleteUnconfirmed, DatabaseFault, history
<1> QED BY <1>4, <1>5, <1>6, <1>7 DEF TypeInv, TypeOK

\* A finishing call that writes nothing, and a crash, leave the rows alone.
LEMMA NoVerdictTypeInv ==
  ASSUME TypeInv, NEW w \in Worker,
         \/ CompleteRejected(w) \/ FailRejected(w)
         \/ CompleteErrors(w) \/ FailErrors(w) \/ Crash(w)
  PROVE  TypeInv'
<1>1. job[w] \in Assessment
  BY DEF TypeInv, BusyHasJob, CompleteRejected, FailRejected, CompleteErrors,
         FailErrors, Crash
<1>2. UNCHANGED <<row, clock, answers, engineRuns, lapses>>
  BY DEF CompleteRejected, FailRejected, CompleteErrors, FailErrors, Crash,
         DatabaseFault, history
<1>3. faults' \in Nat /\ writeFaults' \in SUBSET Assessment
  BY <1>1 DEF TypeInv, TypeOK, CompleteRejected, FailRejected, CompleteErrors,
              FailErrors, Crash, DatabaseFault, history
<1>4. EndTick(w) \/ (Goto(w, "failing") /\ UNCHANGED <<job, attempt>>)
  BY DEF CompleteRejected, FailRejected, CompleteErrors, FailErrors, Crash
<1>5. /\ pc' \in [Worker -> {"idle", "assessing", "completing", "failing"}]
      /\ job' \in [Worker -> Assessment \cup {NoJob}]
      /\ attempt' \in [Worker -> Nat]
      /\ BusyHasJob'
  <2>1. CASE EndTick(w)
    BY <2>1 DEF TypeInv, TypeOK, BusyHasJob, EndTick, Goto
  <2>2. CASE Goto(w, "failing") /\ UNCHANGED <<job, attempt>>
    BY <1>1, <2>2 DEF TypeInv, TypeOK, BusyHasJob, Goto
  <2> QED BY <1>4, <2>1, <2>2
<1> QED BY <1>2, <1>3, <1>5 DEF TypeInv, TypeOK, row

\* The steps of a run, by what they write: the split every proof below uses.
LEMMA StepCases ==
  ASSUME [Next]_vars
  PROVE  \/ \E k \in Key, a \in Assessment : SubmitNew(k, a)
         \/ \E k \in Key : SubmitAgain(k)
         \/ \E w \in Worker, a \in Assessment : ClaimNext(w, a)
         \/ \E a \in Assessment : ClaimLapses(a)
         \/ \E w \in Worker : EngineReturns(w) \/ EngineThrows(w)
         \/ \E w \in Worker : CompleteCommits(w) \/ FailCommits(w)
                                                 \/ CompleteUnconfirmed(w)
         \/ \E w \in Worker : \/ CompleteRejected(w) \/ FailRejected(w)
                              \/ CompleteErrors(w) \/ FailErrors(w) \/ Crash(w)
         \/ UNCHANGED vars
BY DEF Next, Tick, Fault

\* TypeInv is inductive.
LEMMA NextTypeInv ==
  ASSUME TypeInv, [Next]_vars
  PROVE  TypeInv'
<1>1. CASE UNCHANGED vars
  BY <1>1 DEF TypeInv, TypeOK, BusyHasJob, vars, row, worker, history
<1> QED
  BY <1>1, StepCases, SubmitNewTypeInv, SubmitAgainTypeInv, ClaimTypeInv,
     LapseTypeInv, EngineTypeInv, VerdictWriteTypeInv, NoVerdictTypeInv

\* Every variable keeps its type, and a worker inside tick() has an assessment:
\* complete() and fail() are only ever called with a stored row's identity.
THEOREM TypeCorrect == Safety => []TypeOK
<1>1. Safety => []TypeInv
  BY InitTypeInv, NextTypeInv, PTL DEF Safety
<1> QED BY <1>1, PTL DEF TypeInv

-----------------------------------------------------------------------------
(***************************************************************************)
(* Verdicts are final and every change of status has its audit event.      *)
(***************************************************************************)

\* How a step may change one row: not at all, or as the lifecycle allows.
LEMMA StatusSteps ==
  ASSUME TypeInv, [Next]_vars, NEW a \in Assessment
  PROVE  \/ status'[a] = status[a] /\ audit'[a] = audit[a]
         \/ /\ status[a] = "absent" /\ status'[a] = "queued"
            /\ audit'[a] = Append(audit[a], "queued")
         \/ /\ status[a] = "queued" /\ status'[a] = "running"
            /\ audit'[a] = audit[a]
         \/ /\ status[a] = "running" /\ status'[a] \in Verdict
            /\ audit'[a] = Append(audit[a], status'[a])
<1>1. ASSUME NEW k \in Key, NEW b \in Assessment, SubmitNew(k, b)
      PROVE  \/ status'[a] = status[a] /\ audit'[a] = audit[a]
             \/ /\ status[a] = "absent" /\ status'[a] = "queued"
                /\ audit'[a] = Append(audit[a], "queued")
  BY <1>1 DEF TypeInv, TypeOK, SubmitNew
<1>2. ASSUME NEW w \in Worker, NEW b \in Assessment, ClaimNext(w, b)
      PROVE  \/ status'[a] = status[a] /\ audit'[a] = audit[a]
             \/ /\ status[a] = "queued" /\ status'[a] = "running"
                /\ audit'[a] = audit[a]
  BY <1>2 DEF TypeInv, TypeOK, ClaimNext, NextClaim, Claimable
<1>3. ASSUME NEW w \in Worker,
             CompleteCommits(w) \/ FailCommits(w) \/ CompleteUnconfirmed(w)
      PROVE  \/ status'[a] = status[a] /\ audit'[a] = audit[a]
             \/ /\ status[a] = "running" /\ status'[a] \in Verdict
                /\ audit'[a] = Append(audit[a], status'[a])
  <2>1. /\ status[job[w]] = "running"
        /\ \E v \in Verdict : Finish(job[w], v)
    BY <1>3 DEF CompleteCommits, FailCommits, CompleteUnconfirmed, MayFinish, Verdict
  <2> QED BY <2>1 DEF TypeInv, TypeOK, Finish
<1>4. ASSUME \/ \E k \in Key : SubmitAgain(k)
             \/ \E b \in Assessment : ClaimLapses(b)
             \/ \E w \in Worker : EngineReturns(w) \/ EngineThrows(w)
             \/ \E w \in Worker : \/ CompleteRejected(w) \/ FailRejected(w)
                                  \/ CompleteErrors(w) \/ FailErrors(w) \/ Crash(w)
             \/ UNCHANGED vars
      PROVE  status' = status /\ audit' = audit
  BY <1>4 DEF SubmitAgain, ClaimLapses, EngineReturns, EngineThrows, CompleteRejected,
              FailRejected, CompleteErrors, FailErrors, Crash, vars, row
<1> QED BY <1>1, <1>2, <1>3, <1>4, StepCases

\* Only a claim changes a row's attempts.
LEMMA AttemptsSteps ==
  ASSUME TypeInv, [Next]_vars, NEW a \in Assessment
  PROVE  attempts'[a] = attempts[a] \/ Claimable(a)
<1>1. ASSUME NEW w \in Worker, NEW b \in Assessment, ClaimNext(w, b)
      PROVE  attempts'[a] = attempts[a] \/ Claimable(a)
  BY <1>1 DEF TypeInv, TypeOK, ClaimNext, NextClaim
<1>2. ASSUME NEW k \in Key, NEW b \in Assessment, SubmitNew(k, b)
      PROVE  attempts' = attempts
  BY <1>2 DEF SubmitNew
<1>3. ASSUME NEW w \in Worker,
             CompleteCommits(w) \/ FailCommits(w) \/ CompleteUnconfirmed(w)
      PROVE  attempts' = attempts
  BY <1>3 DEF CompleteCommits, FailCommits, CompleteUnconfirmed, Finish
<1>4. ASSUME \/ \E k \in Key : SubmitAgain(k)
             \/ \E b \in Assessment : ClaimLapses(b)
             \/ \E w \in Worker : EngineReturns(w) \/ EngineThrows(w)
             \/ \E w \in Worker : \/ CompleteRejected(w) \/ FailRejected(w)
                                  \/ CompleteErrors(w) \/ FailErrors(w) \/ Crash(w)
             \/ UNCHANGED vars
      PROVE  attempts' = attempts
  BY <1>4 DEF SubmitAgain, ClaimLapses, EngineReturns, EngineThrows, CompleteRejected,
              FailRejected, CompleteErrors, FailErrors, Crash, vars, row
<1> QED BY <1>1, <1>2, <1>3, <1>4, StepCases

\* No step rewrites a decided row, its audit trail or its attempts: complete(),
\* fail() and claimNext all require a status that a decided row does not have.
THEOREM VerdictsAreFinal == Safety => VerdictIsFinal
<1>1. ASSUME TypeInv, [Next]_vars, NEW a \in Assessment, status[a] \in Verdict
      PROVE  /\ status'[a] = status[a]
             /\ audit'[a] = audit[a]
             /\ attempts'[a] = attempts[a]
  BY <1>1, StatusSteps, AttemptsSteps DEF Verdict, Claimable
<1>2. Safety => []TypeInv
  BY InitTypeInv, NextTypeInv, PTL DEF Safety
<1>3. TypeInv /\ [Next]_vars =>
        [\A a \in Assessment : status[a] \in Verdict =>
           /\ status'[a] = status[a]
           /\ audit'[a] = audit[a]
           /\ attempts'[a] = attempts[a]]_vars
  BY <1>1
<1> QED BY <1>2, <1>3, PTL DEF Safety, VerdictIsFinal

\* The audit trail of every row is the one its status calls for.
THEOREM AuditAgrees == Safety => []AuditAgreesWithStatus
<1>1. Init => AuditAgreesWithStatus
  BY DEF Init, AuditAgreesWithStatus, Lifecycle!Trail, Verdict
<1>2. ASSUME TypeInv, AuditAgreesWithStatus, [Next]_vars
      PROVE  AuditAgreesWithStatus'
  <2> SUFFICES ASSUME NEW a \in Assessment
               PROVE  audit'[a] = Lifecycle!Trail(status'[a])
    BY DEF AuditAgreesWithStatus, Lifecycle!Trail
  <2>1. audit[a] = Lifecycle!Trail(status[a])
    BY <1>2 DEF AuditAgreesWithStatus
  <2> QED
    BY <1>2, <2>1, StatusSteps
    DEF Lifecycle!Trail, Verdict
<1>3. Safety => []TypeInv
  BY InitTypeInv, NextTypeInv, PTL DEF Safety
<1> QED BY <1>1, <1>2, <1>3, PTL DEF Safety

-----------------------------------------------------------------------------
(***************************************************************************)
(* Refinement: the queue implements the lifecycle's safety part.           *)
(***************************************************************************)
THEOREM ImplementsLifecycleSafety == Safety => Lifecycle!Safety
<1>1. Init => Lifecycle!Init
  BY DEF Init, Lifecycle!Init
<1>2. ASSUME TypeInv, [Next]_vars
      PROVE  [Lifecycle!Next]_(Lifecycle!vars)
  <2>1. CASE \A a \in Assessment : status'[a] = status[a] /\ audit'[a] = audit[a]
    <3>1. status' = status /\ audit' = audit
      BY <1>2, <2>1, NextTypeInv DEF TypeInv, TypeOK
    <3> QED BY <3>1 DEF Lifecycle!vars
  <2>2. CASE \E a \in Assessment : ~ (status'[a] = status[a] /\ audit'[a] = audit[a])
    <3>1. PICK a \in Assessment : ~ (status'[a] = status[a] /\ audit'[a] = audit[a])
      BY <2>2
    <3>2. \E s, t : /\ status' = [status EXCEPT ![a] = s]
                    /\ audit' = [audit EXCEPT ![a] = t]
      <4>1. ASSUME NEW k \in Key, NEW b \in Assessment, SubmitNew(k, b)
            PROVE  \E s, t : /\ status' = [status EXCEPT ![a] = s]
                             /\ audit' = [audit EXCEPT ![a] = t]
        BY <1>2, <3>1, <4>1 DEF SubmitNew, TypeInv, TypeOK
      <4>2. ASSUME NEW w \in Worker, NEW b \in Assessment, ClaimNext(w, b)
            PROVE  \E s, t : /\ status' = [status EXCEPT ![a] = s]
                             /\ audit' = [audit EXCEPT ![a] = t]
        <5>1. /\ status' = [status EXCEPT ![b] = "running"]
              /\ audit' = audit
          BY <4>2 DEF ClaimNext
        <5>2. a = b
          BY <1>2, <3>1, <5>1 DEF TypeInv, TypeOK
        <5>3. audit' = [audit EXCEPT ![a] = audit[a]]
          BY <1>2, <5>1 DEF TypeInv, TypeOK
        <5> QED BY <5>1, <5>2, <5>3
      <4>3. ASSUME NEW w \in Worker,
                   CompleteCommits(w) \/ FailCommits(w) \/ CompleteUnconfirmed(w)
            PROVE  \E s, t : /\ status' = [status EXCEPT ![a] = s]
                             /\ audit' = [audit EXCEPT ![a] = t]
        <5>1. PICK v \in Verdict : Finish(job[w], v)
          BY <4>3 DEF CompleteCommits, FailCommits, CompleteUnconfirmed, Verdict
        <5> QED BY <1>2, <3>1, <5>1 DEF Finish, TypeInv, TypeOK
      <4>4. ASSUME \/ \E k \in Key : SubmitAgain(k)
                   \/ \E b \in Assessment : ClaimLapses(b)
                   \/ \E w \in Worker : EngineReturns(w) \/ EngineThrows(w)
                   \/ \E w \in Worker :
                        \/ CompleteRejected(w) \/ FailRejected(w)
                        \/ CompleteErrors(w) \/ FailErrors(w) \/ Crash(w)
                   \/ UNCHANGED vars
            PROVE  FALSE
        BY <3>1, <4>4 DEF SubmitAgain, ClaimLapses, EngineReturns, EngineThrows,
           CompleteRejected, FailRejected, CompleteErrors, FailErrors, Crash, vars, row
      <4> QED BY <1>2, <4>1, <4>2, <4>3, <4>4, StepCases
    <3>3. PICK s, t : /\ status' = [status EXCEPT ![a] = s]
                      /\ audit' = [audit EXCEPT ![a] = t]
      BY <3>2
    <3>4. status'[a] = s /\ audit'[a] = t
      BY <1>2, <3>3 DEF TypeInv, TypeOK
    <3>5. CASE status[a] = "absent"
      <4>1. Lifecycle!Store(a)
        BY <1>2, <3>1, <3>3, <3>4, <3>5, StatusSteps DEF Verdict, Lifecycle!Store
      <4> QED BY <4>1 DEF Lifecycle!Next
    <3>6. CASE status[a] = "queued"
      <4>1. status' = [status EXCEPT ![a] = "running"] /\ audit' = [audit EXCEPT ![a] = audit[a]]
        BY <1>2, <3>1, <3>3, <3>4, <3>6, StatusSteps DEF Verdict
      <4>2. audit' = audit
        BY <1>2, <4>1 DEF TypeInv, TypeOK
      <4>3. Lifecycle!Start(a)
        BY <3>6, <4>1, <4>2 DEF Lifecycle!Start
      <4> QED BY <4>3 DEF Lifecycle!Next
    <3>7. CASE status[a] = "running"
      <4>1. s \in Verdict /\ t = Append(audit[a], s)
        BY <1>2, <3>1, <3>4, <3>7, StatusSteps DEF Verdict
      <4>2. Lifecycle!Decide(a, s)
        BY <3>3, <3>7, <4>1 DEF Lifecycle!Decide
      <4> QED BY <4>1, <4>2 DEF Lifecycle!Next
    <3>8. CASE status[a] \in Verdict
      BY <1>2, <3>1, <3>8, StatusSteps DEF Verdict
    <3> QED BY <1>2, <3>5, <3>6, <3>7, <3>8 DEF TypeInv, TypeOK
  <2> QED BY <2>1, <2>2
<1>3. Safety => []TypeInv
  BY InitTypeInv, NextTypeInv, PTL DEF Safety
<1> QED BY <1>1, <1>2, <1>3, PTL DEF Safety, Lifecycle!Safety

-----------------------------------------------------------------------------
(***************************************************************************)
(* Idempotent submission.                                                  *)
(***************************************************************************)

\* One row is stored under each key, and every caller is given its identity:
\* a stored row keeps its key, and a second row with that key conflicts.
THEOREM OneAnswer == Safety => []OneAnswerPerKey
<1>1. Init => OneAnswerPerKey
  BY DEF Init, OneAnswerPerKey, Stored
<1>2. ASSUME TypeInv, OneAnswerPerKey, [Next]_vars
      PROVE  OneAnswerPerKey'
  <2>1. ASSUME NEW l \in Key, NEW b \in Assessment, SubmitNew(l, b)
        PROVE  OneAnswerPerKey'
    <3> SUFFICES ASSUME NEW k \in Key
                 PROVE  /\ \A a, c \in Stored(k)' : a = c
                        /\ answers'[k] \subseteq Stored(k)'
      BY DEF OneAnswerPerKey
    <3>1. CASE k = l
      <4>1. Stored(k) = {} /\ answers[k] = {}
        BY <1>2, <2>1, <3>1 DEF SubmitNew, Conflicts, OneAnswerPerKey
      <4>2. Stored(k)' = {b}
        BY <1>2, <2>1, <3>1, <4>1 DEF SubmitNew, Stored, TypeInv, TypeOK
      <4>3. answers'[k] \subseteq {b}
        BY <1>2, <2>1, <3>1, <4>1 DEF SubmitNew, TypeInv, TypeOK
      <4> QED BY <4>2, <4>3
    <3>2. CASE k # l
      <4>1. Stored(k)' = Stored(k)
        BY <1>2, <2>1, <3>2 DEF SubmitNew, Stored, TypeInv, TypeOK
      <4>2. answers'[k] = answers[k]
        BY <1>2, <2>1, <3>2 DEF SubmitNew, TypeInv, TypeOK
      <4> QED BY <1>2, <4>1, <4>2 DEF OneAnswerPerKey
    <3> QED BY <3>1, <3>2
  <2>2. ASSUME NEW l \in Key, SubmitAgain(l)
        PROVE  OneAnswerPerKey'
    <3>1. \A k \in Key : Stored(k)' = Stored(k)
      BY <2>2 DEF SubmitAgain, Stored, row
    <3>2. PICK b \in Stored(l) : answers' = [answers EXCEPT ![l] = @ \cup {b}]
      BY <2>2 DEF SubmitAgain
    <3>3. \A k \in Key : answers'[k] \subseteq Stored(k)
      BY <1>2, <3>2 DEF OneAnswerPerKey, TypeInv, TypeOK
    <3> QED BY <1>2, <3>1, <3>3 DEF OneAnswerPerKey
  <2>3. ASSUME answers' = answers, key' = key,
               \A a \in Assessment : status[a] = "absent" <=> status'[a] = "absent"
        PROVE  OneAnswerPerKey'
    <3>1. \A k \in Key : Stored(k)' = Stored(k)
      BY <2>3 DEF Stored
    <3> QED BY <1>2, <2>3, <3>1 DEF OneAnswerPerKey
  <2>4. ASSUME NEW w \in Worker, NEW b \in Assessment, ClaimNext(w, b)
        PROVE  OneAnswerPerKey'
    BY <1>2, <2>3, <2>4
    DEF ClaimNext, NextClaim, Claimable, history, TypeInv, TypeOK
  <2>5. ASSUME NEW w \in Worker,
               CompleteCommits(w) \/ FailCommits(w) \/ CompleteUnconfirmed(w)
        PROVE  OneAnswerPerKey'
    <3>1. /\ status[job[w]] = "running"
          /\ \E v \in Verdict : Finish(job[w], v)
          /\ answers' = answers
      BY <2>5 DEF CompleteCommits, FailCommits, CompleteUnconfirmed, MayFinish,
                  DatabaseFault, history, Verdict
    <3> QED BY <1>2, <2>3, <3>1 DEF Finish, Verdict, TypeInv, TypeOK
  <2>6. ASSUME \/ \E b \in Assessment : ClaimLapses(b)
               \/ \E w \in Worker : EngineReturns(w) \/ EngineThrows(w)
               \/ \E w \in Worker : \/ CompleteRejected(w) \/ FailRejected(w)
                                    \/ CompleteErrors(w) \/ FailErrors(w) \/ Crash(w)
               \/ UNCHANGED vars
        PROVE  OneAnswerPerKey'
    <3>1. UNCHANGED <<status, key, answers>>
      BY <2>6 DEF ClaimLapses, EngineReturns, EngineThrows, CompleteRejected,
         FailRejected, CompleteErrors, FailErrors, Crash, DatabaseFault,
         vars, row, history
    <3> QED BY <2>3, <3>1
  <2> QED BY <1>2, <2>1, <2>2, <2>4, <2>5, <2>6, StepCases
<1>3. Safety => []TypeInv
  BY InitTypeInv, NextTypeInv, PTL DEF Safety
<1> QED BY <1>1, <1>2, <1>3, PTL DEF Safety

-----------------------------------------------------------------------------
(***************************************************************************)
(* Verdicts are earned.  VerdictIsEarned alone is not inductive: a worker  *)
(* about to write a verdict must already hold what earns it, and a worker  *)
(* in the catch block with neither an engine error nor a failed write can  *)
(* only be there because the row was decided by someone else.  That row    *)
(* stays decided (StatusSteps), so its fail() changes nothing.             *)
(***************************************************************************)
Explained(a) == "error" \in engineRuns[a] \/ a \in writeFaults

EarnedInv ==
  /\ VerdictIsEarned
  /\ \A w \in Worker : pc[w] # "idle" => status[job[w]] \notin {"absent", "queued"}
  /\ \A w \in Worker : pc[w] = "completing" => "result" \in engineRuns[job[w]]
  /\ \A w \in Worker :
       pc[w] = "failing" => Explained(job[w]) \/ status[job[w]] \in Verdict

\* Evidence only accumulates.
LEMMA EvidenceGrows ==
  ASSUME TypeInv, [Next]_vars, NEW a \in Assessment
  PROVE  engineRuns[a] \subseteq engineRuns'[a] /\ writeFaults \subseteq writeFaults'
<1>1. ASSUME NEW w \in Worker, EngineReturns(w) \/ EngineThrows(w)
      PROVE  engineRuns[a] \subseteq engineRuns'[a] /\ writeFaults' = writeFaults
  <2>1. PICK out \in {"result", "error"} :
          engineRuns' = [engineRuns EXCEPT ![job[w]] = @ \cup {out}]
    BY <1>1 DEF EngineReturns, EngineThrows
  <2>2. engineRuns[a] \subseteq engineRuns'[a]
    BY <2>1 DEF TypeInv, TypeOK
  <2> QED BY <1>1, <2>2 DEF EngineReturns, EngineThrows
<1>2. ASSUME \/ \E k \in Key, b \in Assessment : SubmitNew(k, b)
             \/ \E k \in Key : SubmitAgain(k)
             \/ \E w \in Worker, b \in Assessment : ClaimNext(w, b)
             \/ \E b \in Assessment : ClaimLapses(b)
             \/ \E w \in Worker : CompleteCommits(w) \/ FailCommits(w)
                                                     \/ CompleteUnconfirmed(w)
             \/ \E w \in Worker : \/ CompleteRejected(w) \/ FailRejected(w)
                                  \/ CompleteErrors(w) \/ FailErrors(w) \/ Crash(w)
             \/ UNCHANGED vars
      PROVE  engineRuns' = engineRuns /\ writeFaults \subseteq writeFaults'
  BY <1>2 DEF SubmitNew, SubmitAgain, ClaimNext, ClaimLapses, CompleteCommits,
     FailCommits, CompleteUnconfirmed, CompleteRejected, FailRejected,
     CompleteErrors, FailErrors, Crash, DatabaseFault, vars, history
<1> QED BY <1>1, <1>2, StepCases

\* A worker enters a finishing state, or keeps one, only with its evidence.
LEMMA HandStep ==
  ASSUME TypeInv, EarnedInv, [Next]_vars, NEW w \in Worker
  PROVE  /\ pc'[w] # "idle" => status'[job'[w]] \notin {"absent", "queued"}
         /\ pc'[w] = "completing" => "result" \in engineRuns'[job'[w]]
         /\ pc'[w] = "failing" =>
              Explained(job[w])' \/ status'[job'[w]] \in Verdict
<1> DEFINE Hand ==
      /\ pc'[w] # "idle" => status'[job'[w]] \notin {"absent", "queued"}
      /\ pc'[w] = "completing" => "result" \in engineRuns'[job'[w]]
      /\ pc'[w] = "failing" =>
           Explained(job[w])' \/ status'[job'[w]] \in Verdict
<1>1. CASE pc'[w] = pc[w] /\ job'[w] = job[w]
  <2>1. CASE pc[w] = "idle"
    BY <1>1, <2>1
  <2>2. CASE pc[w] # "idle"
    <3>1. job[w] \in Assessment
      BY <2>2 DEF TypeInv, BusyHasJob
    <3>2. /\ engineRuns[job[w]] \subseteq engineRuns'[job[w]]
          /\ writeFaults \subseteq writeFaults'
      BY <3>1, EvidenceGrows
    <3>3. /\ status[job[w]] \in Verdict => status'[job[w]] \in Verdict
          /\ status'[job[w]] \notin {"absent", "queued"}
      BY <2>2, <3>1, StatusSteps DEF Verdict, EarnedInv
    <3> QED BY <1>1, <3>2, <3>3 DEF EarnedInv, Explained
  <2> QED BY <2>1, <2>2
<1>2. ASSUME NEW v \in Worker, EngineReturns(v) \/ EngineThrows(v)
      PROVE  Hand
  <2>1. CASE v = w
    <3>1. /\ job[w] \in Assessment /\ job' = job /\ status' = status
          /\ pc[w] # "idle"
      BY <1>2, <2>1 DEF TypeInv, BusyHasJob, EngineReturns, EngineThrows, row
    <3>2. \/ pc'[w] = "completing" /\ "result" \in engineRuns'[job[w]]
          \/ pc'[w] = "failing" /\ "error" \in engineRuns'[job[w]]
      BY <1>2, <2>1, <3>1
      DEF TypeInv, TypeOK, EngineReturns, EngineThrows, Goto
    <3> QED BY <3>1, <3>2 DEF Explained, EarnedInv
  <2>2. CASE v # w
    BY <1>1, <1>2, <2>2 DEF TypeInv, TypeOK, EngineReturns, EngineThrows, Goto
  <2> QED BY <2>1, <2>2
<1>3. ASSUME NEW v \in Worker, NEW a \in Assessment, ClaimNext(v, a)
      PROVE  Hand
  <2>1. CASE v = w
    BY <1>3, <2>1 DEF TypeInv, TypeOK, ClaimNext
  <2>2. CASE v # w
    BY <1>1, <1>3, <2>2 DEF TypeInv, TypeOK, ClaimNext
  <2> QED BY <2>1, <2>2
<1>4. ASSUME NEW v \in Worker, EndTick(v)
      PROVE  Hand
  BY <1>1, <1>4 DEF TypeInv, TypeOK, EndTick, Goto
<1>5. ASSUME NEW v \in Worker, CompleteRejected(v)
      PROVE  Hand
  <2>1. CASE v = w
    <3>1. /\ job[w] \in Assessment /\ job' = job
          /\ status' = status /\ status[job[w]] # "running"
          /\ pc[w] = "completing" /\ pc'[w] = "failing"
      BY <1>5, <2>1 DEF TypeInv, TypeOK, BusyHasJob, CompleteRejected, MayFinish,
         row, Goto
    <3>2. status[job[w]] \in Verdict
      BY <3>1 DEF EarnedInv, TypeInv, TypeOK
    <3> QED BY <3>1, <3>2 DEF Verdict
  <2>2. CASE v # w
    BY <1>1, <1>5, <2>2 DEF TypeInv, TypeOK, CompleteRejected, Goto
  <2> QED BY <2>1, <2>2
<1>6. ASSUME NEW v \in Worker, CompleteErrors(v) \/ CompleteUnconfirmed(v)
      PROVE  Hand
  <2>1. CASE v = w
    <3>1. /\ job'[w] = job[w] /\ job[w] \in Assessment
          /\ job[w] \in writeFaults'
          /\ pc[w] = "completing" /\ pc'[w] = "failing"
      BY <1>6, <2>1 DEF TypeInv, TypeOK, BusyHasJob, CompleteErrors,
         CompleteUnconfirmed, DatabaseFault, Goto
    <3>2. status'[job[w]] \notin {"absent", "queued"}
      BY <3>1, StatusSteps DEF Verdict, EarnedInv
    <3> QED BY <3>1, <3>2 DEF Explained
  <2>2. CASE v # w
    BY <1>1, <1>6, <2>2 DEF TypeInv, TypeOK, CompleteErrors, CompleteUnconfirmed, Goto
  <2> QED BY <2>1, <2>2
<1>7. ASSUME \/ \E k \in Key, a \in Assessment : SubmitNew(k, a)
             \/ \E k \in Key : SubmitAgain(k)
             \/ \E a \in Assessment : ClaimLapses(a)
             \/ UNCHANGED vars
      PROVE  Hand
  BY <1>1, <1>7 DEF SubmitNew, SubmitAgain, ClaimLapses, vars, worker
<1> QED
  BY <1>2, <1>3, <1>4, <1>5, <1>6, <1>7, StepCases
  DEF CompleteCommits, FailCommits, FailRejected, FailErrors, Crash

\* "completed" is recorded only for an assessment an engine run produced a result
\* for, "failed" only for one whose run threw or whose finishing write went wrong.
THEOREM VerdictsAreEarned == Safety => []VerdictIsEarned
<1>1. Init => EarnedInv
  BY DEF Init, EarnedInv, VerdictIsEarned
<1>2. ASSUME TypeInv, EarnedInv, [Next]_vars
      PROVE  EarnedInv'
  <2>1. ASSUME NEW a \in Assessment
        PROVE  /\ status'[a] = "completed" => "result" \in engineRuns'[a]
               /\ status'[a] = "failed" => Explained(a)'
    <3>1. engineRuns[a] \subseteq engineRuns'[a] /\ writeFaults \subseteq writeFaults'
      BY <1>2, EvidenceGrows
    <3>2. CASE status'[a] = status[a]
      BY <1>2, <3>1, <3>2 DEF EarnedInv, VerdictIsEarned, Explained
    <3>3. CASE status'[a] # status[a] /\ status'[a] \in Verdict
      <4>1. PICK w \in Worker :
              CompleteCommits(w) \/ FailCommits(w) \/ CompleteUnconfirmed(w)
        <5>1. ASSUME NEW k \in Key, NEW b \in Assessment, SubmitNew(k, b)
              PROVE  FALSE
          BY <1>2, <3>3, <5>1 DEF SubmitNew, TypeInv, TypeOK, Verdict
        <5>2. ASSUME NEW w \in Worker, NEW b \in Assessment, ClaimNext(w, b)
              PROVE  FALSE
          BY <1>2, <3>3, <5>2 DEF ClaimNext, TypeInv, TypeOK, Verdict
        <5>3. ASSUME \/ \E k \in Key : SubmitAgain(k)
                     \/ \E b \in Assessment : ClaimLapses(b)
                     \/ \E w \in Worker : EngineReturns(w) \/ EngineThrows(w)
                     \/ \E w \in Worker :
                          \/ CompleteRejected(w) \/ FailRejected(w)
                          \/ CompleteErrors(w) \/ FailErrors(w) \/ Crash(w)
                     \/ UNCHANGED vars
              PROVE  FALSE
          BY <3>3, <5>3 DEF SubmitAgain, ClaimLapses, EngineReturns, EngineThrows,
             CompleteRejected, FailRejected, CompleteErrors, FailErrors, Crash, vars, row
        <5> QED BY <1>2, <5>1, <5>2, <5>3, StepCases
      <4>2. /\ job[w] \in Assessment
            /\ status[job[w]] = "running"
            /\ \/ pc[w] = "completing" /\ Finish(job[w], "completed")
               \/ pc[w] = "failing" /\ Finish(job[w], "failed")
        BY <1>2, <4>1 DEF CompleteCommits, FailCommits, CompleteUnconfirmed,
           MayFinish, TypeInv, BusyHasJob
      <4>3. a = job[w]
        BY <1>2, <3>3, <4>2 DEF Finish, TypeInv, TypeOK
      <4>4. \/ pc[w] = "completing" /\ status'[a] = "completed"
            \/ pc[w] = "failing" /\ status'[a] = "failed"
        BY <1>2, <4>2, <4>3 DEF Finish, TypeInv, TypeOK
      <4> QED
        BY <1>2, <3>1, <4>2, <4>3, <4>4 DEF EarnedInv, Explained, Verdict
    <3> QED BY <3>2, <3>3 DEF Verdict
  <2>2. VerdictIsEarned'
    BY <2>1 DEF VerdictIsEarned, Explained
  <2> QED BY <1>2, <2>2, HandStep DEF EarnedInv
<1>3. Safety => []TypeInv
  BY InitTypeInv, NextTypeInv, PTL DEF Safety
<1> QED BY <1>1, <1>2, <1>3, PTL DEF Safety, EarnedInv

-----------------------------------------------------------------------------
(***************************************************************************)
(* Claims.                                                                 *)
(***************************************************************************)

\* Two workers executing one assessment hold different claims, and no worker's
\* claim is ahead of the row: a claim is handed out by raising attempts above
\* every claim handed out before it.
THEOREM DistinctClaims == Safety => []ClaimsAreDistinct
<1>1. Init => ClaimsAreDistinct
  BY DEF Init, ClaimsAreDistinct, Busy
<1>2. ASSUME TypeInv, ClaimsAreDistinct, [Next]_vars
      PROVE  ClaimsAreDistinct'
  <2>1. ASSUME \A w \in Worker :
                 pc'[w] # "idle" => /\ pc[w] # "idle"
                                    /\ job'[w] = job[w]
                                    /\ attempt'[w] = attempt[w],
               attempts' = attempts
        PROVE  ClaimsAreDistinct'
    BY <1>2, <2>1 DEF ClaimsAreDistinct, Busy
  <2>2. ASSUME NEW u \in Worker, NEW a \in Assessment, ClaimNext(u, a)
        PROVE  ClaimsAreDistinct'
    <3>1. /\ attempts'[a] = attempts[a] + 1
          /\ \A b \in Assessment : attempts[b] <= attempts'[b]
          /\ job'[u] = a /\ attempt'[u] = attempts'[a]
      BY <1>2, <2>2 DEF ClaimNext, TypeInv, TypeOK
    <3>2. ASSUME NEW w \in Worker, w # u
          PROVE  pc'[w] = pc[w] /\ job'[w] = job[w] /\ attempt'[w] = attempt[w]
      BY <1>2, <2>2, <3>2 DEF ClaimNext, TypeInv, TypeOK
    <3>3. ASSUME NEW w \in Worker, w # u, pc[w] # "idle"
          PROVE  /\ job[w] \in Assessment
                 /\ attempt[w] \in Nat /\ attempt[w] <= attempts[job[w]]
      BY <1>2, <3>3 DEF ClaimsAreDistinct, Busy, TypeInv, TypeOK, BusyHasJob
    <3> SUFFICES ASSUME NEW v \in Worker, NEW w \in Worker,
                        pc'[v] # "idle", pc'[w] # "idle", job'[v] = job'[w]
                 PROVE  /\ attempt'[v] <= attempts'[job'[v]]
                        /\ v # w => attempt'[v] # attempt'[w]
      BY DEF ClaimsAreDistinct, Busy
    <3>4. attempts \in [Assessment -> Nat] /\ attempts' \in [Assessment -> Nat]
      BY <1>2, NextTypeInv DEF TypeInv, TypeOK
    <3>5. CASE v = u /\ w = u
      BY <3>1, <3>4, <3>5
    <3>6. CASE v = u /\ w # u
      BY <3>1, <3>2, <3>3, <3>4, <3>6
    <3>7. CASE v # u /\ w = u
      BY <3>1, <3>2, <3>3, <3>4, <3>7
    <3>8. CASE v # u /\ w # u
      BY <1>2, <3>1, <3>2, <3>3, <3>4, <3>8 DEF ClaimsAreDistinct, Busy
    <3> QED BY <3>5, <3>6, <3>7, <3>8
  <2>3. ASSUME NEW w \in Worker,
               EndTick(w) \/ (UNCHANGED <<job, attempt>>
                              /\ pc[w] # "idle" /\ \E p : Goto(w, p)),
               attempts' = attempts
        PROVE  ClaimsAreDistinct'
    BY <1>2, <2>1, <2>3 DEF EndTick, Goto, TypeInv, TypeOK
  <2>4. ASSUME NEW w \in Worker,
               CompleteCommits(w) \/ FailCommits(w) \/ CompleteUnconfirmed(w)
        PROVE  ClaimsAreDistinct'
    BY <2>3, <2>4 DEF CompleteCommits, FailCommits, CompleteUnconfirmed, Finish
  <2>5. ASSUME NEW w \in Worker,
               \/ CompleteRejected(w) \/ FailRejected(w)
               \/ CompleteErrors(w) \/ FailErrors(w) \/ Crash(w)
        PROVE  ClaimsAreDistinct'
    BY <2>3, <2>5 DEF CompleteRejected, FailRejected, CompleteErrors, FailErrors,
       Crash, row
  <2>6. ASSUME NEW w \in Worker, EngineReturns(w) \/ EngineThrows(w)
        PROVE  ClaimsAreDistinct'
    BY <2>3, <2>6 DEF EngineReturns, EngineThrows, row
  <2>7. ASSUME \/ \E k \in Key, a \in Assessment : SubmitNew(k, a)
               \/ \E k \in Key : SubmitAgain(k)
               \/ \E a \in Assessment : ClaimLapses(a)
               \/ UNCHANGED vars
        PROVE  ClaimsAreDistinct'
    BY <2>1, <2>7 DEF SubmitNew, SubmitAgain, ClaimLapses, vars, row, worker
  <2> QED BY <1>2, <2>2, <2>4, <2>5, <2>6, <2>7, StepCases
<1>3. Safety => []TypeInv
  BY InitTypeInv, NextTypeInv, PTL DEF Safety
<1> QED BY <1>1, <1>2, <1>3, PTL DEF Safety

(***************************************************************************)
(* The account AttemptsArePaidFor is read from: attempts and lapses are    *)
(* level while a claim is overdue and one apart while it is fresh.         *)
(***************************************************************************)
Account(a) ==
  /\ status[a] \in {"absent", "queued"} => attempts[a] = 0 /\ lapses[a] = 0
  /\ status[a] = "running" /\ overdue[a] => attempts[a] = lapses[a]
  /\ status[a] = "running" /\ ~ overdue[a] => attempts[a] = lapses[a] + 1
  /\ attempts[a] <= lapses[a] + 1

\* Each execution of an assessment beyond the first follows a claim that was left
\* running for more than five minutes.
THEOREM AttemptsPaidFor == Safety => []AttemptsArePaidFor
<1> DEFINE AccountInv == \A a \in Assessment : Account(a)
<1>1. Init => AccountInv
  BY DEF Init, Account
<1>2. ASSUME TypeInv, AccountInv, [Next]_vars
      PROVE  AccountInv'
  <2> SUFFICES ASSUME NEW a \in Assessment PROVE Account(a)'
    OBVIOUS
  <2>1. Account(a) /\ attempts[a] \in Nat /\ lapses[a] \in Nat
    BY <1>2 DEF TypeInv, TypeOK
  <2>2. ASSUME NEW k \in Key, NEW b \in Assessment, SubmitNew(k, b)
        PROVE  Account(a)'
    BY <1>2, <2>1, <2>2 DEF SubmitNew, Account, TypeInv, TypeOK
  <2>3. ASSUME NEW w \in Worker, NEW b \in Assessment, ClaimNext(w, b)
        PROVE  Account(a)'
    <3>1. lapses' = lapses
      BY <2>3 DEF ClaimNext, history
    <3>2. CASE a = b
      BY <1>2, <2>1, <2>3, <3>1, <3>2
      DEF ClaimNext, NextClaim, Claimable, Account, TypeInv, TypeOK
    <3>3. CASE a # b
      BY <1>2, <2>1, <2>3, <3>1, <3>3 DEF ClaimNext, Account, TypeInv, TypeOK
    <3> QED BY <3>2, <3>3
  <2>4. ASSUME NEW b \in Assessment, ClaimLapses(b)
        PROVE  Account(a)'
    BY <1>2, <2>1, <2>4 DEF ClaimLapses, Account, TypeInv, TypeOK
  <2>5. ASSUME NEW w \in Worker,
               CompleteCommits(w) \/ FailCommits(w) \/ CompleteUnconfirmed(w)
        PROVE  Account(a)'
    <3>1. UNCHANGED <<attempts, lapses, overdue>>
      BY <2>5 DEF CompleteCommits, FailCommits, CompleteUnconfirmed, Finish,
         DatabaseFault, history
    <3>2. status'[a] = status[a] \/ status'[a] \in Verdict
      BY <1>2, <2>5 DEF CompleteCommits, FailCommits, CompleteUnconfirmed, Finish,
         TypeInv, TypeOK, Verdict
    <3> QED BY <2>1, <3>1, <3>2 DEF Account, Verdict
  <2>6. ASSUME \/ \E k \in Key : SubmitAgain(k)
               \/ \E w \in Worker : EngineReturns(w) \/ EngineThrows(w)
               \/ \E w \in Worker : \/ CompleteRejected(w) \/ FailRejected(w)
                                    \/ CompleteErrors(w) \/ FailErrors(w) \/ Crash(w)
               \/ UNCHANGED vars
        PROVE  Account(a)'
    <3>1. UNCHANGED <<status, attempts, lapses, overdue>>
      BY <2>6 DEF SubmitAgain, EngineReturns, EngineThrows, CompleteRejected,
         FailRejected, CompleteErrors, FailErrors, Crash, DatabaseFault, vars, row,
         history
    <3> QED BY <2>1, <3>1 DEF Account
  <2> QED BY <1>2, <2>2, <2>3, <2>4, <2>5, <2>6, StepCases
<1>3. AccountInv => AttemptsArePaidFor
  BY DEF Account, AttemptsArePaidFor
<1>4. Safety => []TypeInv
  BY InitTypeInv, NextTypeInv, PTL DEF Safety
<1> QED
  <2> HIDE DEF AccountInv
  <2> QED BY <1>1, <1>2, <1>3, <1>4, PTL DEF Safety
=============================================================================
