------------------------- MODULE ScannerCacheProofs -------------------------
(***************************************************************************)
(* What holds of the scanner cache for any number of scans, deaths and     *)
(* containers left behind.                                                 *)
(***************************************************************************)
EXTENDS ScannerCache, TLAPS

-----------------------------------------------------------------------------
(***************************************************************************)
(* The inductive invariant.                                                *)
(***************************************************************************)

\* A report is judged only if there is one.
JudgesReport ==
  \A s \in Scan :
    /\ pc[s] = "removing" => report[s] # "none"
    /\ pc[s] = "judging" => report[s] \in Decision

\* Who works in the cache holds the lock.
HoldersOwn == \A s \in Scan : pc[s] \in Holding => lock = s

\* Unless docker left one behind, a container runs only under the lock of its scan,
\* whose process is at work or dead.
ContainersLocked ==
  strays = 0 =>
    \A s \in Scan : container[s] => lock = s /\ pc[s] \in {"running", "removing", "dead"}

\* What is on disk is what was reported.
EvidenceIsReport ==
  \A s \in Scan :
    /\ evidence[s] # "none" => evidence[s] = report[s]
    /\ pc[s] \in {"idle", "waiting", "starting", "running", "removing", "judging"} =>
         evidence[s] = "none"
    /\ pc[s] = "approved" => evidence[s] = "approved"

IInv == JudgesReport /\ HoldersOwn /\ ContainersLocked /\ EvidenceIsReport

-----------------------------------------------------------------------------
LEMMA InitInv == Init => TypeOK /\ IInv
BY DEF Init, TypeOK, IInv, JudgesReport, HoldersOwn, ContainersLocked,
       EvidenceIsReport, Holding

Step(s) == Request(s) \/ Proceed(s) \/ ContainerExits(s) \/ Die(s)

LEMMA NextType == TypeOK /\ IInv /\ [Next]_vars => TypeOK'
<1> SUFFICES ASSUME TypeOK, IInv, [Next]_vars PROVE TypeOK'
  OBVIOUS
<1> USE DEF TypeOK, Decision
<1>1. CASE OperatorUnlocks \/ UNCHANGED vars
  BY <1>1 DEF OperatorUnlocks, vars
<1>2. ASSUME NEW s \in Scan, Step(s) PROVE TypeOK'
  <2>1. CASE Request(s) \/ Acquire(s) \/ GiveUp(s) \/ Release(s)
    BY <2>1 DEF Request, Acquire, GiveUp, Release, Go
  <2>2. CASE StartContainer(s) \/ RunTimesOut(s)
    BY <2>2 DEF StartContainer, RunTimesOut, Go
  <2>2a. CASE RunReturns(s)
    BY <2>2a DEF RunReturns, Go
  <2>3. CASE Remove(s) \/ RemoveFails(s)
    <3>1. pc' \in [Scan -> {"idle", "waiting", "starting", "running", "removing", "judging",
                           "releasing", "approved", "denied", "dead"}]
      BY <2>3 DEF Remove, RemoveFails, AfterRun, Go
    <3>2. container' \in [Scan -> BOOLEAN]
      BY <2>3 DEF Remove, RemoveFails
    <3>3. strays' \in Nat /\ UNCHANGED <<lock, report, evidence, crashes>>
      BY <2>3 DEF Remove, RemoveFails
    <3> QED BY <3>1, <3>2, <3>3
  <2>4. CASE Publish(s)
    BY <2>4 DEF Publish, Go, IInv, JudgesReport
  <2>5. CASE PublishFails(s) \/ ContainerExits(s)
    BY <2>5 DEF PublishFails, ContainerExits, Go
  <2>6. CASE Die(s)
    BY <2>6 DEF Die, Go
  <2> QED BY <1>2, <2>1, <2>2, <2>3, <2>4, <2>5, <2>6, <2>2a DEF Step, Proceed
<1> QED BY <1>1, <1>2 DEF Next, Step

LEMMA NextJudges ==
  ASSUME TypeOK, JudgesReport, NEW s \in Scan, Step(s)
  PROVE  JudgesReport'
<1> USE DEF TypeOK, JudgesReport, Decision, Go
<1>1. CASE Request(s) \/ Acquire(s) \/ GiveUp(s) \/ Release(s)
  BY <1>1 DEF Request, Acquire, GiveUp, Release
<1>2. CASE StartContainer(s) \/ RunReturns(s) \/ RunTimesOut(s)
  BY <1>2 DEF StartContainer, RunReturns, RunTimesOut
<1>3. CASE Remove(s) \/ RemoveFails(s)
  BY <1>3 DEF Remove, RemoveFails, AfterRun
<1>4. CASE Publish(s) \/ PublishFails(s) \/ ContainerExits(s) \/ Die(s)
  BY <1>4 DEF Publish, PublishFails, ContainerExits, Die, Holding
<1> QED BY <1>1, <1>2, <1>3, <1>4 DEF Step, Proceed

LEMMA NextHolders ==
  ASSUME TypeOK, HoldersOwn, NEW s \in Scan, Step(s)
  PROVE  HoldersOwn'
<1> USE NoScanIsNone DEF TypeOK, HoldersOwn, Holding, Go
<1>1. CASE Request(s) \/ Acquire(s) \/ GiveUp(s)
  BY <1>1 DEF Request, Acquire, GiveUp, Lockable
<1>2. CASE Release(s)
  BY <1>2 DEF Release
<1>3. CASE StartContainer(s) \/ RunReturns(s) \/ RunTimesOut(s)
  BY <1>3 DEF StartContainer, RunReturns, RunTimesOut
<1>4. CASE Remove(s) \/ RemoveFails(s)
  BY <1>4 DEF Remove, RemoveFails, AfterRun
<1>5. CASE Publish(s) \/ PublishFails(s) \/ ContainerExits(s) \/ Die(s)
  BY <1>5 DEF Publish, PublishFails, ContainerExits, Die
<1> QED BY <1>1, <1>2, <1>3, <1>4, <1>5 DEF Step, Proceed

LEMMA NextLocked ==
  ASSUME TypeOK, HoldersOwn, ContainersLocked, NEW s \in Scan, Step(s)
  PROVE  ContainersLocked'
<1> USE NoScanIsNone DEF TypeOK, HoldersOwn, ContainersLocked, Holding, Go
<1>1. CASE Request(s) \/ Acquire(s) \/ GiveUp(s)
  BY <1>1 DEF Request, Acquire, GiveUp, Lockable
<1>2. CASE Release(s)
  BY <1>2 DEF Release
<1>3. CASE StartContainer(s) \/ RunReturns(s) \/ RunTimesOut(s)
  BY <1>3 DEF StartContainer, RunReturns, RunTimesOut
<1>4. CASE Remove(s)
  BY <1>4 DEF Remove, AfterRun
<1>5. CASE RemoveFails(s)
  <2>1. strays' # 0
    BY <1>5 DEF RemoveFails
  <2> QED BY <2>1
<1>6. CASE Publish(s) \/ PublishFails(s) \/ ContainerExits(s) \/ Die(s)
  BY <1>6 DEF Publish, PublishFails, ContainerExits, Die
<1> QED BY <1>1, <1>2, <1>3, <1>4, <1>5, <1>6 DEF Step, Proceed

LEMMA NextEvidence ==
  ASSUME TypeOK, JudgesReport, EvidenceIsReport, NEW s \in Scan, Step(s)
  PROVE  EvidenceIsReport'
<1> USE DEF TypeOK, JudgesReport, EvidenceIsReport, Decision, Go
<1>1. CASE Request(s) \/ Acquire(s) \/ GiveUp(s)
  BY <1>1 DEF Request, Acquire, GiveUp
<1>2. CASE Release(s)
  BY <1>2 DEF Release
<1>3. CASE StartContainer(s) \/ RunReturns(s) \/ RunTimesOut(s)
  BY <1>3 DEF StartContainer, RunReturns, RunTimesOut
<1>4. CASE Remove(s) \/ RemoveFails(s)
  BY <1>4 DEF Remove, RemoveFails, AfterRun
<1>5. CASE Publish(s) \/ PublishFails(s)
  BY <1>5 DEF Publish, PublishFails
<1>6. CASE ContainerExits(s) \/ Die(s)
  BY <1>6 DEF ContainerExits, Die
<1> QED BY <1>1, <1>2, <1>3, <1>4, <1>5, <1>6 DEF Step, Proceed

LEMMA NextInv == TypeOK /\ IInv /\ [Next]_vars => IInv'
<1> SUFFICES ASSUME TypeOK, IInv, [Next]_vars PROVE IInv'
  OBVIOUS
<1>1. CASE UNCHANGED vars
  BY <1>1 DEF vars, IInv, JudgesReport, HoldersOwn, ContainersLocked, EvidenceIsReport
<1>2. CASE OperatorUnlocks
  <2>1. lock \in Scan /\ pc[lock] = "dead" /\ ~container[lock]
    BY <1>2 DEF OperatorUnlocks, Abandoned, TypeOK
  <2> QED
    BY <1>2, <2>1 DEF OperatorUnlocks, IInv, JudgesReport, HoldersOwn, ContainersLocked,
       EvidenceIsReport, Holding
<1>3. ASSUME NEW s \in Scan, Step(s) PROVE IInv'
  BY <1>3, NextJudges, NextHolders, NextLocked, NextEvidence DEF IInv
<1> QED BY <1>1, <1>2, <1>3 DEF Next, Step

THEOREM CacheInv == Spec => [](TypeOK /\ IInv)
BY InitInv, NextType, NextInv, PTL DEF Spec

\* Every variable of the scanner cache keeps its type.
THEOREM TypeCorrect == Spec => []TypeOK
BY CacheInv, PTL

\* The cache is used by one container at a time unless docker left one behind.
THEOREM Exclusive == Spec => []CacheIsExclusive
<1>1. IInv => CacheIsExclusive
  BY DEF IInv, ContainersLocked, CacheIsExclusive
<1> QED BY <1>1, CacheInv, PTL

\* Nothing is approved without evidence.
THEOREM Evidenced == Spec => []ApprovalHasEvidence
<1>1. IInv => ApprovalHasEvidence
  BY DEF IInv, EvidenceIsReport, ApprovalHasEvidence
<1> QED BY <1>1, CacheInv, PTL
=============================================================================
