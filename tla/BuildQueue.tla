----------------------------- MODULE BuildQueue -----------------------------
(***************************************************************************)
(* The durable queue of builds: BuildJobService.submit, its PostgreSQL     *)
(* repository, the BuildJobWorker processes, and the engine run between a  *)
(* claim and its verdict: acquire the source, scan it, restore its         *)
(* dependencies, build, check the output, store the artifact.              *)
(*                                                                         *)
(* Row for row the repository repeats that of the assessments, so the      *)
(* transactions are those of AssessmentQueue.  What is new is a row's      *)
(* result, an engine of several effects that may well run longer than the  *)
(* five minutes after which its claim lapses, and the artifact it leaves   *)
(* before the row is decided.                                              *)
(*                                                                         *)
(* An artifact is named by the claim it was built under, since an engine   *)
(* run makes at most one; of its bytes the model keeps whether they were   *)
(* built from the source that was scanned and whether the content check    *)
(* passes them.                                                            *)
(***************************************************************************)
EXTENDS Naturals, Sequences, FiniteSets

CONSTANTS
  Worker,        \* build worker processes
  Build,         \* row identities
  Key,           \* (company, application, idempotency key) of a registered application
  NoKey,         \* the key of a row that is not stored
  NoWorker,      \* locked_by is null
  NoJob,         \* an idle worker's build
  NoArtifact,    \* result is null
  MaxAttempts,   \* bound: a claim is lost or overdue only below this many attempts
  MaxFaults      \* bound: database calls that fail or whose reply is lost

Artifact == [build : Build, claim : Nat, source : {"original", "modified"},
             content : {"clean", "unsafe"}]

ASSUME Sentinels ==
  /\ NoKey \notin Key
  /\ NoWorker \notin Worker
  /\ NoJob \notin Build
  /\ NoArtifact \notin Artifact
ASSUME Bounds == MaxAttempts \in Nat /\ MaxFaults \in Nat

\* The builds table, its workers and their history: see AssessmentQueue.
VARIABLES status, key, createdAt, attempts, lockedBy, overdue, audit, clock,
          pc, job, attempt, faults, answers, engineRuns, writeFaults, lapses

VARIABLES
  result,        \* builds.result: the artifact it names
  stage,         \* where the engine run of each worker stands
  workspace,     \* the source files in its temporary directory
  draft,         \* the artifact it has produced
  approved,      \* (build, claim) whose source scan approved
  store          \* the artifacts under the store's root

Queue == INSTANCE AssessmentQueue WITH Assessment <- Build

queue == <<status, key, createdAt, attempts, lockedBy, overdue, audit, clock, pc, job,
           attempt, faults, answers, engineRuns, writeFaults, lapses>>
engine == <<stage, workspace, draft, approved, store>>
vars == <<queue, result, engine>>

TypeOK ==
  /\ Queue!TypeOK
  /\ result \in [Build -> Artifact \cup {NoArtifact}]
  /\ stage \in [Worker -> {"none", "acquiring", "scanning", "restoring", "building",
                           "checking", "publishing"}]
  /\ workspace \in [Worker -> {"original", "modified"}]
  /\ draft \in [Worker -> Artifact \cup {NoArtifact}]
  /\ approved \subseteq Build \X Nat
  /\ store \subseteq Artifact

Init ==
  /\ Queue!Init
  /\ result = [b \in Build |-> NoArtifact]
  /\ stage = [w \in Worker |-> "none"]
  /\ workspace = [w \in Worker |-> "original"]
  /\ draft = [w \in Worker |-> NoArtifact]
  /\ approved = {}
  /\ store = {}

-----------------------------------------------------------------------------
(***************************************************************************)
(* One engine run.                                                         *)
(***************************************************************************)
Goto(w, s) == stage' = [stage EXCEPT ![w] = s]

Claim(w, b) ==
  /\ Queue!ClaimNext(w, b)
  /\ Goto(w, "acquiring")
  /\ UNCHANGED <<result, workspace, draft, approved, store>>

\* A checkout of the revision becomes the immutable source artifact.
Acquire(w) ==
  /\ stage[w] = "acquiring"
  /\ Goto(w, "scanning")
  /\ UNCHANGED <<queue, result, workspace, draft, approved, store>>

\* scanSource returns evidence only for an approved source.
ScanSource(w) ==
  /\ stage[w] = "scanning"
  /\ approved' = approved \cup {<<job[w], attempt[w]>>}
  /\ Goto(w, "restoring")
  /\ UNCHANGED <<queue, result, workspace, draft, store>>

\* The package manager runs with write access to the source files.
Restore(w) ==
  /\ stage[w] = "restoring"
  /\ workspace' \in {[workspace EXCEPT ![w] = s] : s \in {"original", "modified"}}
  /\ Goto(w, "building")
  /\ UNCHANGED <<queue, result, draft, approved, store>>

\* Mutant: the source is not hashed again.
SourceIsIntactAlways(w) == TRUE

\* sourceArtifactDigest of the files read back is that of the source artifact.
SourceIsIntact(w) == workspace[w] = "original"

\* The networkless build; createBuildArtifact of what it put into the output directory.
BuildOutput(w) ==
  /\ stage[w] = "building"
  /\ SourceIsIntact(w)
  /\ \E c \in {"clean", "unsafe"} :
       draft' = [draft EXCEPT ![w] = [build |-> job[w], claim |-> attempt[w],
                                      source |-> workspace[w], content |-> c]]
  /\ Goto(w, "checking")
  /\ UNCHANGED <<queue, result, workspace, approved, store>>

CheckOutput(w) ==
  /\ stage[w] = "checking"
  /\ draft[w].content = "clean"
  /\ Goto(w, "publishing")
  /\ UNCHANGED <<queue, result, workspace, draft, approved, store>>

\* put() renames a complete file into place.
Put(w) == store' = store \cup {draft[w]}

\* Mutant: the engine returns before put() has stored the artifact.
PublishLater(w) ==
  /\ stage[w] = "publishing"
  /\ Queue!EngineReturns(w)
  /\ Goto(w, "none")
  /\ UNCHANGED <<result, workspace, draft, approved, store>>

Publish(w) ==
  /\ stage[w] = "publishing"
  /\ Put(w)
  /\ Queue!EngineReturns(w)
  /\ Goto(w, "none")
  /\ UNCHANGED <<result, workspace, draft, approved>>

\* The run's temporary files are gone and its artifact forgotten.
Forget(w) ==
  /\ Goto(w, "none")
  /\ draft' = [draft EXCEPT ![w] = NoArtifact]
  /\ workspace' = [workspace EXCEPT ![w] = "original"]
  /\ UNCHANGED approved

\* Mutant: a build step that found modified source neither fails nor ends.
EngineThrowsUnlessModified(w) ==
  /\ stage[w] # "none"
  /\ SourceIsIntact(w)
  /\ Queue!EngineThrows(w)
  /\ Forget(w)
  /\ UNCHANGED <<result, store>>

\* Any call of the run throws, put() perhaps after its rename.
EngineThrows(w) ==
  /\ stage[w] # "none"
  /\ Queue!EngineThrows(w)
  /\ Forget(w)
  /\ UNCHANGED store \/ (stage[w] = "publishing" /\ Put(w))
  /\ UNCHANGED result

-----------------------------------------------------------------------------
(***************************************************************************)
(* The verdict.                                                            *)
(***************************************************************************)

\* finish(id, 'completed', result)
RecordResult(w) == result' = [result EXCEPT ![job[w]] = draft[w]] /\ Forget(w)

\* finish(id, 'failed', null)
RecordFailure(w) == result' = [result EXCEPT ![job[w]] = NoArtifact] /\ Forget(w)

\* Mutant: the result is written before the update is seen to match no row.
RecordRejected(w) == RecordResult(w)

\* numUpdatedRows is 0
RecordNothing(w) == UNCHANGED result /\ Forget(w)

Finish(w) ==
  /\ \/ Queue!CompleteCommits(w) /\ RecordResult(w)
     \/ Queue!CompleteRejected(w) /\ RecordNothing(w)
     \/ Queue!FailCommits(w) /\ RecordFailure(w)
     \/ Queue!FailRejected(w) /\ RecordNothing(w)
  /\ UNCHANGED store

\* A database call fails, or its reply is lost.
FinishFaults(w) ==
  /\ \/ Queue!CompleteUnconfirmed(w) /\ RecordResult(w)
     \/ (Queue!CompleteErrors(w) \/ Queue!FailErrors(w)) /\ RecordNothing(w)
  /\ UNCHANGED store

\* The process dies, in the middle of an engine run or between two calls.
Crash(w) ==
  /\ Queue!Crash(w)
  /\ Forget(w)
  /\ UNCHANGED <<result, store>>

-----------------------------------------------------------------------------
Tick(w) ==
  \/ \E b \in Build : Claim(w, b)
  \/ Acquire(w) \/ ScanSource(w) \/ Restore(w) \/ BuildOutput(w) \/ CheckOutput(w)
  \/ Publish(w) \/ EngineThrows(w)
  \/ Finish(w)

\* Submissions and the passing of time do not touch the engine.
Outside ==
  /\ \/ \E k \in Key : Queue!SubmitAgain(k)
     \/ \E k \in Key, b \in Build : Queue!SubmitNew(k, b)
     \/ \E b \in Build : Queue!ClaimLapses(b)
  /\ UNCHANGED <<result, engine>>

Next == Outside \/ \E w \in Worker : Tick(w) \/ FinishFaults(w) \/ Crash(w)

\* As in AssessmentQueue; every subprocess of the engine has a timeout.
Fairness ==
  /\ \A w \in Worker : WF_vars(Tick(w))
  /\ \A b \in Build : WF_vars(Queue!ClaimLapses(b) /\ UNCHANGED <<result, engine>>)

Spec == Init /\ [][Next]_vars /\ Fairness

-----------------------------------------------------------------------------
(***************************************************************************)
(* Properties.                                                             *)
(***************************************************************************)

\* The builds keep the discipline of the assessments, fairness included, however long
\* an engine runs and wherever it fails: all that AssessmentQueue promises of a row
\* holds of a build, and every stored build is decided.
ImplementsQueue == Queue!Spec

\* A completed build names an artifact of its own that is in the store, whichever of
\* several workers completed it and whatever replies were lost; no other build names one.
CompletedHasArtifact ==
  \A b \in Build :
    IF status[b] = "completed"
    THEN result[b] \in store /\ result[b].build = b
    ELSE result[b] = NoArtifact

\* Every stored artifact, named or not, was built from exactly the source that its run's
\* scan approved and passed the content check (README.md:63, 77).
StoredIsApproved ==
  \A a \in store :
    <<a.build, a.claim>> \in approved /\ a.source = "original" /\ a.content = "clean"

\* What a release may copy from a build does not change under it: a verdict keeps its
\* result, also when a worker that lost its claim finishes later with another artifact.
ResultIsFinal ==
  [][\A b \in Build :
       status[b] \in Queue!Verdict => result'[b] = result[b]]_vars

=============================================================================
