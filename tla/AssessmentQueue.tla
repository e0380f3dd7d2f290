-------------------------- MODULE AssessmentQueue --------------------------
(***************************************************************************)
(* The durable assessment queue: AssessmentService.submit, the PostgreSQL  *)
(* repository behind it, and the AssessmentWorker processes that claim     *)
(* rows, run the engine and write the verdict.                             *)
(*                                                                         *)
(* Each repository call is one database transaction and is one step here.  *)
(* Between two calls of the same worker anything else may happen: another  *)
(* worker may reclaim the row it is working on, the process may die, the   *)
(* database may refuse a write, or commit it and lose the reply.           *)
(*                                                                         *)
(* The clock is abstracted to what claimNext reads from it: overdue[a]     *)
(* says that the row's started_at now lies more than five minutes back.    *)
(***************************************************************************)
EXTENDS Naturals, Sequences

CONSTANTS
  Worker,        \* assessment worker processes
  Assessment,    \* row identities (randomUUID never repeats one)
  Key,           \* (company, application, idempotency key) of a registered application
  NoKey,         \* the key of a row that is not stored
  NoWorker,      \* locked_by is null
  NoJob,         \* an idle worker's assessment
  MaxAttempts,   \* bound: a claim is lost or overdue only below this many attempts
  MaxFaults      \* bound: database calls that fail or whose reply is lost

ASSUME Sentinels ==
  /\ NoKey \notin Key
  /\ NoWorker \notin Worker
  /\ NoJob \notin Assessment
ASSUME Bounds == MaxAttempts \in Nat /\ MaxFaults \in Nat

VARIABLES
  status,        \* assessments.status, "absent" before the insert
  key,           \* assessments.idempotency_key
  createdAt,     \* assessments.created_at
  attempts,      \* assessments.attempts
  lockedBy,      \* assessments.locked_by
  overdue,       \* assessments.started_at < now - 5 minutes
  audit,         \* audit_events of the row, in insertion order
  clock,         \* creation instants handed out so far
  pc,            \* where each worker's tick() stands
  job,           \* the assessment each worker's tick() claimed
  attempt,       \* the attempts value claimNext returned to it
  faults         \* database faults so far

\* History variables: what callers and engines have observed.
VARIABLES
  answers,       \* answers[k]: row identities submit has returned for key k
  engineRuns,    \* engineRuns[a]: outcomes of the engine runs for a
  writeFaults,   \* assessments a finishing write of which failed or went unconfirmed
  lapses         \* lapses[a]: how often a claim of a became overdue

row == <<status, key, createdAt, attempts, lockedBy, overdue, audit>>
worker == <<pc, job, attempt>>
history == <<answers, engineRuns, writeFaults, lapses>>
vars == <<row, clock, worker, faults, history>>

Verdict == {"completed", "failed"}
Stored(k) == {a \in Assessment : status[a] # "absent" /\ key[a] = k}

TypeOK ==
  /\ status \in [Assessment -> {"absent", "queued", "running"} \cup Verdict]
  /\ key \in [Assessment -> Key \cup {NoKey}]
  /\ createdAt \in [Assessment -> Nat]
  /\ attempts \in [Assessment -> Nat]
  /\ lockedBy \in [Assessment -> Worker \cup {NoWorker}]
  /\ overdue \in [Assessment -> BOOLEAN]
  /\ audit \in [Assessment -> Seq({"queued"} \cup Verdict)]
  /\ clock \in Nat
  /\ pc \in [Worker -> {"idle", "assessing", "completing", "failing"}]
  /\ job \in [Worker -> Assessment \cup {NoJob}]
  /\ attempt \in [Worker -> Nat]
  /\ faults \in Nat
  /\ answers \in [Key -> SUBSET Assessment]
  /\ engineRuns \in [Assessment -> SUBSET {"result", "error"}]
  /\ writeFaults \in SUBSET Assessment
  /\ lapses \in [Assessment -> Nat]

Init ==
  /\ status = [a \in Assessment |-> "absent"]
  /\ key = [a \in Assessment |-> NoKey]
  /\ createdAt = [a \in Assessment |-> 0]
  /\ attempts = [a \in Assessment |-> 0]
  /\ lockedBy = [a \in Assessment |-> NoWorker]
  /\ overdue = [a \in Assessment |-> FALSE]
  /\ audit = [a \in Assessment |-> <<>>]
  /\ clock = 0
  /\ pc = [w \in Worker |-> "idle"]
  /\ job = [w \in Worker |-> NoJob]
  /\ attempt = [w \in Worker |-> 0]
  /\ faults = 0
  /\ answers = [k \in Key |-> {}]
  /\ engineRuns = [a \in Assessment |-> {}]
  /\ writeFaults = {}
  /\ lapses = [a \in Assessment |-> 0]

-----------------------------------------------------------------------------
(***************************************************************************)
(* Submission.                                                             *)
(***************************************************************************)

\* Mutant: the unique index is missing, so every submission stores a row.
NoConflict(k) == FALSE

\* insert .. on conflict (company_id, application_id, idempotency_key) do nothing
Conflicts(k) == Stored(k) # {}

\* A new row and its audit event; the reply may be lost with the connection.
SubmitNew(k, a) ==
  /\ status[a] = "absent"
  /\ ~ Conflicts(k)
  /\ status' = [status EXCEPT ![a] = "queued"]
  /\ key' = [key EXCEPT ![a] = k]
  /\ clock' = clock + 1
  /\ createdAt' = [createdAt EXCEPT ![a] = clock']
  /\ audit' = [audit EXCEPT ![a] = Append(@, "queued")]
  /\ answers' \in {answers, [answers EXCEPT ![k] = @ \cup {a}]}
  /\ UNCHANGED <<attempts, lockedBy, overdue, worker, faults,
                 engineRuns, writeFaults, lapses>>

\* The conflicting insert stores nothing and the stored row is returned.
SubmitAgain(k) ==
  /\ Conflicts(k)
  /\ \E a \in Stored(k) : answers' = [answers EXCEPT ![k] = @ \cup {a}]
  /\ UNCHANGED <<row, clock, worker, faults, engineRuns, writeFaults, lapses>>

-----------------------------------------------------------------------------
(***************************************************************************)
(* Claims.                                                                 *)
(***************************************************************************)

\* Mutant: a running row is never claimed again (no stale-claim recovery).
ClaimableQueuedOnly(a) == status[a] = "queued"

\* where status = 'queued' or (status = 'running' and started_at < stale)
Claimable(a) ==
  \/ status[a] = "queued"
  \/ status[a] = "running" /\ overdue[a]

\* order by created_at for update skip locked limit 1
NextClaim(a) ==
  /\ Claimable(a)
  /\ \A b \in Assessment : Claimable(b) => createdAt[a] <= createdAt[b]

\* started_at is rewritten, so the claim is no longer overdue.
ClaimNext(w, a) ==
  /\ pc[w] = "idle"
  /\ NextClaim(a)
  /\ status' = [status EXCEPT ![a] = "running"]
  /\ attempts' = [attempts EXCEPT ![a] = @ + 1]
  /\ lockedBy' = [lockedBy EXCEPT ![a] = w]
  /\ overdue' = [overdue EXCEPT ![a] = FALSE]
  /\ pc' = [pc EXCEPT ![w] = "assessing"]
  /\ job' = [job EXCEPT ![w] = a]
  /\ attempt' = [attempt EXCEPT ![w] = attempts'[a]]
  /\ UNCHANGED <<key, createdAt, audit, clock, faults, history>>

\* Five minutes pass after a claim, whether its worker is slow or dead.
ClaimLapses(a) ==
  /\ status[a] = "running"
  /\ ~ overdue[a]
  /\ attempts[a] < MaxAttempts
  /\ overdue' = [overdue EXCEPT ![a] = TRUE]
  /\ lapses' = [lapses EXCEPT ![a] = @ + 1]
  /\ UNCHANGED <<status, key, createdAt, attempts, lockedBy, audit, clock,
                 worker, faults, answers, engineRuns, writeFaults>>

-----------------------------------------------------------------------------
(***************************************************************************)
(* The rest of tick().                                                     *)
(***************************************************************************)

Goto(w, step) == pc' = [pc EXCEPT ![w] = step]

\* tick() ends: the worker holds nothing and its next tick may begin.
EndTick(w) ==
  /\ Goto(w, "idle")
  /\ job' = [job EXCEPT ![w] = NoJob]
  /\ attempt' = [attempt EXCEPT ![w] = 0]

EngineReturns(w) ==
  /\ pc[w] = "assessing"
  /\ Goto(w, "completing")
  /\ engineRuns' = [engineRuns EXCEPT ![job[w]] = @ \cup {"result"}]
  /\ UNCHANGED <<row, clock, job, attempt, faults, answers, writeFaults, lapses>>

EngineThrows(w) ==
  /\ pc[w] = "assessing"
  /\ Goto(w, "failing")
  /\ engineRuns' = [engineRuns EXCEPT ![job[w]] = @ \cup {"error"}]
  /\ UNCHANGED <<row, clock, job, attempt, faults, answers, writeFaults, lapses>>

\* update .. where id = $1 and status = 'running': neither locked_by nor
\* attempts is compared, so any worker that once claimed the row may finish it.
MayFinish(w) == status[job[w]] = "running"

\* The transaction of finish(): the verdict, locked_by = null, the audit event.
Finish(a, verdict) ==
  /\ status' = [status EXCEPT ![a] = verdict]
  /\ lockedBy' = [lockedBy EXCEPT ![a] = NoWorker]
  /\ audit' = [audit EXCEPT ![a] = Append(@, verdict)]
  /\ UNCHANGED <<key, createdAt, attempts, overdue>>

CompleteCommits(w) ==
  /\ pc[w] = "completing"
  /\ MayFinish(w)
  /\ Finish(job[w], "completed")
  /\ EndTick(w)
  /\ UNCHANGED <<clock, faults, history>>

\* numUpdatedRows is 0: complete() throws and the catch block calls fail().
CompleteRejected(w) ==
  /\ pc[w] = "completing"
  /\ ~ MayFinish(w)
  /\ Goto(w, "failing")
  /\ UNCHANGED <<row, clock, job, attempt, faults, history>>

\* Mutant: fail() does not require status = 'running'.
FailOverwrites(w) ==
  /\ pc[w] = "failing"
  /\ Finish(job[w], "failed")
  /\ EndTick(w)
  /\ UNCHANGED <<clock, faults, history>>

FailCommits(w) ==
  /\ pc[w] = "failing"
  /\ MayFinish(w)
  /\ Finish(job[w], "failed")
  /\ EndTick(w)
  /\ UNCHANGED <<clock, faults, history>>

\* fail() throws out of tick(); the host logs cycle_failed and ticks again.
FailRejected(w) ==
  /\ pc[w] = "failing"
  /\ ~ MayFinish(w)
  /\ EndTick(w)
  /\ UNCHANGED <<row, clock, faults, history>>

-----------------------------------------------------------------------------
(***************************************************************************)
(* Faults.                                                                 *)
(***************************************************************************)

DatabaseFault(w) ==
  /\ faults < MaxFaults
  /\ faults' = faults + 1
  /\ writeFaults' = writeFaults \cup {job[w]}
  /\ UNCHANGED <<clock, answers, engineRuns, lapses>>

\* complete() throws without committing: an obtained result is recorded failed.
CompleteErrors(w) ==
  /\ pc[w] = "completing"
  /\ DatabaseFault(w)
  /\ Goto(w, "failing")
  /\ UNCHANGED <<row, job, attempt>>

\* complete() commits but throws, so fail() is called on a completed row.
CompleteUnconfirmed(w) ==
  /\ pc[w] = "completing"
  /\ MayFinish(w)
  /\ DatabaseFault(w)
  /\ Finish(job[w], "completed")
  /\ Goto(w, "failing")
  /\ UNCHANGED <<job, attempt>>

\* fail() throws without committing: the row stays running until it is overdue.
FailErrors(w) ==
  /\ pc[w] = "failing"
  /\ attempts[job[w]] < MaxAttempts
  /\ DatabaseFault(w)
  /\ EndTick(w)
  /\ UNCHANGED row

\* The worker process dies anywhere in tick() and a new one starts.
Crash(w) ==
  /\ pc[w] # "idle"
  /\ attempts[job[w]] < MaxAttempts
  /\ EndTick(w)
  /\ UNCHANGED <<row, clock, faults, history>>

-----------------------------------------------------------------------------
Tick(w) ==
  \/ \E a \in Assessment : ClaimNext(w, a)
  \/ EngineReturns(w) \/ EngineThrows(w)
  \/ CompleteCommits(w) \/ CompleteRejected(w)
  \/ FailCommits(w) \/ FailRejected(w)

Fault(w) ==
  \/ CompleteErrors(w)
  \/ CompleteUnconfirmed(w)
  \/ FailErrors(w)
  \/ Crash(w)

Next ==
  \/ \E k \in Key : \/ SubmitAgain(k)
                    \/ \E a \in Assessment : SubmitNew(k, a)
  \/ \E a \in Assessment : ClaimLapses(a)
  \/ \E w \in Worker : Tick(w) \/ Fault(w)

\* The host's interval keeps calling tick() and the engine returns or throws;
\* time passes.  Clients need not submit and nothing need go wrong.
Fairness ==
  /\ \A w \in Worker : WF_vars(Tick(w))
  /\ \A a \in Assessment : WF_vars(ClaimLapses(a))

Safety == Init /\ [][Next]_vars
Spec == Safety /\ Fairness

-----------------------------------------------------------------------------
(***************************************************************************)
(* Properties.                                                             *)
(***************************************************************************)

Lifecycle == INSTANCE JobLifecycle WITH Job <- Assessment, Verdict <- Verdict

\* The queue implements the lifecycle every client is promised, fairness
\* included: one verdict per stored assessment, with its audit event, whatever
\* the workers, the database and the clock do.
ImplementsLifecycle == Lifecycle!Spec

\* An assessment's audit trail is exactly the one its status calls for: finish()
\* and submit() write both in one transaction, and a second finish() writes none.
AuditAgreesWithStatus ==
  \A a \in Assessment : audit[a] = Lifecycle!Trail(status[a])

\* However many clients submit under one key, and however often, one row is
\* stored and every one of them is given its identity.
OneAnswerPerKey ==
  \A k \in Key :
    /\ \A a, b \in Stored(k) : a = b
    /\ answers[k] \subseteq Stored(k)

\* A verdict is earned: "completed" only if an engine run produced a result, and
\* "failed" only if a run threw or a finishing write went wrong.  In particular
\* the late complete() of a worker that lost its claim never turns a good run
\* into a failure through the catch block.
VerdictIsEarned ==
  \A a \in Assessment :
    /\ status[a] = "completed" => "result" \in engineRuns[a]
    /\ status[a] = "failed" => "error" \in engineRuns[a] \/ a \in writeFaults

\* Every execution of an assessment after the first is paid for by a claim that
\* was left running for more than five minutes.
AttemptsArePaidFor ==
  \A a \in Assessment : attempts[a] <= lapses[a] + 1

\* Of the workers executing one assessment, each has a claim of its own, and
\* none is ahead of the row: at most one of them holds the current claim.
Busy(w) == pc[w] # "idle"
ClaimsAreDistinct ==
  \A v, w \in Worker :
    Busy(v) /\ Busy(w) /\ job[v] = job[w] =>
      /\ attempt[v] <= attempts[job[v]]
      /\ v # w => attempt[v] # attempt[w]

\* A verdict is final: no late worker, reclaim or retry rewrites it, its audit
\* trail or its number of attempts.
VerdictIsFinal ==
  [][\A a \in Assessment :
       status[a] \in Verdict =>
         /\ status'[a] = status[a]
         /\ audit'[a] = audit[a]
         /\ attempts'[a] = attempts[a]]_vars
=============================================================================
