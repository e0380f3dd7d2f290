---------------------------- MODULE ScannerCache ----------------------------
(***************************************************************************)
(* The shared vulnerability database of the Trivy scanner: withScannerCache*)
(* and the scan it protects, TrivySupplyChainScanner.scanLocked.           *)
(*                                                                         *)
(* Scans run in any number of worker processes.  The lock is a directory;  *)
(* whoever creates it holds it, and a process that dies leaves it behind   *)
(* for an operator.  The scanner itself runs in a container that outlives  *)
(* the docker call that started it if that call is killed by its timeout.  *)
(*                                                                         *)
(* A report is reduced to its decision; time to whether the deadline of a  *)
(* waiting scan has passed.                                                *)
(***************************************************************************)
EXTENDS Naturals

CONSTANTS
  Scan,          \* calls of scan(), each in some worker process
  NoScan,        \* the lock directory does not exist
  MaxStrays,     \* bound: containers `docker rm` does not remove
  MaxCrashes     \* bound: deaths of worker processes

ASSUME NoScanIsNone == NoScan \notin Scan
ASSUME Bounds == MaxStrays \in Nat /\ MaxCrashes \in Nat

VARIABLES
  pc,         \* where each scan stands
  lock,       \* the scan whose process created .vcp-scan-lock
  container,  \* whether the container vcp-scan-<id> runs
  report,     \* what the docker call of each scan returned
  evidence,   \* the evidence file of each scan
  strays,     \* containers left behind so far
  crashes     \* deaths so far

vars == <<pc, lock, container, report, evidence, strays, crashes>>

Decision == {"approved", "rejected"}

TypeOK ==
  /\ pc \in [Scan -> {"idle", "waiting", "starting", "running", "removing", "judging",
                      "releasing", "approved", "denied", "dead"}]
  /\ lock \in Scan \cup {NoScan}
  /\ container \in [Scan -> BOOLEAN]
  /\ report \in [Scan -> Decision \cup {"none", "error"}]
  /\ evidence \in [Scan -> Decision \cup {"none"}]
  /\ strays \in Nat
  /\ crashes \in Nat

Init ==
  /\ pc = [s \in Scan |-> "idle"]
  /\ lock = NoScan
  /\ container = [s \in Scan |-> FALSE]
  /\ report = [s \in Scan |-> "none"]
  /\ evidence = [s \in Scan |-> "none"]
  /\ strays = 0
  /\ crashes = 0

Go(s, position) == pc' = [pc EXCEPT ![s] = position]

\* Positions at which the scan's process holds the lock.
Holding == {"starting", "running", "removing", "judging", "releasing"}

-----------------------------------------------------------------------------
(***************************************************************************)
(* withScannerCache.                                                       *)
(***************************************************************************)
Request(s) ==
  /\ pc[s] = "idle"
  /\ Go(s, "waiting")
  /\ UNCHANGED <<lock, container, report, evidence, strays, crashes>>

\* Mutant: a lock whose process is dead is stolen.
LockableIfDead == \A s \in Scan : lock = s => pc[s] = "dead"

\* mkdir fails with EEXIST while the directory exists.
Lockable == lock = NoScan

Acquire(s) ==
  /\ pc[s] = "waiting"
  /\ Lockable
  /\ lock' = s
  /\ Go(s, "starting")
  /\ UNCHANGED <<container, report, evidence, strays, crashes>>

\* Mutant: the scan waits for the lock without a deadline.
GiveUpNever(s) == FALSE

\* The deadline passes while the directory exists, or it cannot be created.
GiveUp(s) ==
  /\ pc[s] = "waiting"
  /\ Go(s, "denied")
  /\ UNCHANGED <<lock, container, report, evidence, strays, crashes>>

\* Mutant: the evidence is published after the decision is returned.
ReleaseApproves(s) ==
  /\ pc[s] = "releasing"
  /\ lock' = NoScan
  /\ Go(s, IF report[s] = "approved" THEN "approved" ELSE "denied")
  /\ UNCHANGED <<container, report, evidence, strays, crashes>>

\* The finally block removes the directory, then the scan returns or throws.
Release(s) ==
  /\ pc[s] = "releasing"
  /\ lock' = NoScan
  /\ Go(s, IF evidence[s] = "approved" THEN "approved" ELSE "denied")
  /\ UNCHANGED <<container, report, evidence, strays, crashes>>

-----------------------------------------------------------------------------
(***************************************************************************)
(* scanLocked.                                                             *)
(***************************************************************************)
StartContainer(s) ==
  /\ pc[s] = "starting"
  /\ container' = [container EXCEPT ![s] = TRUE]
  /\ Go(s, "running")
  /\ UNCHANGED <<lock, report, evidence, strays, crashes>>

\* docker run --rm returns: the container has exited.
RunReturns(s) ==
  /\ pc[s] = "running"
  /\ container' = [container EXCEPT ![s] = FALSE]
  /\ \E r \in Decision \cup {"error"} : report' = [report EXCEPT ![s] = r]
  /\ Go(s, "removing")
  /\ UNCHANGED <<lock, evidence, strays, crashes>>

\* The docker call is killed; its container may run on.
RunTimesOut(s) ==
  /\ pc[s] = "running"
  /\ report' = [report EXCEPT ![s] = "error"]
  /\ Go(s, "removing")
  /\ UNCHANGED <<lock, container, evidence, strays, crashes>>

\* The finally block over, the error is thrown on or the output judged.
AfterRun(s) == IF report[s] = "error" THEN "releasing" ELSE "judging"

\* docker rm -f in the finally block
Remove(s) ==
  /\ pc[s] = "removing"
  /\ container' = [container EXCEPT ![s] = FALSE]
  /\ Go(s, AfterRun(s))
  /\ UNCHANGED <<lock, report, evidence, strays, crashes>>

\* Its failure is swallowed.
RemoveFails(s) ==
  /\ pc[s] = "removing"
  /\ container[s]
  /\ strays < MaxStrays
  /\ strays' = strays + 1
  /\ Go(s, AfterRun(s))
  /\ UNCHANGED <<lock, container, report, evidence, crashes>>

\* The report is written under a temporary name and renamed, whatever it says.
Publish(s) ==
  /\ pc[s] = "judging"
  /\ evidence' = [evidence EXCEPT ![s] = report[s]]
  /\ Go(s, "releasing")
  /\ UNCHANGED <<lock, container, report, strays, crashes>>

\* The output is malformed or too large, or the file cannot be written.
PublishFails(s) ==
  /\ pc[s] = "judging"
  /\ Go(s, "releasing")
  /\ UNCHANGED <<lock, container, report, evidence, strays, crashes>>

-----------------------------------------------------------------------------
(***************************************************************************)
(* Outside the scan.                                                       *)
(***************************************************************************)

\* A container that lost its docker call ends by itself (trivy --timeout).
ContainerExits(s) ==
  /\ container[s]
  /\ container' = [container EXCEPT ![s] = FALSE]
  /\ UNCHANGED <<pc, lock, report, evidence, strays, crashes>>

Die(s) ==
  /\ pc[s] \in {"waiting"} \cup Holding
  /\ crashes < MaxCrashes
  /\ crashes' = crashes + 1
  /\ Go(s, "dead")
  /\ UNCHANGED <<lock, container, report, evidence, strays>>

\* What the operator verifies before removing the directory.
Abandoned == lock # NoScan /\ pc[lock] = "dead" /\ ~container[lock]

OperatorUnlocks ==
  /\ Abandoned
  /\ lock' = NoScan
  /\ UNCHANGED <<pc, container, report, evidence, strays, crashes>>

-----------------------------------------------------------------------------
Proceed(s) ==
  \/ Acquire(s) \/ GiveUp(s) \/ StartContainer(s)
  \/ RunReturns(s) \/ RunTimesOut(s)
  \/ Remove(s) \/ RemoveFails(s)
  \/ Publish(s) \/ PublishFails(s) \/ Release(s)

Next ==
  \/ \E s \in Scan : Request(s) \/ Proceed(s) \/ ContainerExits(s) \/ Die(s)
  \/ OperatorUnlocks

\* The process runs, and every call of it and every wait has a deadline.
Fairness == \A s \in Scan : WF_vars(Proceed(s))

Spec == Init /\ [][Next]_vars /\ Fairness

-----------------------------------------------------------------------------
(***************************************************************************)
(* Properties.                                                             *)
(***************************************************************************)

\* One scanner container at a time has the cache mounted, whoever died or was
\* killed, as long as docker removes what it is asked to remove.
CacheIsExclusive ==
  strays = 0 => \A s, t \in Scan : container[s] /\ container[t] => s = t

\* A scan is approved only with complete evidence on disk that says so: a report that
\* could not be kept approves nothing (README.md:77).
ApprovalHasEvidence ==
  \A s \in Scan :
    pc[s] = "approved" => evidence[s] = "approved" /\ report[s] = "approved"

\* A scan that waits for a lock nobody gives up ends all the same, unapproved.
ScanEnds ==
  \A s \in Scan : pc[s] = "waiting" ~> pc[s] \in {"approved", "denied", "dead"}
=============================================================================
