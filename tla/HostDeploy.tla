----------------------------- MODULE HostDeploy -----------------------------
(***************************************************************************)
(* deploy/demo/deploy.py: the script that replaces the Stage or the Prod   *)
(* container of one application on its host.                               *)
(*                                                                         *)
(* A run of the script is a sequence of docker calls under one file lock.  *)
(* Any of them may fail, or exceed its timeout with or without having taken*)
(* effect, and the process may die between two of them.  A container bears *)
(* the name of the run that made it; the trial on an ephemeral port and    *)
(* the replacement on the stable port have the same name.                  *)
(*                                                                         *)
(* A manifest is a member of Build; what is in it beside the revision, and *)
(* the verification of the image archive, are data: a run whose candidate  *)
(* is wrong fails before it touches a container.                           *)
(***************************************************************************)
EXTENDS Naturals

CONSTANTS
  Deployment,    \* runs of the script
  NoDeployment,  \* no receipt, no previous container
  Build,         \* release manifests
  Revision(_),   \* source_revision of a manifest
  MaxMishaps     \* bound: timeouts, failing recoveries and deaths

ASSUME NoDeploymentIsNone == NoDeployment \notin Deployment
ASSUME MishapsAreCounted == MaxMishaps \in Nat

Environment == {"stage", "prod"}

VARIABLES
  pc,           \* where each run stands; "healthy", "failed", "killed" when over
  environment,  \* its argument
  manifest,     \* its candidate
  previous,     \* the run whose container it replaces
  changed,      \* the script's flag: the stable port has been given up
  container,    \* the container of each run
  receipt,      \* state/stage.json and state/prod.json: the run that wrote it
  mishaps       \* timeouts, failing recoveries and deaths so far

script == <<pc, environment, manifest, previous, changed>>
vars == <<script, container, receipt, mishaps>>

Position == {"preparing", "trying", "probing", "discarding", "stopping", "starting",
             "verifying", "recording", "cleaning", "restoring"}

TypeOK ==
  /\ pc \in [Deployment -> Position \cup {"idle", "healthy", "failed", "killed"}]
  /\ environment \in [Deployment -> Environment]
  /\ manifest \in [Deployment -> Build]
  /\ previous \in [Deployment -> Deployment \cup {NoDeployment}]
  /\ changed \in [Deployment -> BOOLEAN]
  /\ container \in [Deployment -> {"absent", "trial", "live", "stopped"}]
  /\ receipt \in [Environment -> Deployment \cup {NoDeployment}]
  /\ mishaps \in Nat

\* What the runs will be asked to do is fixed in advance.
Init ==
  /\ pc = [d \in Deployment |-> "idle"]
  /\ environment \in [Deployment -> Environment]
  /\ manifest \in [Deployment -> Build]
  /\ previous = [d \in Deployment |-> NoDeployment]
  /\ changed = [d \in Deployment |-> FALSE]
  /\ container = [d \in Deployment |-> "absent"]
  /\ receipt = [e \in Environment |-> NoDeployment]
  /\ mishaps = 0

Running(d) == pc[d] \in Position

Go(d, position) == pc' = [pc EXCEPT ![d] = position]

\* Something went wrong that is not the candidate's doing.
Mishap == mishaps < MaxMishaps /\ mishaps' = mishaps + 1

-----------------------------------------------------------------------------
(***************************************************************************)
(* Docker and the applications.                                            *)
(***************************************************************************)

\* The container holds the stable port of its environment.
PortHolder(d, e) == container[d] = "live" /\ environment[d] = e

PortFree(e) == \A d \in Deployment : ~PortHolder(d, e)

\* What check_health can find on the stable port.
Serves(e, revision) ==
  \E d \in Deployment : PortHolder(d, e) /\ Revision(manifest[d]) = revision

\* inspect_owned: the container exists, running or not.
Owned(d) == container[d] # "absent"

\* A call on the container of d leaves it in state s.
Becomes(d, s) == container' = [container EXCEPT ![d] = s]

\* A call that raises leaves the container in state s, or, when it timed out,
\* in the state it was asked for.
Raises(d, s, asked) ==
  \/ Becomes(d, s) /\ UNCHANGED mishaps
  \/ Becomes(d, asked) /\ Mishap

-----------------------------------------------------------------------------
(***************************************************************************)
(* One run.                                                                *)
(***************************************************************************)

\* Mutant: a lock per environment.
LockFreeIn(e) == \A d \in Deployment : Running(d) => environment[d] # e

\* flock: held by a run until its process ends.
LockFree(e) == \A d \in Deployment : ~Running(d)

Begin(d) ==
  /\ pc[d] = "idle"
  /\ LockFree(environment[d])
  /\ Go(d, "preparing")
  /\ UNCHANGED <<environment, manifest, previous, changed, container, receipt, mishaps>>

\* The candidate or the secrets are refused, or another run holds the lock.
Refuse(d) ==
  /\ pc[d] = "idle"
  /\ Go(d, "failed")
  /\ UNCHANGED <<environment, manifest, previous, changed, container, receipt, mishaps>>

\* Mutant: require_stage compares revisions, not manifests.
ApprovedByRevision(b) ==
  /\ receipt["stage"] # NoDeployment
  /\ Revision(manifest[receipt["stage"]]) = Revision(b)
  /\ Owned(receipt["stage"])
  /\ Serves("stage", Revision(b))

\* require_stage, owned and health before a promotion
StageApproves(b) ==
  /\ receipt["stage"] # NoDeployment
  /\ manifest[receipt["stage"]] = b
  /\ Owned(receipt["stage"])
  /\ Serves("stage", Revision(b))

Prepare(d) ==
  /\ pc[d] = "preparing"
  /\ environment[d] = "prod" => StageApproves(manifest[d])
  /\ LET last == receipt[environment[d]]
     IN  /\ last # NoDeployment => Owned(last)
         /\ previous' = [previous EXCEPT ![d] = last]
  /\ Go(d, "trying")
  /\ UNCHANGED <<environment, manifest, changed, container, receipt, mishaps>>

\* Outside the try block: nothing to undo.
PrepareFails(d) ==
  /\ pc[d] = "preparing"
  /\ Go(d, "failed")
  /\ UNCHANGED <<environment, manifest, previous, changed, container, receipt, mishaps>>

StartTrial(d) ==
  /\ pc[d] = "trying"
  /\ \/ Go(d, "probing") /\ Becomes(d, "trial") /\ UNCHANGED mishaps
     \/ Go(d, "cleaning") /\ \E s \in {"absent", "stopped"} : Raises(d, s, "trial")
  /\ UNCHANGED <<environment, manifest, previous, changed, receipt>>

\* port, health and owned of the trial
ProbeTrial(d) ==
  /\ pc[d] = "probing"
  /\ Go(d, "discarding") \/ Go(d, "cleaning")
  /\ UNCHANGED <<environment, manifest, previous, changed, container, receipt, mishaps>>

DiscardTrial(d) ==
  /\ pc[d] = "discarding"
  /\ \/ Go(d, "stopping") /\ Becomes(d, "absent") /\ UNCHANGED mishaps
     \/ Go(d, "cleaning") /\ Raises(d, "trial", "absent")
  /\ UNCHANGED <<environment, manifest, previous, changed, receipt>>

\* Mutant: the flag is not set.
StopUnmarked(d) ==
  /\ pc[d] = "stopping"
  /\ IF previous[d] = NoDeployment THEN UNCHANGED container
                                   ELSE Becomes(previous[d], "stopped")
  /\ Go(d, "starting")
  /\ UNCHANGED <<environment, manifest, previous, changed, receipt, mishaps>>

\* The flag is set after the call.
StopPrevious(d) ==
  /\ pc[d] = "stopping"
  /\ IF previous[d] = NoDeployment THEN UNCHANGED container
                                   ELSE Becomes(previous[d], "stopped")
  /\ changed' = [changed EXCEPT ![d] = TRUE]
  /\ Go(d, "starting")
  /\ UNCHANGED <<environment, manifest, previous, receipt, mishaps>>

StopFails(d) ==
  /\ pc[d] = "stopping"
  /\ previous[d] # NoDeployment
  /\ Raises(previous[d], container[previous[d]], "stopped")
  /\ Go(d, "cleaning")
  /\ UNCHANGED <<environment, manifest, previous, changed, receipt>>

StartReplacement(d) ==
  /\ pc[d] = "starting"
  /\ PortFree(environment[d])
  /\ Go(d, "verifying")
  /\ Becomes(d, "live")
  /\ UNCHANGED <<environment, manifest, previous, changed, receipt, mishaps>>

\* Also when the port is taken: docker leaves a container that does not run.
StartFails(d) ==
  /\ pc[d] = "starting"
  /\ Go(d, "cleaning")
  /\ \E s \in {"absent", "stopped"} :
       Raises(d, s, IF PortFree(environment[d]) THEN "live" ELSE s)
  /\ UNCHANGED <<environment, manifest, previous, changed, receipt>>

VerifyReplacement(d) ==
  /\ pc[d] = "verifying"
  /\ \/ Go(d, "recording") /\ Serves(environment[d], Revision(manifest[d]))
     \/ Go(d, "cleaning")
  /\ UNCHANGED <<environment, manifest, previous, changed, container, receipt, mishaps>>

\* atomic_json, and the process ends.
Record(d) ==
  /\ pc[d] = "recording"
  /\ receipt' = [receipt EXCEPT ![environment[d]] = d]
  /\ Go(d, "healthy")
  /\ UNCHANGED <<environment, manifest, previous, changed, container, mishaps>>

RecordFails(d) ==
  /\ pc[d] = "recording"
  /\ Go(d, "cleaning")
  /\ UNCHANGED <<environment, manifest, previous, changed, container, receipt, mishaps>>

\* Mutant: a run that fails does not restore.
AfterCleanupNothing(d) == "failed"

\* The except block goes on to the previous container, or ends.
AfterCleanup(d) ==
  IF changed[d] /\ previous[d] # NoDeployment THEN "restoring" ELSE "failed"

\* A container that does not exist is nothing to remove.
CleanUp(d) ==
  /\ pc[d] = "cleaning"
  /\ Becomes(d, "absent")
  /\ Go(d, AfterCleanup(d))
  /\ UNCHANGED <<environment, manifest, previous, changed, receipt, mishaps>>

\* A docker error is passed over; a timeout leaves the except block.
CleanUpFails(d) ==
  /\ pc[d] = "cleaning"
  /\ Mishap
  /\ \/ Go(d, AfterCleanup(d)) /\ UNCHANGED container
     \/ Go(d, "failed") /\ (Becomes(d, "absent") \/ UNCHANGED container)
  /\ UNCHANGED <<environment, manifest, previous, changed, receipt>>

\* The previous container is started; whether it answers, the run failed.
Restore(d) ==
  /\ pc[d] = "restoring"
  /\ PortFree(environment[d])
  /\ Becomes(previous[d], "live")
  /\ Go(d, "failed")
  /\ UNCHANGED <<environment, manifest, previous, changed, receipt, mishaps>>

RestoreFails(d) ==
  /\ pc[d] = "restoring"
  /\ IF PortFree(environment[d]) THEN Mishap ELSE UNCHANGED mishaps
  /\ Go(d, "failed")
  /\ UNCHANGED <<environment, manifest, previous, changed, container, receipt>>

\* The process or the host dies; docker restarts the containers that ran.
Die(d) ==
  /\ Running(d)
  /\ Mishap
  /\ Go(d, "killed")
  /\ UNCHANGED <<environment, manifest, previous, changed, container, receipt>>

\* What the process does if it is let run.
Proceed(d) ==
  \/ Prepare(d) \/ PrepareFails(d)
  \/ StartTrial(d) \/ ProbeTrial(d) \/ DiscardTrial(d)
  \/ StopPrevious(d) \/ StopFails(d)
  \/ StartReplacement(d) \/ StartFails(d)
  \/ VerifyReplacement(d)
  \/ Record(d) \/ RecordFails(d)
  \/ CleanUp(d) \/ CleanUpFails(d)
  \/ Restore(d) \/ RestoreFails(d)

Next == \E d \in Deployment : Begin(d) \/ Refuse(d) \/ Proceed(d) \/ Die(d)

\* Every call of the script has a timeout, so a run that is not killed ends.
Fairness == \A d \in Deployment : WF_vars(Proceed(d))

Spec == Init /\ [][Next]_vars /\ Fairness

-----------------------------------------------------------------------------
(***************************************************************************)
(* Properties.                                                             *)
(***************************************************************************)

\* The container the receipt names holds the stable port.
Serving(e) ==
  receipt[e] # NoDeployment => PortHolder(receipt[e], e)

\* Between runs each environment is served by the container its receipt names, and
\* runs that failed have left no container: whatever step of a replacement fails, it
\* is either done or undone, unless something else went wrong too.
ReplacedOrUndone ==
  (mishaps = 0 /\ \A d \in Deployment : ~Running(d)) =>
    /\ \A e \in Environment : Serving(e)
    /\ \A d \in Deployment : pc[d] # "healthy" => container[d] = "absent"

\* Prod is recorded only for the manifest of the current Stage receipt, while Stage
\* serves that revision: no Stage run comes between the check and the record.
PromotesStage ==
  [][receipt'["prod"] # receipt["prod"] =>
       LET promoted == manifest[receipt'["prod"]]
       IN  /\ receipt["stage"] # NoDeployment
           /\ manifest[receipt["stage"]] = promoted
           /\ Serves("stage", Revision(promoted))]_vars

\* No container of Prod, not even its trial, runs a build that no Stage run found
\* healthy, whatever died or timed out.
ProdRanOnStage ==
  \A d \in Deployment :
    (environment[d] = "prod" /\ container[d] # "absent") =>
      \E s \in Deployment :
        environment[s] = "stage" /\ manifest[s] = manifest[d] /\ pc[s] = "healthy"

\* Containers that were released are kept for recovery, whatever died or timed out:
\* the one the receipt names and the ones before it.
PreviousKept ==
  \A d \in Deployment : pc[d] = "healthy" => container[d] \in {"live", "stopped"}

\* An environment that has been released does not stay unserved: the run that took it
\* down ends, with the replacement recorded or the previous container restored.
OutageEnds ==
  \A e \in Environment : []<>(Serving(e) \/ mishaps > 0)
=============================================================================
