--------------------------- MODULE JobLifecycle ---------------------------
(***************************************************************************)
(* What the platform promises about one durable job (an assessment, a      *)
(* build, a release), whoever executes it and however often: a job is      *)
(* stored once, is started, and receives exactly one verdict.  Every       *)
(* change of status is accompanied by its audit event in the same step,    *)
(* and a verdict is never revised.  Workers, claims, retries, crashes and  *)
(* database faults are invisible here: the queue modules implement this    *)
(* one.                                                                    *)
(***************************************************************************)
EXTENDS Sequences

CONSTANTS
  Job,                  \* identities a job row may take
  Verdict               \* terminal statuses; none is "absent", "queued" or "running"

VARIABLES
  status,               \* status[j]: the job row's status column
  audit                 \* audit[j]: audit actions recorded for j, in order

vars == <<status, audit>>

\* The audit trail a job has, given its status alone.
Trail(s) ==
  IF s = "absent" THEN <<>>
  ELSE IF s \in Verdict THEN <<"queued", s>>
  ELSE <<"queued">>

Init ==
  /\ status = [j \in Job |-> "absent"]
  /\ audit = [j \in Job |-> <<>>]

Store(j) ==
  /\ status[j] = "absent"
  /\ status' = [status EXCEPT ![j] = "queued"]
  /\ audit' = [audit EXCEPT ![j] = Append(@, "queued")]

Start(j) ==
  /\ status[j] = "queued"
  /\ status' = [status EXCEPT ![j] = "running"]
  /\ UNCHANGED audit

Decide(j, v) ==
  /\ status[j] = "running"
  /\ status' = [status EXCEPT ![j] = v]
  /\ audit' = [audit EXCEPT ![j] = Append(@, v)]

Next ==
  \E j \in Job :
    \/ Store(j)
    \/ Start(j)
    \/ \E v \in Verdict : Decide(j, v)

\* A stored job is not abandoned: it is started, and a started job is decided.
Fairness ==
  \A j \in Job :
    /\ WF_vars(Start(j))
    /\ WF_vars(\E v \in Verdict : Decide(j, v))

Safety == Init /\ [][Next]_vars
Spec == Safety /\ Fairness
=============================================================================
