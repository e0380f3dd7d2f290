---------------------------- MODULE DemoPipeline ----------------------------
(***************************************************************************)
(* The delivery pipeline of one application: DemoPipelineService.dispatch  *)
(* and .list, the rows of demo_pipeline_runs, and the GitHub workflows the *)
(* rows stand for.                                                         *)
(*                                                                         *)
(* Requests and portal pages are concurrent HTTP calls.  Between two       *)
(* awaits of one of them the others, and GitHub, may do anything.  A call  *)
(* of GitHub may fail before or after it took effect; a request may die    *)
(* anywhere, its POST still on its way.                                    *)
(*                                                                         *)
(* A row is named by its idempotency key, which is unique.  Its status and *)
(* conclusion are one value: "success" and "failure" are `completed`.      *)
(***************************************************************************)
EXTENDS Naturals, FiniteSets

CONSTANTS
  Request,       \* concurrent dispatch calls
  Viewer,        \* concurrent list calls: portal pages that poll
  Run,           \* rows of demo_pipeline_runs, named by idempotency key
  NoRun,         \* no build, no stage row, nothing being refreshed
  HistoryLimit,  \* how many rows list() returns, newest first
  MaxRaced,      \* bound: other rows stored when a call begins beside another
  MaxFaults      \* bound: failing reads of a polling page

ASSUME NoRunIsNoRow == NoRun \notin Run
ASSUME CallsDiffer == Request \cap Viewer = {}
ASSUME Bounds ==
  HistoryLimit \in Nat \ {0} /\ MaxRaced \in Nat /\ MaxFaults \in Nat

VARIABLES
  status,    \* record.status and record.conclusion, "absent" before the insert
  linked,    \* whether record.runId is known
  kind,      \* record.kind, "none" before the insert
  build,     \* record.buildId
  order,     \* place of the row in created_at order, 0 before the insert
  remote,    \* the GitHub workflow run that carries the row's id in its title
  listed,    \* rows whose workflow run GitHub's search already returns
  posts,     \* how many dispatch POSTs have been sent for the row
  pc,        \* where each call stands
  command,   \* key, kind and build of each dispatch call
  subject,   \* the row each call is refreshing
  staged,    \* the latest Stage row of a Prod call's snapshot
  known,     \* those of the two that had a runId in the call's snapshot
  got,       \* what the call read from GitHub, or its POST's answer
  faults     \* failing reads so far

\* History variables of Prod deployments.
VARIABLES
  asOf,      \* how many rows were stored when each Prod call took its snapshot
  judgedAt   \* judgedAt[r]: the same of the call that stored row r

row == <<status, linked, kind, build, order, judgedAt>>
github == <<remote, listed, posts>>
call == <<pc, command, subject, known, staged, got, asOf>>
vars == <<row, github, call, faults>>

Call == Request \cup Viewer
Kind == {"build", "stage", "prod"}
Conclusion == {"success", "failure"}
Stored == {r \in Run : status[r] # "absent"}

Command == [key : Run \cup {NoRun}, kind : Kind \cup {"none"}, build : Run \cup {NoRun}]
NoCommand == [key |-> NoRun, kind |-> "none", build |-> NoRun]

RemoteStatus == {"queued", "in_progress"} \cup Conclusion

TypeOK ==
  /\ status \in [Run -> {"absent", "dispatching"} \cup RemoteStatus]
  /\ linked \in [Run -> BOOLEAN]
  /\ kind \in [Run -> Kind \cup {"none"}]
  /\ build \in [Run -> Run \cup {NoRun}]
  /\ order \in [Run -> Nat]
  /\ remote \in [Run -> {"none", "requested", "refused"} \cup RemoteStatus]
  /\ listed \in SUBSET Run
  /\ posts \in [Run -> Nat]
  /\ pc \in [Call -> {"idle", "reading", "writing", "reserving", "posting",
                      "awaiting", "confirming"}]
  /\ command \in [Call -> Command]
  /\ subject \in [Call -> Run \cup {NoRun}]
  /\ known \in [Call -> SUBSET Run]
  /\ staged \in [Call -> Run \cup {NoRun}]
  /\ got \in [Call -> RemoteStatus \cup {"nothing", "id", "no id"}]
  /\ asOf \in [Call -> Nat]
  /\ judgedAt \in [Run -> Nat]
  /\ faults \in Nat

Init ==
  /\ status = [r \in Run |-> "absent"]
  /\ linked = [r \in Run |-> FALSE]
  /\ kind = [r \in Run |-> "none"]
  /\ build = [r \in Run |-> NoRun]
  /\ order = [r \in Run |-> 0]
  /\ remote = [r \in Run |-> "none"]
  /\ listed = {}
  /\ posts = [r \in Run |-> 0]
  /\ pc = [c \in Call |-> "idle"]
  /\ command = [c \in Call |-> NoCommand]
  /\ subject = [c \in Call |-> NoRun]
  /\ known = [c \in Call |-> {}]
  /\ staged = [c \in Call |-> NoRun]
  /\ got = [c \in Call |-> "nothing"]
  /\ asOf = [c \in Call |-> 0]
  /\ judgedAt = [r \in Run |-> 0]
  /\ faults = 0

-----------------------------------------------------------------------------
(***************************************************************************)
(* The store.                                                              *)
(***************************************************************************)

\* activeRun
Active(r) == status[r] \notin {"absent"} \cup Conclusion

\* order by created_at desc limit HistoryLimit
Listing ==
  {r \in Stored :
     Cardinality({s \in Stored : order[s] > order[r]}) < HistoryLimit}

\* update .. where id = $1 and active
Updatable(r) == Active(r)

Update(r, s, id) ==
  /\ IF Updatable(r)
     THEN /\ status' = [status EXCEPT ![r] = s]
          /\ linked' = [linked EXCEPT ![r] = id]
     ELSE UNCHANGED <<status, linked>>
  /\ UNCHANGED <<kind, build, order, judgedAt>>

-----------------------------------------------------------------------------
(***************************************************************************)
(* Calls.                                                                  *)
(***************************************************************************)

\* What a call keeps of its snapshot of the rows: the row it refreshes first, the
\* Stage row it refreshes next, and which of the two had a runId.
BeginCall(c, cmd, first, stage) ==
  /\ command' = [command EXCEPT ![c] = cmd]
  /\ subject' = [subject EXCEPT ![c] = first]
  /\ staged' = [staged EXCEPT ![c] = stage]
  /\ known' = [known EXCEPT ![c] = {r \in Run \cap {first, stage} : linked[r]}]
  /\ got' = [got EXCEPT ![c] = "nothing"]
  /\ asOf' = [asOf EXCEPT ![c] = IF cmd.kind = "prod" THEN Cardinality(Stored) ELSE 0]

\* Nothing of what was read of the snapshot is used any more.
Forget(c) ==
  /\ subject' = [subject EXCEPT ![c] = NoRun]
  /\ known' = [known EXCEPT ![c] = {}]
  /\ staged' = [staged EXCEPT ![c] = NoRun]
  /\ got' = [got EXCEPT ![c] = "nothing"]

\* The call returns or throws; what it stored stays.
EndCall(c) ==
  /\ pc' = [pc EXCEPT ![c] = "idle"]
  /\ command' = [command EXCEPT ![c] = NoCommand]
  /\ asOf' = [asOf EXCEPT ![c] = 0]
  /\ Forget(c)

\* The evidence is in.
Proceed(c) ==
  /\ pc' = [pc EXCEPT ![c] = "reserving"]
  /\ Forget(c)
  /\ UNCHANGED <<command, asOf>>

Goto(c, step) ==
  /\ pc' = [pc EXCEPT ![c] = step]
  /\ UNCHANGED <<command, subject, known, staged, asOf>>

\* Mutant: only rows whose runId is known are polled.
PollableLinked(r) == Active(r) /\ linked[r]

\* activeRun(run) ? this.refresh(run) : run
Pollable(r) == Active(r)

\* list(): the active row of the listing is refreshed; there is at most one.
Poll(v) ==
  /\ pc[v] = "idle"
  /\ \E r \in Listing : Pollable(r) /\ BeginCall(v, NoCommand, r, NoRun)
  /\ pc' = [pc EXCEPT ![v] = "reading"]
  /\ UNCHANGED <<row, github, faults>>

\* Mutant: any Stage row of the listing will do.
AnyStage ==
  LET stages == {r \in Listing : kind[r] = "stage"} IN
  IF stages = {} THEN {NoRun} ELSE stages

\* records.find(run => run.kind === "stage"), newest first
LatestStage ==
  LET stages == {r \in Listing : kind[r] = "stage"} IN
  IF stages = {} THEN {NoRun}
  ELSE {r \in stages : \A s \in stages : order[s] <= order[r]}

\* dispatch() of a key that the listing holds, with the command it was used for:
\* its row is refreshed.  With another command 409 is thrown.
DispatchAgain(q, r) ==
  /\ r \in Listing
  /\ BeginCall(q, [key |-> r, kind |-> kind[r], build |-> build[r]], r, NoRun)
  /\ pc' = [pc EXCEPT ![q] = "reading"]
  /\ UNCHANGED <<row, github, faults>>

\* dispatch() of a build: it needs no evidence.
DispatchBuild(q, r) ==
  /\ r \notin Listing
  /\ BeginCall(q, [key |-> r, kind |-> "build", build |-> NoRun], NoRun, NoRun)
  /\ pc' = [pc EXCEPT ![q] = "reserving"]
  /\ UNCHANGED <<row, github, faults>>

\* dispatch() of a deployment: the build it names is refreshed first.  The stage
\* row is found in the snapshot taken here, and looked at after the build.
DispatchDeployment(q, r, k, b) ==
  /\ r \notin Listing
  /\ b \in Listing /\ kind[b] = "build"
  /\ \E s \in (IF k = "prod" THEN LatestStage ELSE {NoRun}) :
       BeginCall(q, [key |-> r, kind |-> k, build |-> b], b, s)
  /\ pc' = [pc EXCEPT ![q] = "reading"]
  /\ UNCHANGED <<row, github, faults>>

\* (Bound: beside another call, one begins only for a row that is not completed.)
Dispatch(q) ==
  /\ pc[q] = "idle"
  /\ \E r \in Run :
       /\ \/ \A c \in Request : pc[c] = "idle"
          \/ Cardinality(Stored \ {r}) <= MaxRaced /\ status[r] \notin Conclusion
       /\ \/ DispatchAgain(q, r)
          \/ DispatchBuild(q, r)
          \/ \E k \in {"stage", "prod"}, b \in Run : DispatchDeployment(q, r, k, b)

-----------------------------------------------------------------------------
(***************************************************************************)
(* refresh(): read the workflow run, then store what was read.             *)
(***************************************************************************)

Created(r) == remote[r] \in RemoteStatus

\* A run is read by its id, or searched by its title: the search lags.
Visible(c, r) == Created(r) /\ (r \in known[c] \/ r \in listed)

\* Mutant: without an id, some workflow run that the search returns is taken.
ReadLatest(c) ==
  /\ pc[c] = "reading"
  /\ \E r \in Run :
       /\ Visible(c, r)
       /\ subject[c] \in known[c] => r = subject[c]
       /\ got' = [got EXCEPT ![c] = remote[r]]
  /\ Goto(c, "writing")
  /\ UNCHANGED <<row, github, faults>>

Read(c) ==
  /\ pc[c] = "reading"
  /\ Visible(c, subject[c])
  /\ got' = [got EXCEPT ![c] = remote[subject[c]]]
  /\ Goto(c, "writing")
  /\ UNCHANGED <<row, github, faults>>

\* No run carries the title yet: nothing is stored, the row is returned as it was
\* read (which is active, for a completed row has its runId), and a dispatch that
\* wanted it as evidence is refused.
ReadNothing(c) ==
  /\ pc[c] = "reading"
  /\ ~ Visible(c, subject[c])
  /\ EndCall(c)
  /\ UNCHANGED <<row, github, faults>>

\* status === "completed" && conclusion === "success"
Evidence(s) == s = "success"

\* stage && stage.buildId === build.id
StageMatches(q) == staged[q] # NoRun /\ build[staged[q]] = command[q].build

\* The refreshed row is what the caller wanted: return it.
WriteAndReturn(c) ==
  /\ pc[c] = "writing"
  /\ c \in Viewer \/ subject[c] = command[c].key
  /\ Update(subject[c], got[c], TRUE)
  /\ EndCall(c)
  /\ UNCHANGED <<github, faults>>

\* The refreshed row is the build.  That its artifact exists is asked of GitHub
\* next: a missing one, like any failing call, is Abandon.
WriteAndJudgeBuild(q) ==
  /\ pc[q] = "writing"
  /\ subject[q] = command[q].build
  /\ Update(subject[q], got[q], TRUE)
  /\ \/ /\ Evidence(got[q]) /\ command[q].kind = "stage"
        /\ Proceed(q)
     \/ /\ Evidence(got[q]) /\ command[q].kind = "prod" /\ StageMatches(q)
        /\ pc' = [pc EXCEPT ![q] = "reading"]
        /\ subject' = [subject EXCEPT ![q] = staged[q]]
        /\ UNCHANGED <<command, known, staged, got, asOf>>
     \/ /\ ~ Evidence(got[q]) \/ (command[q].kind = "prod" /\ ~ StageMatches(q))
        /\ EndCall(q)
  /\ UNCHANGED <<github, faults>>

\* Mutant: the Stage deployment's conclusion is not looked at.
WriteStageUnjudged(q) ==
  /\ pc[q] = "writing"
  /\ subject[q] = staged[q]
  /\ Update(subject[q], got[q], TRUE)
  /\ Proceed(q)
  /\ UNCHANGED <<github, faults>>

\* The refreshed row is the Stage deployment.
WriteAndJudgeStage(q) ==
  /\ pc[q] = "writing"
  /\ subject[q] = staged[q]
  /\ Update(subject[q], got[q], TRUE)
  /\ \/ Evidence(got[q]) /\ Proceed(q)
     \/ ~ Evidence(got[q]) /\ EndCall(q)
  /\ UNCHANGED <<github, faults>>

-----------------------------------------------------------------------------
(***************************************************************************)
(* The rest of dispatch().                                                 *)
(***************************************************************************)

\* Mutant: no unique index on the active rows of an application.
ReservableIfNew(r) == status[r] = "absent"

\* The two unique indexes: one row per key, one active row per application.
Reservable(r) == status[r] = "absent" /\ \A s \in Run : ~ Active(s)

\* created_at is taken and the row inserted in one step.
Reserve(q) ==
  LET r == command[q].key IN
  /\ pc[q] = "reserving"
  /\ Reservable(r)
  /\ status' = [status EXCEPT ![r] = "dispatching"]
  /\ kind' = [kind EXCEPT ![r] = command[q].kind]
  /\ build' = [build EXCEPT ![r] = command[q].build]
  /\ order' = [order EXCEPT ![r] = Cardinality(Stored) + 1]
  /\ judgedAt' = [judgedAt EXCEPT ![r] = asOf[q]]
  /\ pc' = [pc EXCEPT ![q] = "posting"]
  /\ asOf' = [asOf EXCEPT ![q] = 0]
  /\ UNCHANGED <<linked, github, command, subject, known, staged, got, faults>>

\* 23505: the row of that key is returned, or 409 is thrown.
ReserveConflicts(q) ==
  /\ pc[q] = "reserving"
  /\ ~ Reservable(command[q].key)
  /\ EndCall(q)
  /\ UNCHANGED <<row, github, faults>>

\* The POST leaves; from here on GitHub may act on it at any time.
Post(q) ==
  LET r == command[q].key IN
  /\ pc[q] = "posting"
  /\ posts' = [posts EXCEPT ![r] = @ + 1]
  /\ remote' = [remote EXCEPT ![r] = IF @ = "none" THEN "requested" ELSE @]
  /\ Goto(q, "awaiting")
  /\ UNCHANGED <<row, listed, got, faults>>

\* The answer arrives, with the workflow run's id or without one.
PostAnswered(q) ==
  /\ pc[q] = "awaiting"
  /\ Created(command[q].key)
  /\ \E answer \in {"id", "no id"} : got' = [got EXCEPT ![q] = answer]
  /\ Goto(q, "confirming")
  /\ UNCHANGED <<row, github, faults>>

\* update(dispatched): the row as this call knows it, which a poll may already
\* have moved on; only a completed row is safe from it.
Confirm(q) ==
  /\ pc[q] = "confirming"
  /\ Update(command[q].key, IF got[q] = "id" THEN "queued" ELSE "dispatching", got[q] = "id")
  /\ EndCall(q)
  /\ UNCHANGED <<github, faults>>

\* Mutant: a POST that fails is sent again.
AbandonRetries(q) ==
  /\ pc[q] # "idle"
  /\ IF pc[q] = "awaiting" THEN Goto(q, "posting") /\ UNCHANGED got ELSE EndCall(q)
  /\ UNCHANGED <<row, github, faults>>

\* A dispatch call throws or dies: GitHub is unreachable, answers an error or
\* nothing in time, the artifact is missing, the process stops.
Abandon(q) ==
  /\ pc[q] # "idle"
  /\ EndCall(q)
  /\ UNCHANGED <<row, github, faults>>

\* A polling page's read fails; the page will poll again.
PollFails(v) ==
  /\ pc[v] # "idle"
  /\ faults < MaxFaults
  /\ faults' = faults + 1
  /\ EndCall(v)
  /\ UNCHANGED <<row, github>>

-----------------------------------------------------------------------------
(***************************************************************************)
(* GitHub.                                                                 *)
(***************************************************************************)

\* The POST is acted on, maybe long after its sender gave up, or refused or lost.
PostArrives(r) ==
  /\ remote[r] = "requested"
  /\ \E s \in {"queued", "refused"} : remote' = [remote EXCEPT ![r] = s]
  /\ UNCHANGED <<row, listed, posts, call, faults>>

WorkflowAdvances(r) ==
  /\ \/ remote[r] = "queued" /\ remote' = [remote EXCEPT ![r] = "in_progress"]
     \/ /\ remote[r] \in {"queued", "in_progress"}
        /\ \E s \in Conclusion : remote' = [remote EXCEPT ![r] = s]
  /\ UNCHANGED <<row, listed, posts, call, faults>>

SearchCatchesUp(r) ==
  /\ Created(r) /\ r \notin listed
  /\ listed' = listed \cup {r}
  /\ UNCHANGED <<row, remote, posts, call, faults>>

-----------------------------------------------------------------------------
List(v) == Poll(v) \/ Read(v) \/ ReadNothing(v) \/ WriteAndReturn(v)

HandleDispatch(q) ==
  \/ Dispatch(q)
  \/ Read(q) \/ ReadNothing(q)
  \/ WriteAndReturn(q) \/ WriteAndJudgeBuild(q) \/ WriteAndJudgeStage(q)
  \/ Reserve(q) \/ ReserveConflicts(q)
  \/ Post(q) \/ PostAnswered(q) \/ Confirm(q)
  \/ Abandon(q)

GitHub(r) == PostArrives(r) \/ WorkflowAdvances(r) \/ SearchCatchesUp(r)

Next ==
  \/ \E q \in Request : HandleDispatch(q)
  \/ \E v \in Viewer : List(v) \/ PollFails(v)
  \/ \E r \in Run : GitHub(r)

\* A portal page polls every ten seconds and GitHub carries out what it accepted;
\* dispatch calls may stop anywhere.
Fairness ==
  /\ \A v \in Viewer : WF_vars(List(v))
  /\ \A r \in Run : WF_vars(WorkflowAdvances(r)) /\ WF_vars(SearchCatchesUp(r))

Spec == Init /\ [][Next]_vars /\ Fairness

-----------------------------------------------------------------------------
(***************************************************************************)
(* Properties.                                                             *)
(***************************************************************************)

Started(r) == remote[r] \notin {"none", "refused"}

\* The workflows GitHub may be running, in the vocabulary of Promotion.
Pipeline ==
  INSTANCE Promotion WITH
    kind <- [r \in Run |-> IF remote[r] = "none" THEN "none" ELSE kind[r]],
    build <- [r \in Run |-> IF remote[r] = "none" THEN NoRun ELSE build[r]],
    workflow <-
      [r \in Run |->
         IF remote[r] = "none" THEN "none"
         ELSE IF remote[r] \in Conclusion THEN remote[r]
         ELSE IF remote[r] = "refused" THEN "failure" ELSE "running"]

\* The pipeline keeps its promise: workflows run one at a time, are started once,
\* and are started on the evidence that Promotion asks for, however many calls
\* interleave, fail or die, and however late GitHub acts (dispatch, reserve).
ImplementsPromotion == Pipeline!Spec

\* A deployment POST is never repeated: not by a retry of the same key, not after
\* a lost answer, not by another call that raced it (dispatch, lines 180-187).
DispatchedOnce == \A r \in Run : posts[r] <= 1

\* While a workflow may be running, or its POST may still be on its way, its row
\* is active, so no other run of the application can be reserved.
WorkflowHoldsItsRow ==
  \A r \in Run :
    remote[r] \in {"requested", "queued", "in_progress"} =>
      Active(r) /\ \A s \in Run : Active(s) => s = r

\* A row never says more than GitHub does: delayed reads and late confirmations
\* leave it behind the workflow, never ahead of it, and a conclusion is the
\* workflow's own.
RecordIsTrue ==
  \A r \in Run :
    /\ status[r] \in Conclusion => remote[r] = status[r]
    /\ status[r] = "in_progress" => remote[r] \in {"in_progress"} \cup Conclusion
    /\ linked[r] => Created(r)

\* "A delayed poll must never move a completed record backwards" (update).
CompletedIsFinal ==
  [][\A r \in Run :
       status[r] \in Conclusion =>
         /\ status'[r] = status[r] /\ linked'[r] = linked[r]
         /\ kind'[r] = kind[r] /\ build'[r] = build[r]]_vars

\* Every deployment that may have reached GitHub was of a successful build, and a Prod
\* deployment of a build whose Stage deployment is successful and was the latest of all
\* Stage deployments when its call listed the rows (dispatch, lines 152 and 171).
PromotionIsGated ==
  \A r \in Run :
    Started(r) /\ kind[r] # "build" =>
      /\ kind[build[r]] = "build" /\ status[build[r]] = "success"
      /\ kind[r] = "prod" =>
           \E s \in Run :
             /\ kind[s] = "stage" /\ build[s] = build[r] /\ status[s] = "success"
             /\ order[s] <= judgedAt[r] /\ judgedAt[r] < order[r]
             /\ \A t \in Stored :
                  kind[t] = "stage" /\ order[t] <= judgedAt[r] => order[t] <= order[s]

\* Polling reconciles every workflow that GitHub created, also when the answer to
\* its POST was lost or overtaken: its row is eventually completed.
WorkflowIsRecorded ==
  \A r \in Run : Created(r) ~> status[r] \in Conclusion
=============================================================================
