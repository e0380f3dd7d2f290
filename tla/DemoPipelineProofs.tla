------------------------- MODULE DemoPipelineProofs -------------------------
(***************************************************************************)
(* What holds of the delivery pipeline for any set of calls and rows, any  *)
(* length of the listing and any number of failing reads.                  *)
(***************************************************************************)
EXTENDS DemoPipeline, FiniteSetTheorems, TLAPS

-----------------------------------------------------------------------------
(***************************************************************************)
(* Kinds of steps.                                                         *)
(***************************************************************************)

\* A call takes its snapshot; nothing is stored.
Begin(c) ==
  \/ c \in Viewer /\ Poll(c)
  \/ c \in Request /\ Dispatch(c)

\* A call ends without storing anything.
End(c) == ReadNothing(c) \/ ReserveConflicts(c) \/ Abandon(c) \/ PollFails(c)

\* A call stores what it read, or its POST's answer.
Write(c) ==
  \/ WriteAndReturn(c)
  \/ c \in Request /\ (WriteAndJudgeBuild(c) \/ WriteAndJudgeStage(c) \/ Confirm(c))

LEMMA StepCases ==
  ASSUME [Next]_vars
  PROVE  \/ \E c \in Call : Begin(c) \/ End(c) \/ Read(c) \/ Write(c)
         \/ \E q \in Request : Reserve(q) \/ Post(q) \/ PostAnswered(q)
         \/ \E r \in Run : GitHub(r)
         \/ UNCHANGED vars
BY DEF Next, HandleDispatch, List, Begin, End, Write, Call

-----------------------------------------------------------------------------
(***************************************************************************)
(* Type correctness.  Places in the created_at order are numbers because   *)
(* the rows stored so far are finitely many.                               *)
(***************************************************************************)
TypeInv == TypeOK /\ IsFiniteSet(Stored)

LEMMA InitTypeInv == Init => TypeInv
<1> SUFFICES ASSUME Init PROVE TypeInv
  OBVIOUS
<1>1. TypeOK
  BY DEF Init, TypeOK, NoCommand, Command
<1>2. Stored = {}
  BY DEF Init, Stored
<1> QED BY <1>1, <1>2, FS_EmptySet DEF TypeInv

\* The end of a call is well typed.
LEMMA EndCallType ==
  ASSUME TypeInv, NEW c \in Call, EndCall(c)
  PROVE  /\ pc' \in [Call -> {"idle", "reading", "writing", "reserving", "posting",
                              "awaiting", "confirming"}]
         /\ command' \in [Call -> Command]
         /\ subject' \in [Call -> Run \cup {NoRun}]
         /\ known' \in [Call -> SUBSET Run]
         /\ staged' \in [Call -> Run \cup {NoRun}]
         /\ got' \in [Call -> RemoteStatus \cup {"nothing", "id", "no id"}]
         /\ asOf' \in [Call -> Nat]
BY DEF EndCall, Forget, TypeInv, TypeOK, NoCommand, Command

\* So is its beginning, with a well-typed command and rows.
LEMMA BeginCallType ==
  ASSUME TypeInv, NEW c \in Call, NEW cmd \in Command,
         NEW first \in Run \cup {NoRun}, NEW stage \in Run \cup {NoRun},
         BeginCall(c, cmd, first, stage)
  PROVE  /\ command' \in [Call -> Command]
         /\ subject' \in [Call -> Run \cup {NoRun}]
         /\ known' \in [Call -> SUBSET Run]
         /\ staged' \in [Call -> Run \cup {NoRun}]
         /\ got' \in [Call -> RemoteStatus \cup {"nothing", "id", "no id"}]
         /\ asOf' \in [Call -> Nat]
<1>1. Cardinality(Stored) \in Nat
  BY FS_CardinalityType DEF TypeInv
<1> QED BY <1>1 DEF BeginCall, TypeInv, TypeOK

\* Storing a value of the right type keeps the rows well typed, and no row
\* appears or disappears.
LEMMA UpdateType ==
  ASSUME TypeInv, NEW r \in Run, NEW id \in BOOLEAN,
         NEW s \in {"dispatching"} \cup RemoteStatus, Update(r, s, id)
  PROVE  /\ status' \in [Run -> {"absent", "dispatching"} \cup RemoteStatus]
         /\ linked' \in [Run -> BOOLEAN]
         /\ UNCHANGED <<kind, build, order, judgedAt>>
         /\ Stored' = Stored
<1>1. Updatable(r) => status[r] # "absent"
  BY DEF Updatable, Active
<1>2. /\ status' \in [Run -> {"absent", "dispatching"} \cup RemoteStatus]
      /\ linked' \in [Run -> BOOLEAN]
      /\ UNCHANGED <<kind, build, order, judgedAt>>
  BY DEF Update, TypeInv, TypeOK
<1>3. s # "absent"
  BY DEF RemoteStatus, Conclusion
<1>4. \A x \in Run : status'[x] = "absent" <=> status[x] = "absent"
  BY <1>1, <1>3 DEF Update, TypeInv, TypeOK
<1> QED BY <1>2, <1>4 DEF Stored

\* The snapshot of a call concerns stored rows.
LEMMA ListingStored == Listing \subseteq Stored /\ Stored \subseteq Run
BY DEF Listing, Stored

\* s is the latest of the Stage rows among the first n rows.
LatestOf(s, n) ==
  /\ order[s] <= n
  /\ \A t \in Stored : kind[t] = "stage" /\ order[t] <= n => order[t] <= order[s]

OrderBound == \A r \in Stored : order[r] <= Cardinality(Stored)

\* The latest Stage row of the listing is the latest of all: rows newer than a listed
\* one are listed.
LEMMA LatestStageLatest ==
  ASSUME TypeInv, OrderBound, NEW s \in LatestStage
  PROVE  \/ s = NoRun
         \/ s \in Stored /\ kind[s] = "stage" /\ LatestOf(s, Cardinality(Stored))
<1> SUFFICES ASSUME s # NoRun
             PROVE  s \in Stored /\ kind[s] = "stage" /\ LatestOf(s, Cardinality(Stored))
  OBVIOUS
<1>1. /\ s \in Listing /\ kind[s] = "stage"
      /\ \A t \in Listing : kind[t] = "stage" => order[t] <= order[s]
  BY DEF LatestStage
<1>2. s \in Stored /\ s \in Run /\ order[s] \in Nat
  BY <1>1, ListingStored DEF TypeInv, TypeOK
<1>3. ASSUME NEW t \in Stored, kind[t] = "stage"
      PROVE  order[t] <= order[s]
  <2> DEFINE Newer(x) == {u \in Stored : order[u] > order[x]}
  <2>1. t \in Run /\ order[t] \in Nat /\ \A u \in Stored : order[u] \in Nat
    BY ListingStored DEF TypeInv, TypeOK
  <2>2. CASE order[t] > order[s]
    <3>1. Newer(t) \subseteq Newer(s)
      BY <1>2, <2>1, <2>2
    <3>2. IsFiniteSet(Newer(s)) /\ IsFiniteSet(Newer(t))
      BY FS_Subset DEF TypeInv
    <3>3. /\ Cardinality(Newer(t)) <= Cardinality(Newer(s))
          /\ Cardinality(Newer(t)) \in Nat /\ Cardinality(Newer(s)) \in Nat
      BY <3>1, <3>2, FS_Subset, FS_CardinalityType
    <3>4. Cardinality(Newer(s)) < HistoryLimit
      BY <1>1 DEF Listing
    <3>5. Cardinality(Newer(t)) < HistoryLimit
      BY <3>3, <3>4, Bounds
    <3>6. t \in Listing
      BY <2>1, <3>5 DEF Listing
    <3> QED BY <1>1, <1>3, <3>6
  <2>3. CASE ~ (order[t] > order[s])
    BY <1>2, <2>1, <2>3
  <2> QED BY <2>2, <2>3
<1> QED BY <1>1, <1>2, <1>3 DEF LatestOf, OrderBound

IsLatestStage(s) ==
  s \in Stored /\ kind[s] = "stage" /\ LatestOf(s, Cardinality(Stored))

\* What a beginning call is: its command, the row it refreshes and the Stage row.
LEMMA BeginStep ==
  ASSUME TypeInv, OrderBound, NEW c \in Call, Begin(c)
  PROVE  /\ UNCHANGED <<row, github, faults>>
         /\ pc' \in [Call -> {"idle", "reading", "writing", "reserving", "posting",
                              "awaiting", "confirming"}]
         /\ \E cmd \in Command, f \in Run \cup {NoRun}, s \in Run \cup {NoRun} :
              /\ BeginCall(c, cmd, f, s)
              /\ \/ /\ c \in Viewer /\ cmd = NoCommand /\ f \in Stored /\ s = NoRun
                    /\ pc' = [pc EXCEPT ![c] = "reading"]
                 \/ /\ c \in Request /\ cmd.key \in Stored /\ f = cmd.key /\ s = NoRun
                    /\ cmd.kind = kind[f] /\ cmd.build = build[f]
                    /\ pc' = [pc EXCEPT ![c] = "reading"]
                 \/ /\ c \in Request /\ cmd.key \in Run
                    /\ cmd.kind = "build" /\ cmd.build = NoRun
                    /\ pc' = [pc EXCEPT ![c] = "reserving"]
                 \/ /\ c \in Request /\ cmd.key \in Run /\ cmd.key # f /\ cmd.key # s
                    /\ cmd.kind \in {"stage", "prod"} /\ cmd.build = f
                    /\ f \in Stored /\ kind[f] = "build"
                    /\ s = NoRun \/ (IsLatestStage(s) /\ cmd.kind = "prod")
                    /\ pc' = [pc EXCEPT ![c] = "reading"]
<1>1. CASE c \in Viewer /\ Poll(c)
  <2>1. PICK r \in Listing : BeginCall(c, NoCommand, r, NoRun)
    BY <1>1 DEF Poll
  <2>2. NoCommand \in Command
    BY DEF NoCommand, Command
  <2> QED BY <1>1, <2>1, <2>2, ListingStored DEF Poll, TypeInv, TypeOK
<1>2. CASE c \in Request /\ Dispatch(c)
  <2>1. PICK r \in Run :
          \/ DispatchAgain(c, r)
          \/ DispatchBuild(c, r)
          \/ \E k \in {"stage", "prod"}, b \in Run : DispatchDeployment(c, r, k, b)
    BY <1>2 DEF Dispatch
  <2>2. CASE DispatchAgain(c, r)
    <3>1. [key |-> r, kind |-> kind[r], build |-> build[r]] \in Command
      BY DEF TypeInv, TypeOK, Command
    <3> QED BY <1>2, <2>2, <3>1, ListingStored DEF DispatchAgain, TypeInv, TypeOK
  <2>3. CASE DispatchBuild(c, r)
    <3>1. [key |-> r, kind |-> "build", build |-> NoRun] \in Command
      BY DEF Command, Kind
    <3> QED BY <1>2, <2>3, <3>1 DEF DispatchBuild, TypeInv, TypeOK
  <2>4. ASSUME NEW k \in {"stage", "prod"}, NEW b \in Run, DispatchDeployment(c, r, k, b)
        PROVE  \E s \in Run \cup {NoRun} :
                 /\ BeginCall(c, [key |-> r, kind |-> k, build |-> b], b, s)
                 /\ s = NoRun \/ (IsLatestStage(s) /\ k = "prod")
                 /\ r # b /\ r # s
    <3>1. PICK s \in (IF k = "prod" THEN LatestStage ELSE {NoRun}) :
            BeginCall(c, [key |-> r, kind |-> k, build |-> b], b, s)
      BY <2>4 DEF DispatchDeployment
    <3>2. s = NoRun \/ (s \in Listing /\ IsLatestStage(s) /\ k = "prod")
      BY <3>1, LatestStageLatest DEF LatestStage, IsLatestStage
    <3> QED BY <2>4, <3>1, <3>2, ListingStored, NoRunIsNoRow DEF DispatchDeployment
  <2>5. ASSUME NEW k \in {"stage", "prod"}, NEW b \in Run
        PROVE  [key |-> r, kind |-> k, build |-> b] \in Command
    BY DEF Command, Kind
  <2>6. ASSUME NEW k \in {"stage", "prod"}, NEW b \in Run, DispatchDeployment(c, r, k, b)
        PROVE  /\ b \in Stored /\ kind[b] = "build"
               /\ pc' = [pc EXCEPT ![c] = "reading"]
               /\ UNCHANGED <<row, github, faults>>
    BY <2>6, ListingStored DEF DispatchDeployment
  <2>7. CASE \E k \in {"stage", "prod"}, b \in Run : DispatchDeployment(c, r, k, b)
    <3>1. PICK k \in {"stage", "prod"}, b \in Run : DispatchDeployment(c, r, k, b)
      BY <2>7
    <3>2. PICK s \in Run \cup {NoRun} :
            /\ BeginCall(c, [key |-> r, kind |-> k, build |-> b], b, s)
            /\ s = NoRun \/ (IsLatestStage(s) /\ k = "prod")
            /\ r # b /\ r # s
      BY <3>1, <2>4
    <3> DEFINE cmd == [key |-> r, kind |-> k, build |-> b]
    <3>3. /\ cmd \in Command /\ cmd.key = r /\ cmd.kind = k /\ cmd.build = b
          /\ b \in Stored /\ kind[b] = "build"
          /\ pc' = [pc EXCEPT ![c] = "reading"]
          /\ UNCHANGED <<row, github, faults>>
          /\ BeginCall(c, cmd, b, s)
      BY <3>1, <3>2, <2>5, <2>6
    <3>4. pc' \in [Call -> {"idle", "reading", "writing", "reserving", "posting",
                            "awaiting", "confirming"}]
      BY <3>3 DEF TypeInv, TypeOK
    <3> HIDE DEF cmd
    <3> QED BY <1>2, <3>2, <3>3, <3>4
  <2> QED BY <2>1, <2>2, <2>3, <2>7
<1> QED BY <1>1, <1>2 DEF Begin

\* What a write stores, and for which row.  Three calls store what they read of a
\* row with its id; a confirmation stores the POST's answer for the call's key.
LEMMA WriteStep ==
  ASSUME NEW c \in Call, Write(c)
  PROVE  /\ UNCHANGED <<github, faults>>
         /\ \/ pc[c] = "writing" /\ Update(subject[c], got[c], TRUE)
            \/ /\ c \in Request /\ pc[c] = "confirming"
               /\ Update(command[c].key,
                         IF got[c] = "id" THEN "queued" ELSE "dispatching",
                         got[c] = "id")
               /\ EndCall(c)
BY DEF Write, WriteAndReturn, WriteAndJudgeBuild, WriteAndJudgeStage, Confirm

\* A read or a write belongs to a call that concerns a row, and what it is about
\* to store is a status.
CallConcernsRow ==
  \A c \in Call :
    /\ pc[c] \in {"reading", "writing"} => subject[c] \in Stored
    /\ pc[c] = "writing" => got[c] \in RemoteStatus
    /\ c \in Request /\ pc[c] # "idle" => command[c].key \in Run

LEMMA WriteType ==
  ASSUME TypeInv, CallConcernsRow, NEW c \in Call, Write(c)
  PROVE  TypeInv'
<1>1. \E r \in Run, s \in {"dispatching"} \cup RemoteStatus, id \in BOOLEAN :
        Update(r, s, id)
  <2>1. CASE pc[c] = "writing" /\ Update(subject[c], got[c], TRUE)
    BY <2>1 DEF CallConcernsRow, Stored
  <2>2. CASE /\ c \in Request /\ pc[c] = "confirming"
             /\ Update(command[c].key,
                       IF got[c] = "id" THEN "queued" ELSE "dispatching",
                       got[c] = "id")
    BY <2>2 DEF CallConcernsRow, RemoteStatus
  <2> QED BY <2>1, <2>2, WriteStep
<1>2. /\ status' \in [Run -> {"absent", "dispatching"} \cup RemoteStatus]
      /\ linked' \in [Run -> BOOLEAN]
      /\ UNCHANGED <<kind, build, order, judgedAt>>
      /\ Stored' = Stored
  BY <1>1, UpdateType
<1>3. /\ pc' \in [Call -> {"idle", "reading", "writing", "reserving", "posting",
                           "awaiting", "confirming"}]
      /\ command' \in [Call -> Command]
      /\ subject' \in [Call -> Run \cup {NoRun}]
      /\ known' \in [Call -> SUBSET Run]
      /\ staged' \in [Call -> Run \cup {NoRun}]
      /\ got' \in [Call -> RemoteStatus \cup {"nothing", "id", "no id"}]
      /\ asOf' \in [Call -> Nat]
  <2>1. CASE EndCall(c)
    BY <2>1, EndCallType
  <2>2. CASE ~ EndCall(c)
    <3>1. \/ Proceed(c)
          \/ /\ pc' = [pc EXCEPT ![c] = "reading"]
             /\ subject' = [subject EXCEPT ![c] = staged[c]]
             /\ UNCHANGED <<command, known, staged, got, asOf>>
      BY <2>2 DEF Write, WriteAndReturn, WriteAndJudgeBuild, WriteAndJudgeStage, Confirm
    <3>2. CASE Proceed(c)
      BY <3>2 DEF Proceed, Forget, TypeInv, TypeOK
    <3>3. CASE /\ pc' = [pc EXCEPT ![c] = "reading"]
               /\ subject' = [subject EXCEPT ![c] = staged[c]]
               /\ UNCHANGED <<command, known, staged, got, asOf>>
      BY <3>3 DEF TypeInv, TypeOK
    <3> QED BY <3>1, <3>2, <3>3
  <2> QED BY <2>1, <2>2
<1> QED BY <1>2, <1>3, WriteStep DEF github, TypeInv, TypeOK

LEMMA BeginType ==
  ASSUME TypeInv, OrderBound, NEW c \in Call, Begin(c)
  PROVE  TypeInv'
<1>1. UNCHANGED <<row, github, faults>> /\ Stored' = Stored
  BY BeginStep DEF row, Stored
<1>2. PICK cmd \in Command, f \in Run \cup {NoRun}, s \in Run \cup {NoRun} :
        BeginCall(c, cmd, f, s)
  BY BeginStep
<1>3. pc' \in [Call -> {"idle", "reading", "writing", "reserving", "posting",
                       "awaiting", "confirming"}]
  BY BeginStep
<1> QED BY <1>1, <1>2, <1>3, BeginCallType DEF row, github, TypeInv, TypeOK

LEMMA EndType ==
  ASSUME TypeInv, NEW c \in Call, End(c)
  PROVE  TypeInv' /\ UNCHANGED <<row, github>> /\ EndCall(c)
<1>1. EndCall(c) /\ UNCHANGED <<row, github>>
  BY DEF End, ReadNothing, ReserveConflicts, Abandon, PollFails
<1>2. faults' = faults \/ faults' = faults + 1
  BY DEF End, ReadNothing, ReserveConflicts, Abandon, PollFails
<1>3. faults \in Nat
  BY DEF TypeInv, TypeOK
<1>4. faults' \in Nat
  BY <1>2, <1>3
<1> QED BY <1>1, <1>4, EndCallType DEF row, github, Stored, TypeInv, TypeOK

\* Reserve adds one row, at the next place of the order.
LEMMA ReserveType ==
  ASSUME TypeInv, CallConcernsRow, NEW q \in Request, Reserve(q)
  PROVE  /\ TypeInv'
         /\ Stored' = Stored \cup {command[q].key}
<1> DEFINE r == command[q].key
<1>1. r \in Run /\ r \notin Stored /\ q \in Call /\ command[q] \in Command
  BY DEF Reserve, Reservable, CallConcernsRow, Call, Stored, TypeInv, TypeOK
<1>2. Stored' = Stored \cup {r}
  BY <1>1 DEF Reserve, Stored, TypeInv, TypeOK
<1>3. IsFiniteSet(Stored') /\ Cardinality(Stored) + 1 \in Nat
  BY <1>2, FS_AddElement, FS_CardinalityType DEF TypeInv
<1>4. command[q].kind \in Kind \cup {"none"} /\ command[q].build \in Run \cup {NoRun}
  BY <1>1 DEF Command
<1>5. TypeOK'
  BY <1>1, <1>3, <1>4 DEF Reserve, github, TypeInv, TypeOK
<1> QED BY <1>2, <1>3, <1>5 DEF TypeInv

\* What GitHub does: a workflow run moves on, or the search finds it.
LEMMA GitHubMoves ==
  ASSUME NEW r \in Run, GitHub(r)
  PROVE  /\ UNCHANGED <<row, posts, call, faults>>
         /\ \/ remote' = remote /\ listed' = listed \cup {r}
            \/ \E s \in {"queued", "in_progress", "refused"} \cup Conclusion :
                 /\ remote' = [remote EXCEPT ![r] = s] /\ listed' = listed
                 /\ \/ remote[r] = "requested" /\ s \in {"queued", "refused"}
                    \/ remote[r] = "queued" /\ s = "in_progress"
                    \/ remote[r] \in {"queued", "in_progress"} /\ s \in Conclusion
<1>1. CASE PostArrives(r)
  <2>1. PICK s \in {"queued", "refused"} : remote' = [remote EXCEPT ![r] = s]
    BY <1>1 DEF PostArrives
  <2> QED BY <1>1, <2>1 DEF PostArrives
<1>2. CASE WorkflowAdvances(r) /\ remote' = [remote EXCEPT ![r] = "in_progress"]
  BY <1>2 DEF WorkflowAdvances, Conclusion
<1>3. CASE WorkflowAdvances(r) /\ remote' # [remote EXCEPT ![r] = "in_progress"]
  <2>1. PICK s \in Conclusion : remote' = [remote EXCEPT ![r] = s]
    BY <1>3 DEF WorkflowAdvances
  <2>2. remote[r] \in {"queued", "in_progress"} /\ UNCHANGED <<row, listed, posts, call, faults>>
    BY <1>3 DEF WorkflowAdvances
  <2> QED BY <2>1, <2>2
<1>4. CASE SearchCatchesUp(r)
  BY <1>4 DEF SearchCatchesUp
<1> QED BY <1>1, <1>2, <1>3, <1>4 DEF GitHub

LEMMA NextTypeInv ==
  ASSUME TypeInv, OrderBound, CallConcernsRow, [Next]_vars
  PROVE  TypeInv'
<1>1. ASSUME NEW c \in Call, Read(c)
      PROVE  TypeInv'
  <2>1. remote[subject[c]] \in RemoteStatus
    BY <1>1 DEF Read, Visible, Created
  <2>2. UNCHANGED <<row, github, faults, command, subject, known, staged, asOf>>
    BY <1>1 DEF Read, Goto
  <2>3. /\ got' \in [Call -> RemoteStatus \cup {"nothing", "id", "no id"}]
        /\ pc' \in [Call -> {"idle", "reading", "writing", "reserving", "posting",
                             "awaiting", "confirming"}]
    BY <1>1, <2>1 DEF Read, Goto, TypeInv, TypeOK
  <2> QED BY <2>2, <2>3 DEF row, github, Stored, TypeInv, TypeOK
<1>2. ASSUME NEW q \in Request, Post(q)
      PROVE  TypeInv'
  <2>1. command[q].key \in Run
    BY <1>2 DEF Post, Call, CallConcernsRow
  <2>2. UNCHANGED <<row, listed, got, faults, command, subject, known, staged, asOf>>
    BY <1>2 DEF Post, Goto
  <2>3. /\ remote' \in [Run -> {"none", "requested", "refused"} \cup RemoteStatus]
        /\ pc' \in [Call -> {"idle", "reading", "writing", "reserving", "posting",
                             "awaiting", "confirming"}]
    BY <1>2, <2>1 DEF Post, Goto, TypeInv, TypeOK
  <2>4. posts \in [Run -> Nat] /\ posts' = [posts EXCEPT ![command[q].key] = @ + 1]
    BY <1>2 DEF Post, TypeInv, TypeOK
  <2>5. \A r \in Run : posts[r] + 1 \in Nat
    BY <2>4
  <2>6. posts' \in [Run -> Nat]
    BY <2>1, <2>4, <2>5
  <2> QED BY <2>2, <2>3, <2>6 DEF row, Stored, TypeInv, TypeOK
<1>3. ASSUME NEW q \in Request, PostAnswered(q)
      PROVE  TypeInv'
  <2>1. /\ UNCHANGED <<status, linked, kind, build, order, judgedAt, remote, listed, posts, faults>>
        /\ UNCHANGED <<command, subject, known, staged, asOf>> /\ Stored' = Stored
    BY <1>3 DEF PostAnswered, Goto, row, github, Stored
  <2>2. PICK answer \in {"id", "no id"} : got' = [got EXCEPT ![q] = answer]
    BY <1>3 DEF PostAnswered
  <2>3. /\ got' \in [Call -> RemoteStatus \cup {"nothing", "id", "no id"}]
        /\ pc' \in [Call -> {"idle", "reading", "writing", "reserving", "posting",
                             "awaiting", "confirming"}]
    BY <1>3, <2>2 DEF PostAnswered, Goto, TypeInv, TypeOK
  <2> QED BY <2>1, <2>3 DEF TypeInv, TypeOK
<1>4. ASSUME NEW r \in Run, GitHub(r)
      PROVE  TypeInv'
  <2>1. UNCHANGED <<row, posts, call, faults>>
    BY <1>4, GitHubMoves
  <2>2. /\ remote' \in [Run -> {"none", "requested", "refused"} \cup RemoteStatus]
        /\ listed' \in SUBSET Run
    <3>1. CASE remote' = remote /\ listed' = listed \cup {r}
      BY <3>1 DEF TypeInv, TypeOK
    <3>2. CASE /\ \E s \in {"queued", "in_progress", "refused"} \cup Conclusion :
                    remote' = [remote EXCEPT ![r] = s]
               /\ listed' = listed
      <4>1. PICK s \in {"queued", "in_progress", "refused"} \cup Conclusion :
              remote' = [remote EXCEPT ![r] = s]
        BY <3>2
      <4>2. s \in {"none", "requested", "refused"} \cup RemoteStatus
        BY DEF RemoteStatus
      <4>3. remote \in [Run -> {"none", "requested", "refused"} \cup RemoteStatus]
            /\ listed \in SUBSET Run
        BY DEF TypeInv, TypeOK
      <4> QED BY <3>2, <4>1, <4>2, <4>3
    <3> QED BY <1>4, <3>1, <3>2, GitHubMoves
  <2>3. /\ UNCHANGED <<status, linked, kind, build, order, judgedAt, posts, faults>>
        /\ UNCHANGED <<pc, command, subject, known, staged, got, asOf>> /\ Stored' = Stored
    BY <2>1 DEF row, call, Stored
  <2> QED BY <2>2, <2>3 DEF TypeInv, TypeOK
<1>5. UNCHANGED vars => TypeInv'
  BY DEF vars, row, github, call, Stored, TypeInv, TypeOK
<1> QED BY <1>1, <1>2, <1>3, <1>4, <1>5, StepCases, BeginType, EndType, WriteType,
       ReserveType

-----------------------------------------------------------------------------
(***************************************************************************)
(* The inductive invariant: rows.                                          *)
(***************************************************************************)

\* s is, or was, the status of the workflow run of r.
Behind(s, r) ==
  /\ Created(r)
  /\ s \in Conclusion => remote[r] = s
  /\ s = "in_progress" => remote[r] \in {"in_progress"} \cup Conclusion

RowsBehind ==
  \A r \in Run :
    /\ status[r] = "absent" => remote[r] = "none" /\ ~ linked[r]
    /\ status[r] \in RemoteStatus => Behind(status[r], r)
    /\ linked[r] => Created(r)

OneActive == \A r, s \in Run : Active(r) /\ Active(s) => r = s

\* The rows give the evidence that a run of kind k for build b needs, the Stage row
\* being the latest among the first n rows.
SuccessfulBuild(b) == b \in Stored /\ kind[b] = "build" /\ status[b] = "success"
SuccessfulStage(s, b) ==
  s \in Stored /\ kind[s] = "stage" /\ build[s] = b /\ status[s] = "success"
Promised(k, b, n) ==
  \/ k = "build" /\ b = NoRun
  \/ /\ k \in {"stage", "prod"}
     /\ SuccessfulBuild(b)
     /\ k = "prod" => \E s \in Run : SuccessfulStage(s, b) /\ LatestOf(s, n)

\* They gave it before the row was stored.
RowsPromised ==
  \A r \in Stored :
    /\ Promised(kind[r], build[r], judgedAt[r])
    /\ judgedAt[r] < order[r]

RowsInv == RowsBehind /\ OneActive /\ OrderBound /\ RowsPromised

(***************************************************************************)
(* The inductive invariant: calls.                                         *)
(***************************************************************************)

\* A call that refreshes the build of its command, or the Stage row of it.
JudgesBuild(c) == pc[c] \in {"reading", "writing"} /\ subject[c] = command[c].build
JudgesStage(c) == pc[c] \in {"reading", "writing"} /\ subject[c] = staged[c]

CallOK(c) ==
  /\ pc[c] \in {"reading", "writing"} => subject[c] \in Stored
  /\ pc[c] = "writing" => got[c] \in RemoteStatus /\ Behind(got[c], subject[c])
  /\ c \in Request /\ pc[c] # "idle" => command[c].key \in Run
  /\ JudgesBuild(c) =>
       /\ kind[subject[c]] = "build" /\ command[c].kind \in {"stage", "prod"}
       /\ staged[c] # NoRun =>
            staged[c] \in Stored /\ kind[staged[c]] = "stage" /\ LatestOf(staged[c], asOf[c])
  /\ JudgesStage(c) =>
       /\ command[c].kind = "prod" /\ LatestOf(staged[c], asOf[c])
       /\ kind[subject[c]] = "stage" /\ build[subject[c]] = command[c].build
       /\ SuccessfulBuild(command[c].build)
  /\ pc[c] = "reserving" => Promised(command[c].kind, command[c].build, asOf[c])
  /\ asOf[c] <= Cardinality(Stored)
  /\ pc[c] = "confirming" => command[c].key \in Run /\ Created(command[c].key)

\* A call about to send a POST is the only one about to, and the first.
PostIsFirst ==
  \A c \in Call :
    pc[c] = "posting" =>
      /\ command[c].key \in Run
      /\ status[command[c].key] = "dispatching"
      /\ remote[command[c].key] = "none"
      /\ posts[command[c].key] = 0
      /\ \A d \in Call :
           pc[d] = "posting" /\ command[d].key = command[c].key => d = c

PostsBound ==
  \A r \in Run :
    /\ posts[r] <= 1
    /\ status[r] = "absent" => posts[r] = 0

CallsInv == (\A c \in Call : CallOK(c)) /\ PostIsFirst /\ PostsBound
IInv == TypeInv /\ RowsInv /\ CallsInv

LEMMA ConcernsRow == (\A c \in Call : CallOK(c)) => CallConcernsRow
BY DEF CallOK, CallConcernsRow

LEMMA InitIInv == Init => IInv
<1> SUFFICES ASSUME Init PROVE IInv
  OBVIOUS
<1>1. TypeInv
  BY InitTypeInv
<1>2. RowsInv
  BY DEF Init, RowsInv, RowsBehind, OneActive, Active, OrderBound, RowsPromised,
     Stored, RemoteStatus, Conclusion
<1>3. CallsInv
  <2>1. Stored = {} /\ Cardinality(Stored) = 0
    BY FS_EmptySet DEF Init, Stored
  <2> QED BY <2>1 DEF Init, CallsInv, CallOK, JudgesBuild, JudgesStage, PostIsFirst, PostsBound
<1> QED BY <1>1, <1>2, <1>3 DEF IInv

-----------------------------------------------------------------------------
(***************************************************************************)
(* What every step does to the rows: they stay, keep what they are, and    *)
(* what was read of a workflow run stays behind it.                        *)
(***************************************************************************)
RowGrows(r) ==
  /\ r \in Stored =>
       /\ r \in Stored' /\ kind'[r] = kind[r] /\ build'[r] = build[r]
       /\ order'[r] = order[r] /\ judgedAt'[r] = judgedAt[r]
  /\ status[r] = "success" => status'[r] = "success"
  /\ Created(r) => Created(r)'
  /\ remote[r] \in Conclusion => remote'[r] = remote[r]
  /\ remote[r] = "in_progress" => remote'[r] \in {"in_progress"} \cup Conclusion

\* New rows come last.
OrderGrows ==
  /\ Cardinality(Stored) \in Nat /\ Cardinality(Stored') \in Nat
  /\ Cardinality(Stored) <= Cardinality(Stored')
  /\ \A t \in Stored' \ Stored : order'[t] = Cardinality(Stored) + 1

Grows == OrderGrows /\ \A r \in Run : RowGrows(r)

LEMMA GrowsBehind ==
  ASSUME Grows, NEW r \in Run, NEW s, Behind(s, r)
  PROVE  Behind(s, r)'
BY DEF Grows, RowGrows, Behind, Conclusion

\* A row that is the latest Stage row among the first n stays it.
LEMMA GrowsLatest ==
  ASSUME TypeInv, Grows, NEW n \in Nat, n <= Cardinality(Stored),
         NEW s \in Stored, LatestOf(s, n)
  PROVE  LatestOf(s, n)'
<1>1. order'[s] = order[s] /\ order[s] <= n
  BY DEF Grows, RowGrows, Stored, LatestOf
<1>2. ASSUME NEW t \in Stored', kind'[t] = "stage", order'[t] <= n
      PROVE  order'[t] <= order'[s]
  <2>1. t \in Stored
    BY <1>2 DEF Grows, OrderGrows
  <2>2. kind'[t] = kind[t] /\ order'[t] = order[t]
    BY <2>1 DEF Grows, RowGrows, Stored
  <2> QED BY <1>1, <1>2, <2>1, <2>2 DEF LatestOf
<1> QED BY <1>1, <1>2 DEF LatestOf

\* Evidence stays evidence.
LEMMA GrowsEvidence ==
  ASSUME Grows, NEW b
  PROVE  /\ SuccessfulBuild(b) => SuccessfulBuild(b)'
         /\ \A s \in Run : SuccessfulStage(s, b) => SuccessfulStage(s, b)'
<1>1. SuccessfulBuild(b) => SuccessfulBuild(b)'
  BY DEF Grows, RowGrows, SuccessfulBuild, Stored
<1>2. \A s \in Run : SuccessfulStage(s, b) => SuccessfulStage(s, b)'
  BY DEF Grows, RowGrows, SuccessfulStage, Stored
<1> QED BY <1>1, <1>2

LEMMA GrowsPromised ==
  ASSUME TypeInv, Grows, NEW k, NEW b, NEW n \in Nat, n <= Cardinality(Stored),
         Promised(k, b, n)
  PROVE  Promised(k, b, n)'
<1>1. \A s : SuccessfulStage(s, b) => s \in Stored
  BY DEF SuccessfulStage
<1> QED BY <1>1, GrowsEvidence, GrowsLatest DEF Promised

\* A row that stays promises what it promised.
LEMMA GrowsRowPromised ==
  ASSUME TypeInv, Grows, OrderBound, NEW r \in Stored,
         Promised(kind[r], build[r], judgedAt[r]), judgedAt[r] < order[r]
  PROVE  Promised(kind[r], build[r], judgedAt[r])' /\ judgedAt'[r] < order'[r]
<1>1. /\ kind'[r] = kind[r] /\ build'[r] = build[r] /\ order'[r] = order[r]
      /\ judgedAt'[r] = judgedAt[r]
  BY DEF Grows, RowGrows, Stored
<1>2. judgedAt[r] \in Nat /\ judgedAt[r] <= Cardinality(Stored)
  <2>1. order[r] \in Nat /\ judgedAt[r] \in Nat /\ order[r] <= Cardinality(Stored)
    BY DEF OrderBound, Stored, TypeInv, TypeOK
  <2> QED BY <2>1 DEF Grows, OrderGrows
<1> PICK k \in {kind[r]}, b \in {build[r]}, n \in Nat : k = kind[r] /\ b = build[r] /\ n = judgedAt[r]
  BY <1>2
<1>3. Promised(k, b, n)'
  BY <1>2, GrowsPromised
<1> QED BY <1>1, <1>3

LEMMA GrowsRowsPromised ==
  ASSUME TypeInv, Grows, OrderBound, RowsPromised, Stored' = Stored
  PROVE  RowsPromised'
BY GrowsRowPromised DEF RowsPromised

\* What a call listed is among what is stored.
LEMMA AsOfBound ==
  ASSUME TypeInv, Grows, NEW c \in Call, CallOK(c)
  PROVE  /\ asOf[c] \in Nat /\ asOf[c] <= Cardinality(Stored)
         /\ Cardinality(Stored') \in Nat /\ asOf[c] <= Cardinality(Stored')
<1>1. asOf[c] \in Nat
  BY DEF TypeInv, TypeOK
<1>2. asOf[c] <= Cardinality(Stored)
  BY DEF CallOK
<1>3. /\ Cardinality(Stored) \in Nat /\ Cardinality(Stored') \in Nat
      /\ Cardinality(Stored) <= Cardinality(Stored')
  BY DEF Grows, OrderGrows
<1> QED BY <1>1, <1>2, <1>3

\* A call that does not move, and keeps its locals, stays right.
LEMMA OtherCall ==
  ASSUME TypeInv, Grows, NEW c \in Call, CallOK(c), pc'[c] = pc[c],
         command'[c] = command[c], subject'[c] = subject[c], staged'[c] = staged[c],
         got'[c] = got[c], asOf'[c] = asOf[c]
  PROVE  CallOK(c)'
<1>0. /\ asOf[c] \in Nat /\ asOf[c] <= Cardinality(Stored)
      /\ asOf[c] <= Cardinality(Stored') /\ \A r \in Stored : r \in Run
  BY AsOfBound DEF Stored
<1> PICK n \in Nat : n = asOf[c]
  BY <1>0
<1>a. \A s \in Stored : LatestOf(s, n) => LatestOf(s, n)'
  BY <1>0, GrowsLatest
<1>1. pc[c] \in {"reading", "writing"} => subject[c] \in Stored'
  BY <1>0 DEF CallOK, Grows, RowGrows
<1>2. pc[c] = "writing" => Behind(got[c], subject[c])'
  <2>1. SUFFICES ASSUME pc[c] = "writing"
                 PROVE  Behind(got[c], subject[c])'
    OBVIOUS
  <2>2. subject[c] \in Run /\ Behind(got[c], subject[c])
    BY <1>0, <2>1 DEF CallOK
  <2> QED BY <2>2 DEF Grows, RowGrows, Behind, Conclusion
<1>3. JudgesBuild(c) =>
        /\ kind'[subject[c]] = "build"
        /\ staged[c] # NoRun =>
             staged[c] \in Stored' /\ kind'[staged[c]] = "stage" /\ LatestOf(staged[c], n)'
  <2> SUFFICES ASSUME JudgesBuild(c)
               PROVE  /\ kind'[subject[c]] = "build"
                      /\ staged[c] # NoRun =>
                           /\ staged[c] \in Stored' /\ kind'[staged[c]] = "stage"
                           /\ LatestOf(staged[c], n)'
    OBVIOUS
  <2>1. kind'[subject[c]] = "build"
    BY <1>0 DEF CallOK, JudgesBuild, Grows, RowGrows
  <2>2. ASSUME staged[c] # NoRun
        PROVE  /\ staged[c] \in Stored' /\ kind'[staged[c]] = "stage"
               /\ LatestOf(staged[c], n)'
    <3> PICK s : s = staged[c]
      OBVIOUS
    <3>1. s \in Stored /\ kind[s] = "stage" /\ LatestOf(s, n)
      BY <2>2 DEF CallOK
    <3>2. LatestOf(s, n)' /\ s \in Stored' /\ kind'[s] = "stage"
      BY <1>0, <1>a, <3>1 DEF Grows, RowGrows
    <3> QED BY <3>2 DEF LatestOf
  <2> QED BY <2>1, <2>2
<1>4. JudgesStage(c) =>
        /\ kind'[subject[c]] = "stage" /\ build'[subject[c]] = command[c].build
        /\ LatestOf(staged[c], n)'
  <2> SUFFICES ASSUME JudgesStage(c)
               PROVE  /\ kind'[subject[c]] = "stage" /\ build'[subject[c]] = command[c].build
                      /\ LatestOf(staged[c], n)'
    OBVIOUS
  <2> PICK s : s = staged[c]
    OBVIOUS
  <2>1. s \in Stored /\ s = subject[c] /\ LatestOf(s, n)
    BY DEF CallOK, JudgesStage
  <2>2. LatestOf(s, n)' /\ kind'[s] = kind[s] /\ build'[s] = build[s]
    BY <1>0, <1>a, <2>1 DEF Grows, RowGrows
  <2> QED BY <2>1, <2>2 DEF CallOK, JudgesStage, LatestOf
<1>5. SuccessfulBuild(command[c].build) => SuccessfulBuild(command[c].build)'
  BY GrowsEvidence DEF SuccessfulBuild
<1>6. pc[c] = "reserving" => Promised(command[c].kind, command[c].build, asOf[c])'
  <2> PICK k, b : k = command[c].kind /\ b = command[c].build
    OBVIOUS
  <2>1. pc[c] = "reserving" => Promised(k, b, n)'
    BY <1>0, GrowsPromised DEF CallOK
  <2> QED BY <2>1
<1>7. pc[c] = "confirming" => command[c].key \in Run /\ Created(command[c].key)'
  BY DEF CallOK, Grows, RowGrows, Created
<1> QED BY <1>0, <1>1, <1>2, <1>3, <1>4, <1>5, <1>6, <1>7
        DEF CallOK, JudgesBuild, JudgesStage

-----------------------------------------------------------------------------
(***************************************************************************)
(* Every step grows the rows.                                              *)
(***************************************************************************)

LEMMA SameStored ==
  ASSUME TypeInv, Stored' = Stored
  PROVE  OrderGrows
BY FS_CardinalityType DEF OrderGrows, TypeInv

\* Storing a status for a stored row, which is behind its workflow.
LEMMA UpdateGrows ==
  ASSUME TypeInv, RowsInv, UNCHANGED github, NEW r \in Run, NEW id \in BOOLEAN,
         NEW s \in {"dispatching"} \cup RemoteStatus, Update(r, s, id)
  PROVE  Grows
<1>1. UNCHANGED <<kind, build, order, judgedAt>> /\ Stored' = Stored
  BY UpdateType
<1>2. \A x \in Run : status[x] = "success" => status'[x] = "success"
  BY DEF Update, Updatable, Active, Conclusion, TypeInv, TypeOK
<1>3. OrderGrows
  BY <1>1, SameStored DEF OrderGrows
<1> QED BY <1>1, <1>2, <1>3 DEF Grows, RowGrows, github, Created

LEMMA StepGrows ==
  ASSUME IInv, [Next]_vars
  PROVE  Grows
<1>0. TypeInv /\ RowsInv /\ \A c \in Call : CallOK(c)
  BY DEF IInv, CallsInv
<1>1. ASSUME UNCHANGED <<row, github>>
      PROVE  Grows
  BY <1>0, <1>1, SameStored DEF Grows, RowGrows, row, github, Stored, Created
<1>2. ASSUME NEW c \in Call, Write(c)
      PROVE  Grows
  <2>1. UNCHANGED github
    BY <1>2, WriteStep
  <2>2. CASE pc[c] = "writing" /\ Update(subject[c], got[c], TRUE)
    BY <1>0, <2>1, <2>2, UpdateGrows DEF CallOK, Stored
  <2>3. CASE /\ c \in Request /\ pc[c] = "confirming"
             /\ Update(command[c].key,
                       IF got[c] = "id" THEN "queued" ELSE "dispatching",
                       got[c] = "id")
    BY <1>0, <2>1, <2>3, UpdateGrows DEF CallOK, RemoteStatus
  <2> QED BY <1>2, <2>2, <2>3, WriteStep
<1>3. ASSUME NEW q \in Request, Reserve(q)
      PROVE  Grows
  <2>1. Stored' = Stored \cup {command[q].key} /\ command[q].key \notin Stored
    BY <1>0, <1>3, ReserveType, ConcernsRow DEF Reserve, Reservable, Stored
  <2>2. Cardinality(Stored') = Cardinality(Stored) + 1 /\ Cardinality(Stored) \in Nat
    BY <1>0, <2>1, FS_AddElement, FS_CardinalityType DEF TypeInv
  <2>3. command[q].key \in Run /\ order'[command[q].key] = Cardinality(Stored) + 1
    BY <1>0, <1>3, ConcernsRow DEF CallConcernsRow, Call, Reserve, TypeInv, TypeOK
  <2>4. OrderGrows
    BY <2>1, <2>2, <2>3 DEF OrderGrows
  <2> QED BY <1>0, <1>3, <2>1, <2>4
          DEF Reserve, Reservable, Grows, RowGrows, github, Stored, Created, TypeInv, TypeOK
<1>4. ASSUME NEW q \in Request, Post(q)
      PROVE  Grows
  BY <1>0, <1>4, SameStored DEF Post, Grows, RowGrows, row, Stored, Created, RemoteStatus,
     Conclusion, TypeInv, TypeOK
<1>5. ASSUME NEW r \in Run, GitHub(r)
      PROVE  Grows
  <2>1. UNCHANGED <<status, kind, build, order, judgedAt>> /\ Stored' = Stored
    BY <1>5, GitHubMoves DEF row, Stored
  <2>2. ASSUME NEW x \in Run
        PROVE  /\ Created(x) => Created(x)'
               /\ remote[x] \in Conclusion => remote'[x] = remote[x]
               /\ remote[x] = "in_progress" => remote'[x] \in {"in_progress"} \cup Conclusion
    <3>1. remote'[x] = remote[x] \/ x = r
      BY <1>0, <1>5, GitHubMoves DEF TypeInv, TypeOK
    <3>2. CASE remote'[x] = remote[x]
      BY <3>2 DEF Created
    <3>3. CASE x = r /\ remote'[x] # remote[x]
      BY <1>0, <1>5, <3>3, GitHubMoves
      DEF Created, RemoteStatus, Conclusion, TypeInv, TypeOK
    <3> QED BY <3>1, <3>2, <3>3
  <2> QED BY <1>0, <2>1, <2>2, SameStored DEF Grows, RowGrows
<1> QED BY <1>0, <1>1, <1>2, <1>3, <1>4, <1>5, StepCases, BeginStep, EndType
        DEF Read, PostAnswered, vars, RowsInv

-----------------------------------------------------------------------------
(***************************************************************************)
(* The rows stay right.                                                    *)
(***************************************************************************)

\* Steps that leave the rows alone, and let the workflows go on.
LEMMA SameRows ==
  ASSUME TypeInv, RowsInv, Grows, UNCHANGED row,
         \A r \in Run : remote[r] = "none" /\ remote'[r] # "none" => status[r] # "absent"
  PROVE  RowsInv'
<1>1. Stored' = Stored
  BY DEF row, Stored
<1>2. ASSUME NEW r \in Run
      PROVE  /\ status'[r] = "absent" => remote'[r] = "none" /\ ~ linked'[r]
             /\ status'[r] \in RemoteStatus => Behind(status[r], r)'
             /\ linked'[r] => Created(r)'
  <2>1. status'[r] = status[r] /\ linked'[r] = linked[r]
    BY DEF row
  <2>2. status[r] \in RemoteStatus => Behind(status[r], r)
    BY DEF RowsInv, RowsBehind
  <2>3. status[r] \in RemoteStatus => Behind(status[r], r)'
    BY <2>1, <2>2 DEF Grows, RowGrows, Behind, Conclusion
  <2> QED BY <2>1, <2>3 DEF RowsInv, RowsBehind, Grows, RowGrows
<1>3. RowsBehind'
  BY <1>2 DEF RowsBehind, Behind, row
<1>4. OneActive' /\ OrderBound'
  BY <1>1 DEF RowsInv, OneActive, OrderBound, Active, row
<1> QED BY <1>1, <1>3, <1>4, GrowsRowsPromised DEF RowsInv

\* Storing what was read of a row's workflow run, or what its POST answered.
LEMMA UpdateRows ==
  ASSUME TypeInv, RowsInv, Grows, UNCHANGED github, NEW r \in Run, NEW id \in BOOLEAN,
         NEW s \in {"dispatching"} \cup RemoteStatus, Update(r, s, id),
         Created(r), s \in RemoteStatus => Behind(s, r)
  PROVE  RowsInv'
<1>1. Stored' = Stored /\ UNCHANGED <<kind, build, order, judgedAt>>
  BY UpdateType
<1>2. \A x \in Run : status'[x] = "absent" <=> status[x] = "absent"
  BY <1>1 DEF Stored
<1>3. ASSUME NEW x \in Run
      PROVE  /\ status'[x] = "absent" => remote'[x] = "none" /\ ~ linked'[x]
             /\ status'[x] \in RemoteStatus => Behind(status[x], x)'
             /\ linked'[x] => Created(x)'
  <2>1. remote' = remote
    BY DEF github
  <2>2. CASE x # r \/ ~ Updatable(r)
    <3>1. status'[x] = status[x] /\ linked'[x] = linked[x]
      BY <2>2 DEF Update, TypeInv, TypeOK
    <3> QED BY <2>1, <3>1 DEF RowsInv, RowsBehind, Behind, Created
  <2>3. CASE x = r /\ Updatable(r)
    <3>1. status'[r] = s /\ linked'[r] = id
      BY <2>3 DEF Update, TypeInv, TypeOK
    <3>2. s # "absent"
      BY DEF RemoteStatus, Conclusion
    <3> QED BY <2>1, <2>3, <3>1, <3>2 DEF Behind, Created
  <2> QED BY <2>2, <2>3
<1>4. RowsBehind'
  BY <1>3 DEF RowsBehind, Behind, Created
<1>5. \A x \in Run : Active(x)' => Active(x)
  BY DEF Update, Updatable, Active, TypeInv, TypeOK
<1>6. OneActive' /\ OrderBound'
  BY <1>1, <1>5 DEF RowsInv, OneActive, OrderBound, Stored
<1> QED BY <1>1, <1>4, <1>6, GrowsRowsPromised DEF RowsInv

LEMMA WriteRows ==
  ASSUME IInv, Grows, NEW c \in Call, Write(c)
  PROVE  RowsInv'
<1>0. TypeInv /\ RowsInv /\ CallOK(c) /\ UNCHANGED github
  BY WriteStep DEF IInv, CallsInv
<1>1. CASE pc[c] = "writing" /\ Update(subject[c], got[c], TRUE)
  BY <1>0, <1>1, UpdateRows DEF CallOK, Stored, Behind
<1>2. CASE /\ c \in Request /\ pc[c] = "confirming"
           /\ Update(command[c].key,
                     IF got[c] = "id" THEN "queued" ELSE "dispatching",
                     got[c] = "id")
  <2>1. command[c].key \in Run /\ Created(command[c].key)
    BY <1>0, <1>2 DEF CallOK
  <2>2. Behind("queued", command[c].key)
    BY <2>1 DEF Behind, Conclusion
  <2>3. "queued" \in RemoteStatus /\ "dispatching" \notin RemoteStatus
    BY DEF RemoteStatus, Conclusion
  <2> QED BY <1>0, <1>2, <2>1, <2>2, <2>3, UpdateRows
<1> QED BY <1>1, <1>2, WriteStep

LEMMA ReserveRows ==
  ASSUME IInv, Grows, NEW q \in Request, Reserve(q)
  PROVE  RowsInv'
<1>0. TypeInv /\ RowsInv /\ CallOK(q) /\ q \in Call /\ CallConcernsRow
  BY ConcernsRow DEF IInv, CallsInv, Call
<1> PICK r \in Run : r = command[q].key
  BY <1>0 DEF Reserve, CallConcernsRow
<1>1. r \in Run /\ r \notin Stored /\ status[r] = "absent" /\ \A s \in Run : ~ Active(s)
  BY <1>0 DEF Reserve, Reservable, CallConcernsRow, Stored
<1>2. Stored' = Stored \cup {r}
  BY <1>0, ReserveType
<1>3. /\ \A x \in Run \ {r} :
           /\ status'[x] = status[x] /\ kind'[x] = kind[x]
           /\ build'[x] = build[x] /\ order'[x] = order[x]
      /\ status'[r] = "dispatching" /\ order'[r] = Cardinality(Stored) + 1
      /\ kind'[r] = command[q].kind /\ build'[r] = command[q].build
      /\ UNCHANGED <<linked, github>>
  BY <1>0, <1>1 DEF Reserve, TypeInv, TypeOK
<1>4. RowsBehind'
  <2>1. ASSUME NEW x \in Run
        PROVE  /\ status'[x] = "absent" => remote'[x] = "none" /\ ~ linked'[x]
               /\ status'[x] \in RemoteStatus => Behind(status'[x], x)
               /\ linked'[x] => Created(x)
    <3>1. "dispatching" \notin RemoteStatus
      BY DEF RemoteStatus, Conclusion
    <3> QED BY <1>0, <1>3, <3>1 DEF RowsInv, RowsBehind, github
  <2> QED BY <1>3, <2>1 DEF RowsBehind, Behind, Created, github
<1>5. OneActive'
  BY <1>1, <1>3 DEF OneActive, Active
<1>6. OrderBound'
  <2>1. Cardinality(Stored') = Cardinality(Stored) + 1 /\ Cardinality(Stored) \in Nat
    BY <1>0, <1>1, <1>2, FS_AddElement, FS_CardinalityType DEF TypeInv
  <2>2. \A x \in Stored : order[x] <= Cardinality(Stored) /\ order[x] \in Nat
    BY <1>0 DEF RowsInv, OrderBound, Stored, TypeInv, TypeOK
  <2>3. ASSUME NEW x \in Stored'
        PROVE  order'[x] <= Cardinality(Stored')
    <3>1. CASE x = r
      BY <1>3, <2>1, <3>1
    <3>2. CASE x # r
      <4>1. x \in Stored /\ order'[x] = order[x]
        BY <1>2, <1>3, <3>2 DEF Stored
      <4> QED BY <2>1, <2>2, <4>1
    <3> QED BY <3>1, <3>2
  <2> QED BY <2>3 DEF OrderBound
<1>7. RowsPromised'
  <2>1. ASSUME NEW x \in Stored
        PROVE  Promised(kind[x], build[x], judgedAt[x])' /\ judgedAt'[x] < order'[x]
    BY <1>0, GrowsRowPromised DEF RowsInv, RowsPromised
  <2>2. Promised(kind[r], build[r], judgedAt[r])' /\ judgedAt'[r] < order'[r]
    <3> PICK k, b : k = command[q].kind /\ b = command[q].build
      OBVIOUS
    <3>1. /\ asOf[q] \in Nat /\ asOf[q] <= Cardinality(Stored) /\ Cardinality(Stored) \in Nat
          /\ Promised(k, b, asOf[q])
      BY <1>0, FS_CardinalityType DEF CallOK, Reserve, TypeInv, TypeOK
    <3> PICK n \in Nat : n = asOf[q]
      BY <3>1
    <3>2. Promised(k, b, n)'
      BY <1>0, <3>1, GrowsPromised
    <3>3. kind'[r] = k /\ build'[r] = b /\ judgedAt'[r] = n
      BY <1>0, <1>1, <1>3 DEF Reserve, TypeInv, TypeOK
    <3> QED BY <1>3, <3>1, <3>2, <3>3
  <2> QED BY <1>2, <2>1, <2>2 DEF RowsPromised
<1> QED BY <1>4, <1>5, <1>6, <1>7 DEF RowsInv

-----------------------------------------------------------------------------
(***************************************************************************)
(* The calls stay right.                                                   *)
(***************************************************************************)

\* Only c moves.
OnlyMoves(c) ==
  \A d \in Call \ {c} :
    /\ pc'[d] = pc[d] /\ command'[d] = command[d] /\ subject'[d] = subject[d]
    /\ staged'[d] = staged[d] /\ got'[d] = got[d] /\ asOf'[d] = asOf[d]

\* A step of a call.
Step(c) ==
  \/ Begin(c) \/ End(c) \/ Read(c) \/ Write(c)
  \/ c \in Request /\ (Reserve(c) \/ Post(c) \/ PostAnswered(c))

LEMMA StepMovesOne ==
  ASSUME TypeInv, OrderBound, NEW c \in Call, Step(c)
  PROVE  OnlyMoves(c)
<1>1. CASE EndCall(c)
  BY <1>1 DEF EndCall, Forget, OnlyMoves, TypeInv, TypeOK
<1>2. CASE Begin(c)
  <2>1. PICK cmd, f, s : BeginCall(c, cmd, f, s)
    BY <1>2, BeginStep
  <2>2. pc' = [pc EXCEPT ![c] = "reading"] \/ pc' = [pc EXCEPT ![c] = "reserving"]
    BY <1>2, BeginStep
  <2> QED BY <2>1, <2>2 DEF BeginCall, OnlyMoves, TypeInv, TypeOK
<1>3. CASE Read(c) \/ (c \in Request /\ (Reserve(c) \/ Post(c) \/ PostAnswered(c)))
  <2>1. /\ \E p : pc' = [pc EXCEPT ![c] = p]
        /\ UNCHANGED <<command, subject, staged>>
        /\ got' = got \/ \E g : got' = [got EXCEPT ![c] = g]
        /\ asOf' = asOf \/ asOf' = [asOf EXCEPT ![c] = 0]
    BY <1>3 DEF Read, Reserve, Post, PostAnswered, Goto
  <2> QED BY <2>1 DEF OnlyMoves, TypeInv, TypeOK
<1>4. CASE Write(c) /\ ~ EndCall(c)
  BY <1>4 DEF Write, WriteAndReturn, WriteAndJudgeBuild, WriteAndJudgeStage, Confirm,
     Proceed, Forget, Goto, OnlyMoves, TypeInv, TypeOK
<1> QED BY <1>1, <1>2, <1>3, <1>4, EndType DEF Step

\* A build, a Stage deployment and a row that may depend on them are three rows.
LEMMA RowsDiffer ==
  ASSUME TypeInv, RowsInv, NEW r \in Stored
  PROVE  /\ r # NoRun
         /\ build[r] # r
<1>1. r \in Run /\ Promised(kind[r], build[r], judgedAt[r])
  BY DEF RowsInv, RowsPromised, Stored
<1> QED BY <1>1, NoRunIsNoRow DEF Promised, SuccessfulBuild

LEMMA BeginCallOK ==
  ASSUME IInv, Grows, NEW c \in Call, Begin(c)
  PROVE  CallOK(c)'
<1>0. TypeInv /\ RowsInv /\ UNCHANGED <<row, github>> /\ Stored' = Stored /\ Stored \subseteq Run
  BY BeginStep DEF IInv, RowsInv, row, Stored
<1>1. PICK cmd \in Command, f \in Run \cup {NoRun}, s \in Run \cup {NoRun} :
        /\ BeginCall(c, cmd, f, s)
        /\ \/ /\ c \in Viewer /\ cmd = NoCommand /\ f \in Stored /\ s = NoRun
              /\ pc' = [pc EXCEPT ![c] = "reading"]
           \/ /\ c \in Request /\ cmd.key \in Stored /\ f = cmd.key /\ s = NoRun
              /\ cmd.kind = kind[f] /\ cmd.build = build[f]
              /\ pc' = [pc EXCEPT ![c] = "reading"]
           \/ /\ c \in Request /\ cmd.key \in Run
              /\ cmd.kind = "build" /\ cmd.build = NoRun
              /\ pc' = [pc EXCEPT ![c] = "reserving"]
           \/ /\ c \in Request /\ cmd.key \in Run /\ cmd.key # f /\ cmd.key # s
              /\ cmd.kind \in {"stage", "prod"} /\ cmd.build = f
              /\ f \in Stored /\ kind[f] = "build"
              /\ s = NoRun \/ (IsLatestStage(s) /\ cmd.kind = "prod")
              /\ pc' = [pc EXCEPT ![c] = "reading"]
  BY <1>0, BeginStep DEF RowsInv
<1>2. /\ command'[c] = cmd /\ subject'[c] = f /\ staged'[c] = s
      /\ cmd.kind = "prod" => asOf'[c] = Cardinality(Stored)
      /\ asOf'[c] <= Cardinality(Stored')
  <2>1. Cardinality(Stored) \in Nat /\ Cardinality(Stored') = Cardinality(Stored)
    BY <1>0, FS_CardinalityType DEF TypeInv
  <2>2. /\ command'[c] = cmd /\ subject'[c] = f /\ staged'[c] = s
        /\ asOf'[c] = IF cmd.kind = "prod" THEN Cardinality(Stored) ELSE 0
    BY <1>0, <1>1 DEF BeginCall, TypeInv, TypeOK
  <2> QED BY <2>1, <2>2
<1>3. CASE c \in Viewer
  <2>1. c \notin Request
    BY <1>3, CallsDiffer
  <2>2. pc' = [pc EXCEPT ![c] = "reading"] /\ f \in Stored /\ s = NoRun /\ cmd = NoCommand
    BY <1>1, <2>1
  <2>3. pc'[c] = "reading" /\ f # NoRun /\ cmd.build = NoRun
    BY <1>0, <2>2, RowsDiffer DEF NoCommand, TypeInv, TypeOK
  <2>4. ~ JudgesBuild(c)' /\ ~ JudgesStage(c)'
    BY <1>2, <2>2, <2>3 DEF JudgesBuild, JudgesStage
  <2> QED BY <1>0, <1>2, <2>1, <2>2, <2>3, <2>4 DEF CallOK
<1>4. CASE c \in Request /\ pc' = [pc EXCEPT ![c] = "reserving"]
  <2>1. pc'[c] = "reserving"
    BY <1>0, <1>4 DEF TypeInv, TypeOK
  <2>2. cmd.key \in Run /\ cmd.kind = "build" /\ cmd.build = NoRun
    BY <1>0, <1>1, <2>1, <1>4 DEF TypeInv, TypeOK
  <2> QED BY <1>2, <2>1, <2>2 DEF CallOK, JudgesBuild, JudgesStage, Promised
<1>5. CASE c \in Request /\ pc' # [pc EXCEPT ![c] = "reserving"]
  <2>1. pc'[c] = "reading" /\ kind' = kind /\ build' = build
    BY <1>0, <1>1, <1>5, CallsDiffer DEF row, TypeInv, TypeOK
  <2>2. f \in Stored /\ cmd.key \in Run
    BY <1>0, <1>1, <1>5, CallsDiffer
  <2>3. CASE f = cmd.key /\ s = NoRun /\ cmd.build = build[f]
    <3>1. f # NoRun /\ build[f] # f
      BY <1>0, <2>2, RowsDiffer
    <3>2. ~ JudgesBuild(c)' /\ ~ JudgesStage(c)'
      BY <1>2, <2>3, <3>1 DEF JudgesBuild, JudgesStage
    <3> QED BY <1>0, <1>2, <2>1, <2>2, <3>2 DEF CallOK
  <2>4. CASE /\ cmd.kind \in {"stage", "prod"} /\ cmd.build = f
             /\ f \in Stored /\ kind[f] = "build"
             /\ s = NoRun \/ (IsLatestStage(s) /\ cmd.kind = "prod")
    <3>1. s # NoRun => /\ s \in Stored' /\ kind'[s] = "stage"
                       /\ order'[s] <= asOf'[c]
                       /\ \A t \in Stored' : kind'[t] = "stage" /\ order'[t] <= asOf'[c] =>
                                               order'[t] <= order'[s]
      BY <1>0, <1>2, <2>1, <2>4 DEF IsLatestStage, LatestOf, row
    <3>2. s # NoRun => LatestOf(staged[c], asOf[c])'
      BY <1>2, <3>1 DEF LatestOf
    <3>3. s # f
      BY <1>0, <2>4, RowsDiffer DEF IsLatestStage
    <3> QED BY <1>0, <1>2, <2>1, <2>2, <2>4, <3>1, <3>2, <3>3, RowsDiffer
            DEF CallOK, JudgesBuild, JudgesStage
  <2> QED BY <1>1, <1>5, <2>3, <2>4, CallsDiffer
<1> QED BY <1>3, <1>4, <1>5 DEF Call

\* Storing "success" for a stored row makes it, or finds it, successful.
LEMMA SuccessStored ==
  ASSUME TypeInv, RowsInv, NEW r \in Stored, Behind("success", r),
         Update(r, "success", TRUE)
  PROVE  r \in Stored' /\ status'[r] = "success" /\ UNCHANGED <<kind, build>>
<1>1. r \in Run
  BY DEF Stored
<1>2. CASE Updatable(r)
  BY <1>1, <1>2 DEF Update, Stored, TypeInv, TypeOK
<1>3. CASE ~ Updatable(r)
  <2>1. status[r] \in Conclusion
    BY <1>3 DEF Updatable, Active, Stored
  <2>2. remote[r] = status[r] /\ remote[r] = "success"
    BY <1>1, <2>1 DEF RowsInv, RowsBehind, Behind, Conclusion, RemoteStatus
  <2> QED BY <1>1, <1>3, <2>2 DEF Update, Stored
<1> QED BY <1>2, <1>3

LEMMA WriteCallOK ==
  ASSUME IInv, Grows, NEW c \in Call, Write(c)
  PROVE  CallOK(c)'
<1>0. TypeInv /\ RowsInv /\ CallOK(c)
  BY DEF IInv, CallsInv
<1>a. /\ asOf[c] <= Cardinality(Stored')
      /\ \A s \in Stored : LatestOf(s, asOf[c]) =>
           /\ order'[s] <= asOf[c]
           /\ \A t \in Stored' : kind'[t] = "stage" /\ order'[t] <= asOf[c] =>
                                  order'[t] <= order'[s]
  <2>1. asOf[c] \in Nat /\ asOf[c] <= Cardinality(Stored) /\ asOf[c] <= Cardinality(Stored')
    BY <1>0, AsOfBound
  <2> PICK n \in Nat : n = asOf[c]
    BY <2>1
  <2>2. \A s \in Stored : LatestOf(s, n) => LatestOf(s, n)'
    BY <1>0, <2>1, GrowsLatest
  <2> QED BY <2>1, <2>2 DEF LatestOf
<1>1. CASE EndCall(c)
  <2>1. pc'[c] = "idle" /\ asOf'[c] = 0
    BY <1>0, <1>1 DEF EndCall, TypeInv, TypeOK
  <2>2. Cardinality(Stored') \in Nat
    BY DEF Grows, OrderGrows
  <2> QED BY <2>1, <2>2 DEF CallOK, JudgesBuild, JudgesStage
<1>2. CASE c \in Request /\ WriteAndJudgeBuild(c) /\ ~ EndCall(c)
  <2>1. /\ pc[c] = "writing" /\ subject[c] = command[c].build /\ got[c] = "success"
        /\ Update(subject[c], got[c], TRUE) /\ command' = command
    BY <1>2 DEF WriteAndJudgeBuild, Evidence, Proceed
  <2>2. /\ subject[c] \in Stored /\ Behind("success", subject[c])
        /\ kind[subject[c]] = "build" /\ command[c].key \in Run
        /\ staged[c] # NoRun =>
             staged[c] \in Stored /\ kind[staged[c]] = "stage" /\ LatestOf(staged[c], asOf[c])
    BY <1>0, <1>2, <2>1 DEF CallOK, JudgesBuild
  <2>3. /\ subject[c] \in Stored' /\ status'[subject[c]] = "success"
        /\ UNCHANGED <<kind, build>>
    BY <1>0, <2>1, <2>2, SuccessStored
  <2>4. SuccessfulBuild(command[c].build)'
    BY <2>1, <2>2, <2>3 DEF SuccessfulBuild
  <2>5. CASE command[c].kind = "stage" /\ Proceed(c)
    <3>1. pc'[c] = "reserving" /\ asOf'[c] = asOf[c]
      BY <1>0, <2>5 DEF Proceed, TypeInv, TypeOK
    <3>2. Promised(command[c].kind, command[c].build, asOf[c])'
      BY <2>1, <2>4, <2>5 DEF Promised
    <3> QED BY <1>a, <2>1, <2>2, <3>1, <3>2 DEF CallOK, JudgesBuild, JudgesStage
  <2>6. CASE /\ command[c].kind = "prod" /\ StageMatches(c)
             /\ pc' = [pc EXCEPT ![c] = "reading"]
             /\ subject' = [subject EXCEPT ![c] = staged[c]]
             /\ staged' = staged /\ asOf' = asOf
    <3>1. /\ pc'[c] = "reading" /\ subject'[c] = staged[c] /\ staged'[c] = staged[c]
          /\ asOf'[c] = asOf[c]
      BY <1>0, <2>6 DEF TypeInv, TypeOK
    <3>2. /\ staged[c] \in Stored /\ kind[staged[c]] = "stage"
          /\ build[staged[c]] = command[c].build /\ LatestOf(staged[c], asOf[c])
      BY <2>2, <2>6 DEF StageMatches
    <3>3. staged[c] \in Stored' /\ kind'[staged[c]] = "stage"
          /\ build'[staged[c]] = command[c].build /\ staged[c] # command[c].build
      BY <2>1, <2>2, <2>3, <3>2 DEF Grows, RowGrows, Stored
    <3>4. LatestOf(staged[c], asOf[c])'
      BY <1>a, <3>1, <3>2 DEF LatestOf
    <3> QED BY <1>a, <2>1, <2>2, <2>4, <2>6, <3>1, <3>3, <3>4
            DEF CallOK, JudgesBuild, JudgesStage
  <2> QED BY <1>2, <2>1, <2>5, <2>6 DEF WriteAndJudgeBuild
<1>3. CASE c \in Request /\ WriteAndJudgeStage(c) /\ ~ EndCall(c)
  <2>1. /\ pc[c] = "writing" /\ subject[c] = staged[c] /\ got[c] = "success"
        /\ Update(subject[c], got[c], TRUE) /\ Proceed(c) /\ command' = command
    BY <1>3 DEF WriteAndJudgeStage, Evidence, Proceed
  <2>2. /\ subject[c] \in Stored /\ Behind("success", subject[c])
        /\ kind[subject[c]] = "stage" /\ build[subject[c]] = command[c].build
        /\ command[c].kind = "prod" /\ command[c].key \in Run
        /\ SuccessfulBuild(command[c].build) /\ LatestOf(subject[c], asOf[c])
    BY <1>0, <1>3, <2>1 DEF CallOK, JudgesStage
  <2>3. /\ subject[c] \in Stored' /\ status'[subject[c]] = "success"
        /\ UNCHANGED <<kind, build>> /\ subject[c] \in Run
    BY <1>0, <2>1, <2>2, SuccessStored DEF Stored
  <2>4. SuccessfulBuild(command[c].build)'
    BY <2>1, <2>2, GrowsEvidence DEF SuccessfulBuild
  <2>5. pc'[c] = "reserving" /\ asOf'[c] = asOf[c]
    BY <1>0, <2>1 DEF Proceed, TypeInv, TypeOK
  <2>6. \E s \in Run : SuccessfulStage(s, command[c].build)' /\ LatestOf(s, asOf[c])'
    BY <1>a, <2>1, <2>2, <2>3, <2>5 DEF SuccessfulStage, LatestOf
  <2>7. Promised(command[c].kind, command[c].build, asOf[c])'
    BY <2>1, <2>2, <2>4, <2>6 DEF Promised
  <2> QED BY <1>a, <2>1, <2>2, <2>5, <2>7 DEF CallOK, JudgesBuild, JudgesStage
<1> QED BY <1>1, <1>2, <1>3 DEF Write, WriteAndReturn, Confirm

LEMMA CallsOK ==
  ASSUME IInv, Grows, NEW c \in Call, Step(c)
  PROVE  \A d \in Call : CallOK(d)'
<1>0. TypeInv /\ RowsInv /\ CallOK(c) /\ (\A r \in Stored : r \in Run)
  BY DEF IInv, CallsInv, Stored
<1>a. Cardinality(Stored') \in Nat /\ asOf[c] <= Cardinality(Stored')
  BY <1>0, AsOfBound DEF IInv
<1>1. ASSUME End(c)
      PROVE  CallOK(c)'
  <2>0. EndCall(c)
    BY <1>0, <1>1, EndType
  <2>1. pc'[c] = "idle" /\ asOf'[c] = 0
    BY <1>0, <2>0 DEF EndCall, TypeInv, TypeOK
  <2> QED BY <1>a, <2>1 DEF CallOK, JudgesBuild, JudgesStage
<1>2. ASSUME Read(c)
      PROVE  CallOK(c)'
  <2>1. /\ pc[c] = "reading" /\ pc'[c] = "writing"
        /\ got'[c] = remote[subject[c]] /\ Created(subject[c])
        /\ UNCHANGED <<row, github, command, subject, staged, asOf>>
    BY <1>0, <1>2 DEF Read, Visible, Goto, TypeInv, TypeOK
  <2>2. got'[c] \in RemoteStatus /\ Behind(got[c], subject[c])'
    BY <2>1 DEF Behind, Created, github, Conclusion
  <2>3. Stored' = Stored /\ kind' = kind /\ build' = build /\ order' = order
    BY <2>1 DEF row, Stored
  <2>4. SuccessfulBuild(command[c].build) => SuccessfulBuild(command[c].build)'
    BY <2>1, <2>3 DEF SuccessfulBuild, row
  <2>5. LatestOf(staged[c], asOf[c]) => LatestOf(staged[c], asOf[c])'
    BY <2>1, <2>3 DEF LatestOf
  <2> QED BY <1>0, <2>1, <2>2, <2>3, <2>4, <2>5 DEF CallOK, JudgesBuild, JudgesStage
<1>3. ASSUME c \in Request, Reserve(c) \/ Post(c) \/ PostAnswered(c)
      PROVE  CallOK(c)'
  <2>1. /\ pc'[c] \in {"posting", "awaiting", "confirming"}
        /\ command' = command /\ pc[c] # "idle"
        /\ pc'[c] = "confirming" => Created(command[c].key) /\ remote' = remote
        /\ asOf'[c] \in {0, asOf[c]}
    <3>1. pc \in [Call -> {"idle", "reading", "writing", "reserving", "posting",
                           "awaiting", "confirming"}]
      BY <1>0 DEF TypeInv, TypeOK
    <3>2. \/ /\ pc' = [pc EXCEPT ![c] = "posting"] /\ pc[c] = "reserving"
             /\ asOf' = [asOf EXCEPT ![c] = 0] /\ command' = command
          \/ Goto(c, "awaiting") /\ pc[c] = "posting"
          \/ /\ Goto(c, "confirming") /\ pc[c] = "awaiting"
             /\ Created(command[c].key) /\ remote' = remote
      BY <1>3 DEF Reserve, Post, PostAnswered, github
    <3>3. asOf \in [Call -> Nat]
      BY <1>0 DEF TypeInv, TypeOK
    <3> QED BY <3>1, <3>2, <3>3 DEF Goto
  <2>2. command'[c].key \in Run
    BY <1>0, <1>3, <2>1 DEF CallOK
  <2>3. pc'[c] = "confirming" => Created(command[c].key)'
    BY <2>1 DEF Created
  <2> QED BY <1>a, <2>1, <2>2, <2>3 DEF CallOK, JudgesBuild, JudgesStage
<1>4. CallOK(c)'
  BY <1>1, <1>2, <1>3, BeginCallOK, WriteCallOK DEF Step
<1>5. ASSUME NEW d \in Call \ {c}
      PROVE  CallOK(d)'
  <2>1. CallOK(d) /\ OnlyMoves(c)
    BY <1>0, StepMovesOne DEF IInv, CallsInv, RowsInv
  <2> QED BY <1>0, <2>1, OtherCall DEF OnlyMoves
<1> QED BY <1>4, <1>5

\* The calls about to send a POST keep their rows as they found them.
LEMMA KeepsFirst ==
  ASSUME PostIsFirst, NEW c \in Call, OnlyMoves(c), pc'[c] # "posting",
         \A d \in Call \ {c} :
           pc[d] = "posting" =>
             LET r == command[d].key IN
             status'[r] = status[r] /\ remote'[r] = remote[r] /\ posts'[r] = posts[r]
  PROVE  PostIsFirst'
<1> SUFFICES ASSUME NEW d \in Call, pc'[d] = "posting"
             PROVE  /\ command'[d].key \in Run
                    /\ status'[command'[d].key] = "dispatching"
                    /\ remote'[command'[d].key] = "none"
                    /\ posts'[command'[d].key] = 0
                    /\ \A e \in Call :
                         pc'[e] = "posting" /\ command'[e].key = command'[d].key => e = d
  BY DEF PostIsFirst
<1>1. d # c /\ pc[d] = "posting" /\ command'[d] = command[d]
  BY DEF OnlyMoves
<1>2. /\ command[d].key \in Run /\ status[command[d].key] = "dispatching"
      /\ remote[command[d].key] = "none" /\ posts[command[d].key] = 0
      /\ \A e \in Call : pc[e] = "posting" /\ command[e].key = command[d].key => e = d
  BY <1>1 DEF PostIsFirst
<1>3. \A e \in Call : pc'[e] = "posting" => pc[e] = "posting" /\ command'[e] = command[e]
  BY DEF OnlyMoves
<1> QED BY <1>1, <1>2, <1>3

\* A row whose POST is about to be sent is not the row of a read or an answer.
LEMMA WriteKeepsFirst ==
  ASSUME IInv, NEW c \in Call, Write(c), NEW d \in Call, pc[d] = "posting"
  PROVE  LET r == command[d].key IN
         status'[r] = status[r] /\ remote'[r] = remote[r] /\ posts'[r] = posts[r]
<1> DEFINE r == command[d].key
<1>0. TypeInv /\ CallOK(c) /\ r \in Run /\ remote[r] = "none"
  BY DEF IInv, CallsInv, PostIsFirst
<1>1. ~ Created(r)
  BY <1>0 DEF Created, RemoteStatus, Conclusion
<1>2. UNCHANGED github
  BY WriteStep
<1>3. \A x, s, id : x # r /\ Update(x, s, id) => status'[r] = status[r]
  <2>1. status \in [Run -> {"absent", "dispatching"} \cup RemoteStatus]
    BY <1>0 DEF TypeInv, TypeOK
  <2> QED BY <1>0, <2>1 DEF Update
<1>4. CASE pc[c] = "writing" /\ Update(subject[c], got[c], TRUE)
  <2>1. subject[c] \in Run /\ Created(subject[c])
    BY <1>0, <1>4 DEF CallOK, Stored, Behind
  <2> QED BY <1>1, <1>2, <1>3, <1>4, <2>1 DEF github
<1>5. CASE /\ c \in Request /\ pc[c] = "confirming"
           /\ Update(command[c].key,
                     IF got[c] = "id" THEN "queued" ELSE "dispatching",
                     got[c] = "id")
  <2>1. command[c].key \in Run /\ Created(command[c].key)
    BY <1>0, <1>5 DEF CallOK
  <2> QED BY <1>1, <1>2, <1>3, <1>5, <2>1 DEF github
<1> QED BY <1>4, <1>5, WriteStep

LEMMA FirstKept ==
  ASSUME IInv, NEW c \in Call, Step(c)
  PROVE  PostIsFirst'
<1>0. TypeInv /\ RowsInv /\ PostIsFirst /\ PostsBound /\ OnlyMoves(c) /\ CallOK(c)
  BY StepMovesOne DEF IInv, CallsInv, RowsInv
<1>1. CASE c \in Request /\ Reserve(c)
  <2> PICK r \in Run : r = command[c].key
    BY <1>0, <1>1 DEF Reserve, CallOK
  <2>1. /\ status[r] = "absent" /\ status'[r] = "dispatching"
        /\ \A x \in Run \ {r} : status'[x] = status[x]
        /\ remote[r] = "none" /\ posts[r] = 0
        /\ UNCHANGED <<remote, posts>> /\ pc'[c] = "posting" /\ command' = command
    BY <1>0, <1>1 DEF Reserve, Reservable, RowsInv, RowsBehind, PostsBound,
       github, TypeInv, TypeOK
  <2>2. \A d \in Call \ {c} : pc[d] = "posting" => command[d].key \in Run \ {r}
    BY <1>0, <2>1 DEF PostIsFirst
  <2> QED BY <1>0, <2>1, <2>2 DEF PostIsFirst, OnlyMoves
<1>2. CASE c \in Request /\ Post(c)
  <2>1. pc'[c] # "posting" /\ pc[c] = "posting"
    BY <1>0, <1>2 DEF Post, Goto, TypeInv, TypeOK
  <2>2. \A d \in Call \ {c} : pc[d] = "posting" => command[d].key # command[c].key
    BY <1>0, <2>1 DEF PostIsFirst
  <2>3. \A r \in Run \ {command[c].key} :
          status'[r] = status[r] /\ remote'[r] = remote[r] /\ posts'[r] = posts[r]
    BY <1>0, <1>2 DEF Post, row, TypeInv, TypeOK
  <2>4. \A d \in Call \ {c} : pc[d] = "posting" => command[d].key \in Run
    BY <1>0 DEF PostIsFirst
  <2> QED BY <1>0, <2>1, <2>2, <2>3, <2>4, KeepsFirst
<1>3. CASE Write(c)
  <2>1. pc'[c] # "posting"
    BY <1>0, <1>3 DEF Write, WriteAndReturn, WriteAndJudgeBuild, WriteAndJudgeStage,
       Confirm, EndCall, Proceed, Goto, TypeInv, TypeOK
  <2> QED BY <1>0, <1>3, <2>1, WriteKeepsFirst, KeepsFirst DEF IInv
<1>4. CASE Begin(c) \/ End(c) \/ Read(c) \/ (c \in Request /\ PostAnswered(c))
  <2>1. UNCHANGED <<row, github>>
    BY <1>0, <1>4, BeginStep, EndType DEF Read, PostAnswered, RowsInv
  <2>2. CASE Begin(c)
    <3>1. pc' = [pc EXCEPT ![c] = "reading"] \/ pc' = [pc EXCEPT ![c] = "reserving"]
      BY <1>0, <2>2, BeginStep DEF RowsInv
    <3>2. pc'[c] # "posting"
      BY <1>0, <3>1 DEF TypeInv, TypeOK
    <3> QED BY <1>0, <2>1, <3>2, KeepsFirst DEF row, github
  <2>3. CASE End(c)
    <3>0. EndCall(c)
      BY <1>0, <2>3, EndType
    <3>1. pc'[c] # "posting"
      BY <1>0, <3>0 DEF EndCall, TypeInv, TypeOK
    <3> QED BY <1>0, <2>1, <3>1, KeepsFirst DEF row, github
  <2>4. CASE Read(c) \/ (c \in Request /\ PostAnswered(c))
    <3>1. pc'[c] # "posting"
      BY <1>0, <2>4 DEF Read, PostAnswered, Goto, TypeInv, TypeOK
    <3> QED BY <1>0, <2>1, <3>1, KeepsFirst DEF row, github
  <2> QED BY <1>4, <2>2, <2>3, <2>4
<1> QED BY <1>1, <1>2, <1>3, <1>4 DEF Step

LEMMA StepPostsBound ==
  ASSUME IInv, Grows, NEW c \in Call, Step(c)
  PROVE  PostsBound'
<1>0. TypeInv /\ OrderBound /\ PostsBound /\ PostIsFirst /\ CallConcernsRow
  BY ConcernsRow DEF IInv, CallsInv, RowsInv
<1>1. \A r \in Run : status'[r] = "absent" => status[r] = "absent"
  BY <1>0 DEF Grows, RowGrows, Stored
<1>2. CASE c \in Request /\ Post(c)
  <2>1. /\ command[c].key \in Run /\ posts[command[c].key] = 0
        /\ status[command[c].key] = "dispatching" /\ status' = status
        /\ posts' = [posts EXCEPT ![command[c].key] = @ + 1] /\ posts \in [Run -> Nat]
    BY <1>0, <1>2 DEF Post, row, PostIsFirst, TypeInv, TypeOK
  <2>2. posts'[command[c].key] = 1
    BY <2>1
  <2> QED BY <1>0, <2>1, <2>2 DEF PostsBound
<1>3. CASE posts' = posts
  BY <1>0, <1>1, <1>3 DEF PostsBound
<1>4. CASE Begin(c) \/ End(c)
  BY <1>0, <1>3, <1>4, BeginStep, EndType DEF github
<1>5. CASE Read(c) \/ Write(c) \/ (c \in Request /\ (Reserve(c) \/ PostAnswered(c)))
  BY <1>3, <1>5, WriteStep DEF Read, Reserve, PostAnswered, github
<1> QED BY <1>2, <1>4, <1>5 DEF Step

LEMMA StepRows ==
  ASSUME IInv, Grows, NEW c \in Call, Step(c)
  PROVE  RowsInv'
<1>0. TypeInv /\ RowsInv
  BY DEF IInv
<1>1. CASE UNCHANGED <<row, github>>
  BY <1>0, <1>1, SameRows DEF github
<1>2. CASE c \in Request /\ Post(c)
  <2>1. /\ status[command[c].key] = "dispatching" /\ UNCHANGED row
        /\ \A r \in Run \ {command[c].key} : remote'[r] = remote[r]
    BY <1>0, <1>2 DEF Post, IInv, CallsInv, PostIsFirst, TypeInv, TypeOK
  <2> QED BY <1>0, <2>1, SameRows
<1>3. CASE Begin(c) \/ End(c)
  BY <1>0, <1>1, <1>3, BeginStep, EndType DEF RowsInv
<1>4. CASE Read(c) \/ (c \in Request /\ PostAnswered(c))
  BY <1>1, <1>4 DEF Read, PostAnswered
<1> QED BY <1>2, <1>3, <1>4, WriteRows, ReserveRows DEF Step

\* GitHub moves no call, and no row.
LEMMA GitHubStep ==
  ASSUME IInv, Grows, NEW r \in Run, GitHub(r)
  PROVE  RowsInv' /\ CallsInv'
<1>0. /\ TypeInv /\ RowsInv /\ CallsInv
      /\ UNCHANGED <<row, posts, call>>
      /\ \A x \in Run : remote[x] = "none" <=> remote'[x] = "none"
      /\ \A x \in Stored : x \in Run
  BY DEF GitHub, PostArrives, WorkflowAdvances, SearchCatchesUp, Conclusion, Stored,
     IInv, TypeInv, TypeOK
<1>1. RowsInv'
  BY <1>0, SameRows
<1>2. ASSUME NEW c \in Call
      PROVE  CallOK(c)'
  BY <1>0, OtherCall DEF call, CallsInv
<1>3. PostIsFirst' /\ PostsBound'
  BY <1>0 DEF CallsInv, PostIsFirst, PostsBound, row, call
<1> QED BY <1>1, <1>2, <1>3 DEF CallsInv

LEMMA NextIInv == IInv /\ [Next]_vars => IInv'
<1> SUFFICES ASSUME IInv, [Next]_vars PROVE IInv'
  OBVIOUS
<1>1. TypeInv' /\ Grows
  BY NextTypeInv, ConcernsRow, StepGrows DEF IInv, CallsInv, RowsInv
<1>2. ASSUME NEW c \in Call, Step(c)
      PROVE  IInv'
  BY <1>1, <1>2, StepRows, CallsOK, FirstKept, StepPostsBound DEF IInv, CallsInv
<1>3. ASSUME NEW r \in Run, GitHub(r)
      PROVE  IInv'
  BY <1>1, <1>3, GitHubStep DEF IInv
<1>4. CASE UNCHANGED vars
  <2>1. UNCHANGED <<row, github>> /\ UNCHANGED <<status, posts, remote>> /\ UNCHANGED call
    BY <1>4 DEF vars, row, github
  <2>2. RowsInv'
    BY <1>1, <2>1, SameRows DEF IInv, github
  <2>3. \A c \in Call : CallOK(c)'
    BY <1>1, <2>1, OtherCall DEF IInv, CallsInv, call, Stored
  <2>4. PostIsFirst' /\ PostsBound'
    BY <2>1 DEF IInv, CallsInv, PostIsFirst, PostsBound, call
  <2> QED BY <1>1, <2>2, <2>3, <2>4 DEF IInv, CallsInv
<1> QED BY <1>2, <1>3, <1>4, StepCases DEF Step, Call

LEMMA Inductive == Spec => []IInv
BY InitIInv, NextIInv, PTL DEF Spec

-----------------------------------------------------------------------------
(***************************************************************************)
(* What the invariant gives.                                               *)
(***************************************************************************)

\* Every variable keeps its type; places in created_at order stay numbers.
THEOREM TypeCorrect == Spec => []TypeOK
<1>1. IInv => TypeOK
  BY DEF IInv, TypeInv
<1> QED BY <1>1, Inductive, PTL

\* A deployment POST is never repeated (dispatch, demo-pipeline.ts 180-187).
THEOREM PostsOnce == Spec => []DispatchedOnce
<1>1. IInv => DispatchedOnce
  BY DEF IInv, CallsInv, PostsBound, DispatchedOnce
<1> QED BY <1>1, Inductive, PTL

\* A workflow that may be running holds the application's only active row.
THEOREM HoldsRow == Spec => []WorkflowHoldsItsRow
<1>1. ASSUME IInv, NEW r \in Run, remote[r] \in {"requested", "queued", "in_progress"}
      PROVE  Active(r) /\ \A s \in Run : Active(s) => s = r
  <2>1. status[r] # "absent" /\ status[r] \notin Conclusion
    BY <1>1 DEF IInv, RowsInv, RowsBehind, Behind, RemoteStatus, Conclusion
  <2> QED BY <1>1, <2>1 DEF Active, IInv, RowsInv, OneActive
<1>2. IInv => WorkflowHoldsItsRow
  BY <1>1 DEF WorkflowHoldsItsRow
<1> QED BY <1>2, Inductive, PTL

\* What the rows say of the workflows is true, if late (refresh and update).
THEOREM RecordTrue == Spec => []RecordIsTrue
<1>1. IInv => RecordIsTrue
  BY DEF IInv, RowsInv, RowsBehind, Behind, RecordIsTrue, RemoteStatus, Conclusion
<1> QED BY <1>1, Inductive, PTL

\* What may have reached GitHub was earned: by a successful build, and for Prod by a
\* successful Stage deployment of the same build, the latest of all when the call that
\* asked for Prod listed them.
THEOREM Gated == Spec => []PromotionIsGated
<1>1. ASSUME IInv, NEW r \in Run, Started(r), kind[r] # "build"
      PROVE  /\ kind[build[r]] = "build" /\ status[build[r]] = "success"
             /\ kind[r] = "prod" =>
                  \E s \in Run :
                    /\ kind[s] = "stage" /\ build[s] = build[r] /\ status[s] = "success"
                    /\ order[s] <= judgedAt[r] /\ judgedAt[r] < order[r]
                    /\ \A t \in Stored :
                         kind[t] = "stage" /\ order[t] <= judgedAt[r] => order[t] <= order[s]
  <2>1. r \in Stored
    BY <1>1 DEF IInv, RowsInv, RowsBehind, Started, Stored
  <2>2. Promised(kind[r], build[r], judgedAt[r]) /\ judgedAt[r] < order[r]
    BY <2>1, <1>1 DEF IInv, RowsInv, RowsPromised
  <2> QED BY <1>1, <2>2 DEF Promised, SuccessfulBuild, SuccessfulStage, LatestOf
<1>2. IInv => PromotionIsGated
  BY <1>1 DEF PromotionIsGated
<1> QED BY <1>2, Inductive, PTL

\* "A delayed poll must never move a completed record backwards" (update).
THEOREM CompletedFinal == Spec => CompletedIsFinal
<1>1. ASSUME IInv, [Next]_vars, NEW r \in Run, status[r] \in Conclusion
      PROVE  /\ status'[r] = status[r] /\ linked'[r] = linked[r]
             /\ kind'[r] = kind[r] /\ build'[r] = build[r]
  <2>0. TypeInv
    BY <1>1 DEF IInv
  <2>1. r \in Stored /\ ~ Updatable(r)
    BY <1>1 DEF Stored, Updatable, Active, Conclusion
  <2>2. kind'[r] = kind[r] /\ build'[r] = build[r]
    BY <1>1, <2>1, StepGrows DEF Grows, RowGrows
  <2>3. \A x, s, id : Update(x, s, id) => status'[r] = status[r] /\ linked'[r] = linked[r]
    BY <2>0, <2>1 DEF Update, TypeInv, TypeOK
  <2>4. ASSUME NEW c \in Call, Write(c)
        PROVE  status'[r] = status[r] /\ linked'[r] = linked[r]
    BY <2>3, <2>4, WriteStep
  <2>5. ASSUME NEW q \in Request, Reserve(q)
        PROVE  status'[r] = status[r] /\ linked'[r] = linked[r]
    <3>1. command[q].key # r
      BY <2>1, <2>5 DEF Reserve, Reservable, Stored
    <3> QED BY <2>0, <2>5, <3>1 DEF Reserve, TypeInv, TypeOK
  <2>6. CASE UNCHANGED row
    BY <2>2, <2>6 DEF row
  <2>7. ASSUME NEW c \in Call, Begin(c) \/ End(c) \/ Read(c)
        PROVE  UNCHANGED row
    BY <1>1, <2>0, <2>7, BeginStep, EndType DEF Read, IInv, RowsInv
  <2>8. ASSUME NEW q \in Request, Post(q) \/ PostAnswered(q)
        PROVE  UNCHANGED row
    BY <2>8 DEF Post, PostAnswered
  <2>9. ASSUME NEW x \in Run, GitHub(x)
        PROVE  UNCHANGED row
    BY <2>9 DEF GitHub, PostArrives, WorkflowAdvances, SearchCatchesUp
  <2> QED BY <1>1, <2>2, <2>4, <2>5, <2>6, <2>7, <2>8, <2>9, StepCases DEF vars
<1>2. IInv /\ [Next]_vars =>
        [\A r \in Run :
           status[r] \in Conclusion =>
             /\ status'[r] = status[r] /\ linked'[r] = linked[r]
             /\ kind'[r] = kind[r] /\ build'[r] = build[r]]_vars
  BY <1>1
<1> QED BY <1>2, Inductive, PTL DEF Spec, CompletedIsFinal

-----------------------------------------------------------------------------
(***************************************************************************)
(* The pipeline keeps the promise of Promotion.                            *)
(***************************************************************************)
AbstractKind == [r \in Run |-> IF remote[r] = "none" THEN "none" ELSE kind[r]]
AbstractBuild == [r \in Run |-> IF remote[r] = "none" THEN NoRun ELSE build[r]]
AbstractWorkflow ==
  [r \in Run |->
     IF remote[r] = "none" THEN "none"
     ELSE IF remote[r] \in Conclusion THEN remote[r]
     ELSE IF remote[r] = "refused" THEN "failure" ELSE "running"]

\* The rows of started workflows do not change, so neither does what they map to.
LEMMA AbstractRows ==
  ASSUME IInv, Grows, NEW r \in Run, remote[r] # "none"
  PROVE  kind'[r] = kind[r] /\ build'[r] = build[r]
BY DEF IInv, RowsInv, RowsBehind, Grows, RowGrows, Stored

\* As long as GitHub's workflows do not move, the promise sees no step.
LEMMA AbstractStutters ==
  ASSUME IInv, Grows, remote' = remote
  PROVE  UNCHANGED Pipeline!vars
BY AbstractRows DEF Pipeline!vars

LEMMA PostStarts ==
  ASSUME IInv, Grows, NEW q \in Request, Post(q)
  PROVE  \E r \in Run : Pipeline!Start(r)
<1>0. TypeInv /\ RowsInv /\ PostIsFirst /\ q \in Call
  BY DEF IInv, CallsInv, Call
<1> PICK r \in Run : r = command[q].key
  BY <1>0 DEF Post, PostIsFirst
<1>1. /\ status[r] = "dispatching" /\ remote[r] = "none"
      /\ remote' = [remote EXCEPT ![r] = "requested"] /\ UNCHANGED <<kind, build>>
  BY <1>0 DEF Post, PostIsFirst, row
<1>2. r \in Stored /\ Active(r)
  BY <1>1 DEF Stored, Active, Conclusion
<1>3. Promised(kind[r], build[r], judgedAt[r])
  BY <1>0, <1>2 DEF RowsInv, RowsPromised
<1>4. kind[r] \in {"build", "stage", "prod"} /\ build[r] \in Run \cup {NoRun}
  BY <1>0, <1>3 DEF Promised, TypeInv, TypeOK
<1>5. \A s \in Run : AbstractWorkflow[s] # "running"
  <2>1. ASSUME NEW s \in Run, remote[s] \in {"requested", "queued", "in_progress"}
        PROVE  s = r
    <3>1. status[s] # "absent" /\ status[s] \notin Conclusion
      BY <1>0, <2>1 DEF RowsInv, RowsBehind, Behind, RemoteStatus, Conclusion
    <3> QED BY <1>0, <1>2, <3>1 DEF RowsInv, OneActive, Active
  <2> QED BY <1>0, <1>1, <2>1 DEF AbstractWorkflow, Conclusion, RemoteStatus, TypeInv, TypeOK
<1>6. \A s \in Stored : status[s] = "success" =>
        /\ s \in Run /\ AbstractWorkflow[s] = "success"
        /\ AbstractKind[s] = kind[s] /\ AbstractBuild[s] = build[s]
  BY <1>0 DEF RowsInv, RowsBehind, Behind, RemoteStatus, Conclusion, Stored,
     AbstractWorkflow, AbstractKind, AbstractBuild
<1>7. Pipeline!Gate(kind[r], build[r])
  <2>1. CASE kind[r] = "build" /\ build[r] = NoRun
    BY <2>1 DEF Pipeline!Gate
  <2>2. CASE /\ kind[r] \in {"stage", "prod"} /\ SuccessfulBuild(build[r])
             /\ kind[r] = "prod" => \E s \in Run : SuccessfulStage(s, build[r])
    <3>1. /\ build[r] \in Run /\ AbstractKind[build[r]] = "build"
          /\ AbstractWorkflow[build[r]] = "success"
      BY <1>6, <2>2 DEF SuccessfulBuild
    <3>2. kind[r] = "prod" =>
            \E s \in Run : /\ AbstractKind[s] = "stage" /\ AbstractBuild[s] = build[r]
                           /\ AbstractWorkflow[s] = "success"
      BY <1>6, <2>2 DEF SuccessfulStage
    <3> QED BY <2>2, <3>1, <3>2
            DEF Pipeline!Gate, AbstractKind, AbstractBuild, AbstractWorkflow
  <2> QED BY <1>3, <2>1, <2>2 DEF Promised
<1>8. /\ AbstractKind' = [AbstractKind EXCEPT ![r] = kind[r]]
      /\ AbstractBuild' = [AbstractBuild EXCEPT ![r] = build[r]]
      /\ AbstractWorkflow' = [AbstractWorkflow EXCEPT ![r] = "running"]
  BY <1>0, <1>1 DEF AbstractKind, AbstractBuild, AbstractWorkflow, Conclusion, TypeInv, TypeOK
<1> PICK k \in {"build", "stage", "prod"}, b \in Run \cup {NoRun} :
       k = kind[r] /\ b = build[r]
  BY <1>4
<1>9. /\ Pipeline!Gate(k, b)
      /\ AbstractKind' = [AbstractKind EXCEPT ![r] = k]
      /\ AbstractBuild' = [AbstractBuild EXCEPT ![r] = b]
  BY <1>7, <1>8
<1>10. AbstractWorkflow[r] = "none"
  BY <1>1 DEF AbstractWorkflow
<1>11. \E l \in {"build", "stage", "prod"}, d \in Run \cup {NoRun} :
         /\ Pipeline!Gate(l, d)
         /\ AbstractKind' = [AbstractKind EXCEPT ![r] = l]
         /\ AbstractBuild' = [AbstractBuild EXCEPT ![r] = d]
  BY <1>9
<1>12. Pipeline!Start(r)
  BY <1>5, <1>8, <1>10, <1>11
  DEF Pipeline!Start, AbstractKind, AbstractBuild, AbstractWorkflow
<1> QED BY <1>12

\* A workflow ends, or GitHub never runs it.
LEMMA GitHubFinishes ==
  ASSUME IInv, Grows, NEW r \in Run, GitHub(r)
  PROVE  UNCHANGED Pipeline!vars \/ \E c \in {"success", "failure"} : Pipeline!Finish(r, c)
<1>0. TypeInv /\ UNCHANGED <<kind, build>>
  BY DEF GitHub, PostArrives, WorkflowAdvances, SearchCatchesUp, row, IInv
<1>1. ASSUME NEW s \in {"queued", "in_progress"}, remote' = [remote EXCEPT ![r] = s],
             remote[r] \in {"requested", "queued", "in_progress"}
      PROVE  UNCHANGED Pipeline!vars
  BY <1>0, <1>1 DEF Pipeline!vars, Conclusion, TypeInv, TypeOK
<1>2. ASSUME NEW s \in Conclusion \cup {"refused"}, remote' = [remote EXCEPT ![r] = s],
             remote[r] \in {"requested", "queued", "in_progress"}
      PROVE  \E c \in {"success", "failure"} : Pipeline!Finish(r, c)
  <2>1. PICK c \in {"success", "failure"} : c = IF s = "refused" THEN "failure" ELSE s
    BY DEF Conclusion
  <2>2. Pipeline!Finish(r, c)
    BY <1>0, <1>2, <2>1 DEF Pipeline!Finish, Conclusion, TypeInv, TypeOK
  <2> QED BY <2>2
<1>3. CASE remote' = remote
  BY <1>3, AbstractStutters
<1> QED BY <1>1, <1>2, <1>3 DEF GitHub, PostArrives, WorkflowAdvances, SearchCatchesUp

\* The pipeline implements Promotion: workflows run one at a time, start once, and
\* start on the evidence the gates ask for.
THEOREM KeepsPromise == Spec => ImplementsPromotion
<1>1. Init => Pipeline!Init
  BY DEF Init, Pipeline!Init
<1>2. IInv /\ [Next]_vars => [Pipeline!Next]_(Pipeline!vars)
  <2> SUFFICES ASSUME IInv, [Next]_vars PROVE Pipeline!Next \/ UNCHANGED Pipeline!vars
    OBVIOUS
  <2>1. Grows
    BY StepGrows
  <2>2. ASSUME NEW q \in Request, Post(q)
        PROVE  Pipeline!Next
    BY <2>1, <2>2, PostStarts DEF Pipeline!Next
  <2>3. ASSUME NEW r \in Run, GitHub(r)
        PROVE  Pipeline!Next \/ UNCHANGED Pipeline!vars
    BY <2>1, <2>3, GitHubFinishes DEF Pipeline!Next
  <2>4. ASSUME NEW c \in Call, Begin(c) \/ End(c) \/ Read(c) \/ Write(c)
        PROVE  remote' = remote
    BY <2>4, BeginStep, EndType, WriteStep DEF Read, github, IInv, RowsInv
  <2>5. ASSUME NEW q \in Request, Reserve(q) \/ PostAnswered(q)
        PROVE  remote' = remote
    BY <2>5 DEF Reserve, PostAnswered, github
  <2>6. UNCHANGED vars => remote' = remote
    BY DEF vars, github
  <2> QED BY <2>1, <2>2, <2>3, <2>4, <2>5, <2>6, AbstractStutters, StepCases
<1> QED BY <1>1, <1>2, Inductive, PTL DEF Spec, ImplementsPromotion, Pipeline!Spec
=============================================================================
