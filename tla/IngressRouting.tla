---------------------------- MODULE IngressRouting ----------------------------
(***************************************************************************)
(* From a release to what the public proxy serves: the workers of Releases *)
(* switch the stable route of an application by replacing its route file,  *)
(* and the IngressReconcilerHost of another process lists the route files  *)
(* on a timer and replaces the configuration file Traefik watches.         *)
(*                                                                         *)
(* The two share nothing but the files, and each replacement is a rename:  *)
(* a listing sees the route before or after an activation.                 *)
(***************************************************************************)
EXTENDS Releases, SequencesExt

CONSTANT MaxCalls   \* bound: calls of reconcile() under way at a time

ASSUME CallsBound == MaxCalls \in Nat \ {0}

VARIABLES
  running,    \* the host's flag
  calls,      \* calls of reconcile() under way: the route each has listed
  published,  \* releaseId of the application's service in Traefik's file

  age         \* history: of published, and in calls of each listing: changes of the stable
              \* route since it was read

reconciler == <<running, calls, published, age>>
ingressVars == <<vars, reconciler>>

IngressTypeOK ==
  /\ running \in BOOLEAN
  /\ calls \in Seq([route : Release \cup {NoRelease}, age : Nat])
  /\ published \in Release \cup {NoRelease}
  /\ age \in Nat

IngressInit ==
  /\ Init
  /\ running = FALSE
  /\ calls = <<>>
  /\ published = NoRelease
  /\ age = 0

-----------------------------------------------------------------------------
\* Mutant: the interval calls run() whether or not the last call has returned.
AnyTime == TRUE

\* if (this.running) return
MayRun == ~ running

\* The timer fires: running is set and list() reads the route files.
List ==
  /\ MayRun
  /\ Len(calls) < MaxCalls
  /\ running' = TRUE
  /\ calls' = Append(calls, [route |-> route, age |-> 0])
  /\ UNCHANGED <<vars, published, age>>

\* The rename over the file that Traefik watches.
Replace(c) == published' = calls[c].route /\ age' = calls[c].age

\* finally { this.running = false }
Return(c) ==
  /\ running' = FALSE
  /\ calls' = RemoveAt(calls, c)
  /\ UNCHANGED vars

Write(c) == Return(c) /\ Replace(c)

\* Mutant: a call that throws leaves the flag set.
ThrowKeepsRunning(c) ==
  /\ calls' = RemoveAt(calls, c)
  /\ UNCHANGED <<vars, running, published, age>>

\* list(), the write, the rename or the removal of the temporary file throws; the host
\* logs it and tries again at the next interval.
ReconcileThrows(c) == Return(c) /\ (Replace(c) \/ UNCHANGED <<published, age>>)

\* The process dies and a new one starts; its timer calls run() at once.
HostRestarts ==
  /\ running
  /\ running' = FALSE
  /\ calls' = <<>>
  /\ UNCHANGED <<vars, published, age>>

IngressNext ==
  \/ /\ Next
     /\ LET changed == IF route' = route THEN 0 ELSE 1 IN
        /\ calls' = [c \in DOMAIN calls |-> [calls[c] EXCEPT !.age = @ + changed]]
        /\ age' = age + changed
     /\ UNCHANGED <<running, published>>
  \/ List
  \/ \E c \in DOMAIN calls : Write(c) \/ ReconcileThrows(c)
  \/ HostRestarts

\* The interval keeps calling run(), and not every call fails or is cut off.
IngressFairness ==
  /\ WF_ingressVars(List)
  /\ SF_ingressVars(\E c \in DOMAIN calls : Write(c))

IngressSpec == IngressInit /\ [][IngressNext]_ingressVars /\ Fairness /\ IngressFairness

-----------------------------------------------------------------------------
(***************************************************************************)
(* Properties.                                                             *)
(***************************************************************************)

\* Traefik follows the stable route: when it serves another one, it will serve the route of
\* then, although calls write what they listed before an activation, fail or are cut off.
TraefikFollowsRoute == published # route ~> published = route

\* The public route never goes back to an earlier one: no call of reconcile() overwrites
\* the file with a route older than the one it holds.
RoutesNeverGoBack == [][age' > age => route' # route]_ingressVars

\* Traefik serves a healthy release, one a worker is about to record healthy, or one whose
\* processing met a fault or a crash, although it follows the stable route late.
ServedIsAccountedFor ==
  published # NoRelease =>
    \/ status[published] = "healthy"
    \/ published \in hurt
    \/ \E w \in Worker : current[w] = published /\ pc[w] = "recording"

\* Traefik never serves a release whose container was removed, unless the release met a
\* fault: while Traefik follows late, rollbacks remove no container it may still use.
ServedHasContainer ==
  published # NoRelease => container[published] # "none" \/ published \in hurt
=============================================================================
