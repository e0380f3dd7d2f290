----------------------------- MODULE Promotion -----------------------------
(***************************************************************************)
(* What the delivery pipeline promises about the workflows of one          *)
(* application: they run one at a time, each is started once, a Stage      *)
(* deployment needs a successful build, and a Prod deployment needs a      *)
(* successful Stage deployment of the same build.                          *)
(***************************************************************************)
CONSTANTS
  Run,          \* identities of pipeline runs
  NoRun         \* the build of a build; nothing chosen yet

VARIABLES
  kind,         \* what each started run is: "none", "build", "stage" or "prod"
  build,        \* the build that a started Stage or Prod deployment deploys
  workflow      \* "none", "running", "success" or "failure"

vars == <<kind, build, workflow>>

Init ==
  /\ kind = [r \in Run |-> "none"]
  /\ build = [r \in Run |-> NoRun]
  /\ workflow = [r \in Run |-> "none"]

\* The evidence a run of kind k for build b needs before it may start.
Gate(k, b) ==
  \/ k = "build" /\ b = NoRun
  \/ /\ k \in {"stage", "prod"}
     /\ b \in Run /\ kind[b] = "build" /\ workflow[b] = "success"
     /\ k = "prod" =>
          \E s \in Run :
            kind[s] = "stage" /\ build[s] = b /\ workflow[s] = "success"

Start(r) ==
  /\ workflow[r] = "none"
  /\ \A s \in Run : workflow[s] # "running"
  /\ workflow' = [workflow EXCEPT ![r] = "running"]
  /\ \E k \in {"build", "stage", "prod"}, b \in Run \cup {NoRun} :
       /\ Gate(k, b)
       /\ kind' = [kind EXCEPT ![r] = k]
       /\ build' = [build EXCEPT ![r] = b]

Finish(r, conclusion) ==
  /\ workflow[r] = "running"
  /\ workflow' = [workflow EXCEPT ![r] = conclusion]
  /\ UNCHANGED <<kind, build>>

Next ==
  \E r \in Run :
    \/ Start(r)
    \/ \E c \in {"success", "failure"} : Finish(r, c)

Spec == Init /\ [][Next]_vars
=============================================================================
