------------------------------- MODULE MCAccess -------------------------------
(* Access with two tokens: one whose authentication context is a step-up,   *)
(* one with the password only.                                              *)
EXTENDS Access, TLC

CONSTANTS t1, t2, alice, c1, c2

MCHolder == (t1 :> alice) @@ (t2 :> alice)
MCAcr == (t1 :> "mfa") @@ (t2 :> "pwd")
MCAmr == (t1 :> {}) @@ (t2 :> {"pwd"})
MCContexts == {"mfa"}
MCMethods == {"pwd", "otp"}

\* One endpoint for every gate.
MCEndpoint ==
  {e \in Api : e.name \in {"assessments.get", "assessments.submit", "builds.submit", "demo-pipeline.dispatch"}}

Symmetric == Permutations(Request) \cup Permutations(Redirect) \cup Permutations(Browser) \cup Permutations(State) \cup Permutations(Company)
=============================================================================
