------------------------------ MODULE Onboarding ------------------------------
(***************************************************************************)
(* What project provisioning promises: an organization is verified once,   *)
(* for one company; a request gets one repository, new and in the          *)
(* organization of its company; the repository is recorded before the      *)
(* template is on the branch that the request's address leads to, and the  *)
(* application is registered before the request is ready.                  *)
(***************************************************************************)
EXTENDS Naturals, FiniteSets

CONSTANTS Company, Key, Org, NoOrg, ProjectLimit

VARIABLES
  org,      \* the verified organization of each company
  stage,    \* how far each request of each company has come
  created   \* the repositories created: their ids, for which request and where

vars == <<org, stage, created>>

Init ==
  /\ org = [c \in Company |-> NoOrg]
  /\ stage = [c \in Company |-> [k \in Key |-> "absent"]]
  /\ created = {}

Approve(c, o) ==
  /\ org[c] = NoOrg
  /\ \A d \in Company : org[d] # o
  /\ org' = [org EXCEPT ![c] = o]
  /\ UNCHANGED <<stage, created>>

Advance(c, k, from, to) ==
  /\ stage[c][k] = from
  /\ stage' = [stage EXCEPT ![c][k] = to]
  /\ UNCHANGED <<org, created>>

Requested(c) == {k \in Key : stage[c][k] # "absent"}
RepositoryOf(c, k) == {x \in created : x.company = c /\ x.key = k}

Ask(c, k) ==
  /\ org[c] # NoOrg
  /\ Cardinality(Requested(c)) < ProjectLimit
  /\ Advance(c, k, "absent", "creating")

Create(c, k) ==
  /\ stage[c][k] = "creating" /\ RepositoryOf(c, k) = {}
  /\ \E x \in created' :
       /\ created' = created \cup {x}
       /\ x.company = c /\ x.key = k /\ x.org = org[c]
       /\ \A y \in created : y.id # x.id
  /\ UNCHANGED <<org, stage>>

Record(c, k) == RepositoryOf(c, k) # {} /\ Advance(c, k, "creating", "recorded")
Fill(c, k) == Advance(c, k, "recorded", "filled")
Register(c, k) == Advance(c, k, "filled", "registered")
Complete(c, k) == Advance(c, k, "registered", "ready")

Next ==
  \E c \in Company :
    \/ \E o \in Org : Approve(c, o)
    \/ \E k \in Key :
         Ask(c, k) \/ Create(c, k) \/ Record(c, k) \/ Fill(c, k) \/ Register(c, k) \/ Complete(c, k)

Spec == Init /\ [][Next]_vars
=============================================================================
