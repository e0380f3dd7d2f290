---------------------------- MODULE MCHostDeploy ----------------------------
(***************************************************************************)
(* HostDeploy on small instances.                                          *)
(***************************************************************************)
EXTENDS HostDeploy

\* Builds are numbered; the second and the third are of one revision.
RevisionOf(b) == b \div 2
=============================================================================
