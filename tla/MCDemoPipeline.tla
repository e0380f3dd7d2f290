--------------------------- MODULE MCDemoPipeline ---------------------------
(***************************************************************************)
(* DemoPipeline on small instances.                                        *)
(***************************************************************************)
EXTENDS DemoPipeline, TLC

\* Calls and rows may be renamed: no definition names one.
Interchangeable ==
  Permutations(Request) \cup Permutations(Viewer) \cup Permutations(Run)
=============================================================================
