----------------------------- MODULE MCReleases -----------------------------
(***************************************************************************)
(* Finite instances of Releases.  Workers are interchangeable, and so are  *)
(* release identities: only created_at and completed_at order them.        *)
(***************************************************************************)
EXTENDS Releases, TLC

Interchangeable == Permutations(Worker) \cup Permutations(Release)
=============================================================================
