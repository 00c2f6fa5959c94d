--------------------------- MODULE MCGovernedWrite ---------------------------
(***************************************************************************)
(* GovernedWrite on small sets for TLC.                                    *)
(***************************************************************************)
EXTENDS GovernedWrite, TLC

\* Calls and workers are interchangeable: they appear only as identities.
Interchangeable == Permutations(Calls) \cup Permutations(Recoverers)
=============================================================================
