----------------------------- MODULE MCJobQueue -----------------------------
(***************************************************************************)
(* JobQueue on small sets for TLC.                                         *)
(***************************************************************************)
EXTENDS JobQueue, TLC

OverHTTP == [remote |-> TRUE, whole |-> FALSE]
OnDatabase == [remote |-> FALSE, whole |-> TRUE]
Remotely == {OverHTTP}
EitherWay == {OverHTTP, OnDatabase}

Interchangeable == Permutations(Workers)
=============================================================================
