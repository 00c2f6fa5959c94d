---------------------------- MODULE MCFamilyFund ----------------------------
(***************************************************************************)
(* FamilyFund on small sets for TLC: one key reconciles to a target that   *)
(* another key's top-up, or a row added by hand, reaches or passes.        *)
(***************************************************************************)
EXTENDS FamilyFund, TLC

CONSTANTS k1, k2

MCAsk == (k1 :> [mode |-> "interest_reconcile", amount |-> 3])
      @@ (k2 :> [mode |-> "top_up", amount |-> 2])

Interchangeable == Permutations(Calls)
=============================================================================
