------------------------------- MODULE MCDal -------------------------------
(* ExternalEffect and ProviderExecution, which share no state, on one      *)
(* instance: `part' says which of the two runs, and the other rests in its *)
(* initial state, where none of its fair actions is possible.              *)
EXTENDS ExternalEffect, ProviderExecution

CONSTANT f1

VARIABLE part

OneFeature == [i \in Attempts |-> f1]

MCInit ==
    /\ EffectInit /\ Init /\ part \in {"attempts", "effects"}
    /\ part = "attempts" =>
           \A e \in Effects : effect[e].action = "push_branch"

MCNext ==
    /\ UNCHANGED part
    /\ \/ part = "effects" /\ EffectNext /\ UNCHANGED vars
       \/ part = "attempts" /\ Next /\ UNCHANGED effectVars

MCSpec ==
    /\ MCInit /\ [][MCNext]_<<effectVars, vars, part>>
    /\ EffectFairness /\ Fairness
=============================================================================
