------------------------------ MODULE MCAgent ------------------------------
(* AgentOperation and MediaLifecycle, which share no state, on one         *)
(* instance: `part' says which of the two runs, and the other rests in an  *)
(* initial state, where none of its fair actions is possible.              *)
EXTENDS MCAgentOperation, MediaLifecycle

VARIABLE part

MCInit ==
    /\ Init /\ MediaInit /\ part \in {"operations", "images"}
    /\ part = "images" => environment = CHOOSE e \in Environments : TRUE

MCNext ==
    /\ UNCHANGED part
    /\ \/ part = "operations" /\ Next /\ UNCHANGED mediaVars
       \/ part = "images" /\ MediaNext /\ UNCHANGED vars

MCSpec ==
    /\ MCInit /\ [][MCNext]_<<vars, mediaVars, part>>
    /\ Fairness /\ MediaFairness
=============================================================================
