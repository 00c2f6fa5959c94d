----------------------------- MODULE MCFinance -----------------------------
(* FamilyFund and DuplicateGate, which share no state, on one instance:    *)
(* `part' says which of the two runs, and the other rests in one of its    *)
(* initial states.                                                         *)
EXTENDS MCFamilyFund, DuplicateGate

CONSTANTS k3, g1, g2, g3

VARIABLE part

MCEntry == (k1 :> "personal") @@ (k2 :> "personal") @@ (k3 :> "family")

MCInit ==
    /\ Init /\ GateInit /\ part \in {"fund", "gate"}
    /\ part = "gate" => ~overlap /\ request[g1].key = k1 /\ request[g2].key = k2
    /\ part = "fund" => /\ tool = "expense" /\ rows = {}
                        /\ \A c \in GateCalls : request[c].key = k1

MCNext ==
    /\ UNCHANGED part
    /\ \/ part = "fund" /\ Next /\ UNCHANGED gateVars
       \/ part = "gate" /\ GateNext /\ UNCHANGED vars

MCSpec == MCInit /\ [][MCNext]_<<vars, gateVars, part>>
=============================================================================
