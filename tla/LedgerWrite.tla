----------------------------- MODULE LedgerWrite -----------------------------
(***************************************************************************)
(* What a governed write promises, with no store, network or recovery in   *)
(* it: under one idempotency key at most one row of exactly the requested  *)
(* content ever exists, an outcome once settled is final, `succeeded' and  *)
(* `failed_safe' are facts about the ledger, and a caller is told that its *)
(* write happened only when it provably did.                               *)
(***************************************************************************)
CONSTANTS Keys, Bodies, NoBody, Tokens

VARIABLES
    want,       \* the request bound to each key, NoBody before the first
    outcome,    \* how the key was settled, "open" until it is
    rows,       \* the ledger rows written under the key
    told        \* the keys a caller was told are recorded

vars == <<want, outcome, rows, told>>

Entries == [token : Tokens, body : Bodies, faithful : BOOLEAN]

Init ==
    /\ want = [k \in Keys |-> NoBody]
    /\ outcome = [k \in Keys |-> "open"]
    /\ rows = [k \in Keys |-> {}]
    /\ told = {}

Bind(k, f) ==
    /\ want[k] = NoBody
    /\ want' = [want EXCEPT ![k] = f]
    /\ UNCHANGED <<outcome, rows, told>>

\* A row may still arrive once a person has been asked to look, never once
\* the write is settled either way.
Land(k) ==
    /\ want[k] # NoBody
    /\ outcome[k] \in {"open", "needs_manual_review"}
    /\ rows[k] = {}
    /\ \E e \in Entries : e.body = want[k] /\ rows' = [rows EXCEPT ![k] = {e}]
    /\ UNCHANGED <<want, outcome, told>>

Settle(k, result) ==
    /\ want[k] # NoBody
    /\ outcome[k] = "open"
    /\ result = "succeeded" =>
         \E e \in rows[k] : e.faithful /\ rows[k] = {e}
    /\ result = "failed_safe" => rows[k] = {}
    /\ outcome' = [outcome EXCEPT ![k] = result]
    /\ told' \in IF result = "succeeded" THEN {told, told \cup {k}} ELSE {told}
    /\ UNCHANGED <<want, rows>>

\* One answer, or one scan of the Agent's recovery, may tell of several.
Tell(ks) ==
    /\ \A k \in ks : outcome[k] = "succeeded"
    /\ told' = told \cup ks
    /\ UNCHANGED <<want, outcome, rows>>

Next ==
    \/ \E k \in Keys :
        \/ \E f \in Bodies : Bind(k, f)
        \/ Land(k)
        \/ \E result \in {"succeeded", "failed_safe", "needs_manual_review"} :
             Settle(k, result)
    \/ \E ks \in SUBSET Keys : Tell(ks)

Spec == Init /\ [][Next]_vars
=============================================================================
