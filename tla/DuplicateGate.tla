--------------------------- MODULE DuplicateGate ---------------------------
(***************************************************************************)
(* finance/duplicate_check.py and its two callers, finance/write_path.py   *)
(* (submit_expense) and finance/income_write.py: before the first row of   *)
(* an execution exists, the ledger is searched for what is about to be     *)
(* written; a match is answered with a question, and only a decision about *)
(* exactly the rows that were shown lets the write through.                *)
(*                                                                         *)
(* What is abstracted:                                                     *)
(*   - every request is the same purchase: name, amount, day and category  *)
(*     match, and requests differ at most in their scope (Entry), which    *)
(*     the match ignores and the fingerprint of a check includes;          *)
(*   - the scan of the year is one step;                                   *)
(*   - of the governed write, that it starts, and that its row lands once  *)
(*     at most, at any time or never (see GovernedWrite);                  *)
(*   - an expired check is one whose time has passed: expire_stale and     *)
(*     dismiss have no callers outside the tests.                          *)
(* Neither a retry of a key nor the reuse of a decision is assumed away.   *)
(***************************************************************************)
EXTENDS Naturals

CONSTANTS
    GateKeys,   \* idempotency keys, each of one request
    Entry,      \* what a key asks to write, as the fingerprint tells it apart
    GateCalls,  \* calls of the tool
    MaxChecks,  \* bound: the duplicate checks that can be raised
    HandRows,   \* bound: matching rows a person may add by hand
    NoCheck     \* no override, or no decision

\* A record a person creates is under no key of the Agent's.
ASSUME GateAssumption ==
    /\ GateKeys \cap HandRows = {}
    /\ MaxChecks \in Nat
    /\ NoCheck \notin 1..MaxChecks

VARIABLES
    tool,       \* which of the two tools is called
    execution,  \* tool_executions: whether it exists, and how it was let in
    rows,       \* the matching rows of the ledger
    removed,    \* hand rows that were taken out again
    check,      \* the duplicate_checks rows
    request     \* the local state of each call

gateVars == <<tool, execution, rows, removed, check, request>>

Checks == 1..MaxChecks
Overrides == Checks \cup {NoCheck}

NotStarted == [begun |-> FALSE, by |-> NoCheck, had |-> {}]
NotRaised == [status |-> "none", entry |-> NoCheck, key |-> NoCheck,
              shown |-> {}, live |-> FALSE]

InFlight(c) == request[c].step \in {"called", "looked", "read", "through"}

GateInit ==
    /\ tool \in {"expense", "income"}
    /\ execution = [k \in GateKeys |-> NotStarted]
    /\ rows \in SUBSET HandRows
    /\ removed = {}
    /\ check = [d \in Checks |-> NotRaised]
    /\ request \in [GateCalls -> [step : {"idle"}, key : GateKeys,
                                  override : {NoCheck}, had : {{}},
                                  seen : {{}}, by : {NoCheck}]]

Go(c, step) == request' = [request EXCEPT ![c].step = step]

(* The call is over: refused, asked, started or stopped, it holds nothing. *)
Over(c) == request' = [request EXCEPT ![c] =
    [step |-> "over", key |-> @.key, override |-> NoCheck, had |-> {},
     seen |-> {}, by |-> NoCheck]]

----------------------------------------------------------------------------
(* The gate.                                                                *)

(* The income tool asks for the execution before it reads the ledger; the  *)
(* expense tool reads first.                                               *)
Mutant_LooksFirst == TRUE
LooksFirst == tool = "income"

(* A request, for the first time or again, with a decision or without.     *)
(* `had' remembers the matching rows that exist when it arrives.           *)
Arrive(c, override) ==
    /\ request[c].step = "idle"
    /\ override # NoCheck => check[override].status # "none"
    /\ request' = [request EXCEPT ![c].step = "called",
                                  ![c].override = override, ![c].had = rows]
    /\ UNCHANGED <<tool, execution, rows, removed, check>>

Look(c) ==
    /\ request[c].step = "called" /\ LooksFirst
    /\ Go(c, IF execution[request[c].key].begun THEN "through" ELSE "looked")
    /\ UNCHANGED <<tool, execution, rows, removed, check>>

ReadLedger(c) ==
    /\ request[c].step = (IF LooksFirst THEN "looked" ELSE "called")
    /\ request' = [request EXCEPT ![c].step = "read", ![c].seen = rows]
    /\ UNCHANGED <<tool, execution, rows, removed, check>>

(* The expense tool asks now, with the rows it read before in its hands.   *)
GateApplies(c) == LooksFirst \/ ~execution[request[c].key].begun

(* authorise_override: what the read, and the compare-and-swap after it,   *)
(* ask of the check.                                                       *)
Mutant_Authorises(d, c) ==
    /\ check[d].live
    /\ check[d].entry = Entry[request[c].key]
    /\ check[d].shown = request[c].seen
Authorises(d, c) ==
    /\ check[d].status = "awaiting_decision"
    /\ check[d].live
    /\ check[d].entry = Entry[request[c].key]
    /\ check[d].shown = request[c].seen

PassUnasked(c) ==
    /\ request[c].step = "read"
    /\ \/ ~GateApplies(c)
       \/ request[c].override = NoCheck /\ request[c].seen = {}
    /\ Go(c, "through")
    /\ UNCHANGED <<tool, execution, rows, removed, check>>

(* The decision is spent in a transaction of its own.                      *)
PassReleased(c) ==
    LET d == request[c].override IN
    /\ request[c].step = "read" /\ GateApplies(c)
    /\ d # NoCheck
    /\ IF Authorises(d, c)
         THEN /\ check' = [check EXCEPT ![d].status = "write_anyway"]
              /\ request' = [request EXCEPT ![c].step = "through",
                                            ![c].by = d]
         ELSE /\ Over(c)
              /\ UNCHANGED check
    /\ UNCHANGED <<tool, execution, rows, removed>>

(* raise_check, and POSSIBLE_DUPLICATE to the caller.                      *)
RaiseCheck(c) ==
    /\ request[c].step = "read" /\ GateApplies(c)
    /\ request[c].override = NoCheck /\ request[c].seen # {}
    /\ \E d \in Checks :
          /\ check[d].status = "none"
          /\ \A e \in Checks : e < d => check[e].status # "none"
          /\ check' = [check EXCEPT ![d] =
                 [status |-> "awaiting_decision",
                  entry |-> Entry[request[c].key], key |-> request[c].key,
                  shown |-> request[c].seen, live |-> TRUE]]
    /\ Over(c)
    /\ UNCHANGED <<tool, execution, rows, removed>>

(* write_expense may still refuse the source or an entry before anything   *)
(* is persisted; the income tool has done so before it came to the gate.   *)
RefuseWrite(c) ==
    /\ request[c].step = "through" /\ tool = "expense"
    /\ Over(c)
    /\ UNCHANGED <<tool, execution, rows, removed, check>>

(* The write is prepared, or finds what another call of its key prepared.  *)
StartWrite(c) ==
    LET k == request[c].key IN
    /\ request[c].step = "through"
    /\ Over(c)
    /\ execution' = IF execution[k].begun THEN execution
                    ELSE [execution EXCEPT ![k] =
                             [begun |-> TRUE, by |-> request[c].by,
                              had |-> request[c].had]]
    /\ UNCHANGED <<tool, rows, removed, check>>

(* The process dies, or the call is cancelled, between two of its steps.   *)
Stop(c) ==
    /\ InFlight(c)
    /\ Over(c)
    /\ UNCHANGED <<tool, execution, rows, removed, check>>

----------------------------------------------------------------------------
(* Around it.                                                               *)

RowLands(k) ==
    /\ execution[k].begun /\ k \notin rows
    /\ rows' = rows \cup {k}
    /\ UNCHANGED <<tool, execution, removed, check, request>>

HandAdds(h) ==
    /\ h \notin rows \cup removed
    /\ rows' = rows \cup {h}
    /\ UNCHANGED <<tool, execution, removed, check, request>>

HandRemoves(h) ==
    /\ h \in rows
    /\ rows' = rows \ {h}
    /\ removed' = removed \cup {h}
    /\ UNCHANGED <<tool, execution, check, request>>

Lapse(d) ==
    /\ check[d].status = "awaiting_decision" /\ check[d].live
    /\ check' = [check EXCEPT ![d].live = FALSE]
    /\ UNCHANGED <<tool, execution, rows, removed, request>>

GateNext ==
    \/ \E c \in GateCalls :
          \/ \E o \in Overrides : Arrive(c, o)
          \/ Look(c) \/ ReadLedger(c)
          \/ PassUnasked(c) \/ PassReleased(c) \/ RaiseCheck(c)
          \/ RefuseWrite(c) \/ StartWrite(c) \/ Stop(c)
    \/ \E k \in GateKeys : RowLands(k)
    \/ \E h \in HandRows : HandAdds(h) \/ HandRemoves(h)
    \/ \E d \in Checks : Lapse(d)

GateSpec == GateInit /\ [][GateNext]_gateVars

----------------------------------------------------------------------------
(* Properties.                                                              *)

(* A retry never takes the row its own key wrote for a duplicate: of the   *)
(* checks the expense tool raises, none shows the row of the key it was    *)
(* raised for, whatever another call of the key, a recovery or a death     *)
(* does between the tool's two reads (write_path.py:502-507).              *)
NoSelfDuplicate ==
    tool = "expense" =>
        \A d \in Checks : check[d].key \notin check[d].shown

(* The income tool makes its two reads in the other order.  The same said  *)
(* of both tools is not true of the code.                                  *)
NoSelfDuplicateOfEither == \A d \in Checks : check[d].key \notin check[d].shown

(* Nothing is written over a duplicate unasked: a row that was in the      *)
(* ledger when the request came in, and was not taken out, was on the card *)
(* of the decision that let the write start, a decision about this entry   *)
(* that no other execution was let in by (duplicate_check.py:255-262).     *)
AskedBeforeRepeating ==
    \A k \in GateKeys : execution[k].begun =>
        LET d == execution[k].by IN
        /\ d = NoCheck => execution[k].had \subseteq removed
        /\ d # NoCheck =>
               /\ check[d].status = "write_anyway"
               /\ check[d].entry = Entry[k]
               /\ execution[k].had \ removed \subseteq check[d].shown
               /\ \A j \in GateKeys \ {k} : execution[j].by # d

=============================================================================
