----------------------------- MODULE FamilyFund -----------------------------
(***************************************************************************)
(* finance/family_fund.py: a recharge computed from the balance it reads,  *)
(* written as one governed write, and verified by the balance it leads to. *)
(* Read, compute, write and verify are serialised by a durable resource    *)
(* lock that expires; recovery (finance/reconciler.py) takes the same lock.*)
(*                                                                         *)
(* What is abstracted:                                                     *)
(*   - amounts are what a row adds to the balance, twice 充值金额, so the    *)
(*     exact halving of a reconcile and the ledger's doubling cancel;      *)
(*   - the governed write under the lock keeps its own states, sends and   *)
(*     refusals, but the worker's transactions before its replay are one   *)
(*     step, a row stored otherwise than sent is a failed verification,    *)
(*     and a lost compare-and-swap is told by the state alone (the         *)
(*     transitions have no cycle), see GovernedWrite;                      *)
(*   - the 30 s recovery lease is taken inside the 120 s lock and is over  *)
(*     whenever the lock is, so it excludes nobody here;                   *)
(*   - rows added by hand only add to the balance.                         *)
(***************************************************************************)
EXTENDS Integers, FiniteSets

CONSTANTS
    Keys,           \* idempotency keys
    Calls,          \* calls of update_family_fund
    Recoverers,     \* recovery workers
    NoOwner,        \* no row in resource_locks
    Ask,            \* what a key asks for: mode and amount
    InitialBalance,
    MaxHandRows,    \* bound: rows a person adds to the table
    Overlaps        \* whether processes may overlap: in some, none or all runs

Modes == {"top_up", "interest_reconcile"}

ASSUME FundAssumption ==
    /\ Keys # {}
    /\ Ask \in [Keys -> [mode : Modes, amount : Nat]]
    /\ InitialBalance \in Nat /\ MaxHandRows \in Nat
    /\ Overlaps \subseteq BOOLEAN
    /\ Calls \cap Recoverers = {}
    /\ NoOwner \notin Calls \cup Recoverers

VARIABLES
    lock,       \* the resource lock of the ledger year
    exec,       \* the family-fund executions, by key
    call,       \* the local state of each call
    worker,     \* the local state of each recovery worker
    wire,       \* create requests the source has not processed
    answered,   \* senders with the source's answer to their create
    landed,     \* the ledger row of each key and the balance it landed on
    balance,    \* 家庭基金余额, the running total
    handRows,   \* rows added by hand so far
    overlap     \* processes may overlap in this run

vars == <<lock, exec, call, worker, wire, answered, landed, balance, handRows,
          overlap>>
source == <<landed, balance, handRows>>

Actors == Calls \cup Recoverers

TerminalStates == {"succeeded", "needs_manual_review"}
States == {"absent", "prepared", "submitting", "commit_unknown", "reconciling",
           "committed_unverified"} \cup TerminalStates

Recharge == [credit : Int, before : Int]
NoRecharge == [credit |-> 0, before |-> 0]
NoRow == [credit |-> 0, onto |-> 0]

TypeOK ==
    /\ lock \in [owner : Actors \cup {NoOwner}, live : BOOLEAN]
    /\ exec \in [Keys -> [state : States,
                          plan : [credit : Nat, before : Nat]]]
    /\ call \in [Calls -> [step : {"idle", "checked", "locked", "reading",
                                   "read", "prepared", "waiting",
                                   "reading_back", "verified", "mismatched",
                                   "done", "dead"},
                           key : Keys, plan : Recharge,
                           outcome : {"none", "created", "idempotent_replay",
                                      "commit_unknown", "unavailable",
                                      "no_change", "mismatch", "stale"}]]
    /\ worker \in [Recoverers -> [step : {"idle", "driving", "waiting",
                                          "reading_back", "verified",
                                          "mismatched"}, key : Keys]]
    /\ wire \subseteq [from : Actors \cup {NoOwner}, key : Keys, credit : Nat]
    /\ answered \subseteq Actors
    /\ landed \in [Keys -> [credit : Nat, onto : Nat]]
    /\ balance \in Nat
    /\ handRows \in 0..MaxHandRows
    /\ overlap \in Overlaps

SomeKey == CHOOSE k \in Keys : TRUE

Init ==
    /\ lock = [owner |-> NoOwner, live |-> FALSE]
    /\ exec = [k \in Keys |-> [state |-> "absent", plan |-> NoRecharge]]
    /\ call = [c \in Calls |-> [step |-> "idle", key |-> SomeKey,
                                plan |-> NoRecharge, outcome |-> "none"]]
    /\ worker = [r \in Recoverers |-> [step |-> "idle", key |-> SomeKey]]
    /\ wire = {}
    /\ answered = {}
    /\ landed = [k \in Keys |-> NoRow]
    /\ balance = InitialBalance
    /\ handRows = 0
    /\ overlap \in Overlaps

-----------------------------------------------------------------------------
(* The resource lock (storage/execution_store.py).                         *)

LockFree == lock.owner = NoOwner \/ ~lock.live

Locked(a) == lock' = [owner |-> a, live |-> TRUE]

Released(a) ==
    lock' = IF lock.owner = a THEN [owner |-> NoOwner, live |-> FALSE] ELSE lock

\* renew_resource_lock: only its live holder extends a lock.
Mutant_StillHeld(a) == TRUE
StillHeld(a) == lock.owner = a /\ lock.live

\* FAMILY_FUND_LOCK_SECONDS go by: the holder waits long, sleeps or is dead.
LockLapses ==
    /\ lock.live
    /\ lock' = [lock EXCEPT !.live = FALSE]
    /\ UNCHANGED <<exec, call, worker, wire, answered, source>>

-----------------------------------------------------------------------------
(* Pieces of update_family_fund.                                           *)

Exists(k) == exec[k].state # "absent"
Unfinished(k) == Exists(k) /\ exec[k].state \notin TerminalStates

\* _other_unfinished_execution: any key but this one.
OtherUnfinished(k) == \E o \in Keys \ {k} : Unfinished(o)

\* _compute_recharge, in what the balance gains.
Credit(ask, current) ==
    IF ask.mode = "top_up" THEN ask.amount ELSE ask.amount - current

\* A recharge is never zero and never negative.
Writable(credit) == credit > 0

\* verify_family_fund_recovery: the row, and the balance it had to lead to.
Mutant_Verified(k, plan) == landed[k].credit = plan.credit
Verified(k, plan) ==
    /\ landed[k].credit = plan.credit
    /\ balance = plan.before + plan.credit

\* The pre-check lets only a key go on that has no execution yet.
Mutant_Refused(k) == OtherUnfinished(k)
Refused(k) == Exists(k) \/ OtherUnfinished(k)

\* Between awaits one process lets nobody else run.
MidStretch(a) ==
    \/ a \in Calls /\ call[a].step \in {"checked", "locked", "prepared"}
    \/ a \in Recoverers /\ worker[a].step = "driving"

Runs(a) == overlap \/ \A b \in Actors \ {a} : ~MidStretch(b)

Goto(c, step) == call' = [call EXCEPT ![c] = [call[c] EXCEPT !.step = step]]

\* Whichever way the call ends, the finally block gives the lock back.
Leave(c, outcome) ==
    /\ call' = [call EXCEPT ![c] = [call[c] EXCEPT !.step = "done",
                                                   !.outcome = outcome]]
    /\ Released(c)

MoveTo(k, state) == exec' = [exec EXCEPT ![k] = [exec[k] EXCEPT !.state = state]]

Abandoned(a) ==
    {IF q.from = a THEN [q EXCEPT !.from = NoOwner] ELSE q : q \in wire}

-----------------------------------------------------------------------------
(* update_family_fund, called as c.                                        *)

\* Before the lock: a settled key is replayed from its sealed result, any
\* other execution of this key, or an unfinished one of another, refuses.
PreCheck(c, k) ==
    /\ call[c].step = "idle"
    /\ call' = [call EXCEPT ![c] =
                  [step |-> IF Refused(k) THEN "done" ELSE "checked",
                   key |-> k, plan |-> NoRecharge,
                   outcome |-> CASE ~Refused(k) -> "none"
                                 [] Refused(k) /\ exec[k].state = "succeeded" ->
                                      "idempotent_replay"
                                 [] OTHER -> "commit_unknown"]]
    /\ UNCHANGED <<lock, exec, worker, wire, answered, source>>

AcquireLock(c) ==
    /\ call[c].step = "checked"
    /\ IF LockFree THEN Locked(c) /\ Goto(c, "locked")
                   ELSE Leave(c, "unavailable")
    /\ UNCHANGED <<exec, worker, wire, answered, source>>

\* Under the lock the other keys are looked at once more; this key is not.
Recheck(c) ==
    /\ call[c].step = "locked"
    /\ IF OtherUnfinished(call[c].key)
       THEN Leave(c, "commit_unknown")
       ELSE Goto(c, "reading") /\ UNCHANGED lock
    /\ UNCHANGED <<exec, worker, wire, answered, source>>

ReadBalance(c) ==
    /\ call[c].step = "reading"
    /\ \/ /\ call' = [call EXCEPT ![c] =
                        [call[c] EXCEPT !.step = "read",
                                        !.plan.before = balance]]
          /\ UNCHANGED lock
       \/ Leave(c, "unavailable")
    /\ UNCHANGED <<exec, worker, wire, answered, source>>

\* The lock renewed, the recharge computed and prepare_execution, with no
\* await between them.  A key that meanwhile succeeded comes back from the
\* governed write with no stored fields, which have no verified balance.
Prepare(c) ==
    LET k == call[c].key
        credit == Credit(Ask[k], call[c].plan.before)
        plan == [call[c].plan EXCEPT !.credit = credit]
    IN /\ call[c].step = "read"
       /\ UNCHANGED <<worker, wire, answered, source>>
       /\ \/ ~StillHeld(c) /\ Leave(c, "unavailable") /\ UNCHANGED exec
          \/ /\ StillHeld(c) /\ ~Writable(credit)
             /\ Leave(c, "no_change") /\ UNCHANGED exec
          \/ /\ StillHeld(c) /\ Writable(credit)
             /\ exec[k].state \notin {"absent", "prepared"}
             /\ Leave(c, IF exec[k].state = "succeeded" THEN "mismatch"
                         ELSE "commit_unknown")
             /\ UNCHANGED exec
          \/ /\ StillHeld(c) /\ Writable(credit)
             /\ exec[k].state \in {"absent", "prepared"}
             /\ exec' = IF Exists(k) THEN exec
                        ELSE [exec EXCEPT ![k] = [state |-> "prepared",
                                                  plan |-> plan]]
             /\ call' = [call EXCEPT ![c] = [call[c] EXCEPT !.step = "prepared",
                                                            !.plan = plan]]
             /\ UNCHANGED lock

\* `submitting', and the create leaves.
Submit(c) ==
    LET k == call[c].key
    IN /\ call[c].step = "prepared"
       /\ IF exec[k].state = "prepared"
          THEN /\ MoveTo(k, "submitting")
               /\ wire' = wire \cup {[from |-> c, key |-> k,
                                      credit |-> call[c].plan.credit]}
               /\ Goto(c, "waiting")
               /\ UNCHANGED lock
          ELSE Leave(c, "stale") /\ UNCHANGED <<exec, wire>>
       /\ UNCHANGED <<worker, answered, source>>

RecordCreated(c) ==
    LET k == call[c].key
    IN /\ call[c].step = "waiting" /\ c \in answered
       /\ answered' = answered \ {c}
       /\ IF exec[k].state = "submitting"
          THEN MoveTo(k, "committed_unverified") /\ Goto(c, "reading_back")
               /\ UNCHANGED lock
          ELSE Leave(c, "stale") /\ UNCHANGED exec
       /\ UNCHANGED <<worker, wire, source>>

\* An error, a timeout or an answer that is lost.
CreateUnknown(c) ==
    LET k == call[c].key
    IN /\ call[c].step = "waiting"
       /\ answered' = answered \ {c}
       /\ wire' = Abandoned(c)
       /\ IF exec[k].state = "submitting"
          THEN MoveTo(k, "commit_unknown") /\ Leave(c, "commit_unknown")
          ELSE Leave(c, "stale") /\ UNCHANGED exec
       /\ UNCHANGED <<worker, source>>

ReadBack(c) ==
    /\ call[c].step = "reading_back"
    /\ \/ /\ Goto(c, IF Verified(call[c].key, call[c].plan) THEN "verified"
                     ELSE "mismatched")
          /\ UNCHANGED lock
       \/ Goto(c, "mismatched") /\ UNCHANGED lock
       \/ Leave(c, "commit_unknown")
    /\ UNCHANGED <<exec, worker, wire, answered, source>>

\* `succeeded' seals what this call computed as the result of the key.
Succeed(k, plan) == exec' = [exec EXCEPT ![k] = [state |-> "succeeded",
                                                 plan |-> plan]]

CommitSuccess(c) ==
    /\ call[c].step = "verified"
    /\ IF exec[call[c].key].state = "committed_unverified"
       THEN Succeed(call[c].key, call[c].plan) /\ Leave(c, "created")
       ELSE Leave(c, "stale") /\ UNCHANGED exec
    /\ UNCHANGED <<worker, wire, answered, source>>

CommitMismatch(c) ==
    /\ call[c].step = "mismatched"
    /\ IF exec[call[c].key].state = "committed_unverified"
       THEN MoveTo(call[c].key, "needs_manual_review") /\ Leave(c, "mismatch")
       ELSE Leave(c, "stale") /\ UNCHANGED exec
    /\ UNCHANGED <<worker, wire, answered, source>>

\* Cancelled at an await: the finally block still runs.
Cancel(c) ==
    /\ call[c].step \in {"reading", "read", "waiting", "reading_back"}
    /\ Goto(c, "dead")
    /\ Released(c)
    /\ wire' = Abandoned(c)
    /\ answered' = answered \ {c}
    /\ UNCHANGED <<exec, worker, source>>

CallStep(c) ==
    /\ Runs(c)
    /\ \/ \E k \in Keys : PreCheck(c, k)
       \/ AcquireLock(c) \/ Recheck(c) \/ ReadBalance(c) \/ Prepare(c)
       \/ Submit(c) \/ RecordCreated(c) \/ CreateUnknown(c) \/ ReadBack(c)
       \/ CommitSuccess(c) \/ CommitMismatch(c) \/ Cancel(c)

-----------------------------------------------------------------------------
(* reconcile_write of a family-fund key, run by worker r.                  *)

WorkerGoto(r, step) ==
    worker' = [worker EXCEPT ![r] = [worker[r] EXCEPT !.step = step]]

WorkerLeaves(r) == WorkerGoto(r, "idle") /\ Released(r)

TakeLock(r, k) ==
    /\ worker[r].step = "idle"
    /\ Unfinished(k)
    /\ LockFree
    /\ Locked(r)
    /\ worker' = [worker EXCEPT ![r] = [step |-> "driving", key |-> k]]
    /\ UNCHANGED <<exec, call, wire, answered, source>>

\* Up to the replayed create, or straight to the read-back of a known row.
Drive(r) ==
    LET k == worker[r].key
    IN /\ worker[r].step = "driving"
       /\ UNCHANGED <<call, answered, source>>
       /\ \/ /\ ~Unfinished(k)
             /\ WorkerLeaves(r) /\ UNCHANGED <<exec, wire>>
          \/ /\ exec[k].state = "committed_unverified"
             /\ WorkerGoto(r, "reading_back") /\ UNCHANGED <<lock, exec, wire>>
          \/ /\ Unfinished(k) /\ exec[k].state # "committed_unverified"
             /\ MoveTo(k, "reconciling")
             /\ wire' = wire \cup {[from |-> r, key |-> k,
                                    credit |-> exec[k].plan.credit]}
             /\ WorkerGoto(r, "waiting") /\ UNCHANGED lock

RecordReplayed(r) ==
    LET k == worker[r].key
    IN /\ worker[r].step = "waiting" /\ r \in answered
       /\ answered' = answered \ {r}
       /\ IF exec[k].state = "reconciling"
          THEN MoveTo(k, "committed_unverified") /\ WorkerGoto(r, "reading_back")
               /\ UNCHANGED lock
          ELSE WorkerLeaves(r) /\ UNCHANGED exec
       /\ UNCHANGED <<call, wire, source>>

\* Left for the next scan, or for a person once the deadline has passed.
ReviewOrRetry(r, current) ==
    LET k == worker[r].key
    IN /\ \/ UNCHANGED exec
          \/ exec[k].state = current /\ MoveTo(k, "needs_manual_review")
       /\ WorkerLeaves(r)

ReplayFails(r) ==
    /\ worker[r].step = "waiting"
    /\ ReviewOrRetry(r, "reconciling")
    /\ answered' = answered \ {r}
    /\ wire' = Abandoned(r)
    /\ UNCHANGED <<call, source>>

RecoveryReadBack(r) ==
    LET k == worker[r].key
    IN /\ worker[r].step = "reading_back"
       /\ \/ /\ WorkerGoto(r, IF Verified(k, exec[k].plan) THEN "verified"
                              ELSE "mismatched")
             /\ UNCHANGED <<lock, exec>>
          \/ WorkerGoto(r, "mismatched") /\ UNCHANGED <<lock, exec>>
          \/ ReviewOrRetry(r, "committed_unverified")
       /\ UNCHANGED <<call, wire, answered, source>>

RecoverySettles(r) ==
    LET k == worker[r].key
    IN /\ worker[r].step \in {"verified", "mismatched"}
       /\ \/ /\ exec[k].state = "committed_unverified"
             /\ MoveTo(k, IF worker[r].step = "verified" THEN "succeeded"
                          ELSE "needs_manual_review")
          \/ exec[k].state # "committed_unverified" /\ UNCHANGED exec
       /\ WorkerLeaves(r)
       /\ UNCHANGED <<call, wire, answered, source>>

WorkerStep(r) ==
    /\ Runs(r)
    /\ \/ \E k \in Keys : TakeLock(r, k)
       \/ Drive(r) \/ RecordReplayed(r) \/ ReplayFails(r)
       \/ RecoveryReadBack(r) \/ RecoverySettles(r)

-----------------------------------------------------------------------------
(* The ledger, a person at it, and process death.                          *)

\* One row per client token; the response to a waiting sender names it.
Land(q) ==
    /\ wire' = wire \ {q}
    /\ IF landed[q.key] # NoRow THEN UNCHANGED <<landed, balance>>
       ELSE /\ landed' = [landed EXCEPT ![q.key] = [credit |-> q.credit,
                                                    onto |-> balance]]
            /\ balance' = balance + q.credit
    /\ answered' = answered \cup ({q.from} \ {NoOwner})
    /\ UNCHANGED <<lock, exec, call, worker, handRows>>

Drop(q) ==
    /\ wire' = wire \ {q}
    /\ UNCHANGED <<lock, exec, call, worker, answered, source>>

AddHandRow ==
    /\ handRows < MaxHandRows
    /\ handRows' = handRows + 1
    /\ balance' = balance + 1
    /\ UNCHANGED <<lock, exec, call, worker, wire, answered, landed>>

\* The actors in S die; the lock in the database outlives its owner.
Die(S) ==
    /\ \E a \in S : (a \in Calls /\ call[a].step \notin {"idle", "done", "dead"})
                 \/ (a \in Recoverers /\ worker[a].step # "idle")
    /\ call' = [c \in Calls |->
                  IF c \in S /\ call[c].step \notin {"idle", "done"}
                  THEN [call[c] EXCEPT !.step = "dead"] ELSE call[c]]
    /\ worker' = [r \in Recoverers |->
                    IF r \in S THEN [worker[r] EXCEPT !.step = "idle"]
                    ELSE worker[r]]
    /\ wire' = {IF q.from \in S THEN [q EXCEPT !.from = NoOwner] ELSE q : q \in wire}
    /\ answered' = answered \ S
    /\ UNCHANGED <<lock, exec, source>>

Processes == IF overlap THEN {{a} : a \in Actors} ELSE {Actors}

Environment ==
    \/ \E q \in wire : Land(q) \/ Drop(q)
    \/ AddHandRow
    \/ LockLapses
    \/ \E S \in Processes : Die(S)

Next ==
    /\ \/ \E c \in Calls : CallStep(c)
       \/ \E r \in Recoverers : WorkerStep(r)
       \/ Environment
    /\ UNCHANGED overlap

Spec == Init /\ [][Next]_vars

-----------------------------------------------------------------------------
(* What must hold.                                                         *)

\* "The whole read-compute-write-verify cycle is serialised per ledger year":
\* whatever locks lapse and whoever dies, no second recharge is written while
\* the outcome of one is open, so none is computed from a balance that an open
\* one may still change.
OneOpenRecharge == Cardinality({k \in Keys : Unfinished(k)}) <= 1

\* A recharge that succeeded landed on the very balance it was computed from:
\* a late row of an abandoned key, or one added by hand, is never verified away.
SuccessLandedOnPlan ==
    \A k \in Keys :
        exec[k].state = "succeeded" =>
            /\ landed[k].credit = exec[k].plan.credit
            /\ landed[k].onto = exec[k].plan.before

\* "A replay must return the same record id and the same post-write balance"
\* (_replay): no caller is told of a mismatch, and so sent to look for an error
\* in the ledger, when the write of its key has succeeded.
MismatchIsReal ==
    \A c \in Calls :
        call[c].outcome = "mismatch" => exec[call[c].key].state # "succeeded"

\* The same of a service that only ever runs in one process: the stretches of
\* code between two awaits then make up for the check that is not repeated
\* under the lock.
MismatchIsRealInOneProcess == ~overlap => MismatchIsReal

=============================================================================
