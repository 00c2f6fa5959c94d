---------------------------- MODULE GovernedWrite ----------------------------
(***************************************************************************)
(* The crash-safe create: finance/write_path.py execute_governed_write run *)
(* by any number of concurrent calls, finance/reconciler.py reconcile_write*)
(* run by the recovery scans of server/composition.py, both over one       *)
(* execution store, and the fact source (Feishu Bitable) behind a network  *)
(* that loses, delays and answers too late.                                *)
(*                                                                         *)
(* One action per stretch of code between two awaits: a `with sessions()'  *)
(* block is one transaction and one step, a request to the source is a     *)
(* step of its own, and the answer is handled in a later one.              *)
(*                                                                         *)
(* What is abstracted:                                                     *)
(*   - a body is a request fingerprint; equal bodies are equal payloads;   *)
(*   - a client token is named by the call that minted it, and a record id *)
(*     by the token it was created under, for the source creates at most   *)
(*     one record per token (feishu/adapter.py create_record);             *)
(*   - the three read-back attempts are one step that finds the stored row *)
(*     or finds the source unavailable;                                    *)
(*   - a row stored differently from what was sent (a formula, a           *)
(*     normalised cell) is decided when the source creates it;             *)
(*   - the audit events appended beside each transition are left out.      *)
(***************************************************************************)
EXTENDS ExecutionStore, FiniteSets

CONSTANTS
    Keys,           \* idempotency keys
    Calls,          \* calls of a write tool; Tokens = Calls
    Recoverers,     \* recovery workers; Owners = Recoverers
    MaxCrashes,     \* bound: process deaths in a behaviour
    MaxReconfigs    \* bound: deaths that come back with another ledger config

ASSUME GovernedAssumption ==
    /\ Tokens = Calls
    /\ Owners = Recoverers
    /\ Calls \cap Recoverers = {}
    /\ NoOwner \notin Calls
    /\ Keys # {} /\ Fingerprints # {}
    /\ MaxCrashes \in Nat
    /\ MaxReconfigs \in Nat

VARIABLES
    exec,       \* tool_executions, by idempotency key
    receipt,    \* external_receipts, by idempotency key
    call,       \* the local state of each tool call
    worker,     \* the local state of each recovery worker
    sent,       \* create requests the source has not processed
    answer,     \* the response waiting for a sender
    ledger,     \* the source's rows, by the token that created them
    crashes,    \* process deaths so far
    reconfigs   \* of these, restarts under another config checksum

vars == <<exec, receipt, call, worker, sent, answer, ledger, crashes, reconfigs>>
store == <<exec, receipt>>
source == <<sent, answer, ledger>>
faults == <<crashes, reconfigs>>

Senders == Calls \cup Recoverers

\* A request whose sender is NoOwner has nobody waiting for its answer.
Requests == [from : Senders \cup {NoOwner}, key : Keys,
             token : Tokens \cup {NoToken},
             body : Fingerprints \cup {NoBody}]

NoRow == [key |-> CHOOSE k \in Keys : TRUE, body |-> NoBody, faithful |-> FALSE]
Created(token) == ledger[token].body # NoBody
RowsOf(k) == {t \in Tokens : Created(t) /\ ledger[t].key = k}

CallSteps == {"idle", "prepared", "submitting", "waiting", "unverified",
              "matched", "mismatched", "done", "dead"}
Outcomes == {"none", "created", "idempotent_replay", "conflict",
             "commit_unknown", "mismatch", "stale"}

WorkerSteps == {"idle", "leased", "submit", "promote", "resume", "replay",
                "waiting", "reread", "read_back", "matched", "fail_safe",
                "manual", "release"}

CallState == [step : CallSteps, key : Keys, body : Fingerprints,
              token : Tokens \cup {NoToken}, version : Nat,
              outcome : Outcomes]

\* `state' is the current_state a worker will claim for manual review.
WorkerState == [step : WorkerSteps, key : Keys, version : Nat,
                state : ExecutionStates \cup {"absent"},
                record : Tokens \cup {NoToken}]

LedgerRow == [key : Keys, body : Fingerprints \cup {NoBody},
              faithful : BOOLEAN]

TypeOK ==
    /\ exec \in [Keys -> Row]
    /\ receipt \in [Keys -> Receipts]
    /\ call \in [Calls -> CallState]
    /\ worker \in [Recoverers -> WorkerState]
    /\ sent \subseteq Requests
    /\ answer \in [Senders -> {"none", "record", "no_record_id"}]
    /\ ledger \in [Tokens -> LedgerRow]
    /\ crashes \in 0..MaxCrashes
    /\ reconfigs \in 0..MaxReconfigs

IdleCall(c) == [step |-> "idle", key |-> CHOOSE k \in Keys : TRUE,
                body |-> CHOOSE f \in Fingerprints : TRUE, token |-> c,
                version |-> 0, outcome |-> "none"]

IdleWorker == [step |-> "idle", key |-> CHOOSE k \in Keys : TRUE,
               version |-> 0, state |-> "prepared", record |-> NoToken]

Init ==
    /\ exec = [k \in Keys |-> AbsentRow]
    /\ receipt = [k \in Keys |-> NoReceipt]
    /\ call = [c \in Calls |-> IdleCall(c)]
    /\ worker = [r \in Recoverers |-> IdleWorker]
    /\ sent = {}
    /\ answer = [s \in Senders |-> "none"]
    /\ ledger = [t \in Tokens |-> NoRow]
    /\ crashes = 0
    /\ reconfigs = 0

-----------------------------------------------------------------------------
(* transition() of the row of k: it wins the compare-and-swap or it raises. *)

Wins(k, current, version, target) ==
    CanTransition(exec[k], current, version, target)

Move(k, target) ==
    exec' = [exec EXCEPT ![k] = Transitioned(exec[k], target)]

-----------------------------------------------------------------------------
(* The fact source.                                                        *)

\* The request is processed: one record per token, whatever the body says
\* the second time.  A sender still waiting is answered with the record, or
\* with a body that carries no usable record id.
SourceCreates(q) ==
    /\ q \in sent
    /\ sent' = sent \ {q}
    /\ IF Created(q.token)
       THEN UNCHANGED ledger
       ELSE \E faithful \in BOOLEAN :
              ledger' = [ledger EXCEPT ![q.token] =
                           [key |-> q.key, body |-> q.body,
                            faithful |-> faithful]]
    /\ IF q.from = NoOwner
       THEN UNCHANGED answer
       ELSE \E a \in {"record", "no_record_id"} :
              answer' = [answer EXCEPT ![q.from] = a]
    /\ UNCHANGED <<store, call, worker, faults>>

\* The request never reaches the source, or is refused there.
SourceDrops(q) ==
    /\ q \in sent
    /\ sent' = sent \ {q}
    /\ UNCHANGED <<store, call, worker, answer, ledger, faults>>

\* The senders in S stop waiting; what they sent may still be processed.
Abandoned(S) ==
    {IF q.from \in S THEN [q EXCEPT !.from = NoOwner] ELSE q : q \in sent}

-----------------------------------------------------------------------------
(* execute_governed_write, called as c.                                    *)

Goto(c, step) ==
    call' = [call EXCEPT ![c] = [call[c] EXCEPT !.step = step]]

GotoMoved(c, step) ==
    call' = [call EXCEPT ![c] = [call[c] EXCEPT !.step = step,
                                                !.version = @ + 1]]

Finish(c, outcome) ==
    call' = [call EXCEPT ![c] = [call[c] EXCEPT !.step = "done",
                                                !.outcome = outcome]]

\* prepare_execution creates the row of a key once, and never again.
Mutant_NeedsRow(row) == ~Exists(row) \/ row.state = "needs_manual_review"
NeedsRow(row) == ~Exists(row)

\* What the row it finds means to the call; "none" lets it go on.
Mutant_PrepareOutcome(row, f) ==
    CASE row.state = "succeeded" -> "idempotent_replay"
      [] row.state = "prepared" -> "none"
      [] OTHER -> "commit_unknown"

PrepareOutcome(row, f) ==
    CASE row.body # f -> "conflict"
      [] row.body = f /\ row.state = "succeeded" -> "idempotent_replay"
      [] row.body = f /\ row.state = "prepared" -> "none"
      [] OTHER -> "commit_unknown"

\* The token a call goes on with is the row's, not the one it just minted.
Mutant_ClientToken(row, c) == c
ClientToken(row, c) == row.token

\* Step 1: prepare_execution and what its result means to this call.
Prepare(c, k, f) ==
    /\ call[c].step = "idle"
    /\ UNCHANGED <<receipt, worker, source, faults>>
    /\ LET row == IF NeedsRow(exec[k]) THEN PreparedRow(f, c, "sealed")
                  ELSE exec[k]
           outcome == PrepareOutcome(row, f)
       IN /\ exec' = [exec EXCEPT ![k] = row]
          /\ call' = [call EXCEPT ![c] =
                        [step |-> IF outcome = "none" THEN "prepared"
                                  ELSE "done",
                         key |-> k, body |-> f,
                         token |-> ClientToken(row, c),
                         version |-> row.version, outcome |-> outcome]]

\* Step 2: `submitting' commits before the request leaves.
Submit(c) ==
    LET k == call[c].key
    IN /\ call[c].step = "prepared"
       /\ UNCHANGED <<receipt, worker, source, faults>>
       /\ IF Wins(k, "prepared", call[c].version, "submitting")
          THEN Move(k, "submitting") /\ GotoMoved(c, "submitting")
          ELSE Finish(c, "stale") /\ UNCHANGED exec

\* Step 3: the one create.
SendCreate(c) ==
    /\ call[c].step = "submitting"
    /\ sent' = sent \cup {[from |-> c, key |-> call[c].key,
                           token |-> call[c].token, body |-> call[c].body]}
    /\ Goto(c, "waiting")
    /\ UNCHANGED <<store, worker, answer, ledger, faults>>

\* Step 3, AppError or no usable record id: the outcome is unknown.
CreateUnknown(c) ==
    LET k == call[c].key
    IN /\ call[c].step = "waiting"
       /\ answer[c] # "record"
       /\ sent' = Abandoned({c})
       /\ answer' = [answer EXCEPT ![c] = "none"]
       /\ IF Wins(k, "submitting", call[c].version, "commit_unknown")
          THEN Move(k, "commit_unknown") /\ Finish(c, "commit_unknown")
          ELSE Finish(c, "stale") /\ UNCHANGED exec
       /\ UNCHANGED <<receipt, worker, ledger, faults>>

\* The answer is lost on its way back.
AnswerLost(s) ==
    /\ answer[s] # "none"
    /\ answer' = [answer EXCEPT ![s] = "none"]
    /\ UNCHANGED <<store, call, worker, sent, ledger, faults>>

\* Step 4: receipt and `committed_unverified' in one transaction.
RecordCreated(c) ==
    LET k == call[c].key
    IN /\ call[c].step = "waiting"
       /\ answer[c] = "record"
       /\ answer' = [answer EXCEPT ![c] = "none"]
       /\ UNCHANGED <<worker, sent, ledger, faults>>
       /\ IF /\ CanRecordReceipt(receipt[k])
             /\ Wins(k, "submitting", call[c].version, "committed_unverified")
          THEN /\ receipt' = [receipt EXCEPT ![k] =
                                RecordedReceipt(call[c].token)]
               /\ Move(k, "committed_unverified")
               /\ GotoMoved(c, "unverified")
          ELSE Finish(c, "stale") /\ UNCHANGED store

\* The read-back: the row under this token holds exactly the body.
Mutant_Matches(token, body) == Created(token)
Matches(token, body) == ledger[token].faithful /\ ledger[token].body = body

\* Step 5: read back what the source holds, or find it unavailable.
ReadBack(c) ==
    /\ call[c].step = "unverified"
    /\ \/ Goto(c, IF Matches(call[c].token, call[c].body)
                  THEN "matched" ELSE "mismatched")
       \/ Finish(c, "commit_unknown")
    /\ UNCHANGED <<store, worker, source, faults>>

\* Step 5, some field disagrees.
CommitMismatch(c) ==
    LET k == call[c].key
    IN /\ call[c].step = "mismatched"
       /\ IF Wins(k, "committed_unverified", call[c].version,
                  "needs_manual_review")
          THEN Move(k, "needs_manual_review") /\ Finish(c, "mismatch")
          ELSE Finish(c, "stale") /\ UNCHANGED exec
       /\ UNCHANGED <<receipt, worker, source, faults>>

\* Step 6: the verified receipt and `succeeded' in one transaction.
CommitSuccess(c) ==
    LET k == call[c].key
    IN /\ call[c].step = "matched"
       /\ IF /\ CanMarkVerified(receipt[k])
             /\ Wins(k, "committed_unverified", call[c].version, "succeeded")
          THEN /\ receipt' = [receipt EXCEPT ![k] = VerifiedReceipt(receipt[k])]
               /\ Move(k, "succeeded")
               /\ Finish(c, "created")
          ELSE Finish(c, "stale") /\ UNCHANGED store
       /\ UNCHANGED <<worker, source, faults>>

\* The call is cancelled at an await (those of the fault breakpoints included),
\* or its process dies while another one lives: nothing of it runs any more.
Cancel(c) ==
    /\ call[c].step \in {"prepared", "submitting", "waiting", "unverified"}
    /\ Goto(c, "dead")
    /\ sent' = Abandoned({c})
    /\ answer' = [answer EXCEPT ![c] = "none"]
    /\ UNCHANGED <<store, worker, ledger, faults>>

CallStep(c) ==
    \/ \E k \in Keys, f \in Fingerprints : Prepare(c, k, f)
    \/ Submit(c) \/ SendCreate(c) \/ CreateUnknown(c) \/ RecordCreated(c)
    \/ ReadBack(c) \/ CommitMismatch(c) \/ CommitSuccess(c) \/ Cancel(c)

-----------------------------------------------------------------------------
(* reconcile_write, run for one key at a time by worker r of               *)
(* recover_unfinished.  Every refusal (CAS lost, illegal transition,       *)
(* ReconcileError) falls through to the release of the lease, and the next *)
(* scan tries again.                                                       *)

WorkerGoto(r, step) ==
    worker' = [worker EXCEPT ![r] = [worker[r] EXCEPT !.step = step]]

\* One scanned key: claim its recovery lease, or leave it to its holder.
AcquireLease(r, k) ==
    /\ worker[r].step = "idle"
    /\ CanAcquireLease(exec[k])
    /\ exec' = [exec EXCEPT ![k] = LeaseAcquired(exec[k], r)]
    /\ worker' = [worker EXCEPT ![r] =
                    [IdleWorker EXCEPT !.step = "leased", !.key = k]]
    /\ UNCHANGED <<receipt, call, source, faults>>

\* Where _drive goes from the row it reads.
DriveStep(row) ==
    CASE row.state \in TerminalStates -> "release"
      [] row.state = "prepared" /\ row.payload # "sealed" -> "fail_safe"
      [] row.state \notin TerminalStates /\ row.state # "prepared"
         /\ row.payload # "sealed" -> "manual"
      [] row.state = "prepared" /\ row.payload = "sealed" -> "submit"
      [] row.state = "submitting" /\ row.payload = "sealed" -> "promote"
      [] row.state = "commit_unknown" /\ row.payload = "sealed" -> "resume"
      [] row.state = "reconciling_same_client_token"
         /\ row.payload = "sealed" -> "replay"
      [] OTHER -> "reread"

\* _drive's first transaction: a snapshot of the row under the lease.
Drive(r) ==
    LET row == exec[worker[r].key]
    IN /\ worker[r].step = "leased"
       /\ worker' = [worker EXCEPT ![r] =
                       [worker[r] EXCEPT !.step = DriveStep(row),
                                         !.version = row.version,
                                         !.state = row.state]]
       /\ UNCHANGED <<store, call, source, faults>>

\* One conservative transition of the snapshot, then the next step.
Advance(r, step, current, target, next) ==
    LET k == worker[r].key
    IN /\ worker[r].step = step
       /\ UNCHANGED <<receipt, call, source, faults>>
       /\ IF Wins(k, current, worker[r].version, target)
          THEN /\ Move(k, target)
               /\ worker' = [worker EXCEPT ![r] =
                               [worker[r] EXCEPT !.step = next,
                                                 !.version = @ + 1,
                                                 !.state = target]]
          ELSE WorkerGoto(r, "release") /\ UNCHANGED exec

SubmitPrepared(r) ==
    Advance(r, "submit", "prepared", "submitting", "promote")
PromoteSubmitting(r) ==
    Advance(r, "promote", "submitting", "commit_unknown", "resume")
ResumeUnknown(r) ==
    Advance(r, "resume", "commit_unknown", "reconciling_same_client_token",
            "replay")

\* _fail_unrecoverable_pre_submit: nothing was sent and nothing can be.
FailUnrecoverable(r) ==
    Advance(r, "fail_safe", "prepared", "failed_safe", "release")

\* _to_manual_review from the state the worker believes the row is in.
ToManualReview(r) ==
    LET k == worker[r].key
    IN /\ worker[r].step = "manual"
       /\ IF Wins(k, worker[r].state, worker[r].version,
                  "needs_manual_review")
          THEN Move(k, "needs_manual_review")
          ELSE UNCHANGED exec
       /\ WorkerGoto(r, "release")
       /\ UNCHANGED <<receipt, call, source, faults>>

\* The same create again, under the token and payload of the row.
ReplayCreate(r) ==
    LET k == worker[r].key
    IN /\ worker[r].step = "replay"
       /\ sent' = sent \cup {[from |-> r, key |-> k, token |-> exec[k].token,
                              body |-> exec[k].body]}
       /\ WorkerGoto(r, "waiting")
       /\ UNCHANGED <<store, call, answer, ledger, faults>>

\* AppError: manual review at the deadline, the next scan before it.
ReplayFails(r) ==
    /\ worker[r].step = "waiting"
    /\ answer[r] = "none"
    /\ WorkerGoto(r, IF DeadlineReached(exec[worker[r].key]) THEN "manual"
               ELSE "release")
    /\ sent' = Abandoned({r})
    /\ UNCHANGED <<store, call, answer, ledger, faults>>

ReplayWithoutRecord(r) ==
    /\ worker[r].step = "waiting"
    /\ answer[r] = "no_record_id"
    /\ answer' = [answer EXCEPT ![r] = "none"]
    /\ WorkerGoto(r, "manual")
    /\ UNCHANGED <<store, call, sent, ledger, faults>>

\* The receipt, unless there is one, and `committed_unverified'.
RecordReplayed(r) ==
    LET k == worker[r].key
    IN /\ worker[r].step = "waiting"
       /\ answer[r] = "record"
       /\ answer' = [answer EXCEPT ![r] = "none"]
       /\ UNCHANGED <<call, sent, ledger, faults>>
       /\ IF Wins(k, "reconciling_same_client_token", worker[r].version,
                  "committed_unverified")
          THEN /\ receipt' = IF HasReceipt(receipt[k]) THEN receipt
                             ELSE [receipt EXCEPT ![k] =
                                     RecordedReceipt(exec[k].token)]
               /\ Move(k, "committed_unverified")
               /\ worker' = [worker EXCEPT ![r] =
                               [worker[r] EXCEPT !.step = "reread",
                                                 !.record = exec[k].token]]
          ELSE WorkerGoto(r, "release") /\ UNCHANGED store

\* The row's version and receipt are read again before the read-back.
Reread(r) ==
    LET k == worker[r].key
        record == IF HasReceipt(receipt[k]) THEN receipt[k].record
                  ELSE worker[r].record
    IN /\ worker[r].step = "reread"
       /\ worker' = [worker EXCEPT ![r] =
                       [worker[r] EXCEPT
                          !.step = IF record = NoToken THEN "manual"
                                   ELSE "read_back",
                          !.version = exec[k].version,
                          !.state = "committed_unverified",
                          !.record = record]]
       /\ UNCHANGED <<store, call, source, faults>>

RecoveryReadBack(r) ==
    LET k == worker[r].key
    IN /\ worker[r].step = "read_back"
       /\ \/ WorkerGoto(r, IF Matches(worker[r].record, exec[k].body)
                           THEN "matched" ELSE "manual")
          \/ WorkerGoto(r, IF DeadlineReached(exec[k]) THEN "manual"
                           ELSE "release")
       /\ UNCHANGED <<store, call, source, faults>>

RecoverySuccess(r) ==
    LET k == worker[r].key
    IN /\ worker[r].step = "matched"
       /\ IF /\ CanMarkVerified(receipt[k])
             /\ Wins(k, "committed_unverified", worker[r].version, "succeeded")
          THEN /\ receipt' = [receipt EXCEPT ![k] = VerifiedReceipt(receipt[k])]
               /\ Move(k, "succeeded")
          ELSE UNCHANGED store
       /\ WorkerGoto(r, "release")
       /\ UNCHANGED <<call, source, faults>>

ReleaseLease(r) ==
    LET k == worker[r].key
    IN /\ worker[r].step = "release"
       /\ exec' = [exec EXCEPT ![k] = LeaseReleased(exec[k], r)]
       /\ worker' = [worker EXCEPT ![r] = IdleWorker]
       /\ UNCHANGED <<receipt, call, source, faults>>

WorkerStep(r) ==
    \/ Drive(r) \/ SubmitPrepared(r) \/ PromoteSubmitting(r)
    \/ ResumeUnknown(r) \/ FailUnrecoverable(r) \/ ToManualReview(r)
    \/ ReplayCreate(r) \/ ReplayFails(r) \/ ReplayWithoutRecord(r)
    \/ RecordReplayed(r) \/ Reread(r) \/ RecoveryReadBack(r)
    \/ RecoverySuccess(r) \/ ReleaseLease(r)

-----------------------------------------------------------------------------
(* Time and process death.                                                 *)

LeaseLapses(k) ==
    /\ exec[k].leased
    /\ exec' = [exec EXCEPT ![k] = LeaseLapsed(exec[k])]
    /\ UNCHANGED <<receipt, call, worker, source, faults>>

DeadlinePasses(k) ==
    /\ Unfinished(exec[k])
    /\ exec[k].submitted = "recent"
    /\ exec' = [exec EXCEPT ![k] = DeadlinePassed(exec[k])]
    /\ UNCHANGED <<receipt, call, worker, source, faults>>

\* Every call and worker of the process is gone; the database, the leases in
\* it and the requests on their way are not.
ProcessDies ==
    /\ call' = [c \in Calls |->
                  IF call[c].step \in {"idle", "done"} THEN call[c]
                  ELSE [call[c] EXCEPT !.step = "dead"]]
    /\ worker' = [r \in Recoverers |-> IdleWorker]
    /\ sent' = Abandoned(Senders)
    /\ answer' = [s \in Senders |-> "none"]
    /\ UNCHANGED <<receipt, ledger>>

Crash ==
    /\ crashes < MaxCrashes
    /\ crashes' = crashes + 1
    /\ ProcessDies
    /\ UNCHANGED <<exec, reconfigs>>

\* The process comes back with a ledger config of another checksum, to which
\* no payload sealed before is bound.
Reconfigure ==
    /\ reconfigs < MaxReconfigs
    /\ reconfigs' = reconfigs + 1
    /\ ProcessDies
    /\ exec' = [k \in Keys |-> IF exec[k].payload = "sealed"
                               THEN [exec[k] EXCEPT !.payload = "unbound"]
                               ELSE exec[k]]
    /\ UNCHANGED crashes

Environment ==
    \/ \E q \in sent : SourceCreates(q) \/ SourceDrops(q)
    \/ \E s \in Senders : AnswerLost(s)
    \/ \E k \in Keys : LeaseLapses(k) \/ DeadlinePasses(k)
    \/ Crash
    \/ Reconfigure

Recovery ==
    \/ \E r \in Recoverers, k \in Keys : AcquireLease(r, k)
    \/ \E r \in Recoverers : WorkerStep(r)

Next ==
    \/ \E c \in Calls : CallStep(c)
    \/ Recovery
    \/ Environment

Spec == Init /\ [][Next]_vars

\* recover_unfinished runs every RECOVERY_INTERVAL_SECONDS and tries every
\* unfinished key each time, although the key may be leased or the worker busy
\* with another one at that moment.  A started recovery runs on: each of its
\* awaits is bounded by a request timeout.  Clocks advance.  Nothing is assumed
\* of the tool calls or of the source.
Fairness ==
    /\ \A k \in Keys :
         /\ SF_vars(\E r \in Recoverers : AcquireLease(r, k))
         /\ WF_vars(LeaseLapses(k))
         /\ WF_vars(DeadlinePasses(k))
    /\ \A r \in Recoverers : WF_vars(WorkerStep(r))

FairSpec == Spec /\ Fairness

-----------------------------------------------------------------------------
(* What must hold.                                                         *)

\* "One key means at most one external record" (storage/models.py): whatever
\* calls, replays, late requests and crashes happened under an idempotency
\* key, the ledger holds at most one row for it, and that row is the request
\* the key was first bound to.
AtMostOneRecord ==
    \A k \in Keys :
        /\ Cardinality(RowsOf(k)) <= 1
        /\ \A t \in RowsOf(k) : ledger[t].body = exec[k].body

\* Receipt before success: a `succeeded' execution holds one verified receipt,
\* and it names a row of this key that holds exactly what was asked.
SucceededIsProven ==
    \A k \in Keys :
        exec[k].state = "succeeded" =>
            /\ receipt[k].verified
            /\ receipt[k].record \in RowsOf(k)
            /\ ledger[receipt[k].record].body = exec[k].body
            /\ ledger[receipt[k].record].faithful

\* `failed_safe' says that nothing was written: no row of the key is in the
\* ledger, and no request that could still write one is on its way.
FailedSafeIsSafe ==
    \A k \in Keys :
        exec[k].state \in {"absent"} \cup NeverSentStates =>
            /\ RowsOf(k) = {}
            /\ \A q \in sent : q.key # k

\* A caller is told `created' or `idempotent_replay' only of an execution that
\* succeeded for the very request it made.
ToldIsTrue ==
    \A c \in Calls :
        call[c].outcome \in {"created", "idempotent_replay"} =>
            /\ exec[call[c].key].state = "succeeded"
            /\ exec[call[c].key].body = call[c].body

\* Whoever loses the compare-and-swap, a late call or a worker whose lease
\* lapsed, changes nothing of an execution that is settled; and a receipt, once
\* recorded, never names another row.
SettledIsFinal ==
    [][\A k \in Keys :
         /\ exec[k].state \in TerminalStates =>
              /\ exec'[k].state = exec[k].state
              /\ receipt'[k] = receipt[k]
         /\ HasReceipt(receipt[k]) =>
              receipt'[k].record = receipt[k].record]_vars

\* reconcile_write takes "one unknown Finance write to a terminal state": every
\* execution that exists is settled sooner or later, whatever the source does.
EveryWriteSettles ==
    \A k \in Keys :
        Exists(exec[k]) ~> exec[k].state \in TerminalStates

-----------------------------------------------------------------------------
(* Why it holds: the invariant that every step preserves.                  *)

\* A request under k may have left: from here on nothing undoes that.
Past(k) == exec[k].state \notin {"absent"} \cup NeverSentStates

\* A token was minted by a call for the one key it writes under, so no two
\* keys share one.
TokenBound(k) ==
    Exists(exec[k]) =>
        /\ exec[k].token \in Tokens
        /\ exec[k].body \in Fingerprints
        /\ call[exec[k].token].step # "idle"
        /\ call[exec[k].token].key = k

\* What is on the wire was sent under the row's own token and payload, after
\* the row said so, and the sender it names still waits for the answer.
RequestBound(q) ==
    /\ Past(q.key)
    /\ q.token = exec[q.key].token
    /\ q.body = exec[q.key].body
    /\ q.from \in Calls =>
         call[q.from].step = "waiting" /\ call[q.from].key = q.key
    /\ q.from \in Recoverers =>
         worker[q.from].step = "waiting" /\ worker[q.from].key = q.key
    /\ q.from \in Senders => answer[q.from] = "none"

LedgerBound(t) ==
    Created(t) =>
        /\ Past(ledger[t].key)
        /\ exec[ledger[t].key].token = t
        /\ exec[ledger[t].key].body = ledger[t].body

ReceiptBound(k) ==
    /\ HasReceipt(receipt[k]) =>
         /\ Past(k)
         /\ receipt[k].record = exec[k].token
         /\ Created(exec[k].token)
    /\ exec[k].state = "succeeded" =>
         /\ HasReceipt(receipt[k])
         /\ receipt[k].verified
         /\ ledger[exec[k].token].faithful

\* What a call in progress carries across its awaits still fits the row.
CallBound(c) ==
    LET k == call[c].key
    IN /\ call[c].step \notin {"idle", "done", "dead"} =>
            /\ Exists(exec[k])
            /\ call[c].token = exec[k].token
            /\ call[c].body = exec[k].body
       /\ call[c].step \in {"submitting", "waiting", "unverified", "matched",
                            "mismatched"} => Past(k)
       /\ call[c].step \in {"unverified", "matched", "mismatched"} =>
            Created(exec[k].token)
       /\ call[c].step = "matched" => ledger[exec[k].token].faithful
       /\ answer[c] # "none" => call[c].step = "waiting"
       /\ answer[c] = "record" => Created(exec[k].token)
       /\ call[c].outcome # "none" => call[c].step = "done"
       /\ call[c].outcome \in {"created", "idempotent_replay"} =>
            /\ exec[k].state = "succeeded"
            /\ exec[k].body = call[c].body

\* And so does what a recovery worker carries.
WorkerBound(r) ==
    LET k == worker[r].key
    IN /\ worker[r].step # "idle" => Exists(exec[k])
       /\ worker[r].step \in {"promote", "resume", "replay", "waiting",
                              "reread", "read_back", "matched"} => Past(k)
       /\ worker[r].record # NoToken =>
            /\ Past(k)
            /\ worker[r].record = exec[k].token
            /\ Created(exec[k].token)
       /\ worker[r].step \in {"read_back", "matched"} =>
            worker[r].record # NoToken
       /\ worker[r].step = "matched" => ledger[exec[k].token].faithful
       /\ answer[r] # "none" => worker[r].step = "waiting"
       /\ answer[r] = "record" => Created(exec[k].token)

Bound ==
    /\ \A k \in Keys : TokenBound(k) /\ ReceiptBound(k)
    /\ \A q \in sent : RequestBound(q)
    /\ \A t \in Tokens : LedgerBound(t)
    /\ \A c \in Calls : CallBound(c)
    /\ \A r \in Recoverers : WorkerBound(r)

-----------------------------------------------------------------------------
(* The promise this protocol keeps.                                        *)

Told == {call[c].key : c \in {d \in Calls :
                call[d].outcome \in {"created", "idempotent_replay"}}}

Promise == INSTANCE LedgerWrite WITH
    Bodies <- Fingerprints,
    want <- [k \in Keys |-> exec[k].body],
    outcome <- [k \in Keys |-> IF exec[k].state \in TerminalStates
                               THEN exec[k].state ELSE "open"],
    rows <- [k \in Keys |->
               {[token |-> t, body |-> ledger[t].body,
                 faithful |-> ledger[t].faithful] : t \in RowsOf(k)}],
    told <- Told

ImplementsPromise == Promise!Spec

=============================================================================
