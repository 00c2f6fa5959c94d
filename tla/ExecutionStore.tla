--------------------------- MODULE ExecutionStore ---------------------------
(***************************************************************************)
(* The durable row behind every governed Finance write: the transition     *)
(* table of storage/state_machine.py and the row operations of             *)
(* storage/execution_store.py.  The operators here are pure: they say what *)
(* one SQLite transaction makes of one row, and the modules that EXTEND    *)
(* this one say which process runs them and when.                          *)
(*                                                                         *)
(* Time is kept as the three facts the code asks of it: whether the first  *)
(* submission lies more than DEADLINE_SECONDS back (`submitted'), and      *)
(* whether a recovery lease is still live (`leased').                      *)
(***************************************************************************)
EXTENDS Naturals

CONSTANTS
    Fingerprints,   \* what a request asks for; equal bodies hash equal
    Tokens,         \* provider idempotency tokens minted by new_client_token
    Owners,         \* owner strings of the recovery workers
    NoOwner,        \* recovery_lease_owner IS NULL
    NoToken,        \* the row does not exist yet
    NoBody          \* the row does not exist yet

ASSUME StoreAssumption ==
    /\ NoOwner \notin Owners
    /\ NoToken \notin Tokens
    /\ NoBody \notin Fingerprints

ExecutionStates ==
    {"prepared", "submitting", "commit_unknown",
     "reconciling_same_client_token", "committed_unverified", "succeeded",
     "failed_safe", "needs_manual_review", "cancelled_pre_submit"}

TerminalStates ==
    {"succeeded", "failed_safe", "needs_manual_review", "cancelled_pre_submit"}

\* No request has left in these states; in all the others one may have.
NeverSentStates == {"prepared", "failed_safe", "cancelled_pre_submit"}

AllowedTransitions ==
    [s \in ExecutionStates |->
        CASE s = "prepared" ->
                {"submitting", "failed_safe", "cancelled_pre_submit"}
          [] s = "submitting" ->
                {"committed_unverified", "commit_unknown", "failed_safe"}
          [] s = "commit_unknown" ->
                {"reconciling_same_client_token", "needs_manual_review"}
          [] s = "reconciling_same_client_token" ->
                {"committed_unverified", "failed_safe", "needs_manual_review"}
          [] s = "committed_unverified" ->
                {"succeeded", "needs_manual_review"}
          [] OTHER -> {}]

-----------------------------------------------------------------------------
(* A row.  `absent' stands for: no row under this idempotency key.         *)

Row == [state     : ExecutionStates \cup {"absent"},
        version   : Nat,
        body      : Fingerprints \cup {NoBody},
        token     : Tokens \cup {NoToken},
        payload   : {"sealed", "unbound", "missing"},
        submitted : {"never", "recent", "late"},
        owner     : Owners \cup {NoOwner},
        leased    : BOOLEAN]

AbsentRow == [state |-> "absent", version |-> 0, body |-> NoBody,
              token |-> NoToken, payload |-> "missing",
              submitted |-> "never", owner |-> NoOwner, leased |-> FALSE]

\* prepare_execution, when the key has no row.
PreparedRow(body, token, payload) ==
    [state |-> "prepared", version |-> 1, body |-> body, token |-> token,
     payload |-> payload, submitted |-> "never", owner |-> NoOwner,
     leased |-> FALSE]

Exists(row) == row.state # "absent"
Unfinished(row) == Exists(row) /\ row.state \notin TerminalStates

-----------------------------------------------------------------------------
(* transition(): the table, then a compare-and-swap on (state, version).   *)

Mutant_CanTransition(row, current, version, target) ==
    target \in AllowedTransitions[current]

CanTransition(row, current, version, target) ==
    /\ target \in AllowedTransitions[current]
    /\ row.state = current
    /\ row.version = version

Transitioned(row, target) ==
    [row EXCEPT !.state = target,
                !.version = @ + 1,
                !.submitted = IF target = "submitting" THEN "recent" ELSE @,
                !.owner = IF target \in TerminalStates THEN NoOwner ELSE @,
                !.leased = IF target \in TerminalStates THEN FALSE ELSE @]

-----------------------------------------------------------------------------
(* The recovery lease.                                                     *)

Mutant_LeaseFree(row) == row.owner = NoOwner
LeaseFree(row) == row.owner = NoOwner \/ ~row.leased

CanAcquireLease(row) == Unfinished(row) /\ LeaseFree(row)

LeaseAcquired(row, owner) == [row EXCEPT !.owner = owner, !.leased = TRUE]

LeaseReleased(row, owner) ==
    IF row.owner = owner
    THEN [row EXCEPT !.owner = NoOwner, !.leased = FALSE]
    ELSE row

\* The clock passes recovery_lease_until, or submitted_at + DEADLINE_SECONDS.
LeaseLapsed(row) == [row EXCEPT !.leased = FALSE]
DeadlinePassed(row) == [row EXCEPT !.submitted = "late"]

\* _deadline_reached: an absent submitted_at counts as reached.
DeadlineReached(row) == row.submitted # "recent"

-----------------------------------------------------------------------------
(* The one external receipt a key may hold (idempotency_key, table_kind is *)
(* unique, and a tool has one table kind).                                 *)

NoReceipt == [record |-> NoToken, verified |-> FALSE]

Receipts == [record : Tokens \cup {NoToken}, verified : BOOLEAN]

HasReceipt(receipt) == receipt.record # NoToken

\* record_receipt: an INSERT, so a second receipt violates the constraint.
CanRecordReceipt(receipt) == ~HasReceipt(receipt)
RecordedReceipt(record) == [record |-> record, verified |-> FALSE]

\* mark_receipt_verified, and transition()'s own test of it for `succeeded'.
CanMarkVerified(receipt) == HasReceipt(receipt)
VerifiedReceipt(receipt) == [receipt EXCEPT !.verified = TRUE]
=============================================================================
