------------------------- MODULE GovernedWriteProofs -------------------------
(***************************************************************************)
(* Proofs about GovernedWrite for any keys, calls, workers and bounds: its *)
(* types, the invariant Bound, which every step preserves, the safety      *)
(* properties that follow from it, and that every step is a step of the    *)
(* promise LedgerWrite makes, or none of its business.                     *)
(***************************************************************************)
EXTENDS GovernedWrite, TLAPS, FiniteSetTheorems

-----------------------------------------------------------------------------
(* Lemmas about the row operations of ExecutionStore.                      *)

\* A transition leads from a well-typed row to a well-typed row, and rebinds
\* neither its token nor its payload.
LEMMA TransitionedRow ==
    ASSUME NEW row \in Row, NEW target \in ExecutionStates
    PROVE  /\ Transitioned(row, target) \in Row
           /\ Transitioned(row, target).state = target
           /\ Transitioned(row, target).version = row.version + 1
           /\ Transitioned(row, target).token = row.token
           /\ Transitioned(row, target).body = row.body
<1> DEFINE n == row.version + 1
           s == IF target = "submitting" THEN "recent" ELSE row.submitted
           o == IF target \in TerminalStates THEN NoOwner ELSE row.owner
           l == IF target \in TerminalStates THEN FALSE ELSE row.leased
<1>1. /\ n \in Nat
      /\ s \in {"never", "recent", "late"}
      /\ o \in Owners \cup {NoOwner}
  BY DEF Row
<1>2. row.leased \in BOOLEAN
  BY DEF Row
<1>3. l \in BOOLEAN
  BY <1>2, Zenon
<1>4. Transitioned(row, target) =
        [row EXCEPT !.state = target, !.version = n, !.submitted = s,
                    !.owner = o, !.leased = l]
  BY DEF Transitioned
<1> HIDE DEF s, o, l
<1> QED
  BY <1>1, <1>3, <1>4 DEF Row

\* Taking, releasing and losing a lease, and passing the deadline, leave the
\* state, the token and the payload of the row alone.
LEMMA LeaseKeepsRow ==
    ASSUME NEW row \in Row, NEW owner \in Owners
    PROVE  \A new \in {LeaseAcquired(row, owner), LeaseReleased(row, owner),
                       LeaseLapsed(row), DeadlinePassed(row)} :
             /\ new \in Row
             /\ new.state = row.state
             /\ new.version = row.version
             /\ new.token = row.token
             /\ new.body = row.body
  BY DEF Row, LeaseAcquired, LeaseReleased, LeaseLapsed, DeadlinePassed

LEMMA PreparedRowType ==
    ASSUME NEW body \in Fingerprints, NEW token \in Tokens
    PROVE  PreparedRow(body, token, "sealed") \in Row
  BY DEF Row, PreparedRow, ExecutionStates

-----------------------------------------------------------------------------
(* Type correctness.                                                       *)

LEMMA InitTypeOK == Init => TypeOK
<1> SUFFICES ASSUME Init PROVE TypeOK
  OBVIOUS
<1> USE GovernedAssumption, StoreAssumption
<1>1. exec \in [Keys -> Row]
  BY DEF Init, Row, AbsentRow
<1>2. receipt \in [Keys -> Receipts]
  BY DEF Init, Receipts, NoReceipt
<1>3. call \in [Calls -> CallState]
  BY DEF Init, IdleCall, CallState, CallSteps, Outcomes
<1>4. worker \in [Recoverers -> WorkerState]
  BY DEF Init, IdleWorker, WorkerState, WorkerSteps, ExecutionStates
<1>5. ledger \in [Tokens -> LedgerRow]
  BY DEF Init, NoRow, LedgerRow
<1>6. /\ sent \subseteq Requests
      /\ answer \in [Senders -> {"none", "record", "no_record_id"}]
      /\ crashes \in 0..MaxCrashes
      /\ reconfigs \in 0..MaxReconfigs
  BY DEF Init
<1> QED
  BY <1>1, <1>2, <1>3, <1>4, <1>5, <1>6 DEF TypeOK

\* The updates that steps are made of.
LEMMA MoveType ==
    ASSUME TypeOK, NEW k \in Keys, NEW target \in ExecutionStates,
           Move(k, target)
    PROVE  exec' \in [Keys -> Row]
  BY TransitionedRow DEF TypeOK, Move

LEMMA GotoType ==
    ASSUME TypeOK, NEW c \in Calls, NEW step \in CallSteps, Goto(c, step)
    PROVE  call' \in [Calls -> CallState]
  BY DEF TypeOK, CallState, Goto

LEMMA GotoMovedType ==
    ASSUME TypeOK, NEW c \in Calls, NEW step \in CallSteps, GotoMoved(c, step)
    PROVE  call' \in [Calls -> CallState]
<1> DEFINE n == call[c].version + 1
<1>1. call[c] \in CallState
  BY DEF TypeOK
<1>2. n \in Nat
  BY <1>1 DEF CallState
<1>3. call' = [call EXCEPT ![c] = [call[c] EXCEPT !.step = step, !.version = n]]
  BY DEF GotoMoved
<1> HIDE DEF n
<1>4. [call[c] EXCEPT !.step = step, !.version = n] \in CallState
  BY <1>1, <1>2 DEF CallState
<1> QED
  BY <1>3, <1>4 DEF TypeOK

LEMMA FinishType ==
    ASSUME TypeOK, NEW c \in Calls, NEW outcome \in Outcomes, Finish(c, outcome)
    PROVE  call' \in [Calls -> CallState]
<1>1. "done" \in CallSteps
  BY DEF CallSteps
<1>2. [call[c] EXCEPT !.step = "done", !.outcome = outcome] \in CallState
  BY <1>1 DEF TypeOK, CallState
<1> QED
  BY <1>2 DEF TypeOK, Finish

LEMMA WorkerGotoType ==
    ASSUME TypeOK, NEW r \in Recoverers, NEW step \in WorkerSteps,
           WorkerGoto(r, step)
    PROVE  worker' \in [Recoverers -> WorkerState]
  BY DEF TypeOK, WorkerState, WorkerGoto

LEMMA AbandonedType ==
    ASSUME TypeOK, NEW S PROVE Abandoned(S) \subseteq Requests
<1>1. \A q \in Requests : [q EXCEPT !.from = NoOwner] \in Requests
  BY DEF Requests
<1> QED
  BY <1>1 DEF Abandoned, TypeOK

LEMMA ReceiptType ==
    ASSUME NEW record \in Tokens \cup {NoToken}, NEW old \in Receipts
    PROVE  RecordedReceipt(record) \in Receipts /\ VerifiedReceipt(old) \in Receipts
  BY DEF RecordedReceipt, VerifiedReceipt, Receipts

\* A call's steps keep every variable well typed.
LEMMA CallTypeOK ==
    ASSUME TypeOK, NEW c \in Calls, CallStep(c) PROVE TypeOK'
<1> USE GovernedAssumption, StoreAssumption
<1>0. /\ call[c] \in CallState
      /\ call[c].key \in Keys
      /\ call[c].token \in Tokens \cup {NoToken}
      /\ call[c].body \in Fingerprints
      /\ receipt[call[c].key] \in Receipts
  BY DEF TypeOK, CallState
<1>1. ASSUME NEW k \in Keys, NEW f \in Fingerprints, Prepare(c, k, f)
      PROVE  TypeOK'
  <2> DEFINE row == IF NeedsRow(exec[k]) THEN PreparedRow(f, c, "sealed")
                    ELSE exec[k]
             outcome == PrepareOutcome(row, f)
             new == [step |-> IF outcome = "none" THEN "prepared" ELSE "done",
                     key |-> k, body |-> f, token |-> ClientToken(row, c),
                     version |-> row.version, outcome |-> outcome]
  <2>1. row \in Row
    BY PreparedRowType DEF TypeOK
  <2>2. exec' = [exec EXCEPT ![k] = row] /\ call' = [call EXCEPT ![c] = new]
    BY <1>1 DEF Prepare
  <2>3. row.version \in Nat /\ ClientToken(row, c) \in Tokens \cup {NoToken}
    BY <2>1 DEF Row, ClientToken
  <2>4. outcome \in Outcomes
    BY DEF Outcomes, PrepareOutcome
  <2>5. new \in CallState
    BY <2>3, <2>4 DEF CallState, CallSteps
  <2> QED
    BY <1>1, <2>1, <2>2, <2>5 DEF Prepare, TypeOK, source, faults
<1>2. CASE Submit(c)
  <2>1. exec' \in [Keys -> Row]
    BY <1>0, <1>2, MoveType DEF Submit, TypeOK, ExecutionStates
  <2>2. call' \in [Calls -> CallState]
    BY <1>2, GotoMovedType, FinishType DEF Submit, CallSteps, Outcomes
  <2> QED
    BY <1>2, <2>1, <2>2 DEF Submit, TypeOK, source, faults
<1>3. CASE SendCreate(c)
  <2>1. [from |-> c, key |-> call[c].key, token |-> call[c].token,
         body |-> call[c].body] \in Requests
    BY <1>0 DEF Requests, Senders
  <2>2. call' \in [Calls -> CallState]
    BY <1>3, GotoType DEF SendCreate, CallSteps
  <2> QED
    BY <1>3, <2>1, <2>2 DEF SendCreate, TypeOK, store, faults
<1>4. CASE CreateUnknown(c)
  <2>1. exec' \in [Keys -> Row]
    BY <1>0, <1>4, MoveType DEF CreateUnknown, TypeOK, ExecutionStates
  <2>2. call' \in [Calls -> CallState]
    BY <1>4, FinishType DEF CreateUnknown, Outcomes
  <2> QED
    BY <1>4, <2>1, <2>2, AbandonedType
       DEF CreateUnknown, TypeOK, faults, Senders
<1>5. CASE RecordCreated(c)
  <2>1. exec' \in [Keys -> Row]
    BY <1>0, <1>5, MoveType DEF RecordCreated, TypeOK, ExecutionStates, store
  <2>2. call' \in [Calls -> CallState]
    BY <1>5, GotoMovedType, FinishType DEF RecordCreated, CallSteps, Outcomes
  <2>3. receipt' \in [Keys -> Receipts]
    BY <1>0, <1>5, ReceiptType DEF RecordCreated, TypeOK, store
  <2> QED
    BY <1>5, <2>1, <2>2, <2>3 DEF RecordCreated, TypeOK, faults, Senders
<1>6. CASE ReadBack(c)
  <2>1. call' \in [Calls -> CallState]
    BY <1>6, GotoType, FinishType DEF ReadBack, CallSteps, Outcomes
  <2> QED
    BY <1>6, <2>1 DEF ReadBack, TypeOK, store, source, faults
<1>7. CASE CommitMismatch(c)
  <2>1. exec' \in [Keys -> Row]
    BY <1>0, <1>7, MoveType DEF CommitMismatch, TypeOK, ExecutionStates
  <2>2. call' \in [Calls -> CallState]
    BY <1>7, FinishType DEF CommitMismatch, Outcomes
  <2> QED
    BY <1>7, <2>1, <2>2 DEF CommitMismatch, TypeOK, source, faults
<1>8. CASE CommitSuccess(c)
  <2>1. exec' \in [Keys -> Row]
    BY <1>0, <1>8, MoveType DEF CommitSuccess, TypeOK, ExecutionStates, store
  <2>2. call' \in [Calls -> CallState]
    BY <1>8, FinishType DEF CommitSuccess, Outcomes
  <2>3. receipt' \in [Keys -> Receipts]
    BY <1>0, <1>8, ReceiptType DEF CommitSuccess, TypeOK, store
  <2> QED
    BY <1>8, <2>1, <2>2, <2>3 DEF CommitSuccess, TypeOK, source, faults
<1>9. CASE Cancel(c)
  <2>1. call' \in [Calls -> CallState]
    BY <1>9, GotoType DEF Cancel, CallSteps
  <2> QED
    BY <1>9, <2>1, AbandonedType DEF Cancel, TypeOK, store, faults, Senders
<1> QED
  BY <1>1, <1>2, <1>3, <1>4, <1>5, <1>6, <1>7, <1>8, <1>9 DEF CallStep

LEMMA AdvanceTypeOK ==
    ASSUME TypeOK, NEW r \in Recoverers, NEW step, NEW current,
           NEW target \in ExecutionStates, NEW next \in WorkerSteps,
           Advance(r, step, current, target, next)
    PROVE  TypeOK'
<1>1. worker[r].key \in Keys
  BY DEF TypeOK, WorkerState
<1>2. exec' \in [Keys -> Row]
  BY <1>1, MoveType DEF Advance, TypeOK
<1> DEFINE n == worker[r].version + 1
<1>a. worker[r] \in WorkerState
  BY DEF TypeOK
<1>b. n \in Nat
  BY <1>a DEF WorkerState
<1>3. \A m \in Nat : [worker[r] EXCEPT !.step = next, !.version = m,
                                     !.state = target] \in WorkerState
  BY <1>a DEF WorkerState
<1>4. worker' \in [Recoverers -> WorkerState]
  <2>1. CASE worker' = [worker EXCEPT ![r] =
                          [worker[r] EXCEPT !.step = next, !.version = n,
                                            !.state = target]]
    BY <1>b, <1>3, <2>1 DEF TypeOK
  <2>2. CASE WorkerGoto(r, "release")
    BY <2>2, WorkerGotoType DEF WorkerSteps
  <2> QED
    BY <2>1, <2>2 DEF Advance
<1> QED
  BY <1>2, <1>4 DEF Advance, TypeOK, source, faults

\* So do a worker's steps.
LEMMA WorkerTypeOK ==
    ASSUME TypeOK, NEW r \in Recoverers, WorkerStep(r) PROVE TypeOK'
<1> USE GovernedAssumption, StoreAssumption
<1>0. /\ worker[r] \in WorkerState
      /\ worker[r].key \in Keys
      /\ worker[r].record \in Tokens \cup {NoToken}
      /\ exec[worker[r].key] \in Row
      /\ receipt[worker[r].key] \in Receipts
  BY DEF TypeOK, WorkerState
<1>a. /\ exec[worker[r].key].version \in Nat
      /\ exec[worker[r].key].state \in ExecutionStates \cup {"absent"}
      /\ exec[worker[r].key].token \in Tokens \cup {NoToken}
      /\ exec[worker[r].key].body \in Fingerprints \cup {NoBody}
      /\ receipt[worker[r].key].record \in Tokens \cup {NoToken}
  BY <1>0 DEF Row, Receipts
<1>1. CASE Drive(r)
  <2> DEFINE row == exec[worker[r].key]
  <2>1. DriveStep(row) \in WorkerSteps
    BY DEF DriveStep, WorkerSteps
  <2>2. [worker[r] EXCEPT !.step = DriveStep(row), !.version = row.version,
                          !.state = row.state] \in WorkerState
    BY <1>0, <1>a, <2>1 DEF WorkerState
  <2> QED
    BY <1>1, <2>2 DEF Drive, TypeOK, store, source, faults
<1>2. CASE \/ SubmitPrepared(r) \/ PromoteSubmitting(r) \/ ResumeUnknown(r)
           \/ FailUnrecoverable(r)
  BY <1>2, AdvanceTypeOK
     DEF SubmitPrepared, PromoteSubmitting, ResumeUnknown, FailUnrecoverable,
         ExecutionStates, WorkerSteps
<1>3. CASE ToManualReview(r)
  <2>1. exec' \in [Keys -> Row]
    BY <1>0, <1>3, MoveType DEF ToManualReview, TypeOK, ExecutionStates
  <2>2. worker' \in [Recoverers -> WorkerState]
    BY <1>3, WorkerGotoType DEF ToManualReview, WorkerSteps
  <2> QED
    BY <1>3, <2>1, <2>2 DEF ToManualReview, TypeOK, source, faults
<1>4. CASE ReplayCreate(r)
  <2>1. [from |-> r, key |-> worker[r].key,
         token |-> exec[worker[r].key].token,
         body |-> exec[worker[r].key].body] \in Requests
    BY <1>0, <1>a DEF Requests, Senders
  <2>2. worker' \in [Recoverers -> WorkerState]
    BY <1>4, WorkerGotoType DEF ReplayCreate, WorkerSteps
  <2> QED
    BY <1>4, <2>1, <2>2 DEF ReplayCreate, TypeOK, store, faults
<1>5. CASE ReplayFails(r)
  <2>1. worker' \in [Recoverers -> WorkerState]
    BY <1>5, WorkerGotoType DEF ReplayFails, WorkerSteps
  <2> QED
    BY <1>5, <2>1, AbandonedType DEF ReplayFails, TypeOK, store, faults
<1>6. CASE ReplayWithoutRecord(r)
  <2>1. worker' \in [Recoverers -> WorkerState]
    BY <1>6, WorkerGotoType DEF ReplayWithoutRecord, WorkerSteps
  <2> QED
    BY <1>6, <2>1 DEF ReplayWithoutRecord, TypeOK, store, faults, Senders
<1>7. CASE RecordReplayed(r)
  <2>1. exec' \in [Keys -> Row]
    BY <1>0, <1>7, MoveType DEF RecordReplayed, TypeOK, ExecutionStates, store
  <2>2. [worker[r] EXCEPT !.step = "reread",
                          !.record = exec[worker[r].key].token] \in WorkerState
    BY <1>0, <1>a DEF WorkerState, WorkerSteps
  <2>3. worker' \in [Recoverers -> WorkerState]
    <3>1. CASE worker' = [worker EXCEPT ![r] =
                            [worker[r] EXCEPT
                               !.step = "reread",
                               !.record = exec[worker[r].key].token]]
      BY <2>2, <3>1 DEF TypeOK
    <3>2. CASE WorkerGoto(r, "release")
      BY <3>2, WorkerGotoType DEF WorkerSteps
    <3> QED
      BY <1>7, <3>1, <3>2 DEF RecordReplayed
  <2>4. receipt' \in [Keys -> Receipts]
    <3>1. RecordedReceipt(exec[worker[r].key].token) \in Receipts
      BY <1>0, <1>a, ReceiptType
    <3>2. \/ receipt' = receipt
          \/ receipt' = [receipt EXCEPT ![worker[r].key] =
                           RecordedReceipt(exec[worker[r].key].token)]
      BY <1>7 DEF RecordReplayed, store
    <3> QED
      BY <3>1, <3>2 DEF TypeOK
  <2> QED
    BY <1>7, <2>1, <2>3, <2>4 DEF RecordReplayed, TypeOK, faults, Senders
<1>8. CASE Reread(r)
  <2> DEFINE k == worker[r].key
             record == IF HasReceipt(receipt[k]) THEN receipt[k].record
                       ELSE worker[r].record
             step == IF record = NoToken THEN "manual" ELSE "read_back"
  <2>1. step \in WorkerSteps /\ record \in Tokens \cup {NoToken}
        /\ "committed_unverified" \in ExecutionStates
    BY <1>0, <1>a DEF WorkerSteps, ExecutionStates
  <2>2. worker' = [worker EXCEPT ![r] =
                     [worker[r] EXCEPT !.step = step,
                                       !.version = exec[k].version,
                                       !.state = "committed_unverified",
                                       !.record = record]]
    BY <1>8 DEF Reread
  <2> HIDE DEF step, record
  <2>3. worker' \in [Recoverers -> WorkerState]
    BY <1>0, <1>a, <2>1, <2>2 DEF TypeOK, WorkerState
  <2> QED
    BY <1>8, <2>3 DEF Reread, TypeOK, store, source, faults
<1>9. CASE RecoveryReadBack(r)
  <2>1. worker' \in [Recoverers -> WorkerState]
    BY <1>9, WorkerGotoType DEF RecoveryReadBack, WorkerSteps
  <2> QED
    BY <1>9, <2>1 DEF RecoveryReadBack, TypeOK, store, source, faults
<1>10. CASE RecoverySuccess(r)
  <2>1. exec' \in [Keys -> Row]
    BY <1>0, <1>10, MoveType DEF RecoverySuccess, TypeOK, ExecutionStates, store
  <2>2. worker' \in [Recoverers -> WorkerState]
    BY <1>10, WorkerGotoType DEF RecoverySuccess, WorkerSteps
  <2>3. receipt' \in [Keys -> Receipts]
    BY <1>0, <1>10, ReceiptType DEF RecoverySuccess, TypeOK, store
  <2> QED
    BY <1>10, <2>1, <2>2, <2>3 DEF RecoverySuccess, TypeOK, source, faults
<1>11. CASE ReleaseLease(r)
  <2>1. LeaseReleased(exec[worker[r].key], r) \in Row
    BY <1>0, LeaseKeepsRow
  <2>2. IdleWorker \in WorkerState
    BY DEF IdleWorker, WorkerState, WorkerSteps, ExecutionStates
  <2> QED
    BY <1>11, <2>1, <2>2 DEF ReleaseLease, TypeOK, source, faults
<1> QED
  BY <1>1, <1>2, <1>3, <1>4, <1>5, <1>6, <1>7, <1>8, <1>9, <1>10, <1>11
     DEF WorkerStep

LEMMA AcquireTypeOK ==
    ASSUME TypeOK, NEW r \in Recoverers, NEW k \in Keys, AcquireLease(r, k)
    PROVE  TypeOK'
<1>1. LeaseAcquired(exec[k], r) \in Row
  BY LeaseKeepsRow, GovernedAssumption DEF TypeOK
<1>2. [IdleWorker EXCEPT !.step = "leased", !.key = k] \in WorkerState
  BY DEF IdleWorker, WorkerState, WorkerSteps, ExecutionStates
<1> QED
  BY <1>1, <1>2 DEF AcquireLease, TypeOK, source, faults

\* And so do the source, the clocks and the deaths of the process.
LEMMA EnvironmentTypeOK == TypeOK /\ Environment => TypeOK'
<1> SUFFICES ASSUME TypeOK, Environment PROVE TypeOK'
  OBVIOUS
<1> USE GovernedAssumption, StoreAssumption
<1>1. ASSUME NEW q \in sent, SourceCreates(q) PROVE TypeOK'
  <2>1. q \in Requests
    BY DEF TypeOK
  <2>2. \A faithful \in BOOLEAN :
          [key |-> q.key, body |-> q.body, faithful |-> faithful] \in LedgerRow
    BY <2>1 DEF Requests, LedgerRow
  <2>3. ledger' \in [Tokens -> LedgerRow]
    <3>1. CASE Created(q.token)
      BY <1>1, <3>1 DEF SourceCreates, TypeOK
    <3>2. CASE ~Created(q.token)
      <4>1. PICK faithful \in BOOLEAN :
              ledger' = [ledger EXCEPT ![q.token] =
                           [key |-> q.key, body |-> q.body,
                            faithful |-> faithful]]
        BY <1>1, <3>2 DEF SourceCreates
      <4> QED
        BY <2>2, <4>1 DEF TypeOK
    <3> QED
      BY <3>1, <3>2
  <2> QED
    BY <1>1, <2>3 DEF SourceCreates, TypeOK, store, faults
<1>2. ASSUME NEW q \in sent, SourceDrops(q) PROVE TypeOK'
  BY <1>2 DEF SourceDrops, TypeOK, store, faults
<1>3. ASSUME NEW s \in Senders, AnswerLost(s) PROVE TypeOK'
  BY <1>3 DEF AnswerLost, TypeOK, store, faults
<1>4. ASSUME NEW k \in Keys, LeaseLapses(k) PROVE TypeOK'
  <2>1. \A row \in Row : LeaseLapsed(row) \in Row
    BY DEF LeaseLapsed, Row
  <2> QED
    BY <1>4, <2>1 DEF LeaseLapses, TypeOK, source, faults
<1>5. ASSUME NEW k \in Keys, DeadlinePasses(k) PROVE TypeOK'
  <2>1. \A row \in Row : DeadlinePassed(row) \in Row
    BY DEF DeadlinePassed, Row
  <2> QED
    BY <1>5, <2>1 DEF DeadlinePasses, TypeOK, source, faults
<1>6. ASSUME ProcessDies
      PROVE  /\ call' \in [Calls -> CallState]
             /\ worker' \in [Recoverers -> WorkerState]
             /\ sent' \subseteq Requests
             /\ answer' \in [Senders -> {"none", "record", "no_record_id"}]
             /\ receipt' \in [Keys -> Receipts]
             /\ ledger' \in [Tokens -> LedgerRow]
  <2>1. \A c \in Calls : [call[c] EXCEPT !.step = "dead"] \in CallState
    BY DEF TypeOK, CallState, CallSteps
  <2>2. IdleWorker \in WorkerState
    BY DEF IdleWorker, WorkerState, WorkerSteps, ExecutionStates
  <2> QED
    BY <1>6, <2>1, <2>2, AbandonedType DEF ProcessDies, TypeOK
<1>7. CASE Crash
  BY <1>6, <1>7 DEF Crash, TypeOK
<1>8. CASE Reconfigure
  <2>1. \A row \in Row : [row EXCEPT !.payload = "unbound"] \in Row
    BY DEF Row
  <2>2. exec' \in [Keys -> Row]
    BY <1>8, <2>1 DEF Reconfigure, TypeOK
  <2> QED
    BY <1>6, <1>8, <2>2 DEF Reconfigure, TypeOK
<1> QED
  BY <1>1, <1>2, <1>3, <1>4, <1>5, <1>7, <1>8 DEF Environment

LEMMA NextTypeOK == TypeOK /\ [Next]_vars => TypeOK'
<1> SUFFICES ASSUME TypeOK, [Next]_vars PROVE TypeOK'
  OBVIOUS
<1>1. CASE \E c \in Calls : CallStep(c)
  BY <1>1, CallTypeOK
<1>2. CASE Recovery
  BY <1>2, AcquireTypeOK, WorkerTypeOK DEF Recovery
<1>3. CASE Environment
  BY <1>3, EnvironmentTypeOK
<1>4. CASE UNCHANGED vars
  BY <1>4 DEF vars, TypeOK
<1> QED
  BY <1>1, <1>2, <1>3, <1>4 DEF Next

\* Every variable of the protocol keeps its type.
THEOREM TypeCorrect == Spec => []TypeOK
  BY InitTypeOK, NextTypeOK, PTL DEF Spec

-----------------------------------------------------------------------------
(* The invariant Bound.  Most of it survives a step because the step only  *)
(* ever adds to what is durable; Persist says what "adds" means.           *)

RowsPersist ==
    \A k \in Keys :
        /\ Exists(exec[k]) =>
             /\ Exists(exec'[k])
             /\ exec'[k].token = exec[k].token
             /\ exec'[k].body = exec[k].body
        /\ Past(k) => Past(k)'
        /\ exec[k].state = "succeeded" => exec'[k].state = "succeeded"

Persist ==
    /\ RowsPersist
    /\ \A t \in Tokens : Created(t) => ledger'[t] = ledger[t]
    /\ \A c \in Calls :
         call[c].step # "idle" =>
            call'[c].step # "idle" /\ call'[c].key = call[c].key

\* A transition that wins its compare-and-swap, from a state that a row can
\* have, moves that row and no other.
LEMMA WinningMove ==
    ASSUME TypeOK, NEW k \in Keys, NEW current \in ExecutionStates,
           NEW version, NEW target \in ExecutionStates,
           Wins(k, current, version, target), Move(k, target)
    PROVE  /\ exec[k].state = current
           /\ target \in AllowedTransitions[current]
           /\ exec'[k].state = target
           /\ exec'[k].token = exec[k].token
           /\ exec'[k].body = exec[k].body
           /\ \A j \in Keys \ {k} : exec'[j] = exec[j]
<1>1. /\ Transitioned(exec[k], target).state = target
      /\ Transitioned(exec[k], target).token = exec[k].token
      /\ Transitioned(exec[k], target).body = exec[k].body
  BY TransitionedRow DEF TypeOK
<1> QED
  BY <1>1 DEF Wins, Move, CanTransition, TypeOK

\* What a winning move to a state in which a request may have left preserves.
LEMMA MovePersists ==
    ASSUME TypeOK, NEW k \in Keys, NEW current \in ExecutionStates,
           NEW version, NEW target \in ExecutionStates \ NeverSentStates,
           Wins(k, current, version, target), Move(k, target)
    PROVE  /\ RowsPersist
           /\ Past(k)'
           /\ Exists(exec[k])
           /\ exec'[k].state = target
           /\ \A j \in Keys \ {k} : exec'[j] = exec[j]
<1>1. current = "succeeded" => AllowedTransitions[current] = {}
  BY DEF AllowedTransitions, ExecutionStates
<1>2. target # "absent" /\ current # "absent"
  BY DEF ExecutionStates
<1>3. \A j \in Keys : Past(j)' <=> exec'[j].state \notin {"absent"} \cup NeverSentStates
  BY DEF Past
<1> QED
  BY <1>1, <1>2, <1>3, WinningMove DEF RowsPersist, Exists, Past

\* One element of Bound at a time: what keeps it when nothing it speaks of
\* but the durable state has moved.
LEMMA TokenKept ==
    ASSUME TypeOK, Persist, GovernedAssumption, NEW k \in Keys,
           TokenBound(k), exec'[k] = exec[k] \/ Exists(exec[k])
    PROVE  TokenBound(k)'
  BY DEF TokenBound, Persist, RowsPersist, Exists, GovernedAssumption

LEMMA LedgerKept ==
    ASSUME TypeOK, Persist, NEW t \in Tokens, LedgerBound(t),
           ledger'[t] = ledger[t]
    PROVE  LedgerBound(t)'
<1>1. ledger[t].key \in Keys
  BY DEF TypeOK, LedgerRow
<1>2. Past(ledger[t].key) => Exists(exec[ledger[t].key])
  BY DEF Past, Exists
<1>3. Created(t)' <=> Created(t)
  BY DEF Created
<1>4. Past(ledger[t].key) => Past(ledger[t].key)'
  BY <1>1 DEF Persist, RowsPersist, Past
<1> QED
  BY <1>1, <1>2, <1>3, <1>4 DEF LedgerBound, Persist, RowsPersist

LEMMA ReceiptKept ==
    ASSUME TypeOK, Persist, NEW k \in Keys, TokenBound(k), ReceiptBound(k),
           receipt'[k] = receipt[k],
           exec'[k].state = "succeeded" => exec[k].state = "succeeded"
    PROVE  ReceiptBound(k)'
<1>1. Past(k) => Exists(exec[k])
  BY DEF Past, Exists
<1>2. exec[k].state = "succeeded" => Exists(exec[k])
  BY DEF Exists
<1>3. Past(k) => Past(k)'
  BY DEF Persist, RowsPersist
<1>4. Exists(exec[k]) => exec[k].token \in Tokens
  BY DEF TokenBound
<1>5. Created(exec[k].token) /\ Exists(exec[k]) =>
        ledger'[exec'[k].token] = ledger[exec[k].token]
  BY <1>4 DEF Persist, RowsPersist
<1>6. exec[k].state = "succeeded" => Past(k)
  BY DEF Past, NeverSentStates
<1>7. ASSUME HasReceipt(receipt'[k])
      PROVE  /\ Past(k)'
             /\ receipt'[k].record = exec'[k].token
             /\ Created(exec[k].token)'
             /\ Created(exec[k].token)
  BY <1>1, <1>3, <1>4, <1>7 DEF ReceiptBound, Persist, RowsPersist, Created
<1>8. Created(exec[k].token)' <=> ledger'[exec'[k].token].body # NoBody
  BY DEF Created
<1> QED
  BY <1>1, <1>2, <1>5, <1>7, <1>8 DEF ReceiptBound

\* The facts about the row of k that calls, workers and requests rely on.
LEMMA RowKept ==
    ASSUME TypeOK, Persist, NEW k \in Keys, TokenBound(k), Exists(exec[k])
    PROVE  /\ Exists(exec'[k])
           /\ exec'[k].token = exec[k].token
           /\ exec'[k].body = exec[k].body
           /\ Past(k) => Past(k)'
           /\ Created(exec[k].token) =>
                /\ Created(exec[k].token)'
                /\ ledger'[exec[k].token] = ledger[exec[k].token]
           /\ exec[k].state = "succeeded" => exec'[k].state = "succeeded"
<1>1. exec[k].token \in Tokens
  BY DEF TokenBound
<1>2. Past(k) => Past(k)'
  BY DEF Persist, RowsPersist
<1>3. /\ Exists(exec'[k])
      /\ exec'[k].token = exec[k].token
      /\ exec'[k].body = exec[k].body
  BY DEF Persist, RowsPersist
<1>4. Created(exec[k].token)' <=> ledger'[exec'[k].token].body # NoBody
  BY DEF Created
<1>5. Created(exec[k].token) =>
        ledger'[exec[k].token] = ledger[exec[k].token]
  BY <1>1 DEF Persist
<1>6. exec[k].state = "succeeded" => exec'[k].state = "succeeded"
  BY DEF Persist, RowsPersist
<1> QED
  BY <1>2, <1>3, <1>4, <1>5, <1>6 DEF Created

LEMMA CallKept ==
    ASSUME TypeOK, Persist, NEW c \in Calls, TokenBound(call[c].key),
           CallBound(c), call'[c] = call[c], answer'[c] \in {answer[c], "none"}
    PROVE  CallBound(c)'
<1>1. PICK k \in Keys : k = call[c].key
  BY DEF TypeOK, CallState
<1>2. Past(k) \/ exec[k].state = "succeeded" => Exists(exec[k])
  BY DEF Past, Exists
<1>3. Exists(exec[k]) =>
           /\ Exists(exec'[k])
           /\ exec'[k].token = exec[k].token
           /\ exec'[k].body = exec[k].body
           /\ Past(k) => Past(k)'
           /\ Created(exec[k].token) =>
                /\ Created(exec[k].token)'
                /\ ledger'[exec[k].token] = ledger[exec[k].token]
           /\ exec[k].state = "succeeded" => exec'[k].state = "succeeded"
  BY <1>1, RowKept
<1>4. call[c].step \in {"submitting", "waiting", "unverified", "matched",
                        "mismatched"} => Exists(exec[k])
  BY <1>1, <1>2 DEF CallBound
<1>5. answer'[c] # "none" => answer'[c] = answer[c] /\ call[c].step = "waiting"
  BY DEF CallBound
<1>6. call'[c].key = k
  BY <1>1
<1> HIDE DEF Persist
<1> QED
  BY <1>1, <1>2, <1>3, <1>4, <1>5, <1>6 DEF CallBound, Created, Past

LEMMA WorkerKept ==
    ASSUME TypeOK, Persist, NEW r \in Recoverers, TokenBound(worker[r].key),
           WorkerBound(r), worker'[r] = worker[r],
           answer'[r] \in {answer[r], "none"}
    PROVE  WorkerBound(r)'
<1>1. PICK k \in Keys : k = worker[r].key
  BY DEF TypeOK, WorkerState
<1>2. Exists(exec[k]) =>
           /\ Exists(exec'[k])
           /\ exec'[k].token = exec[k].token
           /\ exec'[k].body = exec[k].body
           /\ Past(k) => Past(k)'
           /\ Created(exec[k].token) =>
                /\ Created(exec[k].token)'
                /\ ledger'[exec[k].token] = ledger[exec[k].token]
  BY <1>1, RowKept
<1>3. answer'[r] # "none" =>
        answer'[r] = answer[r] /\ worker[r].step = "waiting"
  BY DEF WorkerBound
<1>4. Past(k) => Exists(exec[k])
  BY DEF Past, Exists
<1>5. worker'[r].key = k
  BY <1>1
<1> HIDE DEF Persist
<1> QED
  BY <1>1, <1>2, <1>3, <1>4, <1>5 DEF WorkerBound, Created, Past

\* A request that is still on the wire, its sender still waiting or gone.
LEMMA RequestKept ==
    ASSUME TypeOK, Persist, NEW p \in sent, NEW q \in Requests,
           TokenBound(p.key), RequestBound(p),
           q.key = p.key, q.token = p.token, q.body = p.body,
           \/ q.from = NoOwner
           \/ /\ q.from = p.from
              /\ q.from \in Calls => call'[q.from] = call[q.from]
              /\ q.from \in Recoverers => worker'[q.from] = worker[q.from]
              /\ q.from \in Senders => answer'[q.from] = answer[q.from],
           GovernedAssumption, StoreAssumption
    PROVE  RequestBound(q)'
<1>1. PICK k \in Keys : k = p.key
  BY DEF TypeOK, Requests
<1>2. Past(k) /\ Exists(exec[k])
  BY <1>1 DEF RequestBound, Past, Exists
<1>3. /\ exec'[k].token = exec[k].token
      /\ exec'[k].body = exec[k].body
      /\ Past(k)'
  BY <1>1, <1>2, RowKept
<1>4. q.from = NoOwner => q.from \notin Calls /\ q.from \notin Recoverers
                          /\ q.from \notin Senders
  BY DEF GovernedAssumption, StoreAssumption, Senders
<1>5. Past(q.key)' /\ q.token = exec'[q.key].token /\ q.body = exec'[q.key].body
  BY <1>1, <1>3 DEF RequestBound, Past
<1> HIDE DEF Persist
<1> QED
  BY <1>4, <1>5 DEF RequestBound

-----------------------------------------------------------------------------
(* One frame for every step: whatever a step does not itself re-establish  *)
(* of Bound is kept, for the reasons above.                                *)

SentFramed ==
    \A q \in sent' :
        \/ RequestBound(q)'
        \/ \E p \in sent :
             /\ q.key = p.key /\ q.token = p.token /\ q.body = p.body
             /\ \/ q.from = NoOwner
                \/ /\ q.from = p.from
                   /\ q.from \in Calls => call'[q.from] = call[q.from]
                   /\ q.from \in Recoverers => worker'[q.from] = worker[q.from]
                   /\ q.from \in Senders => answer'[q.from] = answer[q.from]

Framed ==
    /\ \A k \in Keys :
         \/ TokenBound(k)'
         \/ exec'[k] = exec[k]
         \/ Exists(exec[k])
    /\ \A k \in Keys :
         \/ ReceiptBound(k)'
         \/ /\ receipt'[k] = receipt[k]
            /\ exec'[k].state = "succeeded" => exec[k].state = "succeeded"
    /\ \A t \in Tokens : LedgerBound(t)' \/ ledger'[t] = ledger[t]
    /\ \A c \in Calls :
         \/ CallBound(c)'
         \/ call'[c] = call[c] /\ answer'[c] \in {answer[c], "none"}
    /\ \A r \in Recoverers :
         \/ WorkerBound(r)'
         \/ worker'[r] = worker[r] /\ answer'[r] \in {answer[r], "none"}
    /\ SentFramed

LEMMA FramedKeepsBound ==
    ASSUME TypeOK, TypeOK', Bound, Persist, Framed PROVE Bound'
<1> USE GovernedAssumption, StoreAssumption
<1>1. ASSUME NEW k \in Keys PROVE TokenBound(k)'
  BY <1>1, TokenKept DEF Framed, Bound
<1>2. ASSUME NEW k \in Keys PROVE ReceiptBound(k)'
  BY <1>2, ReceiptKept DEF Framed, Bound
<1>3. ASSUME NEW t \in Tokens PROVE LedgerBound(t)'
  BY <1>3, LedgerKept DEF Framed, Bound
<1>4. ASSUME NEW c \in Calls PROVE CallBound(c)'
  <2>1. call[c].key \in Keys
    BY DEF TypeOK, CallState
  <2> QED
    BY <1>4, <2>1, CallKept DEF Framed, Bound
<1>5. ASSUME NEW r \in Recoverers PROVE WorkerBound(r)'
  <2>1. worker[r].key \in Keys
    BY DEF TypeOK, WorkerState
  <2> QED
    BY <1>5, <2>1, WorkerKept DEF Framed, Bound
<1>6. ASSUME NEW q \in sent' PROVE RequestBound(q)'
  <2>1. q \in Requests
    BY DEF TypeOK
  <2>2. \A p \in sent : p.key \in Keys /\ TokenBound(p.key) /\ RequestBound(p)
    BY DEF TypeOK, Requests, Bound
  <2> QED
    BY <1>6, <2>1, <2>2, RequestKept DEF Framed, SentFramed
<1> QED
  BY <1>1, <1>2, <1>3, <1>4, <1>5, <1>6 DEF Bound
LEMMA SentFrame ==
    ASSUME TypeOK, NEW s \in Senders,
           \A d \in Calls \ {s} : call'[d] = call[d],
           \A r \in Recoverers \ {s} : worker'[r] = worker[r],
           \A t \in Senders \ {s} : answer'[t] = answer[t],
           \A q \in sent' : \/ RequestBound(q)'
                            \/ q \in sent /\ q.from # s
                            \/ q \in Abandoned({s})
    PROVE  SentFramed
<1>1. ASSUME NEW q \in Abandoned({s})
      PROVE  \E p \in sent :
               /\ q.key = p.key /\ q.token = p.token /\ q.body = p.body
               /\ q.from = NoOwner \/ (q.from = p.from /\ q.from # s)
  BY <1>1 DEF Abandoned, TypeOK, Requests
<1> QED
  BY <1>1 DEF SentFramed

\* Whoever is not waiting for an answer has no request on the wire.
LEMMA NoRequestFrom ==
    ASSUME TypeOK, Bound, NEW s \in Senders,
           \/ answer[s] # "none"
           \/ s \in Calls /\ call[s].step # "waiting"
           \/ s \in Recoverers /\ worker[s].step # "waiting"
    PROVE  \A q \in sent : q.from # s
  BY DEF Bound, RequestBound

LEMMA RowsStay == ASSUME exec' = exec PROVE RowsPersist
  BY DEF RowsPersist, Exists, Past

-----------------------------------------------------------------------------
(* The steps of a tool call.                                               *)

LEMMA CallFrame ==
    ASSUME TypeOK, TypeOK', Bound, RowsPersist,
           NEW c \in Calls, NEW k \in Keys,
           call[c].step # "idle" => call[c].key = k,
           call'[c].step # "idle", call'[c].key = k,
           ledger' = ledger, worker' = worker,
           \A d \in Calls \ {c} : call'[d] = call[d],
           \A s \in Senders \ {c} : answer'[s] = answer[s],
           \A j \in Keys \ {k} : exec'[j] = exec[j] /\ receipt'[j] = receipt[j],
           TokenBound(k)' \/ Exists(exec[k]),
           \/ ReceiptBound(k)'
           \/ receipt'[k] = receipt[k] /\ exec'[k].state # "succeeded"
           \/ receipt'[k] = receipt[k] /\ exec' = exec,
           CallBound(c)',
           \A q \in sent' : \/ RequestBound(q)'
                            \/ q \in sent /\ q.from # c
                            \/ q \in Abandoned({c})
    PROVE  Bound'
<1> USE GovernedAssumption
<1>1. Persist
  BY DEF Persist
<1>2. SentFramed
  BY SentFrame DEF Senders
<1>3. \A r \in Recoverers : answer'[r] = answer[r]
  BY DEF Senders
<1>4. Framed
  BY <1>2, <1>3 DEF Framed, Senders
<1> QED
  BY <1>1, <1>4, FramedKeepsBound
\* What the row of a call in progress has become when its step has ended.
LEMMA CallRow ==
    ASSUME TypeOK, Bound, RowsPersist, ledger' = ledger,
           NEW c \in Calls, NEW k \in Keys, k = call[c].key,
           call[c].step \notin {"idle", "done", "dead"}
    PROVE  /\ Exists(exec[k])
           /\ Exists(exec'[k])
           /\ call[c].token = exec[k].token
           /\ call[c].body = exec[k].body
           /\ exec'[k].token = exec[k].token
           /\ exec'[k].body = exec[k].body
           /\ Past(k) => Past(k)'
           /\ call[c].outcome = "none"
  BY DEF Bound, CallBound, RowsPersist, Outcomes

\* A transition that the call loses, or an answer it does not wait for, ends
\* it with an outcome that promises nothing.
LEMMA FinishBound ==
    ASSUME TypeOK, NEW c \in Calls, NEW outcome \in Outcomes,
           outcome \notin {"created", "idempotent_replay"},
           Finish(c, outcome), answer'[c] = "none"
    PROVE  /\ CallBound(c)'
           /\ call'[c].step = "done"
           /\ call'[c].key = call[c].key
           /\ \A d \in Calls \ {c} : call'[d] = call[d]
<1>1. /\ call'[c].step = "done"
      /\ call'[c].outcome = outcome
      /\ call'[c].key = call[c].key
      /\ \A d \in Calls \ {c} : call'[d] = call[d]
  BY DEF Finish, TypeOK, CallState
<1> QED
  BY <1>1 DEF CallBound

\* A call that goes on.
LEMMA GotoEffect ==
    ASSUME TypeOK, NEW c \in Calls, NEW step,
           Goto(c, step) \/ GotoMoved(c, step)
    PROVE  /\ call'[c].step = step
           /\ call'[c].key = call[c].key
           /\ call'[c].token = call[c].token
           /\ call'[c].body = call[c].body
           /\ call'[c].outcome = call[c].outcome
           /\ \A d \in Calls \ {c} : call'[d] = call[d]
<1> DEFINE n == call[c].version + 1
<1>1. PICK old \in CallState : old = call[c]
  BY DEF TypeOK
<1>2. call \in [Calls -> CallState]
  BY DEF TypeOK
<1>3. \/ call' = [call EXCEPT ![c] = [old EXCEPT !.step = step]]
      \/ call' = [call EXCEPT ![c] = [old EXCEPT !.step = step, !.version = n]]
  BY <1>1 DEF Goto, GotoMoved
<1> HIDE DEF n
<1>4. CASE call' = [call EXCEPT ![c] = [old EXCEPT !.step = step]]
  BY <1>1, <1>2, <1>4 DEF CallState
<1>5. CASE call' = [call EXCEPT ![c] = [old EXCEPT !.step = step, !.version = n]]
  BY <1>1, <1>2, <1>5 DEF CallState
<1> QED
  BY <1>3, <1>4, <1>5

LEMMA SubmitBound ==
    ASSUME TypeOK, TypeOK', Bound, NEW c \in Calls, Submit(c) PROVE Bound'
<1> USE GovernedAssumption
<1>1. PICK k \in Keys : k = call[c].key
  BY DEF TypeOK, CallState
<1>2. /\ call[c].step = "prepared" /\ receipt' = receipt /\ worker' = worker
      /\ sent' = sent /\ answer' = answer /\ ledger' = ledger
  BY DEF Submit, source
<1>3. answer'[c] = "none" /\ \A q \in sent' : q \in sent /\ q.from # c
  BY <1>2, NoRequestFrom DEF Bound, CallBound, Senders
<1>4. CASE Wins(k, "prepared", call[c].version, "submitting")
  <2>1. Move(k, "submitting") /\ GotoMoved(c, "submitting")
    BY <1>1, <1>4 DEF Submit
  <2>2. /\ RowsPersist /\ Past(k)' /\ exec'[k].state = "submitting"
        /\ \A j \in Keys \ {k} : exec'[j] = exec[j]
    BY <1>4, <2>1, MovePersists DEF ExecutionStates, NeverSentStates
  <2>3. CallBound(c)'
    BY <1>1, <1>2, <1>3, <2>1, <2>2, CallRow, GotoEffect DEF CallBound, Past
  <2> QED
    BY <1>1, <1>2, <1>3, <2>1, <2>2, <2>3, CallRow, CallFrame, GotoEffect
<1>5. CASE ~Wins(k, "prepared", call[c].version, "submitting")
  <2>1. Finish(c, "stale") /\ exec' = exec
    BY <1>1, <1>5 DEF Submit
  <2>2. /\ CallBound(c)' /\ call'[c].step = "done" /\ call'[c].key = k
        /\ \A d \in Calls \ {c} : call'[d] = call[d]
    BY <1>1, <1>3, <2>1, FinishBound DEF Outcomes
  <2> QED
    BY <1>1, <1>2, <1>3, <2>1, <2>2, RowsStay, CallRow, CallFrame
<1> QED
  BY <1>4, <1>5
LEMMA PrepareBound ==
    ASSUME TypeOK, TypeOK', Bound, NEW c \in Calls, NEW k \in Keys,
           NEW f \in Fingerprints, Prepare(c, k, f)
    PROVE  Bound'
<1> USE GovernedAssumption, StoreAssumption
<1> DEFINE row == IF NeedsRow(exec[k]) THEN PreparedRow(f, c, "sealed")
                  ELSE exec[k]
           outcome == PrepareOutcome(row, f)
<1>1. /\ call[c].step = "idle" /\ receipt' = receipt /\ worker' = worker
      /\ sent' = sent /\ answer' = answer /\ ledger' = ledger
      /\ exec' = [exec EXCEPT ![k] = row]
  BY DEF Prepare, source
<1>2. /\ call'[c].step = IF outcome = "none" THEN "prepared" ELSE "done"
      /\ call'[c].key = k
      /\ call'[c].body = f
      /\ call'[c].token = row.token
      /\ call'[c].outcome = outcome
      /\ \A d \in Calls \ {c} : call'[d] = call[d]
  BY DEF Prepare, ClientToken, TypeOK
<1>3. answer'[c] = "none" /\ \A q \in sent' : q \in sent /\ q.from # c
  BY <1>1, NoRequestFrom DEF Bound, CallBound, Senders
<1>4. /\ exec'[k] = row /\ \A j \in Keys \ {k} : exec'[j] = exec[j]
  BY <1>1 DEF TypeOK
<1>5. CASE Exists(exec[k])
  <2>1. row = exec[k] /\ exec' = exec
    BY <1>1, <1>5 DEF NeedsRow, TypeOK
  <2>2. /\ outcome \in {"none", "conflict", "commit_unknown",
                        "idempotent_replay"}
        /\ outcome = "none" => row.body = f
        /\ outcome = "idempotent_replay" =>
             row.state = "succeeded" /\ row.body = f
    BY DEF PrepareOutcome
  <2> HIDE DEF outcome
  <2>3. CallBound(c)'
    BY <1>2, <1>3, <1>4, <1>5, <2>1, <2>2 DEF CallBound, Past, Exists
  <2>a. call'[c].step # "idle"
    BY <1>2
  <2> HIDE DEF row
  <2> QED
    BY <1>1, <1>2, <1>3, <1>4, <1>5, <2>1, <2>3, <2>a, RowsStay, CallFrame
<1>6. CASE ~Exists(exec[k])
  <2>1. /\ row.state = "prepared" /\ row.body = f /\ row.token = c
        /\ outcome = "none"
    BY <1>6 DEF NeedsRow, PreparedRow, PrepareOutcome
  <2> HIDE DEF outcome
  <2>2. RowsPersist
    BY <1>4, <1>6, <2>1 DEF RowsPersist, Exists, Past
  <2>3. CallBound(c)'
    BY <1>2, <1>3, <1>4, <2>1 DEF CallBound, Exists
  <2>4. TokenBound(k)'
    BY <1>2, <1>4, <2>1 DEF TokenBound
  <2>a. call'[c].step # "idle" /\ exec'[k].state # "succeeded"
    BY <1>2, <1>4, <2>1
  <2> HIDE DEF row
  <2> QED
    BY <1>1, <1>2, <1>3, <1>4, <2>a, <2>2, <2>3, <2>4, CallFrame
<1> QED
  BY <1>5, <1>6

LEMMA SendCreateBound ==
    ASSUME TypeOK, TypeOK', Bound, NEW c \in Calls, SendCreate(c) PROVE Bound'
<1> USE GovernedAssumption
<1>1. PICK k \in Keys : k = call[c].key
  BY DEF TypeOK, CallState
<1>2. /\ call[c].step = "submitting" /\ exec' = exec /\ receipt' = receipt
      /\ worker' = worker /\ answer' = answer /\ ledger' = ledger
      /\ Goto(c, "waiting")
      /\ sent' = sent \cup {[from |-> c, key |-> k, token |-> call[c].token,
                             body |-> call[c].body]}
  BY <1>1 DEF SendCreate, store
<1>3. answer'[c] = "none" /\ \A q \in sent : q.from # c
  BY <1>2, NoRequestFrom DEF Bound, CallBound, Senders
<1>4. /\ Exists(exec[k]) /\ Past(k)
      /\ call[c].token = exec[k].token
      /\ call[c].body = exec[k].body
      /\ call[c].outcome = "none"
  BY <1>1, <1>2 DEF Bound, CallBound
<1>5. /\ call'[c].step = "waiting" /\ call'[c].key = k
      /\ call'[c].token = call[c].token /\ call'[c].body = call[c].body
      /\ call'[c].outcome = call[c].outcome
      /\ \A d \in Calls \ {c} : call'[d] = call[d]
  BY <1>1, <1>2, GotoEffect
<1>6. CallBound(c)'
  BY <1>2, <1>3, <1>4, <1>5 DEF CallBound, Past
<1>7. ASSUME NEW q \in sent', q \notin sent PROVE RequestBound(q)'
  <2>1. q = [from |-> c, key |-> k, token |-> call[c].token,
             body |-> call[c].body]
    BY <1>2, <1>7
  <2> QED
    BY <1>2, <1>3, <1>4, <1>5, <2>1 DEF RequestBound, Past
<1> QED
  BY <1>1, <1>2, <1>3, <1>4, <1>5, <1>6, <1>7, RowsStay, CallFrame

LEMMA CreateUnknownBound ==
    ASSUME TypeOK, TypeOK', Bound, NEW c \in Calls, CreateUnknown(c)
    PROVE  Bound'
<1> USE GovernedAssumption
<1>1. PICK k \in Keys : k = call[c].key
  BY DEF TypeOK, CallState
<1>2. /\ call[c].step = "waiting" /\ receipt' = receipt /\ worker' = worker
      /\ sent' = Abandoned({c}) /\ ledger' = ledger
      /\ answer' = [answer EXCEPT ![c] = "none"]
  BY DEF CreateUnknown
<1>3. answer'[c] = "none" /\ \A s \in Senders \ {c} : answer'[s] = answer[s]
  BY <1>2 DEF TypeOK, Senders
<1>4. CASE Wins(k, "submitting", call[c].version, "commit_unknown")
  <2>1. Move(k, "commit_unknown") /\ Finish(c, "commit_unknown")
    BY <1>1, <1>4 DEF CreateUnknown
  <2>2. /\ RowsPersist /\ Past(k)' /\ exec'[k].state = "commit_unknown"
        /\ \A j \in Keys \ {k} : exec'[j] = exec[j]
    BY <1>4, <2>1, MovePersists DEF ExecutionStates, NeverSentStates
  <2>3. /\ CallBound(c)' /\ call'[c].step = "done" /\ call'[c].key = k
        /\ \A d \in Calls \ {c} : call'[d] = call[d]
    BY <1>1, <1>3, <2>1, FinishBound DEF Outcomes
  <2> QED
    BY <1>1, <1>2, <1>3, <2>2, <2>3, CallRow, CallFrame
<1>5. CASE ~Wins(k, "submitting", call[c].version, "commit_unknown")
  <2>1. Finish(c, "stale") /\ exec' = exec
    BY <1>1, <1>5 DEF CreateUnknown
  <2>2. /\ CallBound(c)' /\ call'[c].step = "done" /\ call'[c].key = k
        /\ \A d \in Calls \ {c} : call'[d] = call[d]
    BY <1>1, <1>3, <2>1, FinishBound DEF Outcomes
  <2> QED
    BY <1>1, <1>2, <1>3, <2>1, <2>2, RowsStay, CallRow, CallFrame
<1> QED
  BY <1>4, <1>5
\* The loser of a compare-and-swap: the call ends, nothing else has changed.
LEMMA StaleBound ==
    ASSUME TypeOK, TypeOK', Bound, NEW c \in Calls,
           call[c].step \notin {"idle", "done", "dead"},
           NEW outcome \in Outcomes,
           outcome \notin {"created", "idempotent_replay"},
           Finish(c, outcome), exec' = exec, receipt' = receipt,
           worker' = worker, ledger' = ledger,
           answer'[c] = "none",
           \A s \in Senders \ {c} : answer'[s] = answer[s],
           sent' = sent, \A q \in sent : q.from # c
    PROVE  Bound'
<1>1. PICK k \in Keys : k = call[c].key
  BY DEF TypeOK, CallState
<1>2. /\ CallBound(c)' /\ call'[c].step = "done" /\ call'[c].key = k
      /\ \A d \in Calls \ {c} : call'[d] = call[d]
  BY <1>1, FinishBound
<1> QED
  BY <1>1, <1>2, RowsStay, CallRow, CallFrame

LEMMA RecordCreatedBound ==
    ASSUME TypeOK, TypeOK', Bound, NEW c \in Calls, RecordCreated(c)
    PROVE  Bound'
<1> USE GovernedAssumption, StoreAssumption
<1>1. PICK k \in Keys : k = call[c].key
  BY DEF TypeOK, CallState
<1> DEFINE won == /\ CanRecordReceipt(receipt[k])
                  /\ Wins(k, "submitting", call[c].version,
                          "committed_unverified")
<1>2. /\ call[c].step = "waiting" /\ answer[c] = "record"
      /\ worker' = worker /\ sent' = sent /\ ledger' = ledger
      /\ answer' = [answer EXCEPT ![c] = "none"]
  BY DEF RecordCreated
<1>3. answer'[c] = "none" /\ \A s \in Senders \ {c} : answer'[s] = answer[s]
  BY <1>2 DEF TypeOK, Senders
<1>4. \A q \in sent : q.from # c
  BY <1>2, NoRequestFrom DEF Senders
<1>5. /\ Exists(exec[k]) /\ Past(k) /\ call[c].token = exec[k].token
      /\ call[c].body = exec[k].body /\ call[c].outcome = "none"
      /\ Created(exec[k].token) /\ exec[k].token \in Tokens
  BY <1>1, <1>2 DEF Bound, CallBound, TokenBound
<1>6. CASE won
  <2>1. /\ Move(k, "committed_unverified") /\ GotoMoved(c, "unverified")
        /\ receipt' = [receipt EXCEPT ![k] = RecordedReceipt(call[c].token)]
    BY <1>1, <1>6 DEF RecordCreated
  <2>2. /\ RowsPersist /\ Past(k)'
        /\ exec'[k].state = "committed_unverified"
        /\ \A j \in Keys \ {k} : exec'[j] = exec[j]
    BY <1>6, <2>1, MovePersists DEF ExecutionStates, NeverSentStates
  <2>3. /\ exec'[k].token = exec[k].token /\ exec'[k].body = exec[k].body
        /\ Exists(exec'[k])
    BY <1>5, <2>2 DEF RowsPersist
  <2>4. /\ call'[c].step = "unverified" /\ call'[c].key = k
        /\ call'[c].token = call[c].token /\ call'[c].body = call[c].body
        /\ call'[c].outcome = call[c].outcome
        /\ \A d \in Calls \ {c} : call'[d] = call[d]
    BY <1>1, <2>1, GotoEffect
  <2>5. CallBound(c)'
    BY <1>2, <1>3, <1>5, <2>2, <2>3, <2>4 DEF CallBound, Created, Past
  <2>6. /\ receipt'[k].record = exec'[k].token
        /\ \A j \in Keys \ {k} : receipt'[j] = receipt[j]
    BY <1>5, <2>1, <2>3 DEF RecordedReceipt, TypeOK
  <2>7. ReceiptBound(k)'
    BY <1>2, <1>5, <2>2, <2>3, <2>6 DEF ReceiptBound, Created
  <2> QED
    BY <1>1, <1>2, <1>3, <1>4, <1>5, <2>2, <2>4, <2>5, <2>6, <2>7, CallFrame
<1>7. CASE ~won
  <2>1. Finish(c, "stale") /\ exec' = exec /\ receipt' = receipt
    BY <1>1, <1>7 DEF RecordCreated, store
  <2> QED
    BY <1>2, <1>3, <1>4, <2>1, StaleBound DEF Outcomes
<1> QED
  BY <1>6, <1>7

LEMMA ReadBackBound ==
    ASSUME TypeOK, TypeOK', Bound, NEW c \in Calls, ReadBack(c) PROVE Bound'
<1> USE GovernedAssumption
<1>1. PICK k \in Keys : k = call[c].key
  BY DEF TypeOK, CallState
<1>2. /\ call[c].step = "unverified" /\ exec' = exec /\ receipt' = receipt
      /\ worker' = worker /\ sent' = sent /\ answer' = answer
      /\ ledger' = ledger
  BY DEF ReadBack, store, source
<1>3. answer'[c] = "none" /\ \A q \in sent' : q \in sent /\ q.from # c
  BY <1>2, NoRequestFrom DEF Bound, CallBound, Senders
<1>4. /\ Exists(exec[k]) /\ Past(k) /\ call[c].token = exec[k].token
      /\ call[c].body = exec[k].body /\ call[c].outcome = "none"
      /\ Created(exec[k].token)
  BY <1>1, <1>2 DEF Bound, CallBound
<1>5. CASE Finish(c, "commit_unknown")
  BY <1>2, <1>3, <1>5, StaleBound DEF Outcomes
<1>6. CASE Goto(c, IF Matches(call[c].token, call[c].body)
                   THEN "matched" ELSE "mismatched")
  <2>1. PICK step \in {"matched", "mismatched"} :
          /\ Goto(c, step)
          /\ step = "matched" => ledger[exec[k].token].faithful
    <3>1. CASE Matches(call[c].token, call[c].body)
      BY <1>4, <1>6, <3>1 DEF Matches
    <3>2. CASE ~Matches(call[c].token, call[c].body)
      BY <1>6, <3>2
    <3> QED
      BY <3>1, <3>2
  <2>2. /\ call'[c].step = step /\ call'[c].key = k
        /\ call'[c].token = call[c].token /\ call'[c].body = call[c].body
        /\ call'[c].outcome = call[c].outcome
        /\ \A d \in Calls \ {c} : call'[d] = call[d]
    BY <1>1, <2>1, GotoEffect
  <2>3. CallBound(c)'
    BY <1>2, <1>3, <1>4, <2>1, <2>2 DEF CallBound, Created, Past
  <2> QED
    BY <1>1, <1>2, <1>3, <1>4, <2>2, <2>3, RowsStay, CallFrame
<1> QED
  BY <1>5, <1>6 DEF ReadBack

LEMMA CommitMismatchBound ==
    ASSUME TypeOK, TypeOK', Bound, NEW c \in Calls, CommitMismatch(c)
    PROVE  Bound'
<1> USE GovernedAssumption
<1>1. PICK k \in Keys : k = call[c].key
  BY DEF TypeOK, CallState
<1>2. /\ call[c].step = "mismatched" /\ receipt' = receipt
      /\ worker' = worker /\ sent' = sent /\ answer' = answer
      /\ ledger' = ledger
  BY DEF CommitMismatch, source
<1>3. answer'[c] = "none" /\ \A q \in sent' : q \in sent /\ q.from # c
  BY <1>2, NoRequestFrom DEF Bound, CallBound, Senders
<1> DEFINE won == Wins(k, "committed_unverified", call[c].version,
                       "needs_manual_review")
<1>4. CASE won
  <2>1. Move(k, "needs_manual_review") /\ Finish(c, "mismatch")
    BY <1>1, <1>4 DEF CommitMismatch
  <2>2. /\ RowsPersist /\ exec'[k].state = "needs_manual_review"
        /\ \A j \in Keys \ {k} : exec'[j] = exec[j]
    BY <1>4, <2>1, MovePersists DEF ExecutionStates, NeverSentStates
  <2>3. /\ CallBound(c)' /\ call'[c].step = "done" /\ call'[c].key = k
        /\ \A d \in Calls \ {c} : call'[d] = call[d]
    BY <1>1, <1>3, <2>1, FinishBound DEF Outcomes
  <2> QED
    BY <1>1, <1>2, <1>3, <2>2, <2>3, CallRow, CallFrame
<1>5. CASE ~won
  <2>1. Finish(c, "stale") /\ exec' = exec
    BY <1>1, <1>5 DEF CommitMismatch
  <2> QED
    BY <1>2, <1>3, <2>1, StaleBound DEF Outcomes
<1> QED
  BY <1>4, <1>5

LEMMA CommitSuccessBound ==
    ASSUME TypeOK, TypeOK', Bound, NEW c \in Calls, CommitSuccess(c)
    PROVE  Bound'
<1> USE GovernedAssumption
<1>1. PICK k \in Keys : k = call[c].key
  BY DEF TypeOK, CallState
<1> DEFINE won == /\ CanMarkVerified(receipt[k])
                  /\ Wins(k, "committed_unverified", call[c].version,
                          "succeeded")
<1>2. /\ call[c].step = "matched" /\ worker' = worker /\ sent' = sent
      /\ answer' = answer /\ ledger' = ledger
  BY DEF CommitSuccess, source
<1>3. answer'[c] = "none" /\ \A q \in sent' : q \in sent /\ q.from # c
  BY <1>2, NoRequestFrom DEF Bound, CallBound, Senders
<1>4. /\ call[c].body = exec[k].body /\ Created(exec[k].token)
      /\ ledger[exec[k].token].faithful
  BY <1>1, <1>2 DEF Bound, CallBound
<1>5. CASE won
  <2>1. /\ Move(k, "succeeded") /\ Finish(c, "created")
        /\ receipt' = [receipt EXCEPT ![k] = VerifiedReceipt(receipt[k])]
    BY <1>1, <1>5 DEF CommitSuccess
  <2>2. /\ RowsPersist /\ Past(k)' /\ Exists(exec[k])
        /\ exec'[k].state = "succeeded"
        /\ \A j \in Keys \ {k} : exec'[j] = exec[j]
    BY <1>5, <2>1, MovePersists DEF ExecutionStates, NeverSentStates
  <2>3. exec'[k].token = exec[k].token /\ exec'[k].body = exec[k].body
    BY <2>2 DEF RowsPersist
  <2>4. /\ call'[c].step = "done" /\ call'[c].outcome = "created"
        /\ call'[c].key = k /\ call'[c].body = call[c].body
        /\ \A d \in Calls \ {c} : call'[d] = call[d]
    BY <1>1, <2>1 DEF Finish, TypeOK, CallState
  <2>5. CallBound(c)'
    BY <1>3, <1>4, <2>2, <2>3, <2>4 DEF CallBound
  <2>6. receipt[k].record = exec[k].token
    BY <1>5 DEF CanMarkVerified, Bound, ReceiptBound
  <2>7. /\ receipt'[k].verified /\ receipt'[k].record = receipt[k].record
        /\ \A j \in Keys \ {k} : receipt'[j] = receipt[j]
    BY <2>1 DEF VerifiedReceipt, TypeOK, Receipts
  <2>8. ReceiptBound(k)'
    BY <1>2, <1>4, <1>5, <2>2, <2>3, <2>6, <2>7
       DEF ReceiptBound, Created, CanMarkVerified, HasReceipt
  <2> QED
    BY <1>1, <1>2, <1>3, <2>2, <2>4, <2>5, <2>7, <2>8, CallFrame
<1>6. CASE ~won
  <2>1. Finish(c, "stale") /\ exec' = exec /\ receipt' = receipt
    BY <1>1, <1>6 DEF CommitSuccess, store
  <2> QED
    BY <1>2, <1>3, <2>1, StaleBound DEF Outcomes
<1> QED
  BY <1>5, <1>6

LEMMA CancelBound ==
    ASSUME TypeOK, TypeOK', Bound, NEW c \in Calls, Cancel(c) PROVE Bound'
<1> USE GovernedAssumption
<1>1. PICK k \in Keys : k = call[c].key
  BY DEF TypeOK, CallState
<1>2. /\ call[c].step \in {"prepared", "submitting", "waiting", "unverified"}
      /\ exec' = exec /\ receipt' = receipt /\ worker' = worker
      /\ sent' = Abandoned({c}) /\ ledger' = ledger /\ Goto(c, "dead")
      /\ answer' = [answer EXCEPT ![c] = "none"]
  BY DEF Cancel, store
<1>3. answer'[c] = "none" /\ \A s \in Senders \ {c} : answer'[s] = answer[s]
  BY <1>2 DEF TypeOK, Senders
<1>4. Exists(exec[k]) /\ call[c].outcome = "none"
  BY <1>1, <1>2 DEF Bound, CallBound
<1>5. /\ call'[c].step = "dead" /\ call'[c].key = k
      /\ call'[c].outcome = call[c].outcome
      /\ \A d \in Calls \ {c} : call'[d] = call[d]
  BY <1>1, <1>2, GotoEffect
<1>6. CallBound(c)'
  BY <1>3, <1>4, <1>5 DEF CallBound
<1> QED
  BY <1>1, <1>2, <1>3, <1>4, <1>5, <1>6, RowsStay, CallFrame

LEMMA CallKeepsBound ==
    ASSUME TypeOK, TypeOK', Bound, NEW c \in Calls, CallStep(c) PROVE Bound'
  BY PrepareBound, SubmitBound, SendCreateBound, CreateUnknownBound,
     RecordCreatedBound, ReadBackBound, CommitMismatchBound,
     CommitSuccessBound, CancelBound DEF CallStep
-----------------------------------------------------------------------------
(* The steps of a recovery worker.                                         *)

LEMMA WorkerFrame ==
    ASSUME TypeOK, TypeOK', Bound, RowsPersist,
           NEW r \in Recoverers, NEW k \in Keys,
           ledger' = ledger, call' = call,
           \A w \in Recoverers \ {r} : worker'[w] = worker[w],
           \A s \in Senders \ {r} : answer'[s] = answer[s],
           \A j \in Keys \ {k} : exec'[j] = exec[j] /\ receipt'[j] = receipt[j],
           Exists(exec[k]),
           \/ ReceiptBound(k)'
           \/ /\ receipt'[k] = receipt[k]
              /\ exec'[k].state = "succeeded" => exec[k].state = "succeeded",
           WorkerBound(r)',
           \A q \in sent' : \/ RequestBound(q)'
                            \/ q \in sent /\ q.from # r
                            \/ q \in Abandoned({r})
    PROVE  Bound'
<1> USE GovernedAssumption
<1>1. Persist
  BY DEF Persist
<1>2. SentFramed
  BY SentFrame DEF Senders
<1>3. \A c \in Calls : answer'[c] = answer[c]
  BY DEF Senders
<1>4. Framed
  BY <1>2, <1>3 DEF Framed, Senders
<1> QED
  BY <1>1, <1>4, FramedKeepsBound

\* What the row of a busy worker, and the record it holds, have become.
LEMMA WorkerRow ==
    ASSUME TypeOK, Bound, RowsPersist, ledger' = ledger,
           NEW r \in Recoverers, NEW k \in Keys, k = worker[r].key,
           worker[r].step # "idle"
    PROVE  /\ Exists(exec[k])
           /\ Exists(exec'[k])
           /\ exec'[k].token = exec[k].token
           /\ exec'[k].body = exec[k].body
           /\ Past(k) => Past(k)'
           /\ worker[r].record # NoToken =>
                /\ Past(k)
                /\ worker[r].record = exec[k].token
                /\ Created(exec[k].token)
  BY DEF Bound, WorkerBound, RowsPersist

LEMMA WorkerGotoEffect ==
    ASSUME TypeOK, NEW r \in Recoverers, NEW step, WorkerGoto(r, step)
    PROVE  /\ worker'[r].step = step
           /\ worker'[r].key = worker[r].key
           /\ worker'[r].record = worker[r].record
           /\ \A w \in Recoverers \ {r} : worker'[w] = worker[w]
  BY DEF WorkerGoto, TypeOK, WorkerState

\* A worker that gives up, for this scan or for good, relies on nothing new.
LEMMA LeavingBound ==
    ASSUME TypeOK, Bound, RowsPersist, ledger' = ledger,
           NEW r \in Recoverers, worker[r].step # "idle",
           NEW step \in {"release", "manual"},
           worker'[r].step = step, worker'[r].key = worker[r].key,
           worker'[r].record = worker[r].record, answer'[r] = "none"
    PROVE  WorkerBound(r)'
<1>1. PICK k \in Keys : k = worker[r].key
  BY DEF TypeOK, WorkerState
<1> QED
  BY <1>1, WorkerRow DEF WorkerBound, Created, Past

\* A worker's step that moves no row, only itself.
LEMMA WorkerMovesAlone ==
    ASSUME TypeOK, TypeOK', Bound, NEW r \in Recoverers,
           worker[r].step # "idle",
           exec' = exec, receipt' = receipt, ledger' = ledger, call' = call,
           \A w \in Recoverers \ {r} : worker'[w] = worker[w],
           \A s \in Senders \ {r} : answer'[s] = answer[s],
           WorkerBound(r)',
           \A q \in sent' : \/ RequestBound(q)'
                            \/ q \in sent /\ q.from # r
                            \/ q \in Abandoned({r})
    PROVE  Bound'
<1>1. PICK k \in Keys : k = worker[r].key
  BY DEF TypeOK, WorkerState
<1> QED
  BY <1>1, RowsStay, WorkerRow, WorkerFrame

LEMMA DriveBound ==
    ASSUME TypeOK, TypeOK', Bound, NEW r \in Recoverers, Drive(r)
    PROVE  Bound'
<1> USE GovernedAssumption
<1>1. PICK k \in Keys : k = worker[r].key
  BY DEF TypeOK, WorkerState
<1>2. /\ worker[r].step = "leased" /\ exec' = exec /\ receipt' = receipt
      /\ call' = call /\ sent' = sent /\ answer' = answer /\ ledger' = ledger
  BY DEF Drive, store, source
<1>3. /\ worker'[r].step = DriveStep(exec[k])
      /\ worker'[r].key = k
      /\ worker'[r].record = worker[r].record
      /\ \A w \in Recoverers \ {r} : worker'[w] = worker[w]
  BY <1>1 DEF Drive, TypeOK, WorkerState
<1>4. answer'[r] = "none" /\ \A q \in sent' : q \in sent /\ q.from # r
  BY <1>2, NoRequestFrom DEF Bound, WorkerBound, Senders
<1>5. Exists(exec[k])
  BY <1>1, <1>2, RowsStay, WorkerRow
<1>6. /\ DriveStep(exec[k]) \in
           {"release", "manual", "submit", "fail_safe", "promote", "resume",
            "replay", "reread"}
      /\ DriveStep(exec[k]) \in {"promote", "resume", "replay", "reread"} =>
           Past(k)
  BY <1>5 DEF DriveStep, Past, Exists, NeverSentStates, TerminalStates,
              ExecutionStates
<1>7. WorkerBound(r)'
  <2>1. worker[r].record # NoToken =>
          /\ Past(k)
          /\ worker[r].record = exec[k].token
          /\ Created(exec[k].token)
    BY <1>1, <1>2, RowsStay, WorkerRow
  <2> QED
    BY <1>2, <1>3, <1>4, <1>5, <1>6, <2>1 DEF WorkerBound, Created, Past
<1> QED
  BY <1>2, <1>3, <1>4, <1>7, WorkerMovesAlone
\* A refusal: the worker goes to release its lease and moves nothing.
LEMMA RefusedBound ==
    ASSUME TypeOK, TypeOK', Bound, NEW r \in Recoverers,
           worker[r].step # "idle",
           NEW step \in {"release", "manual"}, WorkerGoto(r, step),
           exec' = exec, receipt' = receipt, ledger' = ledger, call' = call,
           answer'[r] = "none",
           \A s \in Senders \ {r} : answer'[s] = answer[s],
           \A q \in sent' : \/ q \in sent /\ q.from # r
                            \/ q \in Abandoned({r})
    PROVE  Bound'
<1>1. /\ worker'[r].step = step /\ worker'[r].key = worker[r].key
      /\ worker'[r].record = worker[r].record
      /\ \A w \in Recoverers \ {r} : worker'[w] = worker[w]
  BY WorkerGotoEffect
<1>2. WorkerBound(r)'
  BY <1>1, RowsStay, LeavingBound
<1> QED
  BY <1>1, <1>2, WorkerMovesAlone

\* A transition that may also lead from one state in which nothing was sent
\* to another.
LEMMA MoveKeepsRows ==
    ASSUME TypeOK, NEW k \in Keys, NEW current \in ExecutionStates,
           NEW version, NEW target \in ExecutionStates,
           target \in NeverSentStates => current \in NeverSentStates,
           Wins(k, current, version, target), Move(k, target)
    PROVE  /\ RowsPersist
           /\ exec'[k].state = target
           /\ \A j \in Keys \ {k} : exec'[j] = exec[j]
<1>1. current = "succeeded" => AllowedTransitions[current] = {}
  BY DEF AllowedTransitions, ExecutionStates
<1>2. target # "absent" /\ current # "absent"
  BY DEF ExecutionStates
<1>3. \A j \in Keys : Past(j)' <=> exec'[j].state \notin {"absent"} \cup NeverSentStates
  BY DEF Past
<1> QED
  BY <1>1, <1>2, <1>3, WinningMove DEF RowsPersist, Exists, Past

LEMMA AdvanceBound ==
    ASSUME TypeOK, TypeOK', Bound, NEW r \in Recoverers,
           NEW step \in {"submit", "promote", "resume", "fail_safe"},
           NEW current \in ExecutionStates,
           NEW target \in ExecutionStates \ {"succeeded"},
           target \in NeverSentStates => current \in NeverSentStates,
           NEW next \in {"promote", "resume", "replay", "release"},
           next # "release" => target \notin NeverSentStates,
           Advance(r, step, current, target, next)
    PROVE  Bound'
<1> USE GovernedAssumption
<1>1. PICK k \in Keys : k = worker[r].key
  BY DEF TypeOK, WorkerState
<1>2. /\ worker[r].step = step /\ receipt' = receipt /\ call' = call
      /\ sent' = sent /\ answer' = answer /\ ledger' = ledger
  BY DEF Advance, source
<1>3. answer'[r] = "none" /\ \A q \in sent' : q \in sent /\ q.from # r
  BY <1>2, NoRequestFrom DEF Bound, WorkerBound, Senders
<1> DEFINE won == Wins(k, current, worker[r].version, target)
           n == worker[r].version + 1
<1>4. CASE won
  <2>1. /\ Move(k, target)
        /\ worker' = [worker EXCEPT ![r] =
                        [worker[r] EXCEPT !.step = next, !.version = n,
                                          !.state = target]]
    BY <1>1, <1>4 DEF Advance
  <2> HIDE DEF n
  <2>2. /\ worker'[r].step = next /\ worker'[r].key = k
        /\ worker'[r].record = worker[r].record
        /\ \A w \in Recoverers \ {r} : worker'[w] = worker[w]
    BY <1>1, <2>1 DEF TypeOK, WorkerState
  <2>3. /\ RowsPersist /\ exec'[k].state = target
        /\ \A j \in Keys \ {k} : exec'[j] = exec[j]
    BY <1>4, <2>1, MoveKeepsRows
  <2>4. /\ Exists(exec[k]) /\ Exists(exec'[k])
        /\ exec'[k].token = exec[k].token
        /\ Past(k) => Past(k)'
        /\ worker[r].record # NoToken =>
                /\ Past(k)
                /\ worker[r].record = exec[k].token
                /\ Created(exec[k].token)
    BY <1>1, <1>2, <2>3, WorkerRow
  <2>5. next # "release" => Past(k)'
    BY <2>3 DEF Past, ExecutionStates
  <2>6. WorkerBound(r)'
    BY <1>2, <1>3, <2>2, <2>4, <2>5 DEF WorkerBound, Created, Past
  <2> QED
    BY <1>2, <1>3, <2>2, <2>3, <2>4, <2>6, WorkerFrame
<1>5. CASE ~won
  <2>1. WorkerGoto(r, "release") /\ exec' = exec
    BY <1>1, <1>5 DEF Advance
  <2> QED
    BY <1>2, <1>3, <2>1, RefusedBound
<1> QED
  BY <1>4, <1>5

LEMMA ToManualReviewBound ==
    ASSUME TypeOK, TypeOK', Bound, NEW r \in Recoverers, ToManualReview(r)
    PROVE  Bound'
<1> USE GovernedAssumption
<1>1. PICK k \in Keys : k = worker[r].key
  BY DEF TypeOK, WorkerState
<1> DEFINE state == worker[r].state
           won == Wins(k, state, worker[r].version, "needs_manual_review")
<1>2. /\ worker[r].step = "manual" /\ receipt' = receipt /\ call' = call
      /\ sent' = sent /\ answer' = answer /\ ledger' = ledger
      /\ WorkerGoto(r, "release")
  BY DEF ToManualReview, source
<1>3. answer'[r] = "none" /\ \A q \in sent' : q \in sent /\ q.from # r
  BY <1>2, NoRequestFrom DEF Bound, WorkerBound, Senders
<1>4. CASE won
  <2>1. Move(k, "needs_manual_review")
    BY <1>1, <1>4 DEF ToManualReview
  <2>2. state \in ExecutionStates
    <3>1. exec[k].state = state /\ Exists(exec[k])
      BY <1>1, <1>2, <1>4, RowsStay
         DEF Bound, WorkerBound, Wins, CanTransition
    <3> QED
      BY <3>1 DEF Exists, TypeOK, WorkerState
  <2> HIDE DEF state
  <2>3. /\ RowsPersist /\ exec'[k].state = "needs_manual_review"
        /\ \A j \in Keys \ {k} : exec'[j] = exec[j]
    BY <1>4, <2>1, <2>2, MoveKeepsRows DEF ExecutionStates, NeverSentStates
  <2>4. /\ worker'[r].step = "release" /\ worker'[r].key = k
        /\ worker'[r].record = worker[r].record
        /\ \A w \in Recoverers \ {r} : worker'[w] = worker[w]
    BY <1>1, <1>2, WorkerGotoEffect
  <2>5. WorkerBound(r)'
    BY <1>1, <1>2, <1>3, <2>3, <2>4, LeavingBound
  <2>6. Exists(exec[k])
    BY <1>1, <1>2, <2>3, WorkerRow
  <2> QED
    BY <1>2, <1>3, <2>3, <2>4, <2>5, <2>6, WorkerFrame
<1>5. CASE ~won
  <2>1. exec' = exec
    BY <1>1, <1>5 DEF ToManualReview
  <2> QED
    BY <1>2, <1>3, <2>1, RefusedBound
<1> QED
  BY <1>4, <1>5

LEMMA ReplayCreateBound ==
    ASSUME TypeOK, TypeOK', Bound, NEW r \in Recoverers, ReplayCreate(r)
    PROVE  Bound'
<1> USE GovernedAssumption
<1>1. PICK k \in Keys : k = worker[r].key
  BY DEF TypeOK, WorkerState
<1>2. /\ worker[r].step = "replay" /\ exec' = exec /\ receipt' = receipt
      /\ call' = call /\ answer' = answer /\ ledger' = ledger
      /\ WorkerGoto(r, "waiting")
      /\ sent' = sent \cup {[from |-> r, key |-> k, token |-> exec[k].token,
                             body |-> exec[k].body]}
  BY <1>1 DEF ReplayCreate, store
<1>3. answer'[r] = "none" /\ \A q \in sent : q.from # r
  BY <1>2, NoRequestFrom DEF Bound, WorkerBound, Senders
<1>4. Exists(exec[k]) /\ Past(k)
  BY <1>1, <1>2 DEF Bound, WorkerBound
<1>5. /\ worker'[r].step = "waiting" /\ worker'[r].key = k
      /\ worker'[r].record = worker[r].record
      /\ \A w \in Recoverers \ {r} : worker'[w] = worker[w]
  BY <1>1, <1>2, WorkerGotoEffect
<1>6. WorkerBound(r)'
  <2>1. worker[r].record # NoToken =>
          /\ worker[r].record = exec[k].token
          /\ Created(exec[k].token)
    BY <1>1, <1>2, RowsStay, WorkerRow
  <2> QED
    BY <1>2, <1>3, <1>4, <1>5, <2>1 DEF WorkerBound, Created, Past
<1>7. ASSUME NEW q \in sent', q \notin sent PROVE RequestBound(q)'
  <2>1. q = [from |-> r, key |-> k, token |-> exec[k].token,
             body |-> exec[k].body]
    BY <1>2, <1>7
  <2> QED
    BY <1>2, <1>3, <1>4, <1>5, <2>1 DEF RequestBound, Past
<1> QED
  BY <1>2, <1>3, <1>5, <1>6, <1>7, WorkerMovesAlone

LEMMA ReplayAnsweredBound ==
    ASSUME TypeOK, TypeOK', Bound, NEW r \in Recoverers,
           ReplayFails(r) \/ ReplayWithoutRecord(r)
    PROVE  Bound'
<1> USE GovernedAssumption
<1>1. CASE ReplayFails(r)
  <2>1. PICK step \in {"release", "manual"} : WorkerGoto(r, step)
    BY <1>1 DEF ReplayFails
  <2> QED
    BY <1>1, <2>1, RefusedBound DEF ReplayFails, store, Senders
<1>2. CASE ReplayWithoutRecord(r)
  <2>1. answer'[r] = "none" /\ \A s \in Senders \ {r} : answer'[s] = answer[s]
    BY <1>2 DEF ReplayWithoutRecord, TypeOK, Senders
  <2>2. \A q \in sent : q.from # r
    BY <1>2, NoRequestFrom DEF ReplayWithoutRecord, Senders
  <2> QED
    BY <1>2, <2>1, <2>2, RefusedBound DEF ReplayWithoutRecord, store
<1> QED
  BY <1>1, <1>2
LEMMA RecordReplayedBound ==
    ASSUME TypeOK, TypeOK', Bound, NEW r \in Recoverers, RecordReplayed(r)
    PROVE  Bound'
<1> USE GovernedAssumption, StoreAssumption
<1>1. PICK k \in Keys : k = worker[r].key
  BY DEF TypeOK, WorkerState
<1> DEFINE won == Wins(k, "reconciling_same_client_token", worker[r].version,
                       "committed_unverified")
<1>2. /\ worker[r].step = "waiting" /\ answer[r] = "record"
      /\ call' = call /\ sent' = sent /\ ledger' = ledger
      /\ answer' = [answer EXCEPT ![r] = "none"]
  BY DEF RecordReplayed
<1>3. answer'[r] = "none" /\ \A s \in Senders \ {r} : answer'[s] = answer[s]
  BY <1>2 DEF TypeOK, Senders
<1>4. \A q \in sent : q.from # r
  BY <1>2, NoRequestFrom DEF Senders
<1>5. /\ Exists(exec[k]) /\ Past(k) /\ Created(exec[k].token)
      /\ exec[k].token \in Tokens
  BY <1>1, <1>2 DEF Bound, WorkerBound, TokenBound
<1>6. CASE won
  <2>1. /\ Move(k, "committed_unverified")
        /\ worker' = [worker EXCEPT ![r] =
                        [worker[r] EXCEPT !.step = "reread",
                                          !.record = exec[k].token]]
        /\ receipt' = IF HasReceipt(receipt[k]) THEN receipt
                      ELSE [receipt EXCEPT ![k] = RecordedReceipt(exec[k].token)]
    BY <1>1, <1>6 DEF RecordReplayed
  <2>2. /\ RowsPersist /\ Past(k)'
        /\ exec'[k].state = "committed_unverified"
        /\ \A j \in Keys \ {k} : exec'[j] = exec[j]
    BY <1>6, <2>1, MovePersists DEF ExecutionStates, NeverSentStates
  <2>3. /\ exec'[k].token = exec[k].token /\ exec'[k].body = exec[k].body
        /\ Exists(exec'[k])
    BY <1>5, <2>2 DEF RowsPersist
  <2>4. /\ worker'[r].step = "reread" /\ worker'[r].key = k
        /\ worker'[r].record = exec[k].token
        /\ \A w \in Recoverers \ {r} : worker'[w] = worker[w]
    BY <1>1, <2>1 DEF TypeOK, WorkerState
  <2>5. WorkerBound(r)'
    BY <1>2, <1>3, <1>5, <2>2, <2>3, <2>4 DEF WorkerBound, Created, Past
  <2>6. /\ receipt'[k].record = exec[k].token
        /\ \A j \in Keys \ {k} : receipt'[j] = receipt[j]
    <3>1. HasReceipt(receipt[k]) => receipt[k].record = exec[k].token
      BY DEF Bound, ReceiptBound
    <3> QED
      BY <2>1, <3>1 DEF RecordedReceipt, TypeOK
  <2>7. ReceiptBound(k)'
    BY <1>2, <1>5, <2>2, <2>3, <2>6 DEF ReceiptBound, Created
  <2> QED
    BY <1>2, <1>3, <1>4, <1>5, <2>2, <2>4, <2>5, <2>6, <2>7, WorkerFrame
<1>7. CASE ~won
  <2>1. WorkerGoto(r, "release") /\ exec' = exec /\ receipt' = receipt
    BY <1>1, <1>7 DEF RecordReplayed, store
  <2> QED
    BY <1>2, <1>3, <1>4, <2>1, RefusedBound
<1> QED
  BY <1>6, <1>7

LEMMA RereadBound ==
    ASSUME TypeOK, TypeOK', Bound, NEW r \in Recoverers, Reread(r)
    PROVE  Bound'
<1> USE GovernedAssumption
<1>1. PICK k \in Keys : k = worker[r].key
  BY DEF TypeOK, WorkerState
<1> DEFINE record == IF HasReceipt(receipt[k]) THEN receipt[k].record
                     ELSE worker[r].record
           step == IF record = NoToken THEN "manual" ELSE "read_back"
<1>2. /\ worker[r].step = "reread" /\ exec' = exec /\ receipt' = receipt
      /\ call' = call /\ sent' = sent /\ answer' = answer /\ ledger' = ledger
      /\ worker' = [worker EXCEPT ![r] =
                      [worker[r] EXCEPT !.step = step,
                                        !.version = exec[k].version,
                                        !.state = "committed_unverified",
                                        !.record = record]]
  BY <1>1 DEF Reread, store, source
<1>3. answer'[r] = "none" /\ \A q \in sent' : q \in sent /\ q.from # r
  BY <1>2, NoRequestFrom DEF Bound, WorkerBound, Senders
<1>4. Exists(exec[k]) /\ Past(k)
  BY <1>1, <1>2 DEF Bound, WorkerBound
<1>5. /\ record # NoToken =>
           record = exec[k].token /\ Created(exec[k].token)
      /\ step \in {"manual", "read_back"}
      /\ step = "read_back" => record # NoToken
  <2>1. HasReceipt(receipt[k]) =>
          receipt[k].record = exec[k].token /\ Created(exec[k].token)
    BY DEF Bound, ReceiptBound
  <2>2. worker[r].record # NoToken =>
          worker[r].record = exec[k].token /\ Created(exec[k].token)
    BY <1>1, <1>2, RowsStay, WorkerRow
  <2> QED
    BY <2>1, <2>2
<1> HIDE DEF step, record
<1>6. /\ worker'[r].step = step /\ worker'[r].key = k
      /\ worker'[r].record = record
      /\ \A w \in Recoverers \ {r} : worker'[w] = worker[w]
  BY <1>1, <1>2 DEF TypeOK, WorkerState
<1>7. WorkerBound(r)'
  BY <1>2, <1>3, <1>4, <1>5, <1>6 DEF WorkerBound, Created, Past
<1> QED
  BY <1>2, <1>3, <1>6, <1>7, WorkerMovesAlone

LEMMA RecoveryReadBackBound ==
    ASSUME TypeOK, TypeOK', Bound, NEW r \in Recoverers, RecoveryReadBack(r)
    PROVE  Bound'
<1> USE GovernedAssumption
<1>1. PICK k \in Keys : k = worker[r].key
  BY DEF TypeOK, WorkerState
<1>2. /\ worker[r].step = "read_back" /\ exec' = exec /\ receipt' = receipt
      /\ call' = call /\ sent' = sent /\ answer' = answer /\ ledger' = ledger
  BY DEF RecoveryReadBack, store, source
<1>3. answer'[r] = "none" /\ \A q \in sent' : q \in sent /\ q.from # r
  BY <1>2, NoRequestFrom DEF Bound, WorkerBound, Senders
<1>4. /\ Exists(exec[k]) /\ Past(k) /\ worker[r].record # NoToken
      /\ worker[r].record = exec[k].token /\ Created(exec[k].token)
  BY <1>1, <1>2 DEF Bound, WorkerBound
<1>5. CASE Matches(worker[r].record, exec[k].body) /\ WorkerGoto(r, "matched")
  <2>1. /\ worker'[r].step = "matched" /\ worker'[r].key = k
        /\ worker'[r].record = worker[r].record
        /\ \A w \in Recoverers \ {r} : worker'[w] = worker[w]
    BY <1>1, <1>5, WorkerGotoEffect
  <2>2. ledger[exec[k].token].faithful
    BY <1>4, <1>5 DEF Matches
  <2>3. WorkerBound(r)'
    BY <1>2, <1>3, <1>4, <2>1, <2>2 DEF WorkerBound, Created, Past
  <2> QED
    BY <1>2, <1>3, <2>1, <2>3, WorkerMovesAlone
<1>6. CASE \E step \in {"release", "manual"} : WorkerGoto(r, step)
  BY <1>2, <1>3, <1>6, RefusedBound
<1> QED
  BY <1>1, <1>5, <1>6 DEF RecoveryReadBack

LEMMA RecoverySuccessBound ==
    ASSUME TypeOK, TypeOK', Bound, NEW r \in Recoverers, RecoverySuccess(r)
    PROVE  Bound'
<1> USE GovernedAssumption
<1>1. PICK k \in Keys : k = worker[r].key
  BY DEF TypeOK, WorkerState
<1> DEFINE won == /\ CanMarkVerified(receipt[k])
                  /\ Wins(k, "committed_unverified", worker[r].version,
                          "succeeded")
<1>2. /\ worker[r].step = "matched" /\ call' = call /\ sent' = sent
      /\ answer' = answer /\ ledger' = ledger /\ WorkerGoto(r, "release")
  BY DEF RecoverySuccess, source
<1>3. answer'[r] = "none" /\ \A q \in sent' : q \in sent /\ q.from # r
  BY <1>2, NoRequestFrom DEF Bound, WorkerBound, Senders
<1>4. Created(exec[k].token) /\ ledger[exec[k].token].faithful
  BY <1>1, <1>2 DEF Bound, WorkerBound
<1>5. CASE won
  <2>1. /\ Move(k, "succeeded")
        /\ receipt' = [receipt EXCEPT ![k] = VerifiedReceipt(receipt[k])]
    BY <1>1, <1>5 DEF RecoverySuccess
  <2>2. /\ RowsPersist /\ Past(k)' /\ Exists(exec[k])
        /\ exec'[k].state = "succeeded"
        /\ \A j \in Keys \ {k} : exec'[j] = exec[j]
    BY <1>5, <2>1, MovePersists DEF ExecutionStates, NeverSentStates
  <2>3. exec'[k].token = exec[k].token
    BY <2>2 DEF RowsPersist
  <2>4. /\ worker'[r].step = "release" /\ worker'[r].key = k
        /\ worker'[r].record = worker[r].record
        /\ \A w \in Recoverers \ {r} : worker'[w] = worker[w]
    BY <1>1, <1>2, WorkerGotoEffect
  <2>5. WorkerBound(r)'
    BY <1>1, <1>2, <1>3, <2>2, <2>4, LeavingBound
  <2>6. receipt[k].record = exec[k].token
    BY <1>5 DEF CanMarkVerified, Bound, ReceiptBound
  <2>7. /\ receipt'[k].verified /\ receipt'[k].record = receipt[k].record
        /\ \A j \in Keys \ {k} : receipt'[j] = receipt[j]
    BY <2>1 DEF VerifiedReceipt, TypeOK, Receipts
  <2>8. ReceiptBound(k)'
    BY <1>2, <1>4, <1>5, <2>2, <2>3, <2>6, <2>7
       DEF ReceiptBound, Created, CanMarkVerified, HasReceipt
  <2> QED
    BY <1>2, <1>3, <2>2, <2>4, <2>5, <2>7, <2>8, WorkerFrame
<1>6. CASE ~won
  <2>1. exec' = exec /\ receipt' = receipt
    BY <1>1, <1>6 DEF RecoverySuccess, store
  <2> QED
    BY <1>2, <1>3, <2>1, RefusedBound
<1> QED
  BY <1>5, <1>6
\* Claiming, releasing and losing a lease, and the passing of the deadline.
LEMMA LeaseKeepsRows ==
    ASSUME TypeOK, NEW k \in Keys, NEW new,
           new.state = exec[k].state, new.token = exec[k].token,
           new.body = exec[k].body, exec' = [exec EXCEPT ![k] = new]
    PROVE  /\ RowsPersist
           /\ exec'[k].state = exec[k].state
           /\ \A j \in Keys \ {k} : exec'[j] = exec[j]
  BY DEF TypeOK, RowsPersist, Exists, Past

LEMMA LeaseBound ==
    ASSUME TypeOK, TypeOK', Bound, NEW r \in Recoverers,
           ReleaseLease(r) \/ \E k \in Keys : AcquireLease(r, k)
    PROVE  Bound'
<1> USE GovernedAssumption, StoreAssumption
<1>1. CASE ReleaseLease(r)
  <2>1. PICK k \in Keys : k = worker[r].key
    BY DEF TypeOK, WorkerState
  <2>2. PICK new : /\ new = LeaseReleased(exec[k], r)
                   /\ new.state = exec[k].state /\ new.token = exec[k].token
                   /\ new.body = exec[k].body
    <3>1. exec[k] \in Row /\ r \in Owners
      BY DEF TypeOK
    <3>2. /\ LeaseReleased(exec[k], r).state = exec[k].state
          /\ LeaseReleased(exec[k], r).token = exec[k].token
          /\ LeaseReleased(exec[k], r).body = exec[k].body
      BY <3>1, LeaseKeepsRow
    <3> QED
      BY <3>2
  <2>3. /\ worker[r].step = "release" /\ receipt' = receipt /\ call' = call
        /\ sent' = sent /\ answer' = answer /\ ledger' = ledger
        /\ exec' = [exec EXCEPT ![k] = new]
        /\ worker'[r] = IdleWorker
        /\ \A w \in Recoverers \ {r} : worker'[w] = worker[w]
    BY <1>1, <2>1, <2>2 DEF ReleaseLease, source, TypeOK
  <2>4. answer'[r] = "none" /\ \A q \in sent' : q \in sent /\ q.from # r
    BY <2>3, NoRequestFrom DEF Bound, WorkerBound, Senders
  <2>5. /\ RowsPersist /\ exec'[k].state = exec[k].state
        /\ \A j \in Keys \ {k} : exec'[j] = exec[j]
    BY <2>2, <2>3, LeaseKeepsRows
  <2>6. WorkerBound(r)'
    BY <2>3, <2>4 DEF WorkerBound, IdleWorker
  <2>7. Exists(exec[k])
    BY <2>1, <2>3, <2>5, WorkerRow
  <2> QED
    BY <2>3, <2>4, <2>5, <2>6, <2>7, WorkerFrame
<1>2. ASSUME NEW k \in Keys, AcquireLease(r, k) PROVE Bound'
  <2>1. PICK new : /\ new = LeaseAcquired(exec[k], r)
                   /\ new.state = exec[k].state /\ new.token = exec[k].token
                   /\ new.body = exec[k].body
    <3>1. exec[k] \in Row /\ r \in Owners
      BY DEF TypeOK
    <3>2. /\ LeaseAcquired(exec[k], r).state = exec[k].state
          /\ LeaseAcquired(exec[k], r).token = exec[k].token
          /\ LeaseAcquired(exec[k], r).body = exec[k].body
      BY <3>1, LeaseKeepsRow
    <3> QED
      BY <3>2
  <2>2. /\ worker[r].step = "idle" /\ receipt' = receipt /\ call' = call
        /\ sent' = sent /\ answer' = answer /\ ledger' = ledger
        /\ Exists(exec[k])
        /\ exec' = [exec EXCEPT ![k] = new]
        /\ worker'[r].step = "leased" /\ worker'[r].key = k
        /\ worker'[r].record = NoToken
        /\ \A w \in Recoverers \ {r} : worker'[w] = worker[w]
    BY <1>2, <2>1 DEF AcquireLease, CanAcquireLease, Unfinished, IdleWorker,
                      source, TypeOK
  <2>3. answer'[r] = "none" /\ \A q \in sent' : q \in sent /\ q.from # r
    BY <2>2, NoRequestFrom DEF Bound, WorkerBound, Senders
  <2>4. /\ RowsPersist /\ exec'[k].state = exec[k].state
        /\ \A j \in Keys \ {k} : exec'[j] = exec[j]
    BY <2>1, <2>2, LeaseKeepsRows
  <2>5. WorkerBound(r)'
    BY <2>2, <2>3, <2>4 DEF WorkerBound, Exists
  <2> QED
    BY <2>2, <2>3, <2>4, <2>5, WorkerFrame
<1> QED
  BY <1>1, <1>2

LEMMA WorkerKeepsBound ==
    ASSUME TypeOK, TypeOK', Bound, NEW r \in Recoverers, WorkerStep(r)
    PROVE  Bound'
<1>1. CASE SubmitPrepared(r)
  BY <1>1, AdvanceBound DEF SubmitPrepared, ExecutionStates, NeverSentStates
<1>2. CASE PromoteSubmitting(r)
  BY <1>2, AdvanceBound DEF PromoteSubmitting, ExecutionStates, NeverSentStates
<1>3. CASE ResumeUnknown(r)
  BY <1>3, AdvanceBound DEF ResumeUnknown, ExecutionStates, NeverSentStates
<1>4. CASE FailUnrecoverable(r)
  BY <1>4, AdvanceBound DEF FailUnrecoverable, ExecutionStates, NeverSentStates
<1> QED
  BY <1>1, <1>2, <1>3, <1>4, DriveBound, ToManualReviewBound,
     ReplayCreateBound, ReplayAnsweredBound, RecordReplayedBound, RereadBound,
     RecoveryReadBackBound, RecoverySuccessBound, LeaseBound DEF WorkerStep

-----------------------------------------------------------------------------
(* The source, time and process death.                                     *)

LEMMA SourceBound ==
    ASSUME TypeOK, TypeOK', Bound, NEW q \in sent, SourceCreates(q)
    PROVE  Bound'
<1> USE GovernedAssumption, StoreAssumption
<1>1. PICK k \in Keys : k = q.key
  BY DEF TypeOK, Requests
<1>2. /\ exec' = exec /\ receipt' = receipt /\ call' = call
      /\ worker' = worker /\ sent' = sent \ {q}
  BY DEF SourceCreates, store
<1>3. /\ Past(k) /\ Exists(exec[k])
      /\ q.token = exec[k].token /\ q.token \in Tokens
      /\ q.body = exec[k].body /\ q.body \in Fingerprints
  BY <1>1 DEF Bound, RequestBound, TokenBound, Past, Exists
<1>4. /\ Created(q.token) => ledger' = ledger
      /\ ~Created(q.token) =>
           /\ ledger'[q.token].key = k /\ ledger'[q.token].body = q.body
           /\ \A t \in Tokens \ {q.token} : ledger'[t] = ledger[t]
  <2>1. CASE Created(q.token)
    BY <2>1 DEF SourceCreates
  <2>2. CASE ~Created(q.token)
    <3>1. PICK faithful \in BOOLEAN :
            ledger' = [ledger EXCEPT ![q.token] =
                         [key |-> q.key, body |-> q.body,
                          faithful |-> faithful]]
      BY <2>2 DEF SourceCreates
    <3> QED
      BY <1>1, <1>3, <2>2, <3>1 DEF TypeOK
  <2> QED
    BY <2>1, <2>2
<1>5. Persist
  <2>1. RowsPersist
    BY <1>2, RowsStay
  <2>2. \A t \in Tokens : Created(t) => ledger'[t] = ledger[t]
    BY <1>4
  <2> QED
    BY <1>2, <2>1, <2>2 DEF Persist
<1>6. Created(q.token)'
  BY <1>3, <1>4 DEF Created
<1>7. \A t \in Tokens : LedgerBound(t)' \/ ledger'[t] = ledger[t]
  <2>1. CASE Created(q.token)
    BY <1>4, <2>1
  <2>2. CASE ~Created(q.token)
    BY <1>2, <1>3, <1>4, <2>2 DEF LedgerBound, Past
  <2> QED
    BY <2>1, <2>2
<1>8. \A s \in Senders : s # q.from => answer'[s] = answer[s]
  BY DEF SourceCreates, TypeOK
<1>9. ASSUME NEW p \in sent', p.from \in Senders
      PROVE  answer'[p.from] = answer[p.from]
  <2>1. p \in sent /\ p # q /\ p \in Requests /\ q \in Requests
    BY <1>2, <1>9 DEF TypeOK
  <2>2. p.from # q.from
    <3> SUFFICES ASSUME p.from = q.from PROVE FALSE
      OBVIOUS
    <3>1. p.key = q.key
      BY <1>9, <2>1 DEF Bound, RequestBound, Senders
    <3>2. p.token = q.token /\ p.body = q.body
      BY <2>1, <3>1 DEF Bound, RequestBound
    <3> QED
      BY <2>1, <3>1, <3>2 DEF Requests
  <2> QED
    BY <1>8, <1>9, <2>2
<1>10. SentFramed
  <2>1. ASSUME NEW p \in sent'
        PROVE  /\ p \in sent
               /\ p.from \in Senders => answer'[p.from] = answer[p.from]
    BY <1>2, <1>9, <2>1
  <2> QED
    BY <1>2, <2>1 DEF SentFramed
<1>11. ASSUME NEW c \in Calls
       PROVE  CallBound(c)' \/ answer'[c] \in {answer[c], "none"}
  <2>1. CASE c # q.from
    BY <1>8, <2>1 DEF Senders
  <2>2. CASE c = q.from
    <3>1. call[c].step = "waiting" /\ call[c].key = k
      BY <1>1, <2>2 DEF Bound, RequestBound
    <3>2. /\ call[c].token = exec[k].token
          /\ call[c].body = exec[k].body
          /\ call[c].outcome = "none"
      BY <1>1, <3>1 DEF Bound, CallBound
    <3> QED
      BY <1>2, <1>3, <1>6, <3>1, <3>2 DEF CallBound, Created, Past, Exists
  <2> QED
    BY <2>1, <2>2
<1>12. ASSUME NEW r \in Recoverers
       PROVE  WorkerBound(r)' \/ answer'[r] \in {answer[r], "none"}
  <2>1. CASE r # q.from
    BY <1>8, <2>1 DEF Senders
  <2>2. CASE r = q.from
    <3>1. worker[r].step = "waiting" /\ worker[r].key = k
      BY <1>1, <2>2 DEF Bound, RequestBound
    <3>2. worker[r].record # NoToken => worker[r].record = exec[k].token
      BY <3>1 DEF Bound, WorkerBound
    <3> QED
      BY <1>2, <1>3, <1>6, <3>1, <3>2 DEF WorkerBound, Created, Past, Exists
  <2> QED
    BY <2>1, <2>2
<1>13. Framed
  BY <1>2, <1>7, <1>10, <1>11, <1>12 DEF Framed
<1> QED
  BY <1>5, <1>13, FramedKeepsBound
LEMMA SourceDropsBound ==
    ASSUME TypeOK, TypeOK', Bound, NEW q \in sent, SourceDrops(q)
    PROVE  Bound'
<1>1. /\ exec' = exec /\ receipt' = receipt /\ call' = call
      /\ worker' = worker /\ sent' = sent \ {q} /\ answer' = answer
      /\ ledger' = ledger
  BY DEF SourceDrops, store
<1>2. Persist
  BY <1>1, RowsStay DEF Persist
<1>3. SentFramed
  BY <1>1 DEF SentFramed
<1> QED
  BY <1>1, <1>2, <1>3, FramedKeepsBound DEF Framed

LEMMA AnswerLostBound ==
    ASSUME TypeOK, TypeOK', Bound, NEW s \in Senders, AnswerLost(s)
    PROVE  Bound'
<1>1. /\ exec' = exec /\ receipt' = receipt /\ call' = call
      /\ worker' = worker /\ sent' = sent /\ ledger' = ledger
      /\ answer[s] # "none"
      /\ \A x \in Senders : answer'[x] \in {answer[x], "none"}
      /\ \A x \in Senders \ {s} : answer'[x] = answer[x]
  BY DEF AnswerLost, store, TypeOK
<1>2. Persist
  BY <1>1, RowsStay DEF Persist
<1>3. \A q \in sent : q.from # s
  BY <1>1, NoRequestFrom
<1>4. SentFramed
  BY <1>1, <1>3 DEF SentFramed
<1> QED
  BY <1>1, <1>2, <1>4, FramedKeepsBound DEF Framed, Senders

LEMMA ClockBound ==
    ASSUME TypeOK, TypeOK', Bound, NEW k \in Keys,
           LeaseLapses(k) \/ DeadlinePasses(k)
    PROVE  Bound'
<1> DEFINE new == IF LeaseLapses(k) THEN LeaseLapsed(exec[k])
                  ELSE DeadlinePassed(exec[k])
<1>1. /\ receipt' = receipt /\ call' = call /\ worker' = worker
      /\ sent' = sent /\ answer' = answer /\ ledger' = ledger
      /\ exec' = [exec EXCEPT ![k] = new]
  BY DEF LeaseLapses, DeadlinePasses, source
<1>2. /\ new.state = exec[k].state /\ new.token = exec[k].token
      /\ new.body = exec[k].body
  BY DEF LeaseLapsed, DeadlinePassed, TypeOK, Row
<1> HIDE DEF new
<1>3. /\ RowsPersist /\ exec'[k].state = exec[k].state
      /\ \A j \in Keys \ {k} : exec'[j] = exec[j]
  BY <1>1, <1>2, LeaseKeepsRows
<1>4. Persist
  BY <1>1, <1>3 DEF Persist
<1>5. SentFramed
  BY <1>1 DEF SentFramed
<1>6. TokenBound(k)'
  <2>1. exec'[k] = new
    BY <1>1 DEF TypeOK
  <2> QED
    BY <1>1, <1>2, <2>1 DEF Bound, TokenBound, Exists
<1> QED
  BY <1>1, <1>3, <1>4, <1>5, <1>6, FramedKeepsBound DEF Framed

\* The process dies, and comes back under the same config or another.
LEMMA DeathBound ==
    ASSUME TypeOK, TypeOK', Bound, ProcessDies,
           \A k \in Keys : /\ exec'[k].state = exec[k].state
                           /\ exec'[k].token = exec[k].token
                           /\ exec'[k].body = exec[k].body
    PROVE  Bound'
<1> USE GovernedAssumption, StoreAssumption
<1>1. /\ receipt' = receipt /\ ledger' = ledger
      /\ sent' = Abandoned(Senders)
      /\ \A s \in Senders : answer'[s] = "none"
      /\ \A r \in Recoverers : worker'[r] = IdleWorker
  BY DEF ProcessDies
<1>2. ASSUME NEW c \in Calls
      PROVE  /\ call'[c].key = call[c].key
             /\ call'[c].body = call[c].body
             /\ call'[c].outcome = call[c].outcome
             /\ \/ call'[c].step = call[c].step
                   /\ call[c].step \in {"idle", "done"}
                \/ call'[c].step = "dead" /\ call[c].step \notin {"idle", "done"}
  <2>1. call[c] \in CallState
    BY DEF TypeOK
  <2>2. call'[c] = IF call[c].step \in {"idle", "done"} THEN call[c]
                   ELSE [call[c] EXCEPT !.step = "dead"]
    BY DEF ProcessDies
  <2>3. CASE call[c].step \in {"idle", "done"}
    BY <2>2, <2>3
  <2>4. CASE call[c].step \notin {"idle", "done"}
    BY <2>1, <2>2, <2>4 DEF CallState
  <2> QED
    BY <2>3, <2>4
<1>3. RowsPersist
  BY DEF RowsPersist, Exists, Past
<1>4. Persist
  BY <1>1, <1>2, <1>3 DEF Persist
<1>5. SentFramed
  <2>1. ASSUME NEW q \in Abandoned(Senders)
        PROVE  \E p \in sent : /\ q.key = p.key /\ q.token = p.token
                               /\ q.body = p.body /\ q.from = NoOwner
    BY <2>1 DEF Abandoned, TypeOK, Requests
  <2> QED
    BY <1>1, <2>1 DEF SentFramed
<1>6. ASSUME NEW k \in Keys PROVE TokenBound(k)'
  <2>1. Exists(exec[k])' => Exists(exec[k])
    BY DEF Exists
  <2> QED
    BY <1>2, <1>6, <2>1 DEF Bound, TokenBound
<1>7. ASSUME NEW c \in Calls PROVE CallBound(c)'
  <2>1. answer'[c] = "none"
    BY <1>1 DEF Senders
  <2>2. PICK k \in Keys : k = call[c].key
    BY DEF TypeOK, CallState
  <2>3. call[c].outcome # "none" => call[c].step = "done"
    BY DEF Bound, CallBound
  <2>4. call[c].outcome \in {"created", "idempotent_replay"} =>
          exec[k].state = "succeeded" /\ exec[k].body = call[c].body
    BY <2>2 DEF Bound, CallBound
  <2> QED
    BY <1>2, <2>1, <2>2, <2>3, <2>4 DEF CallBound
<1>8. ASSUME NEW r \in Recoverers PROVE WorkerBound(r)'
  <2>1. answer'[r] = "none" /\ worker'[r] = IdleWorker
    BY <1>1 DEF Senders
  <2> QED
    BY <2>1 DEF WorkerBound, IdleWorker
<1> QED
  BY <1>1, <1>4, <1>5, <1>6, <1>7, <1>8, FramedKeepsBound DEF Framed

LEMMA EnvironmentBound ==
    ASSUME TypeOK, TypeOK', Bound, Environment PROVE Bound'
<1>1. CASE Crash
  BY <1>1, DeathBound DEF Crash
<1>2. CASE Reconfigure
  <2>1. ASSUME NEW k \in Keys
        PROVE  /\ exec'[k].state = exec[k].state
               /\ exec'[k].token = exec[k].token
               /\ exec'[k].body = exec[k].body
    BY <1>2 DEF Reconfigure, TypeOK, Row
  <2> QED
    BY <1>2, <2>1, DeathBound DEF Reconfigure
<1> QED
  BY <1>1, <1>2, SourceBound, SourceDropsBound, AnswerLostBound, ClockBound
     DEF Environment
-----------------------------------------------------------------------------
(* The invariant, and the promises it carries.                             *)

LEMMA InitBound == Init => Bound
<1> SUFFICES ASSUME Init PROVE Bound
  OBVIOUS
<1> USE GovernedAssumption, StoreAssumption
<1>1. \A k \in Keys : TokenBound(k) /\ ReceiptBound(k)
  BY DEF Init, AbsentRow, NoReceipt, TokenBound, ReceiptBound, Exists, HasReceipt
<1>2. \A t \in Tokens : LedgerBound(t)
  BY DEF Init, NoRow, LedgerBound, Created
<1>3. \A c \in Calls : CallBound(c)
  BY DEF Init, IdleCall, CallBound, Senders
<1>4. \A r \in Recoverers : WorkerBound(r)
  BY DEF Init, IdleWorker, WorkerBound, Senders
<1> QED
  BY <1>1, <1>2, <1>3, <1>4 DEF Bound, Init

LEMMA NextBound == TypeOK /\ Bound /\ [Next]_vars => Bound'
<1> SUFFICES ASSUME TypeOK, Bound, [Next]_vars PROVE Bound'
  OBVIOUS
<1>1. TypeOK'
  BY NextTypeOK
<1>2. CASE \E c \in Calls : CallStep(c)
  BY <1>1, <1>2, CallKeepsBound
<1>3. CASE Recovery
  BY <1>1, <1>3, WorkerKeepsBound, LeaseBound DEF Recovery
<1>4. CASE Environment
  BY <1>1, <1>4, EnvironmentBound
<1>5. CASE UNCHANGED vars
  <2>1. /\ exec' = exec /\ receipt' = receipt /\ call' = call
        /\ worker' = worker /\ sent' = sent /\ answer' = answer
        /\ ledger' = ledger
    BY <1>5 DEF vars
  <2>2. Persist /\ SentFramed
    BY <2>1, RowsStay DEF Persist, SentFramed
  <2> QED
    BY <1>1, <2>1, <2>2, FramedKeepsBound DEF Framed
<1> QED
  BY <1>2, <1>3, <1>4, <1>5 DEF Next

\* Everything that calls, workers, requests and receipts carry fits the row
\* they belong to, in every reachable state of any number of them.
THEOREM AlwaysBound == Spec => [](TypeOK /\ Bound)
<1>1. Init => TypeOK /\ Bound
  BY InitTypeOK, InitBound
<1>2. TypeOK /\ Bound /\ [Next]_vars => TypeOK' /\ Bound'
  BY NextTypeOK, NextBound
<1> QED
  BY <1>1, <1>2, PTL DEF Spec

\* A token is minted by one call for one key, so a row of the ledger belongs
\* to the key whose execution carries its token.
LEMMA RowOfItsKey ==
    ASSUME TypeOK, Bound, NEW k \in Keys, NEW t \in RowsOf(k)
    PROVE  /\ t = exec[k].token
           /\ ledger[t].body = exec[k].body
           /\ Past(k)
  BY DEF RowsOf, Bound, LedgerBound

\* A record under the token of a key is a row of that key, and its only one.
LEMMA OwnRow ==
    ASSUME TypeOK, Bound, NEW k \in Keys, Exists(exec[k]),
           Created(exec[k].token)
    PROVE  RowsOf(k) = {exec[k].token}
<1>1. exec[k].token \in Tokens /\ call[exec[k].token].key = k
  BY DEF Bound, TokenBound, Exists
<1>2. PICK j \in Keys : j = ledger[exec[k].token].key
  BY <1>1 DEF TypeOK, LedgerRow
<1>3. /\ exec[j].token = exec[k].token
      /\ Past(j)
  BY <1>1, <1>2 DEF Bound, LedgerBound
<1>4. call[exec[j].token].key = j
  BY <1>3 DEF Bound, TokenBound, Past, Exists
<1>5. j = k
  BY <1>1, <1>3, <1>4
<1>6. exec[k].token \in RowsOf(k)
  BY <1>1, <1>2, <1>5 DEF RowsOf
<1>7. \A t \in RowsOf(k) : t = exec[k].token
  BY RowOfItsKey
<1> QED
  BY <1>6, <1>7

\* A write that is made is made once: at most one ledger row per idempotency
\* key, and it holds what the key was bound to.
THEOREM OneRecordPerKey == Spec => []AtMostOneRecord
<1>1. ASSUME TypeOK, Bound, NEW k \in Keys
      PROVE  Cardinality(RowsOf(k)) <= 1
  <2>1. RowsOf(k) \subseteq {exec[k].token}
    BY <1>1, RowOfItsKey
  <2>2. CASE RowsOf(k) = {}
    BY <2>2, FS_EmptySet
  <2>3. CASE RowsOf(k) # {}
    <3>1. PICK t : RowsOf(k) = {t}
      BY <2>1, <2>3
    <3>2. Cardinality({t}) = 1
      BY FS_Singleton
    <3> QED
      BY <3>1, <3>2
  <2> QED
    BY <2>2, <2>3
<1>2. TypeOK /\ Bound => AtMostOneRecord
  BY <1>1, RowOfItsKey DEF AtMostOneRecord
<1> QED
  BY <1>2, AlwaysBound, PTL

\* `succeeded' is only ever reached with a verified receipt of a ledger row
\* of the key that holds exactly what was asked.
THEOREM SuccessIsProven == Spec => []SucceededIsProven
<1>1. ASSUME TypeOK, Bound, NEW k \in Keys, exec[k].state = "succeeded"
      PROVE  /\ receipt[k].verified
             /\ receipt[k].record \in RowsOf(k)
             /\ ledger[receipt[k].record].body = exec[k].body
             /\ ledger[receipt[k].record].faithful
  <2>1. /\ receipt[k].verified /\ receipt[k].record = exec[k].token
        /\ Created(exec[k].token) /\ ledger[exec[k].token].faithful
    BY <1>1 DEF Bound, ReceiptBound
  <2>2. RowsOf(k) = {exec[k].token}
    BY <1>1, <2>1, OwnRow DEF Exists
  <2> QED
    BY <1>1, <2>1, <2>2, RowOfItsKey
<1>2. TypeOK /\ Bound => SucceededIsProven
  BY <1>1 DEF SucceededIsProven
<1> QED
  BY <1>2, AlwaysBound, PTL

\* An execution that says nothing was sent has no row in the ledger, and
\* nothing on its way there.
THEOREM NothingSentNothingWritten == Spec => []FailedSafeIsSafe
<1>1. ASSUME TypeOK, Bound PROVE FailedSafeIsSafe
  BY <1>1, RowOfItsKey DEF FailedSafeIsSafe, Bound, RequestBound, Past
<1> QED
  BY <1>1, AlwaysBound, PTL

\* A caller told of a record is told the truth.
THEOREM CallersAreToldTheTruth == Spec => []ToldIsTrue
<1>1. Bound => ToldIsTrue
  BY DEF ToldIsTrue, Bound, CallBound
<1> QED
  BY <1>1, AlwaysBound, PTL
-----------------------------------------------------------------------------
(* What is settled stays settled.                                          *)

\* One key's part of SettledIsFinal.
KeptFinal(k) ==
    /\ exec[k].state \in TerminalStates =>
         /\ exec'[k].state = exec[k].state
         /\ receipt'[k] = receipt[k]
    /\ HasReceipt(receipt[k]) => receipt'[k].record = receipt[k].record

\* No transition leaves a terminal state, so a step that wins one for k, and
\* at most adds or verifies the receipt of k, settles at most what was open.
LEMMA WinnerKeepsFinal ==
    ASSUME TypeOK, NEW k \in Keys, NEW current \in ExecutionStates,
           NEW version, NEW target \in ExecutionStates,
           Wins(k, current, version, target), Move(k, target),
           \A j \in Keys \ {k} : receipt'[j] = receipt[j],
           HasReceipt(receipt[k]) => receipt'[k].record = receipt[k].record
    PROVE  \A j \in Keys : KeptFinal(j)
<1>1. current \notin TerminalStates
  BY DEF Wins, CanTransition, AllowedTransitions, TerminalStates,
         ExecutionStates
<1> QED
  BY <1>1, WinningMove DEF KeptFinal

LEMMA StayingKeepsFinal ==
    ASSUME TypeOK, receipt' = receipt,
           \A k \in Keys : exec[k].state \in TerminalStates =>
                             exec'[k].state = exec[k].state
    PROVE  \A k \in Keys : KeptFinal(k)
  BY DEF KeptFinal

LEMMA ReceiptEffect ==
    ASSUME TypeOK, NEW k \in Keys, NEW new,
           receipt' = [receipt EXCEPT ![k] = new]
    PROVE  receipt'[k] = new /\ \A j \in Keys \ {k} : receipt'[j] = receipt[j]
  BY DEF TypeOK

LEMMA CallKeepsFinal ==
    ASSUME TypeOK, NEW c \in Calls, CallStep(c)
    PROVE  \A k \in Keys : KeptFinal(k)
<1> DEFINE k == call[c].key
<1>0. k \in Keys
  BY DEF TypeOK, CallState
<1>1. ASSUME NEW j \in Keys, NEW f \in Fingerprints, Prepare(c, j, f)
      PROVE  \A i \in Keys : KeptFinal(i)
  <2>1. \A i \in Keys : Exists(exec[i]) => exec'[i] = exec[i]
    BY <1>1 DEF Prepare, NeedsRow, TypeOK
  <2>2. receipt' = receipt
    BY <1>1 DEF Prepare
  <2> QED
    BY <2>1, <2>2, StayingKeepsFinal DEF Exists, TerminalStates
<1>2. CASE \/ /\ Wins(k, "prepared", call[c].version, "submitting")
              /\ Move(k, "submitting") /\ receipt' = receipt
           \/ /\ Wins(k, "submitting", call[c].version, "commit_unknown")
              /\ Move(k, "commit_unknown") /\ receipt' = receipt
           \/ /\ Wins(k, "committed_unverified", call[c].version,
                      "needs_manual_review")
              /\ Move(k, "needs_manual_review") /\ receipt' = receipt
  BY <1>0, <1>2, WinnerKeepsFinal DEF ExecutionStates
<1>3. CASE exec' = exec /\ receipt' = receipt
  BY <1>3, StayingKeepsFinal
<1>4. CASE RecordCreated(c) /\ ~(exec' = exec /\ receipt' = receipt)
  <2>1. /\ Wins(k, "submitting", call[c].version, "committed_unverified")
        /\ Move(k, "committed_unverified") /\ ~HasReceipt(receipt[k])
        /\ receipt' = [receipt EXCEPT ![k] = RecordedReceipt(call[c].token)]
    BY <1>4 DEF RecordCreated, CanRecordReceipt, store
  <2> QED
    BY <1>0, <2>1, ReceiptEffect, WinnerKeepsFinal DEF ExecutionStates
<1>5. CASE CommitSuccess(c) /\ ~(exec' = exec /\ receipt' = receipt)
  <2>1. /\ Wins(k, "committed_unverified", call[c].version, "succeeded")
        /\ Move(k, "succeeded")
        /\ receipt' = [receipt EXCEPT ![k] = VerifiedReceipt(receipt[k])]
    BY <1>5 DEF CommitSuccess, store
  <2>2. VerifiedReceipt(receipt[k]).record = receipt[k].record
    BY <1>0 DEF VerifiedReceipt, TypeOK, Receipts
  <2> QED
    BY <1>0, <2>1, <2>2, ReceiptEffect, WinnerKeepsFinal DEF ExecutionStates
<1>6. CASE Submit(c) \/ CreateUnknown(c) \/ CommitMismatch(c)
  BY <1>2, <1>3, <1>6 DEF Submit, CreateUnknown, CommitMismatch
<1>7. CASE SendCreate(c) \/ ReadBack(c) \/ Cancel(c)
  BY <1>3, <1>7 DEF SendCreate, ReadBack, Cancel, store
<1> QED
  BY <1>1, <1>3, <1>4, <1>5, <1>6, <1>7 DEF CallStep

LEMMA WorkerKeepsFinal ==
    ASSUME TypeOK, NEW r \in Recoverers, WorkerStep(r)
    PROVE  \A k \in Keys : KeptFinal(k)
<1> DEFINE k == worker[r].key
<1>0. k \in Keys
  BY DEF TypeOK, WorkerState
<1>1. CASE exec' = exec /\ receipt' = receipt
  BY <1>1, StayingKeepsFinal
<1>2. CASE \E current, target \in ExecutionStates :
             /\ Wins(k, current, worker[r].version, target)
             /\ Move(k, target) /\ receipt' = receipt
  BY <1>0, <1>2, WinnerKeepsFinal
<1>3. CASE \/ SubmitPrepared(r) \/ PromoteSubmitting(r) \/ ResumeUnknown(r)
           \/ FailUnrecoverable(r)
  BY <1>1, <1>2, <1>3
     DEF SubmitPrepared, PromoteSubmitting, ResumeUnknown, FailUnrecoverable,
         Advance, ExecutionStates
<1>4. CASE ToManualReview(r) /\ exec' # exec
  <2>1. /\ Wins(k, worker[r].state, worker[r].version, "needs_manual_review")
        /\ Move(k, "needs_manual_review") /\ receipt' = receipt
    BY <1>4 DEF ToManualReview
  <2>2. CASE worker[r].state \in ExecutionStates
    BY <1>2, <2>1, <2>2 DEF ExecutionStates
  <2>3. CASE worker[r].state \notin ExecutionStates
    <3>1. exec[k].state = "absent"
      BY <2>1, <2>3 DEF Wins, CanTransition, TypeOK, WorkerState
    <3>2. \A j \in Keys \ {k} : exec'[j] = exec[j]
      BY <2>1 DEF Move, TypeOK
    <3> QED
      BY <1>0, <2>1, <3>1, <3>2, StayingKeepsFinal DEF TerminalStates
  <2> QED
    BY <2>2, <2>3
<1>5. CASE RecordReplayed(r) /\ ~(exec' = exec /\ receipt' = receipt)
  <2>1. /\ Wins(k, "reconciling_same_client_token", worker[r].version,
                "committed_unverified")
        /\ Move(k, "committed_unverified")
        /\ receipt' = IF HasReceipt(receipt[k]) THEN receipt
                      ELSE [receipt EXCEPT ![k] = RecordedReceipt(exec[k].token)]
    BY <1>5 DEF RecordReplayed, store
  <2>2. /\ \A j \in Keys \ {k} : receipt'[j] = receipt[j]
        /\ HasReceipt(receipt[k]) => receipt'[k] = receipt[k]
    BY <1>0, <2>1, ReceiptEffect
  <2> QED
    BY <1>0, <2>1, <2>2, WinnerKeepsFinal DEF ExecutionStates
<1>6. CASE RecoverySuccess(r) /\ ~(exec' = exec /\ receipt' = receipt)
  <2>1. /\ Wins(k, "committed_unverified", worker[r].version, "succeeded")
        /\ Move(k, "succeeded")
        /\ receipt' = [receipt EXCEPT ![k] = VerifiedReceipt(receipt[k])]
    BY <1>6 DEF RecoverySuccess, store
  <2>2. VerifiedReceipt(receipt[k]).record = receipt[k].record
    BY <1>0 DEF VerifiedReceipt, TypeOK, Receipts
  <2> QED
    BY <1>0, <2>1, <2>2, ReceiptEffect, WinnerKeepsFinal DEF ExecutionStates
<1>7. CASE ReleaseLease(r)
  <2>1. LeaseReleased(exec[k], r).state = exec[k].state
    BY <1>0, GovernedAssumption, LeaseKeepsRow DEF TypeOK
  <2>2. \A j \in Keys : exec'[j].state = exec[j].state
    BY <1>0, <1>7, <2>1 DEF ReleaseLease, TypeOK
  <2> QED
    BY <1>7, <2>2, StayingKeepsFinal DEF ReleaseLease
<1>8. CASE \/ Drive(r) \/ ReplayCreate(r) \/ ReplayFails(r)
           \/ ReplayWithoutRecord(r) \/ Reread(r) \/ RecoveryReadBack(r)
  BY <1>1, <1>8 DEF Drive, ReplayCreate, ReplayFails, ReplayWithoutRecord,
                    Reread, RecoveryReadBack, store
<1>9. CASE ToManualReview(r) /\ exec' = exec
  BY <1>1, <1>9 DEF ToManualReview
<1> QED
  BY <1>1, <1>3, <1>4, <1>5, <1>6, <1>7, <1>8, <1>9 DEF WorkerStep

LEMMA EnvironmentKeepsFinal ==
    ASSUME TypeOK,
           \/ Environment
           \/ \E r \in Recoverers, k \in Keys : AcquireLease(r, k)
    PROVE  \A k \in Keys : KeptFinal(k)
<1>1. \A k \in Keys : /\ LeaseLapsed(exec[k]).state = exec[k].state
                      /\ DeadlinePassed(exec[k]).state = exec[k].state
  BY DEF LeaseLapsed, DeadlinePassed, TypeOK, Row
<1>2. \A r \in Recoverers, k \in Keys :
        LeaseAcquired(exec[k], r).state = exec[k].state
  BY DEF LeaseAcquired, TypeOK, Row
<1>3. receipt' = receipt
  BY DEF Environment, AcquireLease, SourceCreates, SourceDrops, AnswerLost,
         LeaseLapses, DeadlinePasses, Crash, Reconfigure, ProcessDies, store
<1>4. CASE \E k \in Keys : LeaseLapses(k) \/ DeadlinePasses(k)
  BY <1>1, <1>3, <1>4, StayingKeepsFinal
     DEF LeaseLapses, DeadlinePasses, TypeOK
<1>5. CASE \E r \in Recoverers, k \in Keys : AcquireLease(r, k)
  BY <1>2, <1>3, <1>5, StayingKeepsFinal DEF AcquireLease, TypeOK
<1>6. CASE Reconfigure
  <2>1. \A k \in Keys : exec'[k].state = exec[k].state
    BY <1>6 DEF Reconfigure, TypeOK, Row
  <2> QED
    BY <1>3, <2>1, StayingKeepsFinal
<1>7. CASE exec' = exec
  BY <1>3, <1>7, StayingKeepsFinal
<1> QED
  BY <1>4, <1>5, <1>6, <1>7
     DEF Environment, SourceCreates, SourceDrops, AnswerLost, Crash, store

\* An execution that is settled, and the record a receipt names, are never
\* changed again, whoever still holds an old version of the row.
THEOREM FinalityHolds == Spec => SettledIsFinal
<1>1. TypeOK /\ [Next]_vars => [\A k \in Keys : KeptFinal(k)]_vars
  BY CallKeepsFinal, WorkerKeepsFinal, EnvironmentKeepsFinal
     DEF Next, Recovery
<1>2. TypeOK /\ [Next]_vars =>
        [\A k \in Keys :
           /\ exec[k].state \in TerminalStates =>
                /\ exec'[k].state = exec[k].state
                /\ receipt'[k] = receipt[k]
           /\ HasReceipt(receipt[k]) =>
                receipt'[k].record = receipt[k].record]_vars
  BY <1>1 DEF KeptFinal
<1> QED
  BY <1>2, TypeCorrect, PTL DEF Spec, SettledIsFinal

-----------------------------------------------------------------------------
(* The promise of LedgerWrite, kept step by step.                          *)

Wanted == [k \in Keys |-> exec[k].body]
Outcome == [k \in Keys |-> IF exec[k].state \in TerminalStates
                           THEN exec[k].state ELSE "open"]
Landed == [k \in Keys |->
             {[token |-> t, body |-> ledger[t].body,
               faithful |-> ledger[t].faithful] : t \in RowsOf(k)}]

\* Answers that say the write happened.
Success == {"created", "idempotent_replay"}

LEMMA PromiseInit == Init => Promise!Init
<1> SUFFICES ASSUME Init PROVE Promise!Init
  OBVIOUS
<1>1. \A k \in Keys : RowsOf(k) = {}
  BY DEF Init, RowsOf, Created, NoRow
<1>2. Told = {}
  BY DEF Init, Told, IdleCall
<1> QED
  BY <1>1, <1>2 DEF Init, Promise!Init, AbsentRow, TerminalStates

\* The rows are as they were, so is what is settled; callers may be told.
LEMMA PromiseTell ==
    ASSUME TypeOK, NEW ks \in SUBSET Keys,
           \A k \in Keys : /\ exec'[k].body = exec[k].body
                           /\ \/ exec'[k].state = exec[k].state
                              \/ /\ exec[k].state \notin TerminalStates
                                 /\ exec'[k].state \notin TerminalStates,
           ledger' = ledger,
           \A k \in ks : exec[k].state = "succeeded",
           Told' = Told \cup ks
    PROVE  Promise!Next
<1>1. Wanted' = Wanted /\ Outcome' = Outcome
  BY DEF Wanted, Outcome
<1>2. Landed' = Landed
  BY DEF Landed, RowsOf, Created
<1>3. \A k \in ks : Outcome[k] = "succeeded"
  BY DEF Outcome, TerminalStates
<1>4. Promise!Tell(ks)
  BY <1>1, <1>2, <1>3 DEF Promise!Tell, Wanted, Outcome, Landed
<1> QED
  BY <1>4 DEF Promise!Next

\* A step that changes nothing the promise speaks of.
LEMMA PromiseQuiet ==
    ASSUME TypeOK, ledger' = ledger, Told' = Told,
           \A k \in Keys : /\ exec'[k].body = exec[k].body
                           /\ \/ exec'[k].state = exec[k].state
                              \/ /\ exec[k].state \notin TerminalStates
                                 /\ exec'[k].state \notin TerminalStates
    PROVE  Promise!Next
<1>1. PICK ks \in SUBSET Keys : ks = {}
  OBVIOUS
<1>2. Told' = Told \cup ks
  BY <1>1
<1> QED
  BY <1>1, <1>2, PromiseTell

\* What a call that goes on, and one that ends, do to what is told.
LEMMA ToldOfOne ==
    ASSUME TypeOK, Bound, NEW c \in Calls, NEW q \in CallState,
           call[c].step # "done", call' = [call EXCEPT ![c] = q]
    PROVE  Told' = Told \cup (IF q.outcome \in Success THEN {q.key} ELSE {})
<1>1. call[c].outcome = "none"
  BY DEF Bound, CallBound
<1>2. call'[c] = q /\ \A d \in Calls \ {c} : call'[d] = call[d]
  BY DEF TypeOK
<1> QED
  BY <1>1, <1>2 DEF Told, Success

LEMMA MoveOpen ==
    ASSUME TypeOK, NEW k \in Keys, NEW current \in ExecutionStates,
           NEW version, NEW target \in ExecutionStates \ TerminalStates,
           Wins(k, current, version, target), Move(k, target),
           ledger' = ledger, Told' = Told
    PROVE  Promise!Next
<1>1. current \notin TerminalStates
  BY DEF Wins, CanTransition, AllowedTransitions, TerminalStates,
         ExecutionStates
<1> QED
  BY <1>1, WinningMove, PromiseQuiet

\* A transition into a terminal state settles what was open: as a success
\* with the one faithful row in the ledger, as a safe failure with none.
LEMMA MoveSettles ==
    ASSUME TypeOK, Bound, NEW k \in Keys, NEW current \in ExecutionStates,
           NEW version,
           NEW target \in {"succeeded", "failed_safe", "needs_manual_review"},
           Wins(k, current, version, target), Move(k, target),
           ledger' = ledger,
           target = "failed_safe" => current = "prepared",
           target = "succeeded" => /\ Created(exec[k].token)
                                   /\ ledger[exec[k].token].faithful = TRUE,
           Told' = Told \/ (target = "succeeded" /\ Told' = Told \cup {k})
    PROVE  Promise!Next
<1>0. target \in ExecutionStates /\ target \in TerminalStates
  BY DEF ExecutionStates, TerminalStates
<1>1. /\ exec[k].state = current /\ exec'[k].state = target
      /\ exec'[k].body = exec[k].body
      /\ \A j \in Keys \ {k} : exec'[j] = exec[j]
  BY <1>0, WinningMove
<1>2. current \notin TerminalStates
  BY DEF Wins, CanTransition, AllowedTransitions, TerminalStates,
         ExecutionStates
<1>3. Exists(exec[k])
  BY <1>1 DEF Exists, ExecutionStates
<1>4. exec[k].body # NoBody
  BY <1>3, StoreAssumption DEF Bound, TokenBound
<1>5. Wanted' = Wanted /\ Wanted[k] # NoBody
  BY <1>1, <1>4 DEF Wanted
<1>6. Outcome[k] = "open" /\ Outcome' = [Outcome EXCEPT ![k] = target]
  BY <1>0, <1>1, <1>2 DEF Outcome
<1>7. Landed' = Landed
  BY DEF Landed, RowsOf, Created
<1>8. target = "failed_safe" => Landed[k] = {}
  <2> SUFFICES ASSUME target = "failed_safe" PROVE RowsOf(k) = {}
    BY DEF Landed
  <2>1. ~Past(k)
    BY <1>1 DEF Past, NeverSentStates
  <2> QED
    BY <2>1, RowOfItsKey
<1>9. target = "succeeded" =>
          \E e \in Landed[k] : e.faithful = TRUE /\ Landed[k] = {e}
  <2> SUFFICES ASSUME target = "succeeded"
               PROVE  \E e \in Landed[k] : e.faithful = TRUE /\ Landed[k] = {e}
    OBVIOUS
  <2> DEFINE t == exec[k].token
             e == [token |-> t, body |-> ledger[t].body,
                   faithful |-> ledger[t].faithful]
  <2>1. RowsOf(k) = {t}
    BY <1>3, OwnRow
  <2>2. Landed[k] = {e}
    BY <2>1 DEF Landed
  <2>3. e.faithful = TRUE
    OBVIOUS
  <2> QED
    BY <2>2, <2>3
<1>10. Promise!Settle(k, target)
  BY <1>5, <1>6, <1>7, <1>8, <1>9 DEF Promise!Settle, Wanted, Outcome, Landed
<1> QED
  BY <1>10 DEF Promise!Next

-----------------------------------------------------------------------------
(* A key without a row is bound to nothing.                                *)

AbsentIsEmpty == \A k \in Keys : ~Exists(exec[k]) => exec[k].body = NoBody

\* No step takes a row away, or touches one that is not there but to make it.
AbsentKept ==
    \A k \in Keys :
        ~Exists(exec'[k]) => ~Exists(exec[k]) /\ exec'[k].body = exec[k].body

LEMMA AbsentMove ==
    ASSUME TypeOK, NEW k \in Keys, NEW target \in ExecutionStates,
           Move(k, target)
    PROVE  AbsentKept
<1>1. Transitioned(exec[k], target).state = target
  BY TransitionedRow DEF TypeOK
<1>2. Exists(exec'[k]) /\ \A j \in Keys \ {k} : exec'[j] = exec[j]
  BY <1>1 DEF Move, TypeOK, Exists, ExecutionStates
<1> QED
  BY <1>2 DEF AbsentKept

LEMMA AbsentSame ==
    ASSUME \A k \in Keys : /\ exec'[k].state = exec[k].state
                           /\ exec'[k].body = exec[k].body
    PROVE  AbsentKept
  BY DEF AbsentKept, Exists

LEMMA AbsentStep ==
    ASSUME TypeOK, Next
    PROVE  AbsentKept
<1>1. ASSUME exec' = exec PROVE AbsentKept
  BY <1>1, AbsentSame
<1>2. ASSUME NEW c \in Calls, CallStep(c) PROVE AbsentKept
  <2>0. call[c].key \in Keys
    BY DEF TypeOK, CallState
  <2>1. ASSUME NEW j \in Keys, NEW f \in Fingerprints, Prepare(c, j, f)
        PROVE  AbsentKept
    BY <2>1 DEF Prepare, NeedsRow, PreparedRow, AbsentKept, Exists, TypeOK
  <2>2. CASE \E target \in ExecutionStates : Move(call[c].key, target)
    BY <2>0, <2>2, AbsentMove
  <2> QED
    BY <1>1, <1>2, <2>1, <2>2
       DEF CallStep, Submit, SendCreate, CreateUnknown, RecordCreated,
           ReadBack, CommitMismatch, CommitSuccess, Cancel, store,
           ExecutionStates
<1>3. ASSUME NEW r \in Recoverers, WorkerStep(r) PROVE AbsentKept
  <2>0. worker[r].key \in Keys
    BY DEF TypeOK, WorkerState
  <2>1. CASE \E target \in ExecutionStates : Move(worker[r].key, target)
    BY <2>0, <2>1, AbsentMove
  <2>2. CASE ReleaseLease(r)
    <3>1. LET new == LeaseReleased(exec[worker[r].key], r)
          IN  /\ new.state = exec[worker[r].key].state
              /\ new.body = exec[worker[r].key].body
      BY <2>0, GovernedAssumption, LeaseKeepsRow DEF TypeOK
    <3> QED
      BY <2>0, <2>2, <3>1, AbsentSame DEF ReleaseLease, TypeOK
  <2> QED
    BY <1>1, <1>3, <2>1, <2>2
       DEF WorkerStep, Drive, SubmitPrepared, PromoteSubmitting,
           ResumeUnknown, FailUnrecoverable, Advance, ToManualReview,
           ReplayCreate, ReplayFails, ReplayWithoutRecord, RecordReplayed,
           Reread, RecoveryReadBack, RecoverySuccess, store, ExecutionStates
<1>4. ASSUME NEW r \in Recoverers, NEW k \in Keys, AcquireLease(r, k)
      PROVE  AbsentKept
  <2>1. /\ LeaseAcquired(exec[k], r).state = exec[k].state
        /\ LeaseAcquired(exec[k], r).body = exec[k].body
    BY DEF LeaseAcquired, TypeOK, Row
  <2> QED
    BY <1>4, <2>1, AbsentSame DEF AcquireLease, TypeOK
<1>5. ASSUME NEW k \in Keys, LeaseLapses(k) \/ DeadlinePasses(k)
      PROVE  AbsentKept
  <2>1. \A new \in {LeaseLapsed(exec[k]), DeadlinePassed(exec[k])} :
           new.state = exec[k].state /\ new.body = exec[k].body
    BY DEF LeaseLapsed, DeadlinePassed, TypeOK, Row
  <2> QED
    BY <1>5, <2>1, AbsentSame DEF LeaseLapses, DeadlinePasses, TypeOK
<1>6. ASSUME Reconfigure PROVE AbsentKept
  BY <1>6, AbsentSame DEF Reconfigure, TypeOK, Row
<1> QED
  BY <1>1, <1>2, <1>3, <1>4, <1>5, <1>6
     DEF Next, Recovery, Environment, SourceCreates, SourceDrops, AnswerLost,
         Crash, store

LEMMA AlwaysAbsentIsEmpty == Spec => []AbsentIsEmpty
<1>1. Init => AbsentIsEmpty
  BY DEF Init, AbsentIsEmpty, AbsentRow
<1>2. TypeOK /\ AbsentIsEmpty /\ [Next]_vars => AbsentIsEmpty'
  <2>1. CASE UNCHANGED vars
    BY <2>1 DEF vars, AbsentIsEmpty, Exists
  <2>2. CASE Next
    BY <2>2, AbsentStep DEF AbsentIsEmpty, AbsentKept, Exists
  <2> QED
    BY <2>1, <2>2
<1> QED
  BY <1>1, <1>2, TypeCorrect, PTL DEF Spec

LEMMA PromiseCall ==
    ASSUME TypeOK, TypeOK', Bound, AbsentIsEmpty, NEW c \in Calls, CallStep(c)
    PROVE  Promise!Next
<1> DEFINE k == call[c].key
           old == call[c]
<1>0. /\ k \in Keys /\ old \in CallState /\ call \in [Calls -> CallState]
      /\ \A j \in Keys : exec[j].body = exec[j].body
  BY DEF TypeOK, CallState
<1>1. ASSUME NEW j \in Keys, NEW f \in Fingerprints, Prepare(c, j, f)
      PROVE  Promise!Next
  <2> DEFINE row == IF NeedsRow(exec[j]) THEN PreparedRow(f, c, "sealed")
                    ELSE exec[j]
             out == PrepareOutcome(row, f)
             q == [step |-> IF out = "none" THEN "prepared" ELSE "done",
                   key |-> j, body |-> f, token |-> ClientToken(row, c),
                   version |-> row.version, outcome |-> out]
  <2>1. /\ old.step = "idle" /\ ledger' = ledger
        /\ exec' = [exec EXCEPT ![j] = row]
        /\ call' = [call EXCEPT ![c] = q]
    BY <1>1 DEF Prepare, source
  <2>2. q.key = j /\ q.outcome = out
    OBVIOUS
  <2>3. /\ row.body = f /\ row.state = "succeeded"
           <=> out = "idempotent_replay"
        /\ out # "created"
    BY DEF PrepareOutcome
  <2>4. /\ NeedsRow(exec[j]) => row.state = "prepared" /\ row.body = f
        /\ ~NeedsRow(exec[j]) => row = exec[j]
    BY DEF PreparedRow
  <2>5. call'[c] = q
    BY <1>0, <2>1
  <2> HIDE DEF q, out, row
  <2>6. q \in CallState
    BY <2>5 DEF TypeOK
  <2>7. Told' = Told \cup (IF out \in Success THEN {j} ELSE {})
    BY <2>1, <2>2, <2>6, ToldOfOne
  <2>8. exec'[j] = row /\ \A i \in Keys \ {j} : exec'[i] = exec[i]
    BY <2>1 DEF TypeOK
  <2>9. CASE NeedsRow(exec[j])
    <3>1. exec[j].state = "absent"
      BY <2>9 DEF NeedsRow, Exists
    <3>2. Told' = Told
      BY <2>3, <2>4, <2>7, <2>9 DEF Success
    <3>3. exec[j].body = NoBody
      BY <3>1 DEF AbsentIsEmpty, Exists
    <3>4. /\ Wanted[j] = NoBody /\ Wanted' = [Wanted EXCEPT ![j] = f]
          /\ Outcome' = Outcome
      BY <2>4, <2>8, <2>9, <3>1, <3>3 DEF Wanted, Outcome, TerminalStates
    <3>5. Landed' = Landed
      BY <2>1 DEF Landed, RowsOf, Created
    <3>6. Promise!Bind(j, f)
      BY <3>2, <3>4, <3>5 DEF Promise!Bind, Wanted, Outcome, Landed
    <3> QED
      BY <3>6 DEF Promise!Next
  <2>10. CASE ~NeedsRow(exec[j])
    <3>1. \A i \in Keys : exec'[i] = exec[i]
      BY <2>4, <2>8, <2>10
    <3>2. CASE out \in Success
      <4>1. exec[j].state = "succeeded" /\ Told' = Told \cup {j}
        BY <2>3, <2>4, <2>7, <2>10, <3>2 DEF Success
      <4>2. PICK ks \in SUBSET Keys : ks = {j}
        OBVIOUS
      <4>3. Told' = Told \cup ks /\ \A i \in ks : exec[i].state = "succeeded"
        BY <4>1, <4>2
      <4> QED
        BY <2>1, <3>1, <4>3, PromiseTell
    <3>3. CASE out \notin Success
      <4>1. Told' = Told
        BY <2>7, <3>3
      <4> QED
        BY <2>1, <3>1, <4>1, PromiseQuiet
    <3> QED
      BY <3>2, <3>3
  <2> QED
    BY <2>9, <2>10
\* From here on the call is in progress: it was told nothing yet.
<1>2. ASSUME old.step # "done", ledger' = ledger,
             NEW q \in CallState, call' = [call EXCEPT ![c] = q],
             q.outcome \notin Success
      PROVE  Told' = Told
  BY <1>2, ToldOfOne
<1>3. old.step # "done" => old.outcome = "none"
  BY DEF Bound, CallBound
<1>4. ASSUME NEW step, old.step # "done", Goto(c, step) \/ GotoMoved(c, step)
      PROVE  Told' = Told
  <2>1. PICK q : call' = [call EXCEPT ![c] = q] /\ q.outcome = old.outcome
    <3>1. /\ [old EXCEPT !.step = step].outcome = old.outcome
          /\ [old EXCEPT !.step = step, !.version = @ + 1].outcome = old.outcome
      BY <1>0 DEF CallState
    <3> QED
      BY <1>4, <3>1 DEF Goto, GotoMoved
  <2>2. q \in CallState
    <3>1. call'[c] = q
      BY <1>0, <2>1
    <3> QED
      BY <3>1 DEF TypeOK
  <2> QED
    BY <1>3, <1>4, <2>1, <2>2, ToldOfOne DEF Success
<1>5. ASSUME NEW outcome, old.step # "done", Finish(c, outcome)
      PROVE  Told' = Told \cup (IF outcome \in Success THEN {k} ELSE {})
  <2>1. PICK q : /\ call' = [call EXCEPT ![c] = q]
                 /\ q.outcome = outcome /\ q.key = k
    <3>1. /\ [old EXCEPT !.step = "done", !.outcome = outcome].outcome = outcome
          /\ [old EXCEPT !.step = "done", !.outcome = outcome].key = k
      BY <1>0 DEF CallState
    <3> QED
      BY <1>5, <3>1 DEF Finish
  <2>2. q \in CallState
    <3>1. call'[c] = q
      BY <1>0, <2>1
    <3> QED
      BY <3>1 DEF TypeOK
  <2> QED
    BY <1>5, <2>1, <2>2, ToldOfOne
<1> DEFINE told == Told' = Told
<1>14. ASSUME old.step # "done",
              \/ Finish(c, "stale") \/ Finish(c, "commit_unknown")
              \/ Finish(c, "mismatch")
       PROVE  told
  <2>1. PICK outcome \in {"stale", "commit_unknown", "mismatch"} :
           Finish(c, outcome)
    BY <1>14
  <2>2. outcome \notin Success
    BY DEF Success
  <2> QED
    BY <1>5, <1>14, <2>1, <2>2
<1>6. ASSUME exec' = exec, ledger' = ledger, told PROVE Promise!Next
  BY <1>6, PromiseQuiet
<1> HIDE DEF k, old
<1>7. CASE Submit(c)
  <2>1. old.step = "prepared" /\ ledger' = ledger
    BY <1>7 DEF Submit, source, old
  <2>2. \/ Wins(k, "prepared", old.version, "submitting")
           /\ Move(k, "submitting") /\ GotoMoved(c, "submitting")
        \/ Finish(c, "stale") /\ exec' = exec
    BY <1>7 DEF Submit, k, old
  <2>3. told
    BY <1>4, <1>14, <2>1, <2>2
  <2> QED
    BY <1>0, <1>6, <2>1, <2>2, <2>3, MoveOpen DEF ExecutionStates, TerminalStates
<1>8. CASE SendCreate(c) \/ Cancel(c)
  <2>1. /\ old.step # "done" /\ ledger' = ledger /\ exec' = exec
        /\ Goto(c, "waiting") \/ Goto(c, "dead")
    BY <1>8 DEF SendCreate, Cancel, store, old
  <2>2. told
    BY <1>4, <2>1
  <2> QED
    BY <1>6, <2>1, <2>2
<1>9. CASE CreateUnknown(c)
  <2>1. old.step = "waiting" /\ ledger' = ledger
    BY <1>9 DEF CreateUnknown, old
  <2>2. \/ Wins(k, "submitting", old.version, "commit_unknown")
           /\ Move(k, "commit_unknown") /\ Finish(c, "commit_unknown")
        \/ Finish(c, "stale") /\ exec' = exec
    BY <1>9 DEF CreateUnknown, k, old
  <2>3. told
    BY <1>14, <2>1, <2>2
  <2> QED
    BY <1>0, <1>6, <2>1, <2>2, <2>3, MoveOpen DEF ExecutionStates, TerminalStates
<1>10. CASE RecordCreated(c)
  <2>1. old.step = "waiting" /\ ledger' = ledger
    BY <1>10 DEF RecordCreated, old
  <2>2. \/ Wins(k, "submitting", old.version, "committed_unverified")
           /\ Move(k, "committed_unverified") /\ GotoMoved(c, "unverified")
        \/ Finish(c, "stale") /\ exec' = exec
    BY <1>10 DEF RecordCreated, store, k, old
  <2>3. told
    BY <1>4, <1>14, <2>1, <2>2
  <2> QED
    BY <1>0, <1>6, <2>1, <2>2, <2>3, MoveOpen DEF ExecutionStates, TerminalStates
<1>11. CASE ReadBack(c)
  <2>1. old.step = "unverified" /\ ledger' = ledger /\ exec' = exec
    BY <1>11 DEF ReadBack, store, source, old
  <2>2. \/ \E step : Goto(c, step)
        \/ Finish(c, "commit_unknown")
    BY <1>11 DEF ReadBack
  <2>3. told
    BY <1>4, <1>14, <2>1, <2>2
  <2> QED
    BY <1>6, <2>1, <2>3
<1>12. CASE CommitMismatch(c)
  <2>1. old.step = "mismatched" /\ ledger' = ledger
    BY <1>12 DEF CommitMismatch, source, old
  <2>2. \/ Wins(k, "committed_unverified", old.version, "needs_manual_review")
           /\ Move(k, "needs_manual_review") /\ Finish(c, "mismatch")
        \/ Finish(c, "stale") /\ exec' = exec
    BY <1>12 DEF CommitMismatch, k, old
  <2>3. told
    BY <1>14, <2>1, <2>2
  <2> QED
    BY <1>0, <1>6, <2>1, <2>2, <2>3, MoveSettles DEF ExecutionStates
<1>13. CASE CommitSuccess(c)
  <2>1. old.step = "matched" /\ ledger' = ledger
    BY <1>13 DEF CommitSuccess, source, old
  <2>2. \/ Wins(k, "committed_unverified", old.version, "succeeded")
           /\ Move(k, "succeeded") /\ Finish(c, "created")
        \/ Finish(c, "stale") /\ exec' = exec
    BY <1>13 DEF CommitSuccess, store, k, old
  <2>3. /\ Created(exec[k].token)
        /\ ledger[exec[k].token].faithful
    BY <2>1 DEF Bound, CallBound, k, old
  <2>4. CASE Finish(c, "stale") /\ exec' = exec
    <3>1. told
      BY <1>14, <2>1, <2>4
    <3> QED
      BY <1>6, <2>1, <2>4, <3>1
  <2>5. CASE Wins(k, "committed_unverified", old.version, "succeeded")
             /\ Move(k, "succeeded") /\ Finish(c, "created")
    <3>1. Told' = Told \cup {k}
      BY <1>5, <2>1, <2>5 DEF Success
    <3>2. exec[k].token \in Tokens
      BY <1>0, <2>5 DEF Bound, TokenBound, Exists, Wins, CanTransition
    <3>3. ledger[exec[k].token].faithful = TRUE
      BY <2>3, <3>2 DEF TypeOK, LedgerRow
    <3> QED
      BY <1>0, <2>1, <2>3, <2>5, <3>1, <3>3, MoveSettles DEF ExecutionStates
  <2> QED
    BY <2>2, <2>4, <2>5
<1> QED
  BY <1>1, <1>7, <1>8, <1>9, <1>10, <1>11, <1>12, <1>13 DEF CallStep

LEMMA PromiseWorker ==
    ASSUME TypeOK, Bound, NEW r \in Recoverers, WorkerStep(r)
    PROVE  Promise!Next
<1> DEFINE k == worker[r].key
           old == worker[r]
<1>0. k \in Keys
  BY DEF TypeOK, WorkerState
<1>1. ledger' = ledger /\ call' = call
  BY DEF WorkerStep, Drive, SubmitPrepared, PromoteSubmitting, ResumeUnknown,
         FailUnrecoverable, Advance, ToManualReview, ReplayCreate,
         ReplayFails, ReplayWithoutRecord, RecordReplayed, Reread,
         RecoveryReadBack, RecoverySuccess, ReleaseLease, source
<1>2. Told' = Told
  BY <1>1 DEF Told
<1>3. ASSUME exec' = exec PROVE Promise!Next
  BY <1>1, <1>2, <1>3, PromiseQuiet
<1>4. ASSUME NEW current \in ExecutionStates,
             NEW target \in ExecutionStates \ TerminalStates,
             Wins(k, current, old.version, target), Move(k, target)
      PROVE  Promise!Next
  BY <1>0, <1>1, <1>2, <1>4, MoveOpen
<1>5. CASE SubmitPrepared(r) \/ PromoteSubmitting(r) \/ ResumeUnknown(r)
  <2>1. \/ exec' = exec
        \/ \E current \in ExecutionStates,
              target \in ExecutionStates \ TerminalStates :
                 Wins(k, current, old.version, target) /\ Move(k, target)
    BY <1>5 DEF SubmitPrepared, PromoteSubmitting, ResumeUnknown, Advance,
                ExecutionStates, TerminalStates
  <2> QED
    BY <1>3, <1>4, <2>1
<1>6. CASE FailUnrecoverable(r)
  <2>1. \/ exec' = exec
        \/ /\ Wins(k, "prepared", old.version, "failed_safe")
           /\ Move(k, "failed_safe")
    BY <1>6 DEF FailUnrecoverable, Advance
  <2> QED
    BY <1>0, <1>1, <1>2, <1>3, <2>1, MoveSettles DEF ExecutionStates
<1>7. CASE ToManualReview(r)
  <2>1. \/ exec' = exec
        \/ /\ Wins(k, old.state, old.version, "needs_manual_review")
           /\ Move(k, "needs_manual_review")
    BY <1>7 DEF ToManualReview
  <2>2. CASE /\ Wins(k, old.state, old.version, "needs_manual_review")
             /\ Move(k, "needs_manual_review")
    <3>1. old.state \in ExecutionStates
      <4>1. old.step = "manual"
        BY <1>7 DEF ToManualReview
      <4>2. exec[k].state = old.state /\ Exists(exec[k])
        BY <2>2, <4>1 DEF Bound, WorkerBound, Wins, CanTransition
      <4> QED
        BY <4>2 DEF Exists, TypeOK, WorkerState
    <3> QED
      BY <1>0, <1>1, <1>2, <2>2, <3>1, MoveSettles
  <2> QED
    BY <1>3, <2>1, <2>2
<1>8. CASE RecordReplayed(r)
  <2>1. \/ exec' = exec
        \/ /\ Wins(k, "reconciling_same_client_token", old.version,
                   "committed_unverified")
           /\ Move(k, "committed_unverified")
    BY <1>8 DEF RecordReplayed, store
  <2> QED
    BY <1>3, <1>4, <2>1 DEF ExecutionStates, TerminalStates
<1>9. CASE RecoverySuccess(r)
  <2>1. \/ exec' = exec
        \/ /\ Wins(k, "committed_unverified", old.version, "succeeded")
           /\ Move(k, "succeeded")
    BY <1>9 DEF RecoverySuccess, store
  <2>2. CASE /\ Wins(k, "committed_unverified", old.version, "succeeded")
             /\ Move(k, "succeeded")
    <3>1. old.step = "matched"
      BY <1>9 DEF RecoverySuccess
    <3>2. Created(exec[k].token) /\ ledger[exec[k].token].faithful
      BY <3>1 DEF Bound, WorkerBound
    <3>3. exec[k].token \in Tokens
      BY <1>0, <2>2 DEF Bound, TokenBound, Exists, Wins, CanTransition
    <3>4. ledger[exec[k].token].faithful = TRUE
      BY <3>2, <3>3 DEF TypeOK, LedgerRow
    <3> QED
      BY <1>0, <1>1, <1>2, <2>2, <3>2, <3>4, MoveSettles DEF ExecutionStates
  <2> QED
    BY <1>3, <2>1, <2>2
<1>10. CASE ReleaseLease(r)
  <2>1. LET new == LeaseReleased(exec[k], r)
        IN  new.state = exec[k].state /\ new.body = exec[k].body
    BY <1>0, GovernedAssumption, LeaseKeepsRow DEF TypeOK
  <2>2. \A j \in Keys : /\ exec'[j].state = exec[j].state
                        /\ exec'[j].body = exec[j].body
    BY <1>0, <1>10, <2>1 DEF ReleaseLease, TypeOK
  <2> QED
    BY <1>1, <1>2, <2>2, PromiseQuiet
<1>11. CASE \/ Drive(r) \/ ReplayCreate(r) \/ ReplayFails(r)
            \/ ReplayWithoutRecord(r) \/ Reread(r) \/ RecoveryReadBack(r)
  BY <1>3, <1>11 DEF Drive, ReplayCreate, ReplayFails, ReplayWithoutRecord,
                     Reread, RecoveryReadBack, store
<1> QED
  BY <1>5, <1>6, <1>7, <1>8, <1>9, <1>10, <1>11 DEF WorkerStep

\* The source adds the one row of a key whose request is still on its way.
LEMMA PromiseLand ==
    ASSUME TypeOK, Bound, NEW q \in sent, SourceCreates(q)
    PROVE  Promise!Next
<1> DEFINE k == q.key
           t == q.token
<1>0. k \in Keys
  BY DEF TypeOK, Requests
<1>1. /\ exec' = exec /\ Told' = Told
  BY DEF SourceCreates, store, Told
<1>2. /\ Past(k) /\ t = exec[k].token /\ q.body = exec[k].body
  BY DEF Bound, RequestBound
<1>3. Exists(exec[k]) /\ t \in Tokens /\ exec[k].body \in Fingerprints
  BY <1>0, <1>2 DEF Past, Exists, Bound, TokenBound
<1>4. CASE Created(t)
  BY <1>1, <1>4, PromiseQuiet DEF SourceCreates
<1>5. CASE ~Created(t)
  <2>1. PICK faithful \in BOOLEAN :
           ledger' = [ledger EXCEPT ![t] =
                        [key |-> k, body |-> q.body, faithful |-> faithful]]
    BY <1>5 DEF SourceCreates
  <2> DEFINE e == [token |-> t, body |-> q.body, faithful |-> faithful]
  <2>2. /\ ledger'[t].key = k /\ ledger'[t].body = q.body
        /\ ledger'[t].faithful = faithful
        /\ \A u \in Tokens \ {t} : ledger'[u] = ledger[u]
    BY <1>3, <2>1 DEF TypeOK
  <2>3. RowsOf(k) = {}
    BY <1>0, <1>2, <1>5, RowOfItsKey DEF RowsOf
  <2>4. RowsOf(k)' = {t}
    <3>1. q.body # NoBody
      BY <1>2, <1>3, StoreAssumption
    <3>2. t \in RowsOf(k)'
      BY <1>3, <2>2, <3>1 DEF RowsOf, Created
    <3>3. \A u \in RowsOf(k)' : u = t
      BY <2>2, <2>3 DEF RowsOf, Created
    <3> QED
      BY <3>2, <3>3
  <2>5. \A j \in Keys \ {k} : RowsOf(j)' = RowsOf(j)
    <3> SUFFICES ASSUME NEW j \in Keys \ {k} PROVE RowsOf(j)' = RowsOf(j)
      OBVIOUS
    <3>1. t \notin RowsOf(j) /\ t \notin RowsOf(j)'
      BY <1>5, <2>2 DEF RowsOf
    <3>2. \A u \in Tokens \ {t} : u \in RowsOf(j)' <=> u \in RowsOf(j)
      BY <2>2 DEF RowsOf, Created
    <3> QED
      BY <3>1, <3>2 DEF RowsOf
  <2>6. Landed[k] = {} /\ Landed'[k] = {e}
    BY <1>0, <2>2, <2>3, <2>4 DEF Landed
  <2>7. \A j \in Keys \ {k} : Landed'[j] = Landed[j]
    <3> SUFFICES ASSUME NEW j \in Keys \ {k} PROVE Landed'[j] = Landed[j]
      OBVIOUS
    <3>1. \A u \in RowsOf(j) : ledger'[u] = ledger[u]
      BY <1>5, <2>2 DEF RowsOf
    <3> QED
      BY <2>5, <3>1 DEF Landed
  <2>8. Landed' = [Landed EXCEPT ![k] = {e}]
    BY <2>6, <2>7 DEF Landed
  <2>9. exec[k].state # "succeeded"
    BY <1>0, <1>2, <1>5 DEF Bound, ReceiptBound
  <2>10. Outcome[k] \in {"open", "needs_manual_review"}
    BY <1>0, <1>2, <2>9 DEF Outcome, Past, TerminalStates, NeverSentStates
  <2>11. /\ Wanted[k] = q.body /\ Wanted[k] # NoBody
         /\ Wanted' = Wanted /\ Outcome' = Outcome
    BY <1>0, <1>1, <1>2, <1>3, StoreAssumption DEF Wanted, Outcome
  <2>12. e \in Promise!Entries /\ e.body = q.body
    BY <1>2, <1>3 DEF Promise!Entries
  <2> HIDE DEF e, k, t
  <2>13. Promise!Land(k)
    BY <1>1, <2>6, <2>8, <2>10, <2>11, <2>12
       DEF Promise!Land, Wanted, Outcome, Landed
  <2> QED
    BY <1>0, <2>13 DEF Promise!Next
<1> QED
  BY <1>4, <1>5

LEMMA PromiseEnvironment ==
    ASSUME TypeOK, Bound,
           \/ Environment
           \/ \E r \in Recoverers, k \in Keys : AcquireLease(r, k)
    PROVE  Promise!Next
<1>1. ASSUME NEW q \in sent, SourceCreates(q) PROVE Promise!Next
  BY <1>1, PromiseLand
<1>2. ASSUME ledger' = ledger, Told' = Told,
             \A k \in Keys : /\ exec'[k].state = exec[k].state
                             /\ exec'[k].body = exec[k].body
      PROVE  Promise!Next
  BY <1>2, PromiseQuiet
<1>3. ASSUME NEW k \in Keys, LeaseLapses(k) \/ DeadlinePasses(k)
      PROVE  Promise!Next
  <2>1. \A new \in {LeaseLapsed(exec[k]), DeadlinePassed(exec[k])} :
           new.state = exec[k].state /\ new.body = exec[k].body
    BY DEF LeaseLapsed, DeadlinePassed, TypeOK, Row
  <2>2. \A j \in Keys : /\ exec'[j].state = exec[j].state
                        /\ exec'[j].body = exec[j].body
    BY <1>3, <2>1 DEF LeaseLapses, DeadlinePasses, TypeOK
  <2> QED
    BY <1>2, <1>3, <2>2 DEF LeaseLapses, DeadlinePasses, source, Told
<1>4. ASSUME NEW r \in Recoverers, NEW k \in Keys, AcquireLease(r, k)
      PROVE  Promise!Next
  <2>1. /\ LeaseAcquired(exec[k], r).state = exec[k].state
        /\ LeaseAcquired(exec[k], r).body = exec[k].body
    BY DEF LeaseAcquired, TypeOK, Row
  <2>2. \A j \in Keys : /\ exec'[j].state = exec[j].state
                        /\ exec'[j].body = exec[j].body
    BY <1>4, <2>1 DEF AcquireLease, TypeOK
  <2>3. ledger' = ledger /\ call' = call
    BY <1>4 DEF AcquireLease, source
  <2>4. Told' = Told
    BY <2>3 DEF Told
  <2> QED
    BY <1>2, <2>2, <2>3, <2>4
\* Who was told stays told when the process dies.
<1>5. ASSUME ProcessDies PROVE Told' = Told
  <2>1. \A c \in Calls : /\ call'[c].outcome = call[c].outcome
                         /\ call'[c].key = call[c].key
    BY <1>5 DEF ProcessDies, TypeOK, CallState
  <2> QED
    BY <2>1 DEF Told
<1>6. ASSUME Reconfigure PROVE Promise!Next
  <2>1. \A k \in Keys : /\ exec'[k].state = exec[k].state
                        /\ exec'[k].body = exec[k].body
    BY <1>6 DEF Reconfigure, TypeOK, Row
  <2> QED
    BY <1>2, <1>5, <1>6, <2>1 DEF Reconfigure, ProcessDies
<1>7. ASSUME Crash PROVE Promise!Next
  BY <1>2, <1>5, <1>7 DEF Crash, ProcessDies
<1>8. ASSUME \/ \E q \in sent : SourceDrops(q)
             \/ \E s \in Senders : AnswerLost(s)
      PROVE  Promise!Next
  BY <1>2, <1>8 DEF SourceDrops, AnswerLost, store, Told
<1> QED
  BY <1>1, <1>3, <1>4, <1>6, <1>7, <1>8 DEF Environment

LEMMA PromiseStep ==
    ASSUME TypeOK, TypeOK', Bound, AbsentIsEmpty, Next
    PROVE  Promise!Next
  BY PromiseCall, PromiseWorker, PromiseEnvironment DEF Next, Recovery

\* Calls, recoverers, crashes and the source together implement LedgerWrite:
\* whatever they do to a key is a binding of it, a row for it, its settlement,
\* an answer that tells of it, or nothing the promise speaks of.
THEOREM PromiseKept == Spec => ImplementsPromise
<1>1. /\ TypeOK /\ TypeOK' /\ Bound /\ AbsentIsEmpty /\ [Next]_vars
      => [Promise!Next]_(Promise!vars)
  <2>1. CASE UNCHANGED vars
    BY <2>1 DEF vars, Promise!vars, Told, RowsOf, Created
  <2>2. ASSUME TypeOK, TypeOK', Bound, AbsentIsEmpty, Next PROVE Promise!Next
    BY <2>2, PromiseStep
  <2> QED
    BY <2>1, <2>2
<1> QED
  BY <1>1, PromiseInit, AlwaysBound, AlwaysAbsentIsEmpty, PTL
     DEF Spec, ImplementsPromise, Promise!Spec

=============================================================================
