-------------------------- MODULE FamilyFundProofs --------------------------
(***************************************************************************)
(* Proofs about FamilyFund for any keys, calls, recovery workers, amounts  *)
(* and rows by hand, in one process or in several that overlap.            *)
(***************************************************************************)
EXTENDS FamilyFund, FiniteSetTheorems, TLAPS

ExecRow == [state : States, plan : [credit : Nat, before : Nat]]
CallSteps == {"idle", "checked", "locked", "reading", "read", "prepared",
              "waiting", "reading_back", "verified", "mismatched", "done", "dead"}
Outcomes == {"none", "created", "idempotent_replay", "commit_unknown",
             "unavailable", "no_change", "mismatch", "stale"}
CallRow == [step : CallSteps, key : Keys, plan : Recharge, outcome : Outcomes]
WorkerSteps == {"idle", "driving", "waiting", "reading_back", "verified",
                "mismatched"}
WorkerRow == [step : WorkerSteps, key : Keys]
Message == [from : Actors \cup {NoOwner}, key : Keys, credit : Nat]
LandedRow == [credit : Nat, onto : Nat]
Lock == [owner : Actors \cup {NoOwner}, live : BOOLEAN]

LockTyped == lock \in Lock
ExecTyped == exec \in [Keys -> ExecRow]
CallTyped == call \in [Calls -> CallRow]
WorkerTyped == worker \in [Recoverers -> WorkerRow]
WireTyped == wire \subseteq Message /\ answered \subseteq Actors
SourceTyped == /\ landed \in [Keys -> LandedRow] /\ balance \in Nat
               /\ handRows \in 0..MaxHandRows
OverlapTyped == overlap \in Overlaps

Typed == /\ LockTyped /\ ExecTyped /\ CallTyped /\ WorkerTyped /\ WireTyped
         /\ SourceTyped /\ OverlapTyped

LEMMA TypedIsTypeOK == Typed => TypeOK
  BY DEF Typed, TypeOK, LockTyped, ExecTyped, CallTyped, WorkerTyped, WireTyped,
         SourceTyped, OverlapTyped, Lock, ExecRow, CallRow, CallSteps, Outcomes,
         WorkerRow, WorkerSteps, Message, LandedRow

-----------------------------------------------------------------------------
(* What each part of the state says of the others.                         *)

\* The row of k is the one that this plan meant.
Matches(k, plan) ==
    landed[k].credit = plan.credit /\ landed[k].onto = plan.before

\* A row of k that landed did so after this balance was read.
LandedSince(k, before) == landed[k] = NoRow \/ before <= landed[k].onto

ExecInv(k) ==
    /\ exec[k].state \in {"absent", "prepared"} =>
          landed[k] = NoRow /\ \A q \in wire : q.key # k
    /\ exec[k].state # "absent" =>
          /\ exec[k].plan.credit > 0
          /\ exec[k].plan.before <= balance
          /\ LandedSince(k, exec[k].plan.before)
    /\ exec[k].state = "succeeded" => Matches(k, exec[k].plan)
    /\ landed[k] = NoRow \/ landed[k].onto + landed[k].credit <= balance

Sent == {"waiting", "reading_back", "verified"}
Planned == {"prepared", "mismatched"} \cup Sent

CallInv(c) ==
    /\ call[c].step \in {"read"} \cup Planned =>
          call[c].plan.before \in Nat /\ call[c].plan.before <= balance
    /\ call[c].step \in Planned => call[c].plan.credit \in Nat \ {0}
    /\ call[c].step \in Sent => LandedSince(call[c].key, call[c].plan.before)
    /\ call[c].step = "verified" => Matches(call[c].key, call[c].plan)

\* A call that may still prepare, and holds the lock, is alone.
AloneInv(c) ==
    lock.owner = c /\ call[c].step \in {"reading", "read"} =>
        ~OtherUnfinished(call[c].key)

WorkerInv(r) ==
    LET k == worker[r].key
    IN /\ worker[r].step # "idle" => exec[k].state # "absent"
       /\ worker[r].step = "verified" /\ Unfinished(k) => Matches(k, exec[k].plan)

OneOpen == \A k, o \in Keys : Unfinished(k) /\ Unfinished(o) => k = o

IInv == /\ Typed /\ OneOpen
        /\ \A k \in Keys : ExecInv(k)
        /\ \A c \in Calls : CallInv(c) /\ AloneInv(c)
        /\ \A r \in Recoverers : WorkerInv(r)

LEMMA InitIInv == Init => IInv
<1> SUFFICES ASSUME Init PROVE IInv
  OBVIOUS
<1>1. SomeKey \in Keys
  BY FundAssumption DEF SomeKey
<1>2. LockTyped /\ ExecTyped /\ WireTyped /\ SourceTyped /\ OverlapTyped
  BY FundAssumption
  DEF Init, LockTyped, Lock, ExecTyped, ExecRow, States, NoRecharge, WireTyped,
      SourceTyped, LandedRow, NoRow, OverlapTyped
<1>3. CallTyped /\ WorkerTyped
  BY <1>1 DEF Init, CallTyped, CallRow, CallSteps, Recharge, NoRecharge, Outcomes,
      WorkerTyped, WorkerRow, WorkerSteps
<1>4. ASSUME NEW k \in Keys PROVE ExecInv(k) /\ ~Unfinished(k)
  BY <1>4 DEF Init, ExecInv, Unfinished, Exists
<1>5. ASSUME NEW c \in Calls PROVE CallInv(c) /\ AloneInv(c)
  BY <1>5 DEF Init, CallInv, AloneInv, Sent, Planned
<1>6. ASSUME NEW r \in Recoverers PROVE WorkerInv(r)
  BY <1>6 DEF Init, WorkerInv
<1> QED
  BY <1>2, <1>3, <1>4, <1>5, <1>6 DEF IInv, Typed, OneOpen

-----------------------------------------------------------------------------
(* The source.                                                             *)

LandsOn(k) ==
    /\ landed[k] = NoRow /\ exec[k].state \notin {"absent", "prepared"}
    /\ landed'[k].onto = balance
    /\ landed'[k].onto + landed'[k].credit = balance'

LandedStep(k) == landed'[k] = landed[k] \/ LandsOn(k)

LEMMA NextSource ==
    ASSUME IInv, Next
    PROVE  SourceTyped' /\ balance <= balance' /\ \A k \in Keys : LandedStep(k)
<1>0. SourceTyped /\ WireTyped /\ FundAssumption
  BY FundAssumption DEF IInv, Typed
<1>1. CASE UNCHANGED source
  BY <1>0, <1>1 DEF source, SourceTyped, LandedStep
<1>2. CASE AddHandRow
  BY <1>0, <1>2, FundAssumption DEF AddHandRow, SourceTyped, LandedStep
<1>3. ASSUME NEW q \in wire, Land(q)
      PROVE  SourceTyped' /\ balance <= balance' /\ \A k \in Keys : LandedStep(k)
  <2>1. q.key \in Keys /\ q.credit \in Nat
    BY <1>0 DEF WireTyped, Message
  <2>2. CASE landed[q.key] # NoRow
    BY <1>0, <1>3, <2>2 DEF Land, SourceTyped, LandedStep
  <2>3. CASE landed[q.key] = NoRow
    <3> DEFINE row == [credit |-> q.credit, onto |-> balance]
    <3>1. /\ landed' = [landed EXCEPT ![q.key] = row]
          /\ balance' = balance + q.credit /\ handRows' = handRows
      BY <1>3, <2>3 DEF Land
    <3>2. row \in LandedRow /\ row.credit = q.credit /\ row.onto = balance
      BY <1>0, <2>1 DEF LandedRow, SourceTyped
    <3> HIDE DEF row
    <3>3. SourceTyped' /\ balance <= balance'
      BY <1>0, <2>1, <3>1, <3>2 DEF SourceTyped
    <3>4. exec[q.key].state \notin {"absent", "prepared"}
      BY <2>1 DEF IInv, ExecInv
    <3>5. LandedStep(q.key)
      BY <1>0, <2>1, <2>3, <3>1, <3>2, <3>4 DEF LandedStep, LandsOn, SourceTyped
    <3>6. ASSUME NEW k \in Keys, k # q.key PROVE LandedStep(k)
      BY <1>0, <3>1, <3>6 DEF LandedStep, SourceTyped
    <3> QED
      BY <3>3, <3>5, <3>6
  <2> QED
    BY <2>2, <2>3
<1> QED
  BY <1>1, <1>2, <1>3
  DEF Next, CallStep, WorkerStep, Environment, PreCheck, AcquireLock, Recheck,
      ReadBalance, Prepare, Submit, RecordCreated, CreateUnknown, ReadBack,
      CommitSuccess, CommitMismatch, Cancel, TakeLock, Drive, RecordReplayed,
      ReplayFails, RecoveryReadBack, RecoverySettles, Drop, LockLapses, Die

\* The same of the next state's rows.
MatchesNext(k, plan) ==
    landed'[k].credit = plan.credit /\ landed'[k].onto = plan.before
SinceNext(k, before) == landed'[k] = NoRow \/ before <= landed'[k].onto

\* What was true of a plan and the source stays true.
LEMMA SourceKeeps ==
    ASSUME IInv, Next, NEW k \in Keys, NEW before \in Nat, before <= balance
    PROVE  /\ before <= balance'
           /\ LandedSince(k, before) => SinceNext(k, before)
           /\ \A plan : Matches(k, plan) /\ plan.credit > 0 => MatchesNext(k, plan)
<1>1. balance \in Nat /\ balance' \in Nat /\ balance <= balance' /\ LandedStep(k)
  BY NextSource DEF IInv, Typed, SourceTyped
<1>2. before <= balance'
  BY <1>1
<1>3. CASE landed'[k] = landed[k]
  BY <1>2, <1>3 DEF LandedSince, Matches, SinceNext, MatchesNext
<1>4. CASE LandsOn(k)
  BY <1>2, <1>4 DEF LandsOn, LandedSince, Matches, SinceNext, MatchesNext, NoRow
<1> QED
  BY <1>1, <1>3, <1>4 DEF LandedStep

LEMMA LandedKeeps ==
    ASSUME IInv, Next, NEW k \in Keys
    PROVE  landed'[k] = NoRow \/ landed'[k].onto + landed'[k].credit <= balance'
<1>1. /\ balance \in Nat /\ balance' \in Nat /\ balance <= balance'
      /\ landed[k] \in LandedRow /\ landed'[k] \in LandedRow /\ LandedStep(k)
      /\ landed[k] = NoRow \/ landed[k].onto + landed[k].credit <= balance
  BY NextSource DEF IInv, Typed, SourceTyped, ExecInv
<1> QED
  BY <1>1 DEF LandedStep, LandsOn, LandedRow
-----------------------------------------------------------------------------
(* The executions.                                                         *)

\* An open execution moves on, to anything but success.
ExecMoves(k) ==
    /\ Unfinished(k)
    /\ \E s \in States \ {"absent", "prepared", "succeeded"} : MoveTo(k, s)

\* Success, of a recovery worker or a call that has verified it.
ExecSucceeds(k) ==
    /\ Unfinished(k)
    /\ \/ /\ \E r \in Recoverers : worker[r].key = k /\ worker[r].step = "verified"
          /\ MoveTo(k, "succeeded")
       \/ \E c \in Calls : /\ call[c].key = k /\ call[c].step = "verified"
                           /\ Succeed(k, call[c].plan)

\* The one step that opens an execution: its call holds the live lock.
ExecOpens(k) ==
    \E c \in Calls :
        /\ call[c].key = k /\ call[c].step = "read" /\ StillHeld(c)
        /\ Runs(c) /\ ~Exists(k)
        /\ call'[c].step = "prepared"
        /\ UNCHANGED <<lock, wire, source>>
        /\ \E credit \in Nat \ {0} :
              exec' = [exec EXCEPT ![k] =
                          [state |-> "prepared",
                           plan |-> [call[c].plan EXCEPT !.credit = credit]]]

ExecNext ==
    UNCHANGED exec \/ \E k \in Keys : ExecMoves(k) \/ ExecSucceeds(k) \/ ExecOpens(k)

LEMMA OpenStates ==
    ASSUME NEW k \in Keys
    PROVE  /\ exec[k].state \in {"prepared", "submitting", "reconciling",
                                 "commit_unknown", "committed_unverified"}
                 => Unfinished(k)
           /\ \A s \in {"submitting", "reconciling", "commit_unknown",
                        "committed_unverified", "needs_manual_review"} :
                 s \in States \ {"absent", "prepared", "succeeded"}
  BY DEF Unfinished, Exists, TerminalStates, States

LEMMA PlanFields ==
    ASSUME Typed, NEW c \in Calls
    PROVE  /\ call[c].plan \in Recharge /\ call[c].key \in Keys
           /\ call[c].plan.before \in Int
           /\ \A n \in Int :
                 /\ [call[c].plan EXCEPT !.credit = n] \in Recharge
                 /\ [call[c].plan EXCEPT !.credit = n].credit = n
                 /\ [call[c].plan EXCEPT !.credit = n].before = call[c].plan.before
  BY DEF Typed, CallTyped, CallRow, Recharge

LEMMA CreditIsInt ==
    ASSUME Typed, NEW c \in Calls
    PROVE  Credit(Ask[call[c].key], call[c].plan.before) \in Int
<1>1. Ask[call[c].key].amount \in Int /\ call[c].plan.before \in Int
  BY PlanFields, FundAssumption
<1> QED
  BY <1>1 DEF Credit

LEMMA PrepareSteps ==
    ASSUME IInv, NEW c \in Calls, Runs(c), Prepare(c)
    PROVE  ExecNext
<1> DEFINE k == call[c].key
           credit == Credit(Ask[k], call[c].plan.before)
           plan == [call[c].plan EXCEPT !.credit = credit]
           row == [call[c] EXCEPT !.step = "prepared", !.plan = plan]
<1>0. call[c] \in CallRow /\ call \in [Calls -> CallRow]
  BY DEF IInv, Typed, CallTyped
<1>1. CASE /\ StillHeld(c) /\ Writable(credit)
           /\ exec[k].state = "absent"
           /\ exec' = [exec EXCEPT ![k] = [state |-> "prepared", plan |-> plan]]
           /\ call' = [call EXCEPT ![c] = row]
           /\ UNCHANGED lock
  <2>1. credit \in Nat \ {0}
    BY <1>1, CreditIsInt DEF IInv, Writable
  <2>2. call'[c].step = "prepared"
    BY <1>0, <1>1 DEF CallRow
  <2> HIDE DEF credit
  <2>3. ExecOpens(k)
    BY <1>1, <2>1, <2>2 DEF ExecOpens, Exists, Prepare
  <2> QED
    BY <2>3, PlanFields DEF ExecNext, IInv
<1>2. CASE UNCHANGED exec
  BY <1>2 DEF ExecNext
<1> QED
  BY <1>1, <1>2 DEF Prepare, Exists

LEMMA NextExec == ASSUME IInv, Next PROVE ExecNext
<1>1. CASE UNCHANGED exec
  BY <1>1 DEF ExecNext
<1>2. ASSUME NEW k \in Keys, Unfinished(k),
             NEW s \in {"submitting", "reconciling", "commit_unknown",
                        "committed_unverified", "needs_manual_review"},
             MoveTo(k, s)
      PROVE  ExecNext
  BY <1>2, OpenStates DEF ExecNext, ExecMoves
<1> HIDE DEF ExecNext
<1>3. ASSUME NEW c \in Calls,
             Submit(c) \/ RecordCreated(c) \/ CreateUnknown(c) \/ CommitMismatch(c)
      PROVE  ExecNext
  BY <1>1, <1>2, <1>3, PlanFields, OpenStates
  DEF IInv, Submit, RecordCreated, CreateUnknown, CommitMismatch
<1>4. ASSUME NEW c \in Calls, CommitSuccess(c) PROVE ExecNext
  <2>1. call[c].key \in Keys
    BY PlanFields DEF IInv
  <2>2. CASE exec[call[c].key].state = "committed_unverified"
    BY <1>4, <2>1, <2>2, OpenStates DEF CommitSuccess, ExecNext, ExecSucceeds
  <2> QED
    BY <1>1, <1>4, <2>2 DEF CommitSuccess
<1>5. ASSUME NEW r \in Recoverers PROVE worker[r].key \in Keys
  BY <1>5 DEF IInv, Typed, WorkerTyped, WorkerRow
<1>6. ASSUME NEW r \in Recoverers,
             \/ Drive(r) \/ RecordReplayed(r) \/ ReplayFails(r)
             \/ RecoveryReadBack(r)
      PROVE  ExecNext
  BY <1>1, <1>2, <1>5, <1>6, OpenStates
  DEF Drive, RecordReplayed, ReplayFails, RecoveryReadBack, ReviewOrRetry
<1>7. ASSUME NEW r \in Recoverers, RecoverySettles(r) PROVE ExecNext
  <2>1. CASE /\ exec[worker[r].key].state = "committed_unverified"
             /\ worker[r].step = "verified" /\ MoveTo(worker[r].key, "succeeded")
    BY <1>5, <2>1, OpenStates DEF ExecNext, ExecSucceeds
  <2> QED
    BY <1>1, <1>2, <1>5, <1>7, <2>1, OpenStates DEF RecoverySettles
<1>8. CASE \E c \in Calls : CallStep(c)
  BY <1>1, <1>3, <1>4, <1>8, PrepareSteps
  DEF CallStep, PreCheck, AcquireLock, Recheck, ReadBalance, ReadBack, Cancel
<1>9. CASE \E r \in Recoverers : WorkerStep(r)
  BY <1>1, <1>6, <1>7, <1>9 DEF WorkerStep, TakeLock
<1>10. CASE Environment
  BY <1>1, <1>10 DEF Environment, Land, Drop, AddHandRow, LockLapses, Die, source
<1> QED
  BY <1>8, <1>9, <1>10 DEF Next

\* What an execution is after such a step.
ExecRowNext(k) ==
    \/ exec'[k] = exec[k]
    \/ /\ Unfinished(k) /\ exec'[k].plan = exec[k].plan
       /\ exec'[k].state \in States \ {"absent", "prepared", "succeeded"}
    \/ /\ Unfinished(k) /\ exec'[k].plan = exec[k].plan
       /\ exec'[k].state = "succeeded" /\ Matches(k, exec[k].plan)
    \/ /\ Unfinished(k) /\ exec'[k].state = "succeeded"
       /\ \E c \in Calls : /\ call[c].key = k /\ call[c].step = "verified"
                           /\ exec'[k].plan = call[c].plan
    \/ /\ ExecOpens(k) /\ exec'[k].state = "prepared"
       /\ exec'[k].plan.credit > 0 /\ exec'[k].plan.before \in Nat
       /\ exec'[k].plan.before <= balance

LEMMA ExecRows ==
    ASSUME IInv, Next
    PROVE  ExecTyped' /\ \A k \in Keys : ExecRowNext(k)
<1>0. exec \in [Keys -> ExecRow] /\ call \in [Calls -> CallRow]
  BY DEF IInv, Typed, ExecTyped, CallTyped
<1>1. CASE UNCHANGED exec
  BY <1>0, <1>1 DEF ExecTyped, ExecRowNext
<1>2. ASSUME NEW k \in Keys, NEW row \in ExecRow, exec' = [exec EXCEPT ![k] = row],
             exec'[k] = row => ExecRowNext(k)
      PROVE  ExecTyped' /\ \A o \in Keys : ExecRowNext(o)
  <2>1. ExecTyped' /\ exec'[k] = row /\ \A o \in Keys \ {k} : exec'[o] = exec[o]
    BY <1>0, <1>2 DEF ExecTyped
  <2> QED
    BY <1>2, <2>1 DEF ExecRowNext
<1>3. ASSUME NEW k \in Keys, NEW s \in States
      PROVE  /\ [exec[k] EXCEPT !.state = s] \in ExecRow
             /\ [exec[k] EXCEPT !.state = s].state = s
             /\ [exec[k] EXCEPT !.state = s].plan = exec[k].plan
  BY <1>0, <1>3 DEF ExecRow
<1>4. ASSUME NEW k \in Keys, ExecMoves(k)
      PROVE  ExecTyped' /\ \A o \in Keys : ExecRowNext(o)
  <2>1. PICK s \in States \ {"absent", "prepared", "succeeded"} : MoveTo(k, s)
    BY <1>4 DEF ExecMoves
  <2> DEFINE row == [exec[k] EXCEPT !.state = s]
  <2>2. row \in ExecRow /\ row.state = s /\ row.plan = exec[k].plan
    BY <1>3
  <2>3. exec' = [exec EXCEPT ![k] = row]
    BY <2>1 DEF MoveTo
  <2> HIDE DEF row
  <2>4. exec'[k] = row => ExecRowNext(k)
    BY <1>4, <2>2 DEF ExecMoves, ExecRowNext
  <2> QED
    BY <1>2, <2>2, <2>3, <2>4
<1>5. ASSUME NEW k \in Keys, Unfinished(k), MoveTo(k, "succeeded"),
             NEW r \in Recoverers, worker[r].key = k, worker[r].step = "verified"
      PROVE  ExecTyped' /\ \A o \in Keys : ExecRowNext(o)
  <2> DEFINE row == [exec[k] EXCEPT !.state = "succeeded"]
  <2>1. "succeeded" \in States
    BY DEF States, TerminalStates
  <2>2. row \in ExecRow /\ row.state = "succeeded" /\ row.plan = exec[k].plan
    BY <1>3, <2>1
  <2>3. exec' = [exec EXCEPT ![k] = row]
    BY <1>5 DEF MoveTo
  <2>4. Matches(k, exec[k].plan)
    BY <1>5 DEF IInv, WorkerInv
  <2> HIDE DEF row
  <2>5. exec'[k] = row => ExecRowNext(k)
    BY <1>5, <2>2, <2>4 DEF ExecRowNext
  <2> QED
    BY <1>2, <2>2, <2>3, <2>5
<1>6. ASSUME NEW k \in Keys, Unfinished(k), NEW c \in Calls, call[c].key = k,
             call[c].step = "verified", Succeed(k, call[c].plan)
      PROVE  ExecTyped' /\ \A o \in Keys : ExecRowNext(o)
  <2> DEFINE row == [state |-> "succeeded", plan |-> call[c].plan]
  <2>1. /\ call[c].plan.before \in Nat /\ call[c].plan.credit \in Nat
        /\ call[c].plan \in Recharge
    BY <1>6, PlanFields DEF IInv, CallInv, Planned, Sent
  <2>2. row \in ExecRow /\ row.state = "succeeded" /\ row.plan = call[c].plan
    BY <2>1 DEF ExecRow, Recharge, States, TerminalStates
  <2>3. exec' = [exec EXCEPT ![k] = row]
    BY <1>6 DEF Succeed
  <2> HIDE DEF row
  <2>4. exec'[k] = row => ExecRowNext(k)
    BY <1>6, <2>2 DEF ExecRowNext
  <2> QED
    BY <1>2, <2>2, <2>3, <2>4
<1>7. ASSUME NEW k \in Keys, ExecOpens(k)
      PROVE  ExecTyped' /\ \A o \in Keys : ExecRowNext(o)
  <2>1. PICK c \in Calls, credit \in Nat \ {0} :
            /\ call[c].key = k /\ call[c].step = "read"
            /\ exec' = [exec EXCEPT ![k] =
                          [state |-> "prepared",
                           plan |-> [call[c].plan EXCEPT !.credit = credit]]]
    BY <1>7 DEF ExecOpens
  <2> DEFINE plan == [call[c].plan EXCEPT !.credit = credit]
             row == [state |-> "prepared", plan |-> plan]
  <2>2. call[c].plan.before \in Nat /\ call[c].plan.before <= balance
    BY <2>1 DEF IInv, CallInv
  <2>3. plan \in Recharge /\ plan.credit = credit /\ plan.before = call[c].plan.before
    BY PlanFields DEF IInv
  <2> HIDE DEF plan
  <2>4. row \in ExecRow /\ row.state = "prepared" /\ row.plan = plan
    BY <2>2, <2>3 DEF ExecRow, Recharge, States
  <2>5. exec' = [exec EXCEPT ![k] = row]
    BY <2>1 DEF plan
  <2> HIDE DEF row
  <2>6. exec'[k] = row => ExecRowNext(k)
    BY <1>7, <2>2, <2>3, <2>4 DEF ExecRowNext
  <2> QED
    BY <1>2, <2>4, <2>5, <2>6
<1> QED
  BY <1>1, <1>4, <1>5, <1>6, <1>7, NextExec DEF ExecNext, ExecSucceeds
LEMMA OnlyOpensOpen ==
    ASSUME IInv, Next, NEW k \in Keys, Unfinished(k)'
    PROVE  Unfinished(k) \/ ExecOpens(k)
  BY ExecRows DEF ExecRowNext, Unfinished, Exists

LEMMA OneOpenStep == ASSUME IInv, Next PROVE OneOpen'
<1> SUFFICES ASSUME NEW k \in Keys, NEW o \in Keys, Unfinished(k)', Unfinished(o)'
             PROVE  k = o
  BY DEF OneOpen
<1>1. ASSUME NEW i \in Keys, ExecOpens(i), NEW j \in Keys,
             Unfinished(j) \/ ExecOpens(j)
      PROVE  i = j
  <2>1. PICK c \in Calls : call[c].key = i /\ call[c].step = "read" /\ StillHeld(c)
    BY <1>1 DEF ExecOpens
  <2>2. ~OtherUnfinished(i)
    BY <2>1 DEF IInv, AloneInv, StillHeld
  <2>3. CASE Unfinished(j)
    BY <2>2, <2>3 DEF OtherUnfinished
  <2>4. CASE ExecOpens(j)
    BY <2>1, <2>4 DEF ExecOpens, StillHeld
  <2> QED
    BY <1>1, <2>3, <2>4
<1>2. CASE Unfinished(k) /\ Unfinished(o)
  BY <1>2 DEF IInv, OneOpen
<1> QED
  BY <1>1, <1>2, OnlyOpensOpen

-----------------------------------------------------------------------------
(* The requests on the wire.                                               *)

LEMMA CallPlans ==
    ASSUME IInv, NEW c \in Calls
    PROVE  /\ call[c].key \in Keys
           /\ call[c].step \in Planned =>
                 call[c].plan.credit \in Nat \ {0} /\ call[c].plan.before \in Nat
  BY PlanFields DEF IInv, CallInv

LEMMA WorkerKeys ==
    ASSUME IInv, NEW r \in Recoverers
    PROVE  worker[r] \in WorkerRow /\ worker[r].key \in Keys
  BY DEF IInv, Typed, WorkerTyped, WorkerRow

LEMMA NextWire ==
    ASSUME IInv, Next
    PROVE  /\ wire' \subseteq Message
           /\ \A q \in wire' : \/ \E p \in wire : p.key = q.key
                               \/ exec'[q.key].state \notin {"absent", "prepared"}
<1> DEFINE Goal == /\ wire' \subseteq Message
                   /\ \A q \in wire' :
                         \/ \E p \in wire : p.key = q.key
                         \/ exec'[q.key].state \notin {"absent", "prepared"}
<1>0. wire \subseteq Message /\ exec \in [Keys -> ExecRow] /\ exec' \in [Keys -> ExecRow]
  BY ExecRows DEF IInv, Typed, WireTyped, ExecTyped
<1>1. CASE wire' \subseteq wire
  BY <1>0, <1>1
<1>2. ASSUME NEW S, wire' = {IF q.from \in S THEN [q EXCEPT !.from = NoOwner] ELSE q
                               : q \in wire}
      PROVE  Goal
  <2>1. ASSUME NEW q \in wire
        PROVE  /\ [q EXCEPT !.from = NoOwner] \in Message
               /\ [q EXCEPT !.from = NoOwner].key = q.key
    BY <1>0, <2>1 DEF Message
  <2> QED
    BY <1>0, <1>2, <2>1
<1>3. ASSUME NEW a, wire' = Abandoned(a) PROVE Goal
  <2>1. wire' = {IF q.from \in {a} THEN [q EXCEPT !.from = NoOwner] ELSE q : q \in wire}
    BY <1>3 DEF Abandoned
  <2> QED
    BY <1>2, <2>1
<1>4. ASSUME NEW a \in Actors, NEW k \in Keys, NEW credit \in Nat,
             NEW s \in States \ {"absent", "prepared"}, MoveTo(k, s),
             wire' = wire \cup {[from |-> a, key |-> k, credit |-> credit]}
      PROVE  Goal
  <2> DEFINE new == [from |-> a, key |-> k, credit |-> credit]
  <2>1. new \in Message /\ new.key = k
    BY DEF Message
  <2>2. exec'[k].state = s
    BY <1>0, <1>4 DEF MoveTo, ExecRow
  <2> HIDE DEF new
  <2>3. wire' = wire \cup {new}
    BY <1>4 DEF new
  <2> QED
    BY <1>0, <1>4, <2>1, <2>2, <2>3
<1> HIDE DEF Goal
<1>5. ASSUME NEW c \in Calls, Submit(c) PROVE Goal
  <2>1. /\ call[c].key \in Keys /\ call[c].plan.credit \in Nat /\ c \in Actors
        /\ "submitting" \in States \ {"absent", "prepared"}
    BY <1>5, CallPlans DEF Submit, Planned, Actors, States
  <2> QED
    BY <1>1, <1>4, <1>5, <2>1 DEF Submit, Goal
<1>6. ASSUME NEW r \in Recoverers, Drive(r) PROVE Goal
  <2>1. /\ worker[r].key \in Keys /\ exec[worker[r].key].plan.credit \in Nat
        /\ r \in Actors /\ "reconciling" \in States \ {"absent", "prepared"}
    BY <1>0, WorkerKeys DEF ExecRow, Actors, States
  <2> QED
    BY <1>1, <1>4, <1>6, <2>1 DEF Drive, Goal
<1>7. CASE Environment
  BY <1>1, <1>2, <1>7
  DEF Environment, Land, Drop, AddHandRow, LockLapses, Die, source, Goal
<1>8. CASE \E c \in Calls : CallStep(c)
  BY <1>1, <1>3, <1>5, <1>8
  DEF CallStep, PreCheck, AcquireLock, Recheck, ReadBalance, Prepare, RecordCreated,
      CreateUnknown, ReadBack, CommitSuccess, CommitMismatch, Cancel, Goal
<1>9. CASE \E r \in Recoverers : WorkerStep(r)
  BY <1>1, <1>3, <1>6, <1>9
  DEF WorkerStep, TakeLock, RecordReplayed, ReplayFails, RecoveryReadBack,
      RecoverySettles, Goal
<1> QED
  BY <1>7, <1>8, <1>9 DEF Next, Goal

LEMMA NextAnswered == ASSUME IInv, Next PROVE answered' \subseteq Actors
<1>1. answered \subseteq Actors /\ \A q \in wire : q.from \in Actors \cup {NoOwner}
  BY DEF IInv, Typed, WireTyped, Message
<1> QED
  <2>1. CASE answered' \subseteq answered
    BY <1>1, <2>1
  <2>2. CASE \E q \in wire : Land(q)
    BY <1>1, <2>2 DEF Land
  <2> QED
    BY <2>1, <2>2
  DEF Next, Environment, Drop, AddHandRow, LockLapses, Die, source,
      CallStep, PreCheck, AcquireLock, Recheck, ReadBalance, Prepare, RecordCreated,
      CreateUnknown, ReadBack, CommitSuccess, CommitMismatch, Cancel, Submit,
      WorkerStep, TakeLock, RecordReplayed, ReplayFails, RecoveryReadBack,
      RecoverySettles, Drive

LEMMA ExecStep ==
    ASSUME IInv, Next, NEW k \in Keys PROVE ExecInv(k)'
<1>0. /\ ExecInv(k) /\ ExecRowNext(k) /\ LandedStep(k)
      /\ exec[k] \in ExecRow /\ exec[k].plan.before \in Nat
      /\ balance \in Nat /\ balance' \in Nat /\ balance <= balance'
  BY ExecRows, NextSource DEF IInv, Typed, ExecTyped, ExecRow, SourceTyped
<1>1. ASSUME exec'[k].state \in {"absent", "prepared"}
      PROVE  landed'[k] = NoRow /\ \A q \in wire' : q.key # k
  <2>1. exec[k].state \in {"absent", "prepared"}
    BY <1>0, <1>1 DEF ExecRowNext, ExecOpens, Exists
  <2>2. landed'[k] = NoRow
    BY <1>0, <2>1 DEF ExecInv, LandedStep, LandsOn
  <2> QED
    BY <1>0, <1>1, <2>1, <2>2, NextWire DEF ExecInv
<1>2. landed'[k] = NoRow \/ landed'[k].onto + landed'[k].credit <= balance'
  BY LandedKeeps
<1>3. CASE exec'[k] = exec[k]
  <2>1. ASSUME exec[k].state # "absent"
        PROVE  /\ exec'[k].plan.credit > 0 /\ exec'[k].plan.before <= balance'
               /\ SinceNext(k, exec[k].plan.before)
               /\ exec'[k].state = "succeeded" => MatchesNext(k, exec[k].plan)
    BY <1>0, <1>3, <2>1, SourceKeeps DEF ExecInv
  <2> QED
    BY <1>1, <1>2, <1>3, <2>1 DEF ExecInv, LandedSince, Matches, SinceNext, MatchesNext
<1>4. CASE Unfinished(k) /\ exec'[k].plan = exec[k].plan /\
           (exec'[k].state = "succeeded" => Matches(k, exec[k].plan))
  <2>1. /\ exec[k].plan.credit > 0 /\ exec[k].plan.before <= balance'
        /\ SinceNext(k, exec[k].plan.before)
        /\ exec'[k].state = "succeeded" => MatchesNext(k, exec[k].plan)
    BY <1>0, <1>4, SourceKeeps DEF ExecInv, Unfinished, Exists
  <2> QED
    BY <1>1, <1>2, <1>4, <2>1 DEF ExecInv, LandedSince, Matches, SinceNext, MatchesNext
<1>5. ASSUME exec'[k].state = "succeeded", NEW c \in Calls, call[c].key = k,
             call[c].step = "verified", exec'[k].plan = call[c].plan
      PROVE  ExecInv(k)'
  <2>1. /\ call[c].plan.before \in Nat /\ call[c].plan.before <= balance
        /\ call[c].plan.credit \in Nat \ {0}
        /\ LandedSince(k, call[c].plan.before) /\ Matches(k, call[c].plan)
    BY <1>5 DEF IInv, CallInv, Planned, Sent
  <2>2. /\ call[c].plan.credit > 0 /\ call[c].plan.before <= balance'
        /\ SinceNext(k, call[c].plan.before) /\ MatchesNext(k, call[c].plan)
    BY <2>1, SourceKeeps
  <2> QED
    BY <1>2, <1>5, <2>2 DEF ExecInv, LandedSince, Matches, SinceNext, MatchesNext
<1>6. CASE exec'[k].state = "prepared" /\ exec'[k].plan.credit > 0 /\
           exec'[k].plan.before \in Nat /\ exec'[k].plan.before <= balance
  BY <1>0, <1>1, <1>2, <1>6 DEF ExecInv, LandedSince
<1> QED
  BY <1>0, <1>3, <1>4, <1>5, <1>6 DEF ExecRowNext
-----------------------------------------------------------------------------
(* The lock, the calls and the recovery workers.                           *)

LEMMA NextLock ==
    ASSUME IInv, Next
    PROVE  /\ LockTyped'
           /\ \A c \in Calls : lock'.owner = c =>
                 lock.owner = c \/ call'[c].step \notin {"reading", "read"}
<1> DEFINE Goal == /\ LockTyped'
                   /\ \A c \in Calls : lock'.owner = c =>
                         lock.owner = c \/ call'[c].step \notin {"reading", "read"}
<1>0. lock \in Lock /\ call \in [Calls -> CallRow]
  BY DEF IInv, Typed, LockTyped, CallTyped
<1>1. CASE UNCHANGED lock
  BY <1>0, <1>1 DEF LockTyped
<1>2. ASSUME NEW a, Released(a) PROVE Goal
  <2>1. lock' \in Lock /\ (lock'.owner = lock.owner \/ lock'.owner = NoOwner)
    BY <1>0, <1>2 DEF Released, Lock
  <2> QED
    BY <2>1, FundAssumption DEF LockTyped
<1>3. CASE LockLapses
  <2>1. lock' \in Lock /\ lock'.owner = lock.owner
    BY <1>0, <1>3 DEF LockLapses, Lock
  <2> QED
    BY <2>1 DEF LockTyped
<1>4. ASSUME NEW a \in Actors, Locked(a),
             \A c \in Calls : c = a => call'[c].step = "locked"
      PROVE  Goal
  <2>1. lock' \in Lock /\ lock'.owner = a
    BY <1>4 DEF Locked, Lock
  <2> QED
    BY <1>4, <2>1 DEF LockTyped
<1> HIDE DEF Goal
<1>5. ASSUME NEW c \in Calls, AcquireLock(c) PROVE Goal
  <2>1. CASE Locked(c) /\ Goto(c, "locked")
    <3>1. call'[c].step = "locked"
      BY <1>0, <2>1 DEF Goto, CallRow
    <3> QED
      BY <1>4, <2>1, <3>1 DEF Actors
  <2>2. CASE Leave(c, "unavailable")
    BY <1>2, <2>2 DEF Leave
  <2> QED
    BY <1>5, <2>1, <2>2 DEF AcquireLock
<1>6. ASSUME NEW r \in Recoverers, NEW k \in Keys, TakeLock(r, k) PROVE Goal
  BY <1>4, <1>6, FundAssumption DEF TakeLock, Actors
<1>7. CASE Environment
  BY <1>1, <1>3, <1>7 DEF Environment, Land, Drop, AddHandRow, Die, Goal
<1>8. CASE \E c \in Calls : CallStep(c)
  BY <1>1, <1>2, <1>5, <1>8
  DEF CallStep, PreCheck, Recheck, ReadBalance, Prepare, Submit, RecordCreated,
      CreateUnknown, ReadBack, CommitSuccess, CommitMismatch, Cancel, Leave, Goal
<1>9. CASE \E r \in Recoverers : WorkerStep(r)
  BY <1>1, <1>2, <1>6, <1>9
  DEF WorkerStep, Drive, RecordReplayed, ReplayFails, RecoveryReadBack,
      RecoverySettles, ReviewOrRetry, WorkerLeaves, Goal
<1> QED
  BY <1>7, <1>8, <1>9 DEF Next, Goal

\* A call that is at none of the steps the invariant speaks of.
Plain(step) == step \notin {"reading", "read"} \cup Planned

SameCall(c) == /\ call'[c].key = call[c].key
               /\ call'[c].plan.before = call[c].plan.before

CallRowNext(c) ==
    \/ call'[c] = call[c]
    \/ Plain(call'[c].step)
    \/ /\ call'[c].step = "reading" /\ call'[c].key = call[c].key
       /\ ~OtherUnfinished(call[c].key) /\ UNCHANGED exec
    \/ /\ call[c].step = "reading" /\ call'[c].step = "read"
       /\ call'[c].key = call[c].key /\ call'[c].plan.before = balance
       /\ UNCHANGED <<exec, source>>
    \/ /\ call[c].step = "read" /\ call'[c].step = "prepared"
       /\ SameCall(c) /\ call'[c].plan.credit \in Nat \ {0}
    \/ /\ call[c].step = "prepared" /\ call'[c].step = "waiting"
       /\ call'[c].key = call[c].key /\ call'[c].plan = call[c].plan
       /\ exec[call[c].key].state = "prepared" /\ UNCHANGED source
    \/ /\ call[c].step \in Sent
       /\ call'[c].step \in {"reading_back", "verified", "mismatched"}
       /\ call'[c].key = call[c].key /\ call'[c].plan = call[c].plan
       /\ call'[c].step = "verified" =>
             Verified(call[c].key, call[c].plan) /\ UNCHANGED source

LEMMA OneCall ==
    ASSUME Typed, NEW c \in Calls, NEW row \in CallRow,
           call' = [call EXCEPT ![c] = row], call'[c] = row => CallRowNext(c)
    PROVE  CallTyped' /\ \A d \in Calls : CallRowNext(d)
<1>1. call'[c] = row /\ CallTyped' /\ \A d \in Calls \ {c} : call'[d] = call[d]
  BY DEF Typed, CallTyped
<1> QED
  BY <1>1 DEF CallRowNext

LEMMA StepOf ==
    ASSUME Typed, NEW c \in Calls, NEW step \in CallSteps
    PROVE  LET row == [call[c] EXCEPT !.step = step]
           IN  /\ row \in CallRow /\ row.step = step
               /\ row.key = call[c].key /\ row.plan = call[c].plan
  BY DEF Typed, CallTyped, CallRow

LEMMA CallGoes ==
    ASSUME Typed, NEW c \in Calls, NEW step \in CallSteps, Goto(c, step),
           call'[c].step = step /\ call'[c].key = call[c].key
             /\ call'[c].plan = call[c].plan => CallRowNext(c)
    PROVE  CallTyped' /\ \A d \in Calls : CallRowNext(d)
<1> DEFINE row == [call[c] EXCEPT !.step = step]
<1>1. row \in CallRow /\ row.step = step /\ row.key = call[c].key
      /\ row.plan = call[c].plan
  BY StepOf
<1>2. call' = [call EXCEPT ![c] = row]
  BY DEF Goto
<1> HIDE DEF row
<1> QED
  BY <1>1, <1>2, OneCall

LEMMA CallLeaves ==
    ASSUME Typed, NEW c \in Calls, NEW outcome \in Outcomes, Leave(c, outcome)
    PROVE  CallTyped' /\ \A d \in Calls : CallRowNext(d)
<1> DEFINE row == [call[c] EXCEPT !.step = "done", !.outcome = outcome]
<1>1. row \in CallRow /\ row.step = "done"
  BY DEF Typed, CallTyped, CallRow, CallSteps
<1>2. call' = [call EXCEPT ![c] = row]
  BY DEF Leave
<1> HIDE DEF row
<1> QED
  BY <1>1, <1>2, OneCall DEF CallRowNext, Plain, Planned, Sent

LEMMA NextCalls ==
    ASSUME IInv, Next PROVE CallTyped' /\ \A c \in Calls : CallRowNext(c)
<1> DEFINE Goal == CallTyped' /\ \A c \in Calls : CallRowNext(c)
<1>0. Typed /\ call \in [Calls -> CallRow]
  BY DEF IInv, Typed, CallTyped
<1>1. CASE UNCHANGED call
  BY <1>0, <1>1 DEF CallTyped, CallRowNext
<1>2. ASSUME NEW c \in Calls, NEW outcome \in Outcomes, Leave(c, outcome) PROVE Goal
  BY <1>0, <1>2, CallLeaves
<1>3. ASSUME NEW c \in Calls, NEW step \in {"checked", "locked", "done", "dead"},
             Goto(c, step)
      PROVE  Goal
  <2>1. step \in CallSteps /\ Plain(step)
    BY DEF CallSteps, Plain, Planned, Sent
  <2> QED
    BY <1>0, <1>3, <2>1, CallGoes DEF CallRowNext
<1>4. ASSUME NEW c \in Calls, call[c].step \in Sent,
             NEW step \in {"reading_back", "verified", "mismatched"}, Goto(c, step),
             step = "verified" =>
               Verified(call[c].key, call[c].plan) /\ UNCHANGED source
      PROVE  Goal
  <2>1. step \in CallSteps
    BY DEF CallSteps
  <2> QED
    BY <1>0, <1>4, <2>1, CallGoes DEF CallRowNext
<1> HIDE DEF Goal
<1>5. {"unavailable", "commit_unknown", "no_change", "mismatch", "stale", "created"}
        \subseteq Outcomes
  BY DEF Outcomes
<1>6. ASSUME NEW c \in Calls, NEW k \in Keys, PreCheck(c, k) PROVE Goal
  <2>1. PICK step \in {"done", "checked"},
             outcome \in {"none", "idempotent_replay", "commit_unknown"} :
          call' = [call EXCEPT ![c] = [step |-> step, key |-> k, plan |-> NoRecharge,
                                       outcome |-> outcome]]
    BY <1>6 DEF PreCheck
  <2> DEFINE row == [step |-> step, key |-> k, plan |-> NoRecharge,
                     outcome |-> outcome]
  <2>2. row \in CallRow /\ row.step = step /\ Plain(step)
    BY DEF CallRow, CallSteps, Outcomes, NoRecharge, Recharge, Plain, Planned, Sent
  <2>3. call' = [call EXCEPT ![c] = row]
    BY <2>1
  <2> HIDE DEF row
  <2> QED
    BY <1>0, <2>2, <2>3, OneCall DEF CallRowNext, Goal
<1>7. ASSUME NEW c \in Calls, AcquireLock(c) PROVE Goal
  BY <1>2, <1>3, <1>5, <1>7 DEF AcquireLock
<1>8. ASSUME NEW c \in Calls, Recheck(c) PROVE Goal
  <2>1. CASE Goto(c, "reading") /\ ~OtherUnfinished(call[c].key)
    <3>1. "reading" \in CallSteps /\ UNCHANGED exec
      BY <1>8 DEF CallSteps, Recheck
    <3> QED
      BY <1>0, <2>1, <3>1, CallGoes DEF CallRowNext, Goal
  <2> QED
    BY <1>2, <1>5, <1>8, <2>1 DEF Recheck
<1>9. ASSUME NEW c \in Calls, ReadBalance(c) PROVE Goal
  <2> DEFINE plan == [call[c].plan EXCEPT !.before = balance]
             row == [[call[c] EXCEPT !.step = "read"] EXCEPT !.plan = plan]
  <2>1. CASE call' = [call EXCEPT ![c] = [call[c] EXCEPT !.step = "read",
                                                         !.plan.before = balance]]
    <3>1. call[c].plan \in Recharge /\ balance \in Int
      BY <1>0, PlanFields DEF Typed, SourceTyped
    <3>2. plan \in Recharge /\ plan.before = balance
      BY <3>1 DEF Recharge
    <3>3. call' = [call EXCEPT ![c] = row]
      BY <1>0, <2>1 DEF CallRow
    <3> HIDE DEF plan
    <3>4. row \in CallRow /\ row.step = "read" /\ row.key = call[c].key
          /\ row.plan = plan
      BY <1>0, <3>2 DEF CallRow, CallSteps
    <3> HIDE DEF row
    <3>5. call'[c] = row => CallRowNext(c)
      BY <1>9, <3>2, <3>4 DEF ReadBalance, CallRowNext
    <3> QED
      BY <1>0, <3>3, <3>4, <3>5, OneCall DEF Goal
  <2> QED
    BY <1>2, <1>5, <1>9, <2>1 DEF ReadBalance
<1>10. ASSUME NEW c \in Calls, Prepare(c) PROVE Goal
  <2> DEFINE credit == Credit(Ask[call[c].key], call[c].plan.before)
             plan == [call[c].plan EXCEPT !.credit = credit]
             row == [call[c] EXCEPT !.step = "prepared", !.plan = plan]
  <2>1. CASE Writable(credit) /\ call' = [call EXCEPT ![c] = row]
    <3>1. credit \in Nat \ {0}
      BY <1>0, <2>1, CreditIsInt DEF Writable
    <3> HIDE DEF credit
    <3>2. plan \in Recharge /\ plan.credit = credit
          /\ plan.before = call[c].plan.before
      BY <1>0, <3>1, PlanFields
    <3> HIDE DEF plan
    <3>3. row \in CallRow /\ row.step = "prepared" /\ row.key = call[c].key
          /\ row.plan = plan
      BY <1>0, <3>2 DEF CallRow, CallSteps
    <3>4. call' = [call EXCEPT ![c] = row]
      BY <2>1
    <3> HIDE DEF row
    <3>5. call'[c] = row => CallRowNext(c)
      BY <1>10, <3>1, <3>2, <3>3 DEF Prepare, CallRowNext, SameCall
    <3> QED
      BY <1>0, <3>3, <3>4, <3>5, OneCall DEF Goal
  <2>2. \/ Writable(credit) /\ call' = [call EXCEPT ![c] = row]
        \/ \E outcome \in {"unavailable", "no_change", "mismatch", "commit_unknown"} :
              Leave(c, outcome)
    BY <1>10 DEF Prepare
  <2> QED
    BY <1>2, <1>5, <2>1, <2>2
<1>11. ASSUME NEW c \in Calls, Submit(c) PROVE Goal
  <2>1. CASE Goto(c, "waiting") /\ exec[call[c].key].state = "prepared"
    <3>1. "waiting" \in CallSteps /\ call[c].step = "prepared" /\ UNCHANGED source
      BY <1>11 DEF CallSteps, Submit
    <3> QED
      BY <1>0, <2>1, <3>1, CallGoes DEF CallRowNext, Goal
  <2> QED
    BY <1>2, <1>5, <1>11, <2>1 DEF Submit
<1>12. ASSUME NEW c \in Calls, RecordCreated(c) PROVE Goal
  BY <1>2, <1>4, <1>5, <1>12 DEF RecordCreated, Sent
<1>13. ASSUME NEW c \in Calls, ReadBack(c) PROVE Goal
  <2>1. call[c].step \in Sent /\ UNCHANGED source
    BY <1>13 DEF ReadBack, Sent
  <2>2. CASE Goto(c, IF Verified(call[c].key, call[c].plan) THEN "verified"
                     ELSE "mismatched")
    BY <1>4, <2>1, <2>2
  <2> QED
    BY <1>2, <1>4, <1>5, <1>13, <2>1, <2>2 DEF ReadBack
<1>14. ASSUME NEW c \in Calls,
              \/ CreateUnknown(c) \/ CommitSuccess(c) \/ CommitMismatch(c)
              \/ Cancel(c)
       PROVE  Goal
  BY <1>2, <1>3, <1>5, <1>14
  DEF CreateUnknown, CommitSuccess, CommitMismatch, Cancel
<1>15. ASSUME NEW S, Die(S) PROVE Goal
  <2>1. \A c \in Calls : call'[c] = call[c] \/
            call'[c] = [call[c] EXCEPT !.step = "dead"]
    BY <1>15 DEF Die
  <2>2. \A c \in Calls : call'[c] \in CallRow /\
            (call'[c] = call[c] \/ call'[c].step = "dead")
    <3>1. ASSUME NEW c \in Calls
          PROVE  /\ call[c] \in CallRow
                 /\ [call[c] EXCEPT !.step = "dead"] \in CallRow
                 /\ [call[c] EXCEPT !.step = "dead"].step = "dead"
      BY <1>0 DEF CallRow, CallSteps
    <3> QED
      BY <2>1, <3>1
  <2>3. call' \in [Calls -> CallRow]
    BY <1>15, <2>2 DEF Die
  <2> QED
    BY <2>2, <2>3 DEF CallTyped, CallRowNext, Plain, Planned, Sent, Goal
<1>16. CASE Environment
  <2>1. UNCHANGED call \/ \E S \in Processes : Die(S)
    BY <1>16 DEF Environment, Land, Drop, AddHandRow, LockLapses
  <2>2. CASE UNCHANGED call
    BY <1>1, <2>2 DEF Goal
  <2>3. CASE \E S \in Processes : Die(S)
    BY <1>15, <2>3 DEF Goal
  <2> QED
    BY <2>1, <2>2, <2>3 DEF Goal
<1>17. CASE \E c \in Calls : CallStep(c)
  BY <1>6, <1>7, <1>8, <1>9, <1>10, <1>11, <1>12, <1>13, <1>14, <1>17
  DEF CallStep, Goal
<1>18. CASE \E r \in Recoverers : WorkerStep(r)
  BY <1>1, <1>18
  DEF WorkerStep, TakeLock, Drive, RecordReplayed, ReplayFails, RecoveryReadBack,
      RecoverySettles, Goal
<1> QED
  BY <1>16, <1>17, <1>18 DEF Next, Goal
\* A read-back that adds up has found the row that was meant.
LEMMA VerifiedMatches ==
    ASSUME IInv, NEW k \in Keys, NEW plan, plan.credit \in Nat \ {0},
           plan.before \in Nat, LandedSince(k, plan.before), Verified(k, plan)
    PROVE  Matches(k, plan)
<1>1. /\ landed[k].credit \in Nat /\ landed[k].onto \in Nat /\ balance \in Nat
      /\ landed[k] = NoRow \/ landed[k].onto + landed[k].credit <= balance
  BY DEF IInv, Typed, SourceTyped, LandedRow, ExecInv
<1>2. landed[k] # NoRow
  BY DEF Verified, NoRow
<1>3. /\ landed[k].onto + landed[k].credit <= plan.before + plan.credit
      /\ plan.before <= landed[k].onto
      /\ landed[k].credit = plan.credit
  BY <1>1, <1>2 DEF Verified, LandedSince
<1>4. ASSUME NEW onto \in Nat, NEW credit \in Nat, NEW before \in Nat,
             onto + credit <= before + credit, before <= onto
      PROVE  onto = before
  BY <1>4
<1> QED
  BY <1>1, <1>3, <1>4 DEF Matches

LEMMA CallStays ==
    ASSUME IInv, Next, NEW c \in Calls PROVE CallInv(c)'
<1> DEFINE k == call[c].key
           plan == call[c].plan
<1>0. /\ CallRowNext(c) /\ CallInv(c) /\ call[c].key \in Keys
      /\ balance \in Nat /\ balance' \in Nat /\ balance <= balance'
  BY NextCalls, NextSource, PlanFields DEF IInv, Typed, SourceTyped
<1>1. ASSUME call[c].step \in {"read"} \cup Planned
      PROVE  /\ plan.before \in Nat /\ plan.before <= balance'
             /\ LandedSince(k, plan.before) => SinceNext(k, plan.before)
             /\ Matches(k, plan) /\ plan.credit > 0 => MatchesNext(k, plan)
  <2>1. plan.before \in Nat /\ plan.before <= balance
    BY <1>0, <1>1 DEF CallInv
  <2> HIDE DEF plan, k
  <2> QED
    BY <1>0, <2>1, SourceKeeps DEF k
<1>2. call[c].step \in Planned => plan.credit \in Nat \ {0} /\ plan.credit > 0
  BY <1>0 DEF CallInv
<1>3. CASE call'[c] = call[c]
  <2>1. CASE call[c].step \in {"read"} \cup Planned
    BY <1>0, <1>1, <1>2, <1>3, <2>1
    DEF CallInv, LandedSince, SinceNext, Matches, MatchesNext, Planned, Sent
  <2> QED
    BY <1>3, <2>1 DEF CallInv, Planned, Sent
<1>4. CASE Plain(call'[c].step)
  BY <1>4 DEF Plain, CallInv, Planned, Sent
<1>5. CASE call'[c].step = "reading"
  BY <1>5 DEF CallInv, Planned, Sent
<1>6. CASE call'[c].step = "read" /\ call'[c].plan.before = balance /\ UNCHANGED source
  BY <1>0, <1>6 DEF CallInv, Planned, Sent, source
<1>7. CASE /\ call[c].step = "read" /\ call'[c].step = "prepared"
           /\ SameCall(c) /\ call'[c].plan.credit \in Nat \ {0}
  BY <1>0, <1>1, <1>7 DEF CallInv, Planned, Sent, SameCall
<1>8. CASE /\ call[c].step = "prepared" /\ call'[c].step = "waiting"
           /\ call'[c].key = k /\ call'[c].plan = plan
           /\ exec[k].state = "prepared" /\ UNCHANGED source
  <2>1. landed'[k] = NoRow
    BY <1>0, <1>8 DEF IInv, ExecInv, source
  <2> QED
    BY <1>0, <1>1, <1>2, <1>8, <2>1 DEF CallInv, Planned, Sent, LandedSince
<1>9. CASE /\ call[c].step \in Sent
           /\ call'[c].step \in {"reading_back", "verified", "mismatched"}
           /\ call'[c].key = k /\ call'[c].plan = plan
           /\ call'[c].step = "verified" => Verified(k, plan) /\ UNCHANGED source
  <2>1. /\ plan.credit \in Nat \ {0} /\ plan.before \in Nat
        /\ LandedSince(k, plan.before)
    BY <1>0, <1>1, <1>2, <1>9 DEF CallInv, Planned
  <2>2. call'[c].step = "verified" => MatchesNext(k, plan)
    BY <1>0, <1>9, <2>1, VerifiedMatches DEF Matches, MatchesNext, source
  <2>3. SinceNext(k, plan.before) /\ plan.before <= balance'
    BY <1>1, <1>9, <2>1 DEF Planned
  <2> QED
    BY <1>9, <2>1, <2>2, <2>3
    DEF CallInv, Planned, Sent, LandedSince, SinceNext, Matches, MatchesNext
<1> QED
  BY <1>0, <1>3, <1>4, <1>5, <1>6, <1>7, <1>8, <1>9 DEF CallRowNext

LEMMA AloneStays ==
    ASSUME IInv, Next, NEW c \in Calls PROVE AloneInv(c)'
<1> SUFFICES ASSUME lock'.owner = c, call'[c].step \in {"reading", "read"}
             PROVE  ~OtherUnfinished(call[c].key)' /\ call'[c].key = call[c].key
  BY DEF AloneInv, OtherUnfinished
<1>0. CallRowNext(c) /\ lock.owner = c /\ call[c].key \in Keys /\ AloneInv(c)
  BY NextCalls, NextLock, PlanFields DEF IInv
<1>1. call'[c].key = call[c].key /\ ~OtherUnfinished(call[c].key)
  BY <1>0 DEF CallRowNext, AloneInv, Plain, Planned, Sent
<1>2. ASSUME NEW o \in Keys, o # call[c].key PROVE ~Unfinished(o)'
  <2>1. ~Unfinished(o)
    BY <1>1, <1>2 DEF OtherUnfinished
  <2>2. ASSUME ExecOpens(o) PROVE FALSE
    <3>1. PICK d \in Calls : /\ call[d].key = o /\ StillHeld(d)
                             /\ call'[d].step = "prepared"
      BY <2>2 DEF ExecOpens
    <3> QED
      BY <1>0, <1>2, <3>1 DEF StillHeld
  <2> QED
    BY <1>2, <2>1, <2>2, OnlyOpensOpen
<1> QED
  BY <1>1, <1>2 DEF OtherUnfinished

WorkerRowNext(r) ==
    \/ worker'[r] = worker[r]
    \/ worker'[r].step = "idle"
    \/ /\ worker'[r].step = "driving"
       /\ Unfinished(worker'[r].key) /\ UNCHANGED exec
    \/ /\ worker[r].step # "idle" /\ worker'[r].key = worker[r].key
       /\ worker'[r].step \in {"waiting", "reading_back", "mismatched"}
    \/ /\ worker[r].step # "idle" /\ worker'[r].key = worker[r].key
       /\ worker'[r].step = "verified" /\ UNCHANGED <<exec, source>>
       /\ Verified(worker[r].key, exec[worker[r].key].plan)

LEMMA OneWorker ==
    ASSUME Typed, NEW r \in Recoverers, NEW row \in WorkerRow,
           worker' = [worker EXCEPT ![r] = row], worker'[r] = row => WorkerRowNext(r)
    PROVE  WorkerTyped' /\ \A v \in Recoverers : WorkerRowNext(v)
<1>1. /\ worker'[r] = row /\ WorkerTyped'
      /\ \A v \in Recoverers \ {r} : worker'[v] = worker[v]
  BY DEF Typed, WorkerTyped
<1> QED
  BY <1>1 DEF WorkerRowNext

LEMMA WorkerGoes ==
    ASSUME Typed, NEW r \in Recoverers, NEW step \in WorkerSteps, WorkerGoto(r, step),
           worker'[r].step = step /\ worker'[r].key = worker[r].key
             => WorkerRowNext(r)
    PROVE  WorkerTyped' /\ \A v \in Recoverers : WorkerRowNext(v)
<1> DEFINE row == [worker[r] EXCEPT !.step = step]
<1>1. row \in WorkerRow /\ row.step = step /\ row.key = worker[r].key
  BY DEF Typed, WorkerTyped, WorkerRow
<1>2. worker' = [worker EXCEPT ![r] = row]
  BY DEF WorkerGoto
<1> HIDE DEF row
<1> QED
  BY <1>1, <1>2, OneWorker

LEMMA NextWorkers ==
    ASSUME IInv, Next PROVE WorkerTyped' /\ \A r \in Recoverers : WorkerRowNext(r)
<1> DEFINE Goal == WorkerTyped' /\ \A r \in Recoverers : WorkerRowNext(r)
<1>0. Typed /\ worker \in [Recoverers -> WorkerRow]
  BY DEF IInv, Typed, WorkerTyped
<1>1. UNCHANGED worker => Goal
  BY <1>0 DEF WorkerTyped, WorkerRowNext
<1>2. ASSUME NEW r \in Recoverers, WorkerLeaves(r) PROVE Goal
  BY <1>0, <1>2, WorkerGoes DEF WorkerLeaves, WorkerSteps, WorkerRowNext
<1>3. ASSUME NEW r \in Recoverers, worker[r].step # "idle",
             NEW step \in {"waiting", "reading_back", "mismatched"},
             WorkerGoto(r, step)
      PROVE  Goal
  BY <1>0, <1>3, WorkerGoes DEF WorkerSteps, WorkerRowNext
<1> HIDE DEF Goal
<1>4. ASSUME NEW r \in Recoverers, NEW k \in Keys, TakeLock(r, k) PROVE Goal
  <2> DEFINE row == [step |-> "driving", key |-> k]
  <2>1. row \in WorkerRow /\ row.step = "driving" /\ row.key = k
    BY DEF WorkerRow, WorkerSteps
  <2>2. /\ worker' = [worker EXCEPT ![r] = row]
        /\ Unfinished(k) /\ UNCHANGED exec
    BY <1>4 DEF TakeLock
  <2> HIDE DEF row
  <2> QED
    BY <1>0, <2>1, <2>2, OneWorker DEF WorkerRowNext, Goal
<1>5. ASSUME NEW r \in Recoverers, RecoveryReadBack(r) PROVE Goal
  <2> DEFINE k == worker[r].key
  <2>1. CASE Verified(k, exec[k].plan) /\ WorkerGoto(r, "verified") /\ UNCHANGED exec
    <3>1. worker[r].step # "idle" /\ UNCHANGED source
      BY <1>5 DEF RecoveryReadBack
    <3> QED
      BY <1>0, <2>1, <3>1, WorkerGoes DEF WorkerSteps, WorkerRowNext, Goal
  <2>2. \/ Verified(k, exec[k].plan) /\ WorkerGoto(r, "verified") /\ UNCHANGED exec
        \/ WorkerGoto(r, "mismatched") \/ WorkerLeaves(r)
    BY <1>5 DEF RecoveryReadBack, ReviewOrRetry
  <2> QED
    BY <1>2, <1>3, <1>5, <2>1, <2>2 DEF RecoveryReadBack
<1>6. ASSUME NEW r \in Recoverers,
             Drive(r) \/ RecordReplayed(r) \/ ReplayFails(r) \/ RecoverySettles(r)
      PROVE  Goal
  BY <1>2, <1>3, <1>6
  DEF Drive, RecordReplayed, ReplayFails, RecoverySettles, ReviewOrRetry
<1>7. ASSUME NEW S, Die(S) PROVE Goal
  <2>1. ASSUME NEW r \in Recoverers
        PROVE  /\ [worker[r] EXCEPT !.step = "idle"] \in WorkerRow
               /\ [worker[r] EXCEPT !.step = "idle"].step = "idle"
    BY <1>0 DEF WorkerRow, WorkerSteps
  <2>2. worker' \in [Recoverers -> WorkerRow]
    BY <1>0, <1>7, <2>1 DEF Die
  <2>3. \A r \in Recoverers : worker'[r] = worker[r] \/ worker'[r].step = "idle"
    BY <1>7, <2>1 DEF Die
  <2> QED
    BY <2>2, <2>3 DEF WorkerTyped, WorkerRowNext, Goal
<1>8. CASE Environment
  <2>1. UNCHANGED worker \/ \E S \in Processes : Die(S)
    BY <1>8 DEF Environment, Land, Drop, AddHandRow, LockLapses
  <2> QED
    BY <1>1, <1>7, <2>1 DEF Goal
<1>9. CASE \E c \in Calls : CallStep(c)
  BY <1>1, <1>9
  DEF CallStep, PreCheck, AcquireLock, Recheck, ReadBalance, Prepare, Submit,
      RecordCreated, CreateUnknown, ReadBack, CommitSuccess, CommitMismatch, Cancel,
      Goal
<1>10. CASE \E r \in Recoverers : WorkerStep(r)
  BY <1>4, <1>5, <1>6, <1>10 DEF WorkerStep, Goal
<1> QED
  BY <1>8, <1>9, <1>10 DEF Next, Goal

LEMMA WorkerStays ==
    ASSUME IInv, Next, NEW r \in Recoverers PROVE WorkerInv(r)'
<1>0. /\ WorkerRowNext(r) /\ WorkerInv(r) /\ worker[r].key \in Keys
      /\ worker'[r].key \in Keys
  BY NextWorkers, WorkerKeys DEF IInv, WorkerTyped, WorkerRow
<1>1. ASSUME NEW k \in Keys, exec[k].state # "absent"
      PROVE  exec'[k].state # "absent"
  BY <1>1, ExecRows DEF ExecRowNext, ExecOpens, Exists
<1>2. CASE worker'[r].step = "idle"
  BY <1>2 DEF WorkerInv
<1>3. CASE worker'[r] = worker[r] /\ worker[r].step # "idle"
  <2> DEFINE k == worker[r].key
  <2>1. exec[k].state # "absent" /\ exec'[k].state # "absent"
    BY <1>0, <1>1, <1>3 DEF WorkerInv
  <2>2. ASSUME worker[r].step = "verified", Unfinished(k)'
        PROVE  MatchesNext(k, exec[k].plan) /\ exec'[k].plan = exec[k].plan
    <3>0. ExecRowNext(k) /\ exec'[k].state \notin TerminalStates
      BY <1>0, <1>3, <2>2, ExecRows DEF Unfinished
    <3>1. Unfinished(k) /\ exec'[k].plan = exec[k].plan
      BY <2>1, <1>3, <2>2, <3>0
      DEF ExecRowNext, ExecOpens, Exists, Unfinished, TerminalStates
    <3>2. /\ exec[k].plan.before \in Nat /\ exec[k].plan.before <= balance
          /\ exec[k].plan.credit > 0 /\ Matches(k, exec[k].plan)
      BY <1>0, <2>1, <2>2, <3>1 DEF IInv, Typed, ExecTyped, ExecRow, ExecInv, WorkerInv
    <3> QED
      BY <1>0, <3>1, <3>2, SourceKeeps
  <2> QED
    BY <1>3, <2>1, <2>2 DEF WorkerInv, Matches, MatchesNext
<1>4. CASE /\ worker'[r].step = "driving"
           /\ Unfinished(worker'[r].key) /\ UNCHANGED exec
  BY <1>4 DEF WorkerInv, Unfinished, Exists
<1>5. CASE /\ worker[r].step # "idle" /\ worker'[r].key = worker[r].key
           /\ worker'[r].step \in {"waiting", "reading_back", "mismatched"}
  BY <1>0, <1>1, <1>5 DEF WorkerInv
<1>6. CASE /\ worker[r].step # "idle" /\ worker'[r].key = worker[r].key
           /\ worker'[r].step = "verified" /\ UNCHANGED <<exec, source>>
           /\ Verified(worker[r].key, exec[worker[r].key].plan)
  <2> DEFINE k == worker[r].key
             plan == exec[k].plan
  <2>1. exec[k].state # "absent"
    BY <1>0, <1>6 DEF WorkerInv
  <2>2. /\ plan.before \in Nat /\ plan.credit \in Nat \ {0}
        /\ LandedSince(k, plan.before)
    BY <1>0, <2>1 DEF IInv, Typed, ExecTyped, ExecRow, ExecInv
  <2>3. Matches(k, plan)
    <3> HIDE DEF plan
    <3> QED
      BY <1>0, <1>6, <2>2, VerifiedMatches DEF plan
  <2>4. MatchesNext(k, plan)
    BY <1>6, <2>3 DEF Matches, MatchesNext, source
  <2> QED
    BY <1>6, <2>1, <2>4 DEF WorkerInv, Matches, MatchesNext
<1> QED
  BY <1>0, <1>2, <1>3, <1>4, <1>5, <1>6 DEF WorkerRowNext

-----------------------------------------------------------------------------
(* The inductive invariant, and what follows.                              *)

LEMMA NextIInv == IInv /\ [Next]_vars => IInv'
<1> SUFFICES ASSUME IInv, [Next]_vars PROVE IInv'
  OBVIOUS
<1>1. CASE Next
  <2>1. Typed'
    <3>1. LockTyped' /\ ExecTyped' /\ CallTyped' /\ WorkerTyped' /\ SourceTyped'
      BY <1>1, NextLock, ExecRows, NextCalls, NextWorkers, NextSource
    <3>2. WireTyped' /\ OverlapTyped'
      BY <1>1, NextWire, NextAnswered
      DEF WireTyped, OverlapTyped, Next, IInv, Typed
    <3> QED
      BY <3>1, <3>2 DEF Typed
  <2>2. \A k \in Keys : ExecInv(k)'
    BY <1>1, ExecStep
  <2>3. \A c \in Calls : CallInv(c)' /\ AloneInv(c)'
    BY <1>1, CallStays, AloneStays
  <2>4. \A r \in Recoverers : WorkerInv(r)'
    BY <1>1, WorkerStays
  <2> QED
    BY <1>1, <2>1, <2>2, <2>3, <2>4, OneOpenStep DEF IInv
<1>2. CASE UNCHANGED vars
  <2>1. Typed' /\ OneOpen'
    BY <1>2 DEF IInv, vars, source, Typed, LockTyped, ExecTyped, CallTyped,
       WorkerTyped, WireTyped, SourceTyped, OverlapTyped, OneOpen, Unfinished, Exists
  <2>2. \A k \in Keys : ExecInv(k)'
    BY <1>2 DEF IInv, vars, ExecInv, LandedSince, Matches
  <2>3. \A c \in Calls : CallInv(c)' /\ AloneInv(c)'
    BY <1>2 DEF IInv, vars, CallInv, AloneInv, LandedSince, Matches, OtherUnfinished,
       Unfinished, Exists
  <2>4. \A r \in Recoverers : WorkerInv(r)'
    BY <1>2 DEF IInv, vars, WorkerInv, Matches, Unfinished, Exists
  <2> QED
    BY <2>1, <2>2, <2>3, <2>4 DEF IInv
<1> QED
  BY <1>1, <1>2

LEMMA Invariance == Spec => []IInv
  BY InitIInv, NextIInv, PTL DEF Spec

(* The lock, the executions, the calls, the workers, what is on the wire    *)
(* and the ledger hold what they are declared to.                          *)
THEOREM TypeCorrect == Spec => []TypeOK
<1>1. IInv => TypeOK
  BY TypedIsTypeOK DEF IInv
<1> QED
  BY <1>1, Invariance, PTL

(* No second recharge is opened while one is, for any number of keys, calls *)
(* and workers: the second look under the lock (update_family_fund) and the *)
(* renewal before the write make up for a lock that may lapse at any time. *)
THEOREM OneRechargeAtATime == Spec => []OneOpenRecharge
<1>1. IInv => OneOpenRecharge
  <2> DEFINE Open == {k \in Keys : Unfinished(k)}
  <2> SUFFICES ASSUME IInv PROVE Cardinality(Open) <= 1
    BY DEF OneOpenRecharge
  <2>1. CASE Open = {}
    BY <2>1, FS_EmptySet
  <2>2. CASE Open # {}
    <3>1. PICK k \in Open : TRUE
      BY <2>2
    <3>2. Open = {k}
      BY <3>1 DEF IInv, OneOpen
    <3> HIDE DEF Open
    <3>3. Cardinality({k}) = 1
      BY FS_Singleton
    <3> QED
      BY <3>2, <3>3
  <2> QED
    BY <2>1, <2>2
<1> QED
  BY <1>1, Invariance, PTL

(* A recharge that is recorded as succeeded landed on the balance it was    *)
(* computed from, whoever verified it (verify_family_fund_recovery).       *)
THEOREM SuccessIsOnPlan == Spec => []SuccessLandedOnPlan
<1>1. IInv => SuccessLandedOnPlan
  BY DEF IInv, ExecInv, Matches, SuccessLandedOnPlan
<1> QED
  BY <1>1, Invariance, PTL
-----------------------------------------------------------------------------
(* One process.                                                            *)

\* Between its look at its own key and its write a call of a service in one
\* process is alone with it: no await comes in between, or it holds the lock.
SoloInv(c) ==
    ~overlap =>
        /\ call[c].step \in {"checked", "locked"} => ~Exists(call[c].key)
        /\ call[c].step \in {"reading", "read"} /\ lock.owner = c =>
              ~Exists(call[c].key)
        /\ call[c].outcome = "mismatch" =>
              exec[call[c].key].state = "needs_manual_review"

LEMMA OnlyOpensExist ==
    ASSUME IInv, Next, NEW k \in Keys, ~Exists(k), Exists(k)' PROVE ExecOpens(k)
  BY ExecRows DEF ExecRowNext, Unfinished, Exists

LEMMA ReviewStays ==
    ASSUME IInv, Next, NEW k \in Keys, exec[k].state = "needs_manual_review"
    PROVE  exec'[k].state = "needs_manual_review"
  BY ExecRows DEF ExecRowNext, ExecOpens, Unfinished, Exists, TerminalStates

LEMMA GotoKeeps ==
    ASSUME Typed, NEW c \in Calls, NEW step, Goto(c, step)
    PROVE  /\ call'[c].step = step /\ call'[c].key = call[c].key
           /\ call'[c].outcome = call[c].outcome
  BY DEF Typed, CallTyped, CallRow, Goto

LEMMA LeaveKeeps ==
    ASSUME Typed, NEW c \in Calls, NEW outcome, Leave(c, outcome)
    PROVE  /\ call'[c].step = "done" /\ call'[c].key = call[c].key
           /\ call'[c].outcome = outcome
  BY DEF Typed, CallTyped, CallRow, Leave

LEMMA SoloStays ==
    ASSUME IInv, Next, NEW c \in Calls, SoloInv(c) PROVE SoloInv(c)'
<1> SUFFICES ASSUME ~overlap
             PROVE  /\ call'[c].step \in {"checked", "locked"} =>
                          ~Exists(call[c].key)' /\ call'[c].key \in Keys
                    /\ call'[c].step \in {"reading", "read"} /\ lock'.owner = c =>
                          ~Exists(call[c].key)'
                    /\ call'[c].outcome = "mismatch" =>
                          exec'[call'[c].key].state = "needs_manual_review"
  BY DEF SoloInv, Next
<1> DEFINE k == call[c].key
           Goal == /\ call'[c].step \in {"checked", "locked"} =>
                         ~Exists(call[c].key)' /\ call'[c].key \in Keys
                   /\ call'[c].step \in {"reading", "read"} /\ lock'.owner = c =>
                         ~Exists(call[c].key)'
                   /\ call'[c].outcome = "mismatch" =>
                         exec'[call'[c].key].state = "needs_manual_review"
<1>0. /\ Typed /\ k \in Keys
      /\ call[c].step \in {"checked", "locked"} => ~Exists(k)
      /\ call[c].step \in {"reading", "read"} /\ lock.owner = c => ~Exists(k)
      /\ call[c].outcome = "mismatch" => exec[k].state = "needs_manual_review"
  BY PlanFields DEF IInv, SoloInv
<1>1. ASSUME call'[c].key = k, call'[c].outcome = call[c].outcome
      PROVE  call'[c].outcome = "mismatch" =>
                exec'[call'[c].key].state = "needs_manual_review"
  BY <1>0, <1>1, ReviewStays
<1>2. ASSUME call'[c] = call[c] PROVE Goal
  <2>1. ASSUME Exists(k)', ~Exists(k)
        PROVE  \E d \in Calls : /\ StillHeld(d) /\ Runs(d) /\ call[d].step = "read"
                                /\ call'[d].step = "prepared"
    <3>1. ExecOpens(k)
      BY <1>0, <1>2, <2>1, OnlyOpensExist DEF Exists
    <3> QED
      BY <3>1 DEF ExecOpens
  <2>2. ASSUME call[c].step \in {"checked", "locked"} PROVE ~Exists(k)'
    <3>1. ASSUME NEW d \in Calls, Runs(d), call[d].step = "read" PROVE FALSE
      <4>1. c \in Actors \ {d} /\ MidStretch(c)
        BY <2>2, <3>1 DEF Actors, MidStretch
      <4> QED
        BY <3>1, <4>1 DEF Runs
    <3> QED
      BY <1>0, <2>1, <2>2, <3>1
  <2>3. ASSUME call[c].step \in {"reading", "read"}, lock'.owner = c
        PROVE  ~Exists(k)'
    <3>1. lock.owner = c
      BY <1>2, <2>3, NextLock
    <3>2. ASSUME NEW d \in Calls, StillHeld(d), call'[d].step = "prepared" PROVE FALSE
      BY <1>2, <2>3, <3>1, <3>2 DEF StillHeld
    <3> QED
      BY <1>0, <2>1, <2>3, <3>1, <3>2
  <2> QED
    BY <1>0, <1>1, <1>2, <2>2, <2>3
<1>3. ASSUME call'[c].step \notin {"checked", "locked", "reading", "read"},
             \/ call'[c].key = k /\ call'[c].outcome = call[c].outcome
             \/ call'[c].outcome # "mismatch"
      PROVE  Goal
  BY <1>1, <1>3
<1>4. ASSUME NEW outcome \in Outcomes \ {"mismatch"}, Leave(c, outcome) PROVE Goal
  BY <1>0, <1>3, <1>4, LeaveKeeps
<1>5. ASSUME NEW step, step \notin {"checked", "locked", "reading", "read"},
             Goto(c, step)
      PROVE  Goal
  BY <1>0, <1>3, <1>5, GotoKeeps
<1>6. ASSUME UNCHANGED exec, NEW step, Goto(c, step), ~Exists(k) PROVE Goal
  <2>1. call'[c].key = k /\ call'[c].outcome = call[c].outcome
    BY <1>0, <1>6, GotoKeeps
  <2>2. ~Exists(call[c].key)'
    BY <1>6, <2>1 DEF Exists
  <2> QED
    BY <1>0, <1>1, <2>1, <2>2
<1> HIDE DEF Goal
<1>7. {"unavailable", "commit_unknown", "no_change", "stale", "created"}
        \subseteq Outcomes \ {"mismatch"}
  BY DEF Outcomes
<1>8. ASSUME NEW o \in Keys, PreCheck(c, o) PROVE Goal
  <2>1. /\ call'[c].key = o /\ call'[c].outcome # "mismatch"
        /\ call'[c].step = IF Refused(o) THEN "done" ELSE "checked"
        /\ UNCHANGED exec
    BY <1>0, <1>8 DEF PreCheck, Typed, CallTyped
  <2> QED
    BY <2>1 DEF Goal, Refused, Exists
<1>9. ASSUME AcquireLock(c) PROVE Goal
  BY <1>0, <1>4, <1>6, <1>7, <1>9 DEF AcquireLock
<1>10. ASSUME Recheck(c) PROVE Goal
  BY <1>0, <1>4, <1>6, <1>7, <1>10 DEF Recheck
<1>11. ASSUME ReadBalance(c) PROVE Goal
  <2>1. CASE /\ UNCHANGED <<lock, exec>> /\ call[c].step = "reading"
             /\ call'[c].key = k /\ call'[c].outcome = call[c].outcome
             /\ call'[c].step = "read"
    BY <1>0, <1>1, <2>1 DEF Goal, Exists
  <2>2. CASE Leave(c, "unavailable")
    BY <1>4, <1>7, <2>2
  <2> QED
    BY <1>0, <1>11, <2>1, <2>2 DEF ReadBalance, Typed, CallTyped, CallRow
<1>12. ASSUME Prepare(c) PROVE Goal
  <2>1. ASSUME StillHeld(c), exec[k].state = "succeeded" PROVE FALSE
    BY <1>0, <1>12, <2>1 DEF Prepare, StillHeld, Exists
  <2>2. \/ \E outcome \in {"unavailable", "no_change", "commit_unknown"} :
              Leave(c, outcome)
        \/ \E plan : call' = [call EXCEPT ![c] = [call[c] EXCEPT !.step = "prepared",
                                                                  !.plan = plan]]
    BY <1>12, <2>1 DEF Prepare
  <2>3. ASSUME NEW plan,
               call' = [call EXCEPT ![c] = [call[c] EXCEPT !.step = "prepared",
                                                           !.plan = plan]]
        PROVE  Goal
    <3>1. /\ call'[c].key = k /\ call'[c].outcome = call[c].outcome
          /\ call'[c].step = "prepared"
      BY <1>0, <2>3 DEF Typed, CallTyped, CallRow
    <3> QED
      BY <1>3, <3>1
  <2> QED
    BY <1>4, <1>7, <2>2, <2>3
<1>13. ASSUME Submit(c) \/ RecordCreated(c) \/ CreateUnknown(c) \/ ReadBack(c)
                 \/ CommitSuccess(c)
       PROVE  Goal
  BY <1>4, <1>5, <1>7, <1>13
  DEF Submit, RecordCreated, CreateUnknown, ReadBack, CommitSuccess
<1>14. ASSUME CommitMismatch(c) PROVE Goal
  <2>1. CASE MoveTo(k, "needs_manual_review") /\ Leave(c, "mismatch")
    <3>1. exec'[k].state = "needs_manual_review"
      BY <1>0, <2>1 DEF MoveTo, Typed, ExecTyped, ExecRow
    <3>2. call'[c].key = k /\ call'[c].step = "done"
      BY <1>0, <2>1, LeaveKeeps
    <3> QED
      BY <3>1, <3>2 DEF Goal
  <2> QED
    BY <1>4, <1>7, <1>14, <2>1 DEF CommitMismatch
<1>15. ASSUME Cancel(c) PROVE Goal
  BY <1>5, <1>15 DEF Cancel
<1>16. ASSUME NEW S, Die(S) PROVE Goal
  <2>1. call'[c] = call[c] \/ call'[c] = [call[c] EXCEPT !.step = "dead"]
    BY <1>16 DEF Die
  <2>2. CASE call'[c] = [call[c] EXCEPT !.step = "dead"]
    <3>1. /\ call'[c].key = k /\ call'[c].outcome = call[c].outcome
          /\ call'[c].step = "dead"
      BY <1>0, <2>2 DEF Typed, CallTyped, CallRow
    <3> QED
      BY <1>3, <3>1
  <2> QED
    BY <1>2, <2>1, <2>2
<1>17. ASSUME CallStep(c) PROVE Goal
  BY <1>8, <1>9, <1>10, <1>11, <1>12, <1>13, <1>14, <1>15, <1>17 DEF CallStep
<1>18. ASSUME NEW d \in Calls, d # c, CallStep(d) PROVE call'[c] = call[c]
  BY <1>0, <1>18
  DEF Typed, CallTyped, CallStep, PreCheck, AcquireLock, Recheck, ReadBalance,
      Prepare, Submit, RecordCreated, CreateUnknown, ReadBack, CommitSuccess,
      CommitMismatch, Cancel, Goto, Leave
<1>19. ASSUME NEW r \in Recoverers, WorkerStep(r) PROVE call'[c] = call[c]
  BY <1>19
  DEF WorkerStep, TakeLock, Drive, RecordReplayed, ReplayFails, RecoveryReadBack,
      RecoverySettles
<1>20. CASE Environment
  <2>1. call'[c] = call[c] \/ \E S \in Processes : Die(S)
    BY <1>20 DEF Environment, Land, Drop, AddHandRow, LockLapses
  <2> QED
    BY <1>2, <1>16, <2>1 DEF Goal
<1> QED
  BY <1>2, <1>17, <1>18, <1>19, <1>20 DEF Next, Goal

(* In one process no caller is told of a mismatch when its key has succeeded: *)
(* the look at its own key that update_family_fund does not repeat under the  *)
(* lock is made up for by the stretches of code between two awaits.           *)
THEOREM MismatchRealInOneProcess == Spec => []MismatchIsRealInOneProcess
<1> DEFINE Solo == \A c \in Calls : SoloInv(c)
<1>1. Init => Solo
  BY DEF Init, SoloInv
<1>2. IInv /\ Solo /\ [Next]_vars => Solo'
  <2> SUFFICES ASSUME IInv, Solo, [Next]_vars, NEW c \in Calls PROVE SoloInv(c)'
    OBVIOUS
  <2>1. CASE Next
    BY <2>1, SoloStays
  <2>2. CASE UNCHANGED vars
    BY <2>2 DEF vars, SoloInv, Exists
  <2> QED
    BY <2>1, <2>2
<1>3. Solo => MismatchIsRealInOneProcess
  BY DEF SoloInv, MismatchIsRealInOneProcess, MismatchIsReal
<1> HIDE DEF Solo
<1> QED
  BY <1>1, <1>2, <1>3, Invariance, PTL DEF Spec
=============================================================================
