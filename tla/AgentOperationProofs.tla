------------------------ MODULE AgentOperationProofs ------------------------
(***************************************************************************)
(* Proofs about AgentOperation, for any operations, any plan and any       *)
(* bounds: the types, the four invariants of the operation table, and that *)
(* the Agent and Finance keep the promise of LedgerWrite.                  *)
(***************************************************************************)
EXTENDS AgentOperation, TLAPS

-----------------------------------------------------------------------------
(* The operations and the table of their moves.                            *)

LEMMA Sorts ==
    /\ Anchor \in DeviceOps
    /\ FinanceOps \cap DeviceOps = {}
    /\ Ops = FinanceOps \cup DeviceOps
    /\ \A m \in Messages : m \in Ops /\ (m \in FinanceOps \/ m = Anchor)
    /\ Anchor \in Messages /\ FinanceOps \subseteq Messages
<1>1. Plan[1] \in DeviceOps /\ Anchor = Plan[1]
  BY AgentOperationAssumption DEF Anchor
<1> QED
  BY <1>1, AgentOperationAssumption DEF Messages, Ops

LEMMA Table ==
    /\ AllowedTransitions["accepted"] =
          {"interpreting", "failed_safe", "cancelled_pre_submit"}
    /\ AllowedTransitions["interpreting"] =
          {"waiting_for_clarification", "dispatching", "succeeded",
           "failed_safe", "cancelled_pre_submit"}
    /\ AllowedTransitions["dispatching"] =
          {"source_in_progress", "succeeded", "failed_safe",
           "cancelled_pre_submit"} \cup ParkedStates
    /\ AllowedTransitions["source_in_progress"] =
          {"verifying", "failed_safe", "needs_manual_review"} \cup ParkedStates
    /\ AllowedTransitions["verifying"] =
          {"succeeded", "failed_safe", "needs_manual_review"}
    /\ \A s \in ParkedStates :
          AllowedTransitions[s] = {"cancelled_pre_submit"}
    /\ \A s \in {"absent"} \cup TerminalStates : AllowedTransitions[s] = {}
  BY DEF AllowedTransitions, OperationStates, RecoverableStates, ParkedStates,
         TerminalStates

\* From where a row can have come to a state.
LEMMA MovesFrom ==
    ASSUME NEW s \in OperationStates, NEW t, NEW proven \in BOOLEAN,
           CanTransition(s, t, proven)
    PROVE  /\ t \in OperationStates \ {"absent", "accepted"}
           /\ s \notin TerminalStates \cup {"absent"}
           /\ t = "interpreting" => s = "accepted"
           /\ t = "dispatching" => s = "interpreting"
           /\ t = "source_in_progress" => s = "dispatching"
           /\ t = "verifying" => s = "source_in_progress"
           /\ t = "succeeded" => s \in {"interpreting", "dispatching", "verifying"}
           /\ t = "needs_manual_review" => s \in {"source_in_progress", "verifying"}
           /\ t = "failed_safe" =>
                 s \in {"accepted", "interpreting"} \cup RecoverableStates
           /\ t = "cancelled_pre_submit" =>
                 s \in {"accepted", "interpreting", "dispatching"} \cup ParkedStates
           /\ t \in ParkedStates =>
                 s \in {"interpreting", "dispatching", "source_in_progress"}
           /\ t \in ParkedStates /\ s = "source_in_progress" => proven
<1>1. t \in AllowedTransitions[s]
      /\ (s \in {"source_in_progress", "verifying"} /\ t \in ParkedStates => proven)
  BY DEF CanTransition, NeedsZeroWriteEvidence
<1>2. CASE s \in ParkedStates \cup {"absent"} \cup TerminalStates
  BY <1>1, <1>2, Table DEF ParkedStates, OperationStates, RecoverableStates, TerminalStates
<1>3. CASE s = "accepted"
  BY <1>1, <1>3, Table DEF ParkedStates, OperationStates, RecoverableStates, TerminalStates
<1>4. CASE s = "interpreting"
  BY <1>1, <1>4, Table DEF ParkedStates, OperationStates, RecoverableStates, TerminalStates
<1>5. CASE s = "dispatching"
  BY <1>1, <1>5, Table DEF ParkedStates, OperationStates, RecoverableStates, TerminalStates
<1>6. CASE s = "source_in_progress"
  BY <1>1, <1>6, Table DEF ParkedStates, OperationStates, RecoverableStates, TerminalStates
<1>7. CASE s = "verifying"
  BY <1>1, <1>7, Table DEF ParkedStates, OperationStates, RecoverableStates, TerminalStates
<1> QED
  BY <1>2, <1>3, <1>4, <1>5, <1>6, <1>7 DEF OperationStates, RecoverableStates

-----------------------------------------------------------------------------
(* The types.                                                              *)

OpRow == [state : OperationStates, age : Ages, record : BOOLEAN]
Turn == [at : TurnSteps, target : OperationStates, todo : SUBSET DeviceOps]
ScanRow == [at : {"idle", "reading", "applying", "sweeping"},
            seen : [Ops -> OperationStates], quiet : SUBSET Ops,
            status : [Ops -> FinanceRows]]
FinanceRow == [row : FinanceRows, landed : BOOLEAN,
               call : {"none", "sent", "running"}, answer : Answers,
               calls : Nat]
Deeds == {"none", "holding", "wrote", "found", "refused"}

RowsTyped == op \in [Ops -> OpRow] /\ frozen \in BOOLEAN
TurnsTyped == anchored \subseteq Messages /\ turn \in [Messages -> Turn]
ScanTyped == scan \in ScanRow
OutsideTyped == finance \in [FinanceOps -> FinanceRow] /\ phone \in [DeviceOps -> Deeds]
CountsTyped == faults \in Nat /\ cancels \in Nat /\ environment \in Environments

Typed ==
    RowsTyped /\ TurnsTyped /\ ScanTyped /\ OutsideTyped /\ CountsTyped

LEMMA TypedIsTypeOK == Typed <=> TypeOK
  BY DEF TypeOK, Typed, RowsTyped, TurnsTyped, ScanTyped, OutsideTyped,
         CountsTyped, OpRow, Turn, ScanRow, FinanceRow, Deeds

LEMMA RestingTyped == Resting \in Turn
  BY DEF Resting, Turn, TurnSteps, OperationStates

LEMMA NoScanTyped == NoScan \in ScanRow
  BY DEF NoScan, ScanRow, OperationStates, FinanceRows

LEMMA StrandsTyped == CountsTyped => environment.strands \in BOOLEAN
  BY AgentOperationAssumption DEF CountsTyped

\* A row that a transition moves.
LEMMA MovedTyped ==
    ASSUME NEW row \in OpRow, NEW t \in OperationStates
    PROVE  /\ Moved(row, t) \in OpRow
           /\ Moved(row, t).state = t /\ Moved(row, t).age = "fresh"
           /\ Moved(row, t).record = row.record
  BY DEF Moved, OpRow, Ages

\* The three shapes of a turn's step.
LEMMA GotoTyped ==
    ASSUME TurnsTyped, NEW m \in Messages, NEW step \in TurnSteps,
           Goto(m, step), UNCHANGED anchored
    PROVE  TurnsTyped' /\ turn'[m] = [turn[m] EXCEPT !.at = step]
           /\ \A n \in Messages \ {m} : turn'[n] = turn[n]
  BY DEF TurnsTyped, Turn, Goto

LEMMA OverTyped ==
    ASSUME TurnsTyped, NEW m \in Messages, Over(m), UNCHANGED anchored
    PROVE  TurnsTyped' /\ turn'[m] = Resting
           /\ \A n \in Messages \ {m} : turn'[n] = turn[n]
  BY RestingTyped DEF TurnsTyped, Over

LEMMA SettlingTyped ==
    ASSUME TurnsTyped, NEW m \in Messages, NEW t \in OperationStates,
           Settling(m, t), UNCHANGED anchored
    PROVE  TurnsTyped'
           /\ turn'[m] = [turn[m] EXCEPT !.at = "settling", !.target = t]
           /\ \A n \in Messages \ {m} : turn'[n] = turn[n]
  BY DEF TurnsTyped, Turn, Settling, TurnSteps

\* A step that moves a row, or is refused and ends the turn.
Steps(m, o, t, proven) ==
    IF CanTransition(op[o].state, t, proven)
    THEN op' = [op EXCEPT ![o] = Moved(op[o], t)]
    ELSE UNCHANGED op /\ Over(m)

LEMMA StepToTyped ==
    ASSUME RowsTyped, TurnsTyped, NEW m \in Messages, NEW o \in Ops, NEW t,
           NEW proven \in BOOLEAN, Steps(m, o, t, proven),
           UNCHANGED <<frozen, anchored>>
    PROVE  /\ RowsTyped'
           /\ \A p \in Ops \ {o} : op'[p] = op[p]
           /\ \/ /\ CanTransition(op[o].state, t, proven)
                 /\ op'[o].state = t /\ op'[o].age = "fresh"
                 /\ op'[o].record = op[o].record
              \/ /\ op' = op
                 /\ TurnsTyped' /\ turn'[m] = Resting
                 /\ \A n \in Messages \ {m} : turn'[n] = turn[n]
<1>1. CASE CanTransition(op[o].state, t, proven)
  <2>1. op' = [op EXCEPT ![o] = Moved(op[o], t)]
    BY <1>1 DEF Steps
  <2>2. op[o] \in OpRow /\ op[o].state \in OperationStates
    BY DEF RowsTyped, OpRow
  <2>3. t \in OperationStates
    BY <1>1, <2>2, MovesFrom
  <2>4. /\ Moved(op[o], t) \in OpRow
        /\ Moved(op[o], t).state = t /\ Moved(op[o], t).age = "fresh"
        /\ Moved(op[o], t).record = op[o].record
    BY <2>2, <2>3, MovedTyped
  <2>5. op'[o] = Moved(op[o], t) /\ \A p \in Ops \ {o} : op'[p] = op[p]
    BY <2>1 DEF RowsTyped
  <2>6. RowsTyped'
    BY <2>1, <2>4 DEF RowsTyped
  <2> QED
    BY <1>1, <2>1, <2>4, <2>5, <2>6
<1>2. CASE ~CanTransition(op[o].state, t, proven)
  <2>1. UNCHANGED op /\ Over(m)
    BY <1>2 DEF Steps
  <2> QED
    BY <2>1, OverTyped DEF RowsTyped
<1> QED
  BY <1>1, <1>2

-----------------------------------------------------------------------------
(* The inductive invariant.                                                *)

\* Finance will not write this operation's row any more.
CannotLand(o) ==
    \/ finance[o].row = "failed_safe"
    \/ finance[o].row = "none" /\ finance[o].call # "sent"

SettledRows == {"succeeded", "failed_safe", "needs_manual_review"}

\* Finance, the one call to it and its answer.
FinanceInv(o) ==
    LET f == finance[o] IN
    /\ f.landed => f.row \in {"submitting", "needs_manual_review", "succeeded"}
    /\ f.row = "succeeded" => f.landed
    /\ f.calls <= 1
    /\ f.calls = 0 => f.row = "none" /\ f.call = "none" /\ f.answer = "none"
    /\ f.call = "sent" => f.row = "none"
    /\ f.call # "none" => f.answer = "none"
    /\ f.answer = "written" => f.row = "succeeded"
    /\ f.answer \in {"duplicate", "question"} => f.row = "none"
    /\ f.answer = "error" /\ ~environment.strands => f.row # "prepared"

\* What the state of a write's operation says about Finance.
StateInv(o) ==
    LET f == finance[o]
        s == op[o].state
    IN
    /\ s \in {"absent", "accepted", "interpreting", "dispatching"} =>
          f.calls = 0
    /\ s \in ParkedStates \cup {"cancelled_pre_submit"} => f.call = "none"
    /\ s \in ClaimsNoWrite /\ ~environment.strands => CannotLand(o)
    /\ op[o].record => f.row = "succeeded"

\* Where a write's operation is while a turn holds it.
TurnInv(o) ==
    LET f == finance[o]
        s == op[o].state
        at == turn[o].at
    IN
    /\ at \notin {"freezing", "issuing", "resuming"}
    /\ at \in {"asking", "deciding", "resolved", "sending"} => f.calls = 0
    /\ at = "asking" => s \in {"accepted", "cancelled_pre_submit"}
    /\ at = "deciding" => s \in {"interpreting", "cancelled_pre_submit"}
    /\ at = "resolved" => s \in {"dispatching", "cancelled_pre_submit"}
    /\ at \in {"sending", "waiting", "settling", "verified"} =>
          s = "source_in_progress"
    /\ at = "receipted" => s = "verifying"
    /\ at = "settling" =>
          /\ turn[o].target \in ParkedStates \cup {"failed_safe"}
          /\ turn[o].target \in ParkedStates => f.call = "none"
          /\ ~environment.strands => CannotLand(o)
    /\ at \in {"verified", "receipted"} => f.row = "succeeded"

\* A write that recovery may take: no turn holds it, and none will.
LeftInv(o) ==
    op[o].age # "fresh" \/ o \in scan.quiet =>
        /\ turn[o].at = "idle"
        /\ op[o].state \notin {"absent", "accepted"}
        /\ finance[o].call # "sent"

\* What the scan has read of a write is still so, or the write is beyond it.
ReadInv(o) ==
    o \in scan.quiet =>
        /\ scan.seen[o] \in RecoverableStates
        /\ \/ op[o].state = scan.seen[o]
           \/ /\ scan.seen[o] = "dispatching"
              /\ op[o].state = "cancelled_pre_submit"
        /\ scan.at = "applying" =>
              /\ scan.status[o] \in SettledRows => finance[o].row = scan.status[o]
              /\ scan.status[o] = "none" => finance[o].row = "none"

\* The actions of the plan, and what the phone did with them.
DeviceInv(o) ==
    LET s == op[o].state IN
    /\ frozen => s # "absent"
    /\ ~frozen /\ o # Anchor => s = "absent"
    /\ s # "verifying"
    /\ s = "source_in_progress" => frozen
    /\ phone[o] # "none" =>
          /\ frozen
          /\ s \in {"source_in_progress", "succeeded", "failed_safe",
                    "needs_manual_review"}
    /\ s = "failed_safe" => phone[o] \in {"none", "refused"}
    /\ op[o].record => phone[o] \in {"wrote", "found"}
    /\ op[o].age # "fresh" \/ o \in scan.quiet =>
          /\ turn[Anchor].at = "idle" /\ Anchor \notin anchored
          /\ op[Anchor].state \notin {"absent", "accepted"}
    /\ o \in scan.quiet /\ scan.seen[o] = "dispatching" =>
          s \in {"dispatching", "cancelled_pre_submit"}

\* The turn that has the plan.
PlanInv ==
    LET s == op[Anchor].state
        at == turn[Anchor].at
    IN
    /\ frozen => s \notin {"absent", "accepted", "interpreting"}
    /\ at \in {"idle", "asking", "deciding", "freezing", "issuing", "resuming"}
    /\ at = "asking" => s \in {"accepted", "cancelled_pre_submit"}
    /\ at = "deciding" => s \in {"interpreting", "cancelled_pre_submit"}
    /\ at \in {"asking", "deciding", "freezing"} => ~frozen
    /\ at = "freezing" => s \in {"dispatching", "cancelled_pre_submit"}
    /\ at \in {"issuing", "resuming"} =>
          /\ frozen
          /\ \A o \in turn[Anchor].todo :
                op[o].state \in {"dispatching", "cancelled_pre_submit"}

\* Between two scans nothing is remembered of the last one.
ScanInv == scan.at \in {"idle", "sweeping"} => scan.quiet = {}

\* All of it for one write, and for the plan.
WriteInv(o) ==
    FinanceInv(o) /\ StateInv(o) /\ TurnInv(o) /\ LeftInv(o) /\ ReadInv(o)

DevicesInv == PlanInv /\ \A o \in DeviceOps : DeviceInv(o)

IInv ==
    /\ Typed
    /\ \A o \in FinanceOps : WriteInv(o)
    /\ DevicesInv
    /\ ScanInv

-----------------------------------------------------------------------------
(* What a step leaves alone.                                               *)

LEMMA WriteKept ==
    ASSUME NEW o \in FinanceOps, WriteInv(o), op'[o] = op[o],
           finance'[o] = finance[o], turn'[o] = turn[o],
           UNCHANGED <<scan, environment>>
    PROVE  WriteInv(o)'
  BY DEF WriteInv, FinanceInv, StateInv, TurnInv, LeftInv, ReadInv, CannotLand

LEMMA DevicesKept ==
    ASSUME DevicesInv, \A o \in DeviceOps : op'[o] = op[o],
           UNCHANGED <<frozen, phone, scan>>, turn'[Anchor] = turn[Anchor],
           Anchor \in anchored' => Anchor \in anchored,
           turn[Anchor].todo \in SUBSET DeviceOps
    PROVE  DevicesInv'
<1>1. PlanInv'
  BY Sorts DEF DevicesInv, PlanInv
<1>2. ASSUME NEW o \in DeviceOps PROVE DeviceInv(o)'
  BY Sorts DEF DevicesInv, DeviceInv
<1> QED
  BY <1>1, <1>2 DEF DevicesInv

LEMMA ScanKept == ScanInv /\ UNCHANGED scan => ScanInv'
  BY DEF ScanInv

\* A step of one write's turn, or of Finance on one write.
LEMMA OneWrite ==
    ASSUME IInv, NEW m \in FinanceOps, Typed',
           UNCHANGED <<frozen, scan, phone, environment>>,
           anchored' \subseteq anchored \cup {m},
           \A o \in Ops \ {m} : op'[o] = op[o],
           \A o \in FinanceOps \ {m} : finance'[o] = finance[o],
           \A n \in Messages \ {m} : turn'[n] = turn[n],
           WriteInv(m)'
    PROVE  IInv'
<1>1. m # Anchor /\ Anchor \in Messages \ {m} /\ \A o \in DeviceOps : o # m
  BY Sorts
<1>2. turn[Anchor].todo \in SUBSET DeviceOps
  BY Sorts DEF IInv, Typed, TurnsTyped, Turn
<1>3. DevicesInv'
  BY <1>1, <1>2, Sorts, DevicesKept DEF IInv
<1>4. ASSUME NEW o \in FinanceOps \ {m} PROVE WriteInv(o)'
  BY Sorts, WriteKept DEF IInv
<1> QED
  BY <1>3, <1>4, ScanKept DEF IInv

\* A step of the turn that has the plan, of the phone, or a report.
LEMMA OnePlan ==
    ASSUME IInv, Typed', UNCHANGED <<scan, finance, environment>>,
           \A o \in FinanceOps : op'[o] = op[o],
           \A n \in Messages \ {Anchor} : turn'[n] = turn[n],
           DevicesInv'
    PROVE  IInv'
<1>1. ASSUME NEW o \in FinanceOps PROVE WriteInv(o)'
  <2>1. o \in Messages \ {Anchor}
    BY Sorts
  <2> QED
    BY <2>1, WriteKept DEF IInv
<1> QED
  BY <1>1, ScanKept DEF IInv

-----------------------------------------------------------------------------
(* The turn of a write.                                                    *)

\* The turn is over, and the row is where it was.
LEMMA Abandoned ==
    ASSUME NEW m \in FinanceOps, WriteInv(m), op'[m] = op[m],
           finance'[m] = finance[m], turn'[m] = Resting,
           UNCHANGED <<scan, environment>>
    PROVE  WriteInv(m)'
<1>1. FinanceInv(m)' /\ StateInv(m)' /\ ReadInv(m)'
  BY DEF WriteInv, FinanceInv, StateInv, ReadInv, CannotLand
<1>2. TurnInv(m)'
  BY DEF WriteInv, TurnInv, Resting
<1>3. LeftInv(m)'
  BY DEF WriteInv, LeftInv, Resting
<1> QED
  BY <1>1, <1>2, <1>3 DEF WriteInv

\* A turn that is alive has its row to itself.
LEMMA TurnAlone ==
    ASSUME NEW m \in FinanceOps, WriteInv(m), turn[m].at # "idle"
    PROVE  m \notin scan.quiet /\ op[m].age = "fresh"
  BY DEF WriteInv, LeftInv

\* A row that its turn has moved, or kept, is not left behind.
LEMMA TurnStays ==
    ASSUME NEW m \in FinanceOps, WriteInv(m), turn[m].at # "idle",
           op'[m].age = "fresh", UNCHANGED scan
    PROVE  LeftInv(m)' /\ ReadInv(m)'
  BY TurnAlone DEF LeftInv, ReadInv

LEMMA FinanceKept ==
    ASSUME NEW m \in FinanceOps, FinanceInv(m), finance'[m] = finance[m],
           UNCHANGED environment
    PROVE  FinanceInv(m)'
  BY DEF FinanceInv

\* A step of a turn on its own row: the row moves and the turn goes on, or
\* nothing moves and the turn is over.
LEMMA TurnMoves ==
    ASSUME IInv, NEW m \in FinanceOps, turn[m].at # "idle",
           NEW t, NEW proven \in BOOLEAN, Steps(m, m, t, proven),
           InTurn, UNCHANGED environment,
           CanTransition(op[m].state, t, proven) =>
              TurnsTyped' /\ \A n \in Messages \ {m} : turn'[n] = turn[n],
           CanTransition(op[m].state, t, proven)
              /\ op'[m].state = t /\ op'[m].record = op[m].record
           => StateInv(m)' /\ TurnInv(m)'
    PROVE  IInv'
<1> USE DEF InTurn, outside
<1>1. m \in Messages /\ m \in Ops
  BY Sorts
<1>2. RowsTyped /\ TurnsTyped /\ ScanTyped /\ OutsideTyped /\ CountsTyped
  BY DEF IInv, Typed
<1>3. ScanTyped' /\ OutsideTyped' /\ CountsTyped'
  BY <1>2 DEF ScanTyped, OutsideTyped, CountsTyped
<1>4. WriteInv(m)
  BY DEF IInv
<1>5. RowsTyped' /\ \A p \in Ops \ {m} : op'[p] = op[p]
  BY <1>1, <1>2, StepToTyped
<1>6. CASE /\ CanTransition(op[m].state, t, proven)
           /\ op'[m].state = t /\ op'[m].age = "fresh"
           /\ op'[m].record = op[m].record
  <2>1. StateInv(m)' /\ TurnInv(m)' /\ TurnsTyped'
        /\ \A n \in Messages \ {m} : turn'[n] = turn[n]
    BY <1>6
  <2>2. LeftInv(m)' /\ ReadInv(m)'
    BY <1>4, <1>6, TurnStays
  <2>3. FinanceInv(m)'
    BY <1>4, FinanceKept DEF WriteInv
  <2>4. WriteInv(m)' /\ Typed'
    BY <1>3, <1>5, <2>1, <2>2, <2>3 DEF WriteInv, Typed
  <2> QED
    BY <1>5, <2>1, <2>4, OneWrite
<1>7. CASE /\ op' = op /\ TurnsTyped' /\ turn'[m] = Resting
           /\ \A n \in Messages \ {m} : turn'[n] = turn[n]
  <2>1. WriteInv(m)' /\ Typed'
    BY <1>3, <1>4, <1>5, <1>7, Abandoned DEF Typed
  <2> QED
    BY <1>5, <1>7, <2>1, OneWrite
<1> QED
  BY <1>1, <1>2, <1>6, <1>7, StepToTyped

\* A step of a turn that leaves its row alone, or ends the turn.
LEMMA TurnGoes ==
    ASSUME IInv, NEW m \in FinanceOps, turn[m].at # "idle",
           UNCHANGED <<db, anchored, scan, phone, faults, cancels, environment>>,
           TurnsTyped', \A n \in Messages \ {m} : turn'[n] = turn[n],
           OutsideTyped', \A o \in FinanceOps \ {m} : finance'[o] = finance[o],
           FinanceInv(m)', StateInv(m)', TurnInv(m)'
    PROVE  IInv'
<1> USE DEF db
<1>1. RowsTyped' /\ ScanTyped' /\ CountsTyped'
  BY DEF IInv, Typed, RowsTyped, ScanTyped, CountsTyped
<1>2. LeftInv(m)' /\ ReadInv(m)'
  BY TurnAlone, TurnStays DEF IInv
<1>3. Typed' /\ WriteInv(m)'
  BY <1>1, <1>2 DEF WriteInv, Typed
<1> QED
  BY <1>3, OneWrite

LEMMA InterpretWrite ==
    ASSUME IInv, NEW m \in FinanceOps, Interpret(m), UNCHANGED environment
    PROVE  IInv'
<1>1. m \in Messages /\ turn[m].at = "asking" /\ WriteInv(m) /\ TurnsTyped
      /\ turn[m] \in Turn /\ UNCHANGED <<anchored, finance>>
  BY Sorts DEF IInv, Interpret, At, Typed, TurnsTyped, InTurn, outside
<1>2. Steps(m, m, "interpreting", FALSE) /\ InTurn
  BY DEF Interpret, StepTo, Steps
<1>3. ASSUME CanTransition(op[m].state, "interpreting", FALSE)
      PROVE  TurnsTyped' /\ turn'[m] = [turn[m] EXCEPT !.at = "deciding"]
             /\ \A n \in Messages \ {m} : turn'[n] = turn[n]
  <2>1. Goto(m, "deciding")
    BY <1>3 DEF Interpret, StepTo
  <2> QED
    BY <1>1, <2>1, GotoTyped DEF TurnSteps
<1>4. ASSUME CanTransition(op[m].state, "interpreting", FALSE),
             op'[m].state = "interpreting", op'[m].record = op[m].record
      PROVE  StateInv(m)' /\ TurnInv(m)'
  BY <1>1, <1>3, <1>4 DEF WriteInv, StateInv, TurnInv, ParkedStates,
     ClaimsNoWrite, Turn
<1> QED
  BY <1>1, <1>2, <1>3, <1>4, TurnMoves
LEMMA DecideWrite ==
    ASSUME IInv, NEW m \in FinanceOps, Decide(m), UNCHANGED environment
    PROVE  IInv'
<1>1. m \in Messages /\ turn[m].at = "deciding" /\ WriteInv(m) /\ TurnsTyped
      /\ turn[m] \in Turn /\ UNCHANGED <<anchored, finance>> /\ InTurn
      /\ m # Anchor
  BY Sorts DEF IInv, Decide, At, Typed, TurnsTyped, InTurn, outside
<1>2. ASSUME NEW end \in {"waiting_for_clarification", "succeeded", "failed_safe"},
             StepTo(m, m, end, FALSE, Over(m))
      PROVE  IInv'
  <2>1. Steps(m, m, end, FALSE)
    BY <1>2 DEF StepTo, Steps
  <2>2. ASSUME CanTransition(op[m].state, end, FALSE)
        PROVE  TurnsTyped' /\ turn'[m] = Resting
               /\ \A n \in Messages \ {m} : turn'[n] = turn[n]
    <3>1. Over(m)
      BY <1>2, <2>2 DEF StepTo
    <3> QED
      BY <1>1, <3>1, OverTyped
  <2>3. ASSUME CanTransition(op[m].state, end, FALSE),
               op'[m].state = end, op'[m].record = op[m].record
        PROVE  StateInv(m)' /\ TurnInv(m)'
    BY <1>1, <2>2, <2>3 DEF WriteInv, StateInv, TurnInv, FinanceInv,
       ParkedStates, ClaimsNoWrite, Resting, CannotLand
  <2> QED
    BY <1>1, <2>1, <2>2, <2>3, TurnMoves
<1>3. ASSUME StepTo(m, m, "dispatching", FALSE,
                    Goto(m, IF m = Anchor THEN "freezing" ELSE "resolved"))
      PROVE  IInv'
  <2>1. Steps(m, m, "dispatching", FALSE)
    BY <1>3 DEF StepTo, Steps
  <2>2. ASSUME CanTransition(op[m].state, "dispatching", FALSE)
        PROVE  TurnsTyped' /\ turn'[m] = [turn[m] EXCEPT !.at = "resolved"]
               /\ \A n \in Messages \ {m} : turn'[n] = turn[n]
    <3>1. Goto(m, "resolved")
      BY <1>1, <1>3, <2>2 DEF StepTo
    <3> QED
      BY <1>1, <3>1, GotoTyped DEF TurnSteps
  <2>3. ASSUME CanTransition(op[m].state, "dispatching", FALSE),
               op'[m].state = "dispatching", op'[m].record = op[m].record
        PROVE  StateInv(m)' /\ TurnInv(m)'
    BY <1>1, <2>2, <2>3 DEF WriteInv, StateInv, TurnInv, ParkedStates,
       ClaimsNoWrite, Turn
  <2> QED
    BY <1>1, <2>1, <2>2, <2>3, TurnMoves
<1> QED
  BY <1>2, <1>3 DEF Decide

LEMMA BeginCommitWrite ==
    ASSUME IInv, NEW m \in FinanceOps, BeginCommit(m), UNCHANGED environment
    PROVE  IInv'
<1>1. m \in Messages /\ turn[m].at = "resolved" /\ WriteInv(m) /\ TurnsTyped
      /\ turn[m] \in Turn /\ UNCHANGED <<anchored, finance>>
  BY Sorts DEF IInv, BeginCommit, At, Typed, TurnsTyped, InTurn, outside
<1>2. Steps(m, m, "source_in_progress", FALSE) /\ InTurn
  BY DEF BeginCommit, StepTo, Steps
<1>3. ASSUME CanTransition(op[m].state, "source_in_progress", FALSE)
      PROVE  TurnsTyped' /\ turn'[m] = [turn[m] EXCEPT !.at = "sending"]
             /\ \A n \in Messages \ {m} : turn'[n] = turn[n]
  <2>1. Goto(m, "sending")
    BY <1>3 DEF BeginCommit, StepTo
  <2> QED
    BY <1>1, <2>1, GotoTyped DEF TurnSteps
<1>4. ASSUME CanTransition(op[m].state, "source_in_progress", FALSE),
             op'[m].state = "source_in_progress", op'[m].record = op[m].record
      PROVE  StateInv(m)' /\ TurnInv(m)'
  BY <1>1, <1>3, <1>4 DEF WriteInv, StateInv, TurnInv, ParkedStates,
     ClaimsNoWrite, Turn
<1> QED
  BY <1>1, <1>2, <1>3, <1>4, TurnMoves

LEMMA BeginVerifyingWrite ==
    ASSUME IInv, NEW m \in FinanceOps, BeginVerifying(m), UNCHANGED environment
    PROVE  IInv'
<1>1. m \in Messages /\ turn[m].at = "verified" /\ WriteInv(m) /\ TurnsTyped
      /\ turn[m] \in Turn /\ UNCHANGED <<anchored, finance>>
  BY Sorts DEF IInv, BeginVerifying, At, Typed, TurnsTyped, InTurn, outside
<1>2. Steps(m, m, "verifying", FALSE) /\ InTurn
  BY DEF BeginVerifying, StepTo, Steps
<1>3. ASSUME CanTransition(op[m].state, "verifying", FALSE)
      PROVE  TurnsTyped' /\ turn'[m] = [turn[m] EXCEPT !.at = "receipted"]
             /\ \A n \in Messages \ {m} : turn'[n] = turn[n]
  <2>1. Goto(m, "receipted")
    BY <1>3 DEF BeginVerifying, StepTo
  <2> QED
    BY <1>1, <2>1, GotoTyped DEF TurnSteps
<1>4. ASSUME CanTransition(op[m].state, "verifying", FALSE),
             op'[m].state = "verifying", op'[m].record = op[m].record
      PROVE  StateInv(m)' /\ TurnInv(m)'
  BY <1>1, <1>3, <1>4 DEF WriteInv, StateInv, TurnInv, ParkedStates,
     ClaimsNoWrite, Turn
<1> QED
  BY <1>1, <1>2, <1>3, <1>4, TurnMoves

LEMMA SettleWrite ==
    ASSUME IInv, NEW m \in FinanceOps, Settle(m), UNCHANGED environment
    PROVE  IInv'
<1> DEFINE t == turn[m].target
<1>1. m \in Messages /\ turn[m].at = "settling" /\ WriteInv(m) /\ TurnsTyped
      /\ turn[m] \in Turn /\ UNCHANGED <<anchored, finance>>
  BY Sorts DEF IInv, Settle, At, Typed, TurnsTyped, InTurn, outside
<1>2. Steps(m, m, t, TRUE) /\ InTurn
  BY DEF Settle, StepTo, Steps
<1>3. ASSUME CanTransition(op[m].state, t, TRUE)
      PROVE  TurnsTyped' /\ turn'[m] = Resting
             /\ \A n \in Messages \ {m} : turn'[n] = turn[n]
  <2>1. Over(m)
    BY <1>3 DEF Settle, StepTo
  <2> QED
    BY <1>1, <2>1, OverTyped
<1>4. ASSUME CanTransition(op[m].state, t, TRUE),
             op'[m].state = t, op'[m].record = op[m].record
      PROVE  StateInv(m)' /\ TurnInv(m)'
  BY <1>1, <1>3, <1>4 DEF WriteInv, StateInv, TurnInv, FinanceInv,
     ParkedStates, ClaimsNoWrite, Resting, CannotLand
<1> QED
  BY <1>1, <1>2, <1>3, <1>4, TurnMoves

LEMMA CallWrite ==
    ASSUME IInv, NEW m \in FinanceOps, Call(m), UNCHANGED environment
    PROVE  IInv'
<1>1. /\ m \in Messages /\ turn[m].at = "sending" /\ WriteInv(m) /\ TurnsTyped
      /\ turn[m] \in Turn /\ finance[m] \in FinanceRow /\ OutsideTyped
      /\ UNCHANGED <<db, anchored, scan, phone, faults, cancels>>
  BY Sorts DEF IInv, Call, At, Typed, TurnsTyped, OutsideTyped
<1>2. CASE Settling(m, "failed_safe") /\ UNCHANGED finance
  <2>1. TurnsTyped' /\ turn'[m] = [turn[m] EXCEPT !.at = "settling", !.target = "failed_safe"]
        /\ \A n \in Messages \ {m} : turn'[n] = turn[n]
    BY <1>1, <1>2, SettlingTyped DEF OperationStates, TerminalStates
  <2>2. OutsideTyped'
    BY <1>1, <1>2 DEF OutsideTyped
  <2>3. FinanceInv(m)' /\ StateInv(m)'
    BY <1>1, <1>2 DEF WriteInv, FinanceInv, StateInv, CannotLand, db
  <2>4. TurnInv(m)'
    BY <1>1, <1>2, <2>1 DEF WriteInv, TurnInv, FinanceInv, CannotLand, Turn, db,
       ParkedStates
  <2> QED
    BY <1>1, <1>2, <2>1, <2>2, <2>3, <2>4, TurnGoes
<1>3. CASE /\ Goto(m, "waiting")
           /\ finance' = [finance EXCEPT ![m].call = "sent", ![m].calls = @ + 1]
  <2>1. TurnsTyped' /\ turn'[m] = [turn[m] EXCEPT !.at = "waiting"]
        /\ \A n \in Messages \ {m} : turn'[n] = turn[n]
    BY <1>1, <1>3, GotoTyped DEF TurnSteps
  <2>2. OutsideTyped' /\ \A o \in FinanceOps \ {m} : finance'[o] = finance[o]
    BY <1>1, <1>3 DEF OutsideTyped, FinanceRow
  <2>3. finance'[m] = [finance[m] EXCEPT !.call = "sent",
                                         !.calls = finance[m].calls + 1]
    BY <1>1, <1>3 DEF OutsideTyped
  <2>4. FinanceInv(m)'
    BY <1>1, <2>3 DEF WriteInv, FinanceInv, TurnInv, FinanceRow
  <2>5. StateInv(m)' /\ TurnInv(m)'
    BY <1>1, <2>1, <2>3 DEF WriteInv, FinanceInv, StateInv, TurnInv, CannotLand,
       FinanceRow, Turn, db, ParkedStates, ClaimsNoWrite
  <2> QED
    BY <1>1, <2>1, <2>2, <2>4, <2>5, TurnGoes
<1> QED
  BY <1>2, <1>3 DEF Call

LEMMA HearWrite ==
    ASSUME IInv, NEW m \in FinanceOps, Hear(m), UNCHANGED environment
    PROVE  IInv'
<1>1. /\ m \in Messages /\ turn[m].at = "waiting" /\ WriteInv(m) /\ TurnsTyped
      /\ turn[m] \in Turn /\ finance[m] \in FinanceRow /\ OutsideTyped
      /\ UNCHANGED <<db, anchored, scan, finance, phone, faults, cancels>>
  BY Sorts DEF IInv, Hear, At, Typed, TurnsTyped, OutsideTyped, InTurn, outside, db
<1>2. OutsideTyped' /\ FinanceInv(m)' /\ StateInv(m)'
  BY <1>1 DEF OutsideTyped, WriteInv, FinanceInv, StateInv, CannotLand, db
<1>3. CASE finance[m].answer = "written" /\ Goto(m, "verified")
  <2>1. TurnsTyped' /\ turn'[m] = [turn[m] EXCEPT !.at = "verified"]
        /\ \A n \in Messages \ {m} : turn'[n] = turn[n]
    BY <1>1, <1>3, GotoTyped DEF TurnSteps
  <2>2. TurnInv(m)'
    BY <1>1, <1>3, <2>1 DEF WriteInv, TurnInv, FinanceInv, Turn, db
  <2> QED
    BY <1>1, <1>2, <2>1, <2>2, TurnGoes
<1>4. CASE Over(m)
  <2>1. TurnsTyped' /\ turn'[m] = Resting
        /\ \A n \in Messages \ {m} : turn'[n] = turn[n]
    BY <1>1, <1>4, OverTyped
  <2>2. TurnInv(m)'
    BY <2>1 DEF TurnInv, Resting
  <2> QED
    BY <1>1, <1>2, <2>1, <2>2, TurnGoes
<1>5. ASSUME NEW end \in ParkedStates \cup {"failed_safe"}, Settling(m, end),
             \/ finance[m].answer \in {"duplicate", "question"}
             \/ /\ end = "failed_safe" /\ finance[m].answer = "error"
                /\ ProvesZeroWrite(finance[m].row)
      PROVE  IInv'
  <2>1. TurnsTyped' /\ turn'[m] = [turn[m] EXCEPT !.at = "settling", !.target = end]
        /\ \A n \in Messages \ {m} : turn'[n] = turn[n]
    BY <1>1, <1>5, SettlingTyped DEF OperationStates, TerminalStates, ParkedStates
  <2>2. finance[m].call = "none" /\ (~environment.strands => CannotLand(m))
    BY <1>1, <1>5 DEF WriteInv, FinanceInv, FinanceRow, CannotLand,
       ProvesZeroWrite, Answers
  <2>3. TurnInv(m)'
    BY <1>1, <1>5, <2>1, <2>2 DEF WriteInv, TurnInv, CannotLand, Turn, db,
       ParkedStates
  <2> QED
    BY <1>1, <1>2, <2>1, <2>3, TurnGoes
<1> QED
  BY <1>3, <1>4, <1>5 DEF Hear, ParkedStates

LEMMA GiveUpWrite ==
    ASSUME IInv, NEW m \in FinanceOps, turn[m].at # "idle", Over(m),
           UNCHANGED <<db, anchored, scan, outside, faults, cancels, environment>>
    PROVE  IInv'
<1>1. /\ m \in Messages /\ WriteInv(m) /\ TurnsTyped /\ OutsideTyped
      /\ UNCHANGED <<finance, phone>>
  BY Sorts DEF IInv, Typed, outside
<1>2. OutsideTyped' /\ FinanceInv(m)' /\ StateInv(m)'
  BY <1>1 DEF OutsideTyped, WriteInv, FinanceInv, StateInv, CannotLand, db
<1>3. TurnsTyped' /\ turn'[m] = Resting
      /\ \A n \in Messages \ {m} : turn'[n] = turn[n]
  BY <1>1, OverTyped
<1>4. TurnInv(m)'
  BY <1>3 DEF TurnInv, Resting
<1> QED
  BY <1>1, <1>2, <1>3, <1>4, TurnGoes

LEMMA RecordReceiptWrite ==
    ASSUME IInv, NEW m \in FinanceOps, RecordReceipt(m), UNCHANGED environment
    PROVE  IInv'
<1>1. /\ m \in Messages /\ m \in Ops /\ turn[m].at = "receipted" /\ WriteInv(m)
      /\ Typed
      /\ InTurn /\ Over(m)
      /\ UNCHANGED <<frozen, anchored, scan, finance, phone, faults, cancels>>
  BY Sorts DEF IInv, RecordReceipt, At, InTurn, outside
<1>2. TurnsTyped' /\ turn'[m] = Resting
      /\ \A n \in Messages \ {m} : turn'[n] = turn[n]
  BY <1>1, OverTyped DEF Typed
<1>3. CASE op' = WithRecord(m, "succeeded")
  <2>1. op' = [op EXCEPT ![m] = [Moved(op[m], "succeeded") EXCEPT !.record = TRUE]]
    BY <1>3 DEF WithRecord
  <2>2. op[m] \in OpRow
    BY <1>1 DEF Typed, RowsTyped
  <2>3. RowsTyped' /\ op'[m].state = "succeeded" /\ op'[m].age = "fresh"
        /\ \A p \in Ops \ {m} : op'[p] = op[p]
    BY <1>1, <2>1, <2>2 DEF Typed, RowsTyped, OpRow, Moved, Ages,
       OperationStates, TerminalStates
  <2>4. Typed'
    BY <1>1, <1>2, <2>3 DEF Typed, ScanTyped, OutsideTyped, CountsTyped
  <2>5. LeftInv(m)' /\ ReadInv(m)'
    BY <1>1, <2>3, TurnStays
  <2>6. StateInv(m)' /\ TurnInv(m)' /\ FinanceInv(m)'
    BY <1>1, <1>2, <2>3, FinanceKept DEF WriteInv, StateInv, TurnInv, Resting,
       ParkedStates, ClaimsNoWrite
  <2> QED
    BY <1>1, <1>2, <2>3, <2>4, <2>5, <2>6, OneWrite DEF WriteInv
<1>4. CASE UNCHANGED op
  BY <1>1, <1>4, GiveUpWrite DEF db, outside
<1> QED
  BY <1>3, <1>4 DEF RecordReceipt

LEMMA TurnFailsWrite ==
    ASSUME IInv, NEW m \in FinanceOps, TurnFails(m), UNCHANGED environment
    PROVE  IInv'
<1>1. m \in Messages /\ Over(m) /\ WriteInv(m) /\ Typed
      /\ UNCHANGED <<op, frozen, anchored, scan, finance, phone, cancels>>
      /\ faults' = faults + 1
  BY Sorts DEF IInv, TurnFails, db, outside
<1>2. TurnsTyped' /\ turn'[m] = Resting
      /\ \A n \in Messages \ {m} : turn'[n] = turn[n]
  BY <1>1, OverTyped DEF Typed
<1>3. WriteInv(m)'
  BY <1>1, <1>2, Abandoned
<1>4. Typed'
  BY <1>1, <1>2 DEF Typed, RowsTyped, ScanTyped, OutsideTyped, CountsTyped
<1> QED
  BY <1>1, <1>2, <1>3, <1>4, OneWrite

LEMMA ReceiveTyped ==
    ASSUME Typed, NEW m \in Messages, Receive(m), UNCHANGED environment
    PROVE  /\ Typed'
           /\ op'[m].state = "accepted" /\ op'[m].record = op[m].record
           /\ op[m].state = "absent" => op'[m].age = "fresh"
           /\ op[m].state # "absent" => op'[m] = op[m]
           /\ \A p \in Ops \ {m} : op'[p] = op[p]
           /\ op[m].state \in {"absent", "accepted"}
           /\ anchored' = anchored \cup {m}
           /\ UNCHANGED <<frozen, turn, scan, finance, phone, faults, cancels>>
<1>1. m \in Ops /\ op[m] \in OpRow /\ "accepted" \in OperationStates
  BY Sorts DEF Typed, RowsTyped, OperationStates
<1>2. /\ Moved(op[m], "accepted") \in OpRow
      /\ Moved(op[m], "accepted").state = "accepted"
      /\ Moved(op[m], "accepted").age = "fresh"
      /\ Moved(op[m], "accepted").record = op[m].record
  BY <1>1, MovedTyped
<1>3. op' = [op EXCEPT ![m] = IF op[m].state = "absent"
                              THEN Moved(op[m], "accepted") ELSE op[m]]
  BY <1>1 DEF Receive, Typed, RowsTyped
<1>4. RowsTyped'
  BY <1>1, <1>2, <1>3 DEF Receive, Typed, RowsTyped
<1>5. UNCHANGED <<frozen, turn, scan, finance, phone, faults, cancels>>
      /\ op[m].state \in {"absent", "accepted"}
      /\ anchored' = anchored \cup {m}
  BY DEF Receive, outside
<1>6. Typed'
  BY <1>4, <1>5 DEF Typed, TurnsTyped, ScanTyped, OutsideTyped, CountsTyped
<1> QED
  BY <1>1, <1>2, <1>3, <1>5, <1>6 DEF Typed, RowsTyped

LEMMA ReceiveWrite ==
    ASSUME IInv, NEW m \in FinanceOps, Receive(m), UNCHANGED environment
    PROVE  IInv'
<1>1. m \in Messages /\ Typed /\ WriteInv(m)
  BY Sorts DEF IInv
<1>2. /\ Typed'
      /\ op'[m].state = "accepted" /\ op'[m].record = op[m].record
      /\ op[m].state = "absent" => op'[m].age = "fresh"
      /\ op[m].state # "absent" => op'[m] = op[m]
      /\ \A p \in Ops \ {m} : op'[p] = op[p]
      /\ op[m].state \in {"absent", "accepted"}
      /\ anchored' = anchored \cup {m}
      /\ UNCHANGED <<frozen, turn, scan, finance, phone, faults, cancels>>
  BY <1>1, ReceiveTyped
<1>3. FinanceInv(m)' /\ StateInv(m)'
  BY <1>1, <1>2, FinanceKept DEF WriteInv, StateInv, ParkedStates, ClaimsNoWrite
<1>4. TurnInv(m)'
  BY <1>1, <1>2 DEF WriteInv, TurnInv, CannotLand
<1>5. LeftInv(m)' /\ ReadInv(m)'
  BY <1>1, <1>2 DEF WriteInv, LeftInv, ReadInv
<1> QED
  BY <1>2, <1>3, <1>4, <1>5, OneWrite DEF WriteInv

LEMMA StartTurnWrite ==
    ASSUME IInv, NEW m \in FinanceOps, StartTurn(m), UNCHANGED environment
    PROVE  IInv'
<1>1. /\ m \in Messages /\ Typed /\ WriteInv(m) /\ m # Anchor
      /\ anchored' = anchored \ {m}
      /\ UNCHANGED <<op, frozen, scan, finance, phone, faults, cancels>>
  BY Sorts DEF IInv, StartTurn, db, outside
<1>2. turn' = [turn EXCEPT ![m] =
                  IF turn[m].at = "idle" /\ op[m].state = "accepted"
                  THEN [turn[m] EXCEPT !.at = "asking"] ELSE turn[m]]
  BY <1>1 DEF StartTurn, At, Typed, TurnsTyped
<1>3. TurnsTyped' /\ \A n \in Messages \ {m} : turn'[n] = turn[n]
  BY <1>1, <1>2 DEF Typed, TurnsTyped, Turn, TurnSteps
<1>4. Typed'
  BY <1>1, <1>3 DEF Typed, RowsTyped, ScanTyped, OutsideTyped, CountsTyped
<1>5. \/ turn'[m] = turn[m]
      \/ /\ turn'[m].at = "asking" /\ op[m].state = "accepted"
  BY <1>1, <1>2 DEF Typed, TurnsTyped, Turn
<1>6. FinanceInv(m)' /\ StateInv(m)' /\ ReadInv(m)'
  BY <1>1 DEF WriteInv, FinanceInv, StateInv, ReadInv, CannotLand
<1>7. TurnInv(m)' /\ LeftInv(m)'
  BY <1>1, <1>5 DEF WriteInv, TurnInv, LeftInv, StateInv, CannotLand
<1> QED
  BY <1>1, <1>3, <1>4, <1>6, <1>7, OneWrite DEF WriteInv

-----------------------------------------------------------------------------
(* Finance.                                                                *)

\* A step of Finance on one write, whose effect is f.
LEMMA FinanceMoves ==
    ASSUME IInv, NEW o \in FinanceOps, NEW f \in FinanceRow,
           finance' = [finance EXCEPT ![o] = f], InFinance, UNCHANGED environment,
           FinanceInv(o)', StateInv(o)', TurnInv(o)', LeftInv(o)', ReadInv(o)'
    PROVE  IInv'
<1>1. Typed /\ o \in Messages
      /\ UNCHANGED <<op, frozen, anchored, turn, scan, phone, faults, cancels>>
  BY Sorts DEF IInv, InFinance, db
<1>2. OutsideTyped' /\ \A p \in FinanceOps \ {o} : finance'[p] = finance[p]
  BY <1>1 DEF Typed, OutsideTyped
<1>3. Typed'
  BY <1>1, <1>2 DEF Typed, RowsTyped, TurnsTyped, ScanTyped, CountsTyped
<1> QED
  BY <1>1, <1>2, <1>3, OneWrite DEF WriteInv

\* What all of Finance's steps are, of what the invariant says.
LEMMA FinanceMay ==
    ASSUME IInv, NEW o \in FinanceOps, NEW f \in FinanceRow,
           finance' = [finance EXCEPT ![o] = f], InFinance, UNCHANGED environment,
           f.calls = finance[o].calls, finance[o].calls # 0,
           f.call # "sent",
           f.call # "none" => finance[o].call # "none",
           f.row # finance[o].row =>
              \/ finance[o].row = "none" /\ finance[o].call = "sent"
              \/ finance[o].row = "prepared"
              \/ finance[o].row = "submitting",
           FinanceInv(o)'
    PROVE  IInv'
<1>1. finance'[o] = f /\ Typed /\ WriteInv(o) /\ UNCHANGED <<op, turn, scan>>
  BY DEF IInv, Typed, OutsideTyped, InFinance, db
<1>2. StateInv(o)'
  BY <1>1 DEF WriteInv, StateInv, FinanceInv, CannotLand
<1>3. TurnInv(o)'
  BY <1>1 DEF WriteInv, TurnInv, FinanceInv, CannotLand
<1>4. LeftInv(o)'
  BY <1>1 DEF WriteInv, LeftInv
<1>5. ReadInv(o)'
  BY <1>1 DEF WriteInv, ReadInv, LeftInv, SettledRows
<1> QED
  BY <1>2, <1>3, <1>4, <1>5, FinanceMoves

LEMMA FinanceSteps ==
    ASSUME IInv, NEW o \in FinanceOps, FinanceStep(o) \/ CallLost(o),
           UNCHANGED environment
    PROVE  IInv'
<1> DEFINE g == finance[o]
<1>1. /\ Typed /\ WriteInv(o) /\ g \in FinanceRow
      /\ DOMAIN finance = FinanceOps
  BY DEF IInv, Typed, OutsideTyped
<1>2. ASSUME finance[o].call = "sent", NEW said \in {"duplicate", "question", "error"},
             finance' = [finance EXCEPT ![o].call = "none", ![o].answer = said],
             InFinance
      PROVE  IInv'
  <2> DEFINE f == [g EXCEPT !.call = "none", !.answer = said]
  <2>1. f \in FinanceRow /\ finance' = [finance EXCEPT ![o] = f]
        /\ finance'[o] = f
    BY <1>1, <1>2 DEF FinanceRow, Answers
  <2>2. FinanceInv(o)'
    BY <1>1, <1>2, <2>1 DEF WriteInv, FinanceInv, FinanceRow
  <2>3. g.calls # 0
    BY <1>1, <1>2 DEF WriteInv, FinanceInv
  <2> QED
    BY <1>1, <1>2, <2>1, <2>2, <2>3, FinanceMay DEF FinanceRow
<1>3. ASSUME finance[o].call = "sent", InFinance,
             finance' = [finance EXCEPT ![o].call = "running",
                                        ![o].row = "prepared"]
      PROVE  IInv'
  <2> DEFINE f == [g EXCEPT !.call = "running", !.row = "prepared"]
  <2>1. f \in FinanceRow /\ finance' = [finance EXCEPT ![o] = f]
        /\ finance'[o] = f
    BY <1>1, <1>3 DEF FinanceRow, FinanceRows
  <2>2. FinanceInv(o)'
    BY <1>1, <1>3, <2>1 DEF WriteInv, FinanceInv, FinanceRow
  <2>3. g.calls # 0 /\ g.row = "none"
    BY <1>1, <1>3 DEF WriteInv, FinanceInv
  <2> QED
    BY <1>1, <1>3, <2>1, <2>2, <2>3, FinanceMay DEF FinanceRow
<1>4. ASSUME Submit(o) PROVE IInv'
  <2>1. PICK next \in {"submitting", "failed_safe"} :
           finance' = [finance EXCEPT ![o].row = next]
    BY <1>4 DEF Submit
  <2> DEFINE f == [g EXCEPT !.row = next]
  <2>2. f \in FinanceRow /\ finance' = [finance EXCEPT ![o] = f]
        /\ finance'[o] = f
    BY <1>1, <2>1 DEF FinanceRow, FinanceRows
  <2>3. FinanceInv(o)' /\ g.calls # 0 /\ g.row = "prepared" /\ g.call # "sent"
        /\ InFinance
    BY <1>1, <1>4, <2>2 DEF WriteInv, FinanceInv, FinanceRow, Submit
  <2> QED
    BY <1>1, <1>4, <2>2, <2>3, FinanceMay DEF FinanceRow
<1>5. ASSUME Land(o) PROVE IInv'
  <2> DEFINE f == [g EXCEPT !.landed = TRUE]
  <2>1. f \in FinanceRow /\ finance' = [finance EXCEPT ![o] = f]
        /\ finance'[o] = f
    BY <1>1, <1>5 DEF FinanceRow, Land
  <2>2. FinanceInv(o)' /\ g.calls # 0 /\ g.call # "sent" /\ InFinance
    BY <1>1, <1>5, <2>1 DEF WriteInv, FinanceInv, FinanceRow, Land
  <2> QED
    BY <1>1, <1>5, <2>1, <2>2, FinanceMay DEF FinanceRow
<1>6. ASSUME Conclude(o) PROVE IInv'
  <2>1. PICK next \in {"succeeded", "needs_manual_review"} :
           /\ finance' = [finance EXCEPT ![o].row = next]
           /\ next = "succeeded" => g.landed
    BY <1>6 DEF Conclude
  <2> DEFINE f == [g EXCEPT !.row = next]
  <2>2. f \in FinanceRow /\ finance' = [finance EXCEPT ![o] = f]
        /\ finance'[o] = f
    BY <1>1, <2>1 DEF FinanceRow, FinanceRows
  <2>3. FinanceInv(o)' /\ g.calls # 0 /\ g.row = "submitting" /\ g.call # "sent"
        /\ InFinance
    BY <1>1, <1>6, <2>1, <2>2 DEF WriteInv, FinanceInv, FinanceRow, Conclude
  <2> QED
    BY <1>1, <1>6, <2>2, <2>3, FinanceMay DEF FinanceRow
<1>7. ASSUME Answer(o) PROVE IInv'
  <2>1. PICK said \in Says(g.row) :
           finance' = [finance EXCEPT ![o].call = "none", ![o].answer = said]
    BY <1>7 DEF Answer
  <2>2. /\ said \in {"written", "unknown", "error"}
        /\ said = "written" => g.row = "succeeded"
        /\ said = "error" /\ ~environment.strands => g.row # "prepared"
    BY <2>1 DEF Says
  <2> DEFINE f == [g EXCEPT !.call = "none", !.answer = said]
  <2>3. f \in FinanceRow /\ finance' = [finance EXCEPT ![o] = f]
        /\ finance'[o] = f
    BY <1>1, <2>1, <2>2 DEF FinanceRow, Answers
  <2>4. FinanceInv(o)' /\ g.calls # 0 /\ g.call # "none" /\ InFinance
    BY <1>1, <1>7, <2>2, <2>3 DEF WriteInv, FinanceInv, FinanceRow, Answer
  <2> QED
    BY <1>1, <2>3, <2>4, FinanceMay DEF FinanceRow
<1>8. ASSUME CallLost(o) PROVE IInv'
  <2> DEFINE f == [g EXCEPT !.call = "none"]
  <2>1. f \in FinanceRow /\ finance' = [finance EXCEPT ![o] = f]
        /\ finance'[o] = f
    BY <1>1, <1>8 DEF FinanceRow, CallLost
  <2>2. FinanceInv(o)' /\ g.calls # 0 /\ g.call # "none" /\ InFinance
    BY <1>1, <1>8, <2>1 DEF WriteInv, FinanceInv, FinanceRow, CallLost
  <2> QED
    BY <1>1, <2>1, <2>2, FinanceMay DEF FinanceRow
<1> QED
  BY <1>2, <1>3, <1>4, <1>5, <1>6, <1>7, <1>8 DEF FinanceStep, Arrive

-----------------------------------------------------------------------------
(* The turn that has the plan.                                             *)

\* While it is alive, or a request waits for it, recovery has none of the
\* plan's rows.
LEMMA PlanAlone ==
    ASSUME DevicesInv,
           \/ turn[Anchor].at # "idle" \/ Anchor \in anchored
           \/ op[Anchor].state \in {"absent", "accepted"}
    PROVE  \A o \in DeviceOps : op[o].age = "fresh" /\ o \notin scan.quiet
  BY DEF DevicesInv, DeviceInv

\* The turn is over, and the rows are where they were.
LEMMA PlanAbandoned ==
    ASSUME DevicesInv, \A o \in DeviceOps : op'[o] = op[o],
           UNCHANGED <<frozen, phone, scan>>, turn'[Anchor] = Resting,
           Anchor \in anchored' => Anchor \in anchored
    PROVE  DevicesInv'
<1>1. PlanInv'
  BY Sorts DEF DevicesInv, PlanInv, Resting
<1>2. ASSUME NEW o \in DeviceOps PROVE DeviceInv(o)'
  BY Sorts DEF DevicesInv, DeviceInv, Resting
<1> QED
  BY <1>1, <1>2 DEF DevicesInv

\* A step of the turn on one row of the plan: the row moves and the turn goes
\* on, or nothing moves and the turn is over.
LEMMA PlanMoves ==
    ASSUME IInv, turn[Anchor].at # "idle", NEW o \in DeviceOps,
           NEW t, Steps(Anchor, o, t, FALSE), InTurn, UNCHANGED environment,
           CanTransition(op[o].state, t, FALSE) =>
              TurnsTyped' /\ \A n \in Messages \ {Anchor} : turn'[n] = turn[n],
           /\ CanTransition(op[o].state, t, FALSE)
           /\ op'[o].state = t /\ op'[o].age = "fresh"
           /\ op'[o].record = op[o].record
           /\ \A p \in Ops \ {o} : op'[p] = op[p]
           => DeviceInv(o)' /\ PlanInv'
              /\ \A p \in DeviceOps \ {o} : DeviceInv(p)'
    PROVE  IInv'
<1> USE DEF InTurn, outside
<1>1. Anchor \in Messages /\ o \in Ops /\ \A p \in FinanceOps : p \in Ops \ {o}
  BY Sorts
<1>2. RowsTyped /\ TurnsTyped /\ ScanTyped /\ OutsideTyped /\ CountsTyped
  BY DEF IInv, Typed
<1>3. ScanTyped' /\ OutsideTyped' /\ CountsTyped'
  BY <1>2 DEF ScanTyped, OutsideTyped, CountsTyped
<1>4. FALSE \in BOOLEAN /\ UNCHANGED <<frozen, anchored>>
  OBVIOUS
<1>5. /\ RowsTyped'
      /\ \A p \in Ops \ {o} : op'[p] = op[p]
      /\ \/ /\ CanTransition(op[o].state, t, FALSE)
            /\ op'[o].state = t /\ op'[o].age = "fresh"
            /\ op'[o].record = op[o].record
         \/ /\ op' = op
            /\ TurnsTyped' /\ turn'[Anchor] = Resting
            /\ \A n \in Messages \ {Anchor} : turn'[n] = turn[n]
  BY <1>1, <1>2, <1>4, StepToTyped
<1>6. CASE /\ CanTransition(op[o].state, t, FALSE)
           /\ op'[o].state = t /\ op'[o].age = "fresh"
           /\ op'[o].record = op[o].record
  <2>1. DevicesInv' /\ TurnsTyped'
        /\ \A n \in Messages \ {Anchor} : turn'[n] = turn[n]
    BY <1>5, <1>6 DEF DevicesInv
  <2>2. Typed'
    BY <1>3, <1>5, <2>1 DEF Typed
  <2> QED
    BY <1>1, <1>5, <2>1, <2>2, OnePlan
<1>7. CASE /\ op' = op /\ TurnsTyped' /\ turn'[Anchor] = Resting
           /\ \A n \in Messages \ {Anchor} : turn'[n] = turn[n]
  <2>1. DevicesInv' /\ Typed'
    BY <1>3, <1>5, <1>7, PlanAbandoned DEF Typed, IInv
  <2> QED
    BY <1>7, <2>1, OnePlan
<1> QED
  BY <1>5, <1>6, <1>7

LEMMA InterpretPlan ==
    ASSUME IInv, Interpret(Anchor), UNCHANGED environment
    PROVE  IInv'
<1>1. /\ Anchor \in Messages /\ Anchor \in DeviceOps /\ Anchor \in Ops
      /\ turn[Anchor].at = "asking" /\ turn[Anchor] \in Turn
      /\ DevicesInv /\ TurnsTyped /\ InTurn
      /\ UNCHANGED <<frozen, anchored, scan, phone>>
      /\ \A o \in DeviceOps : o \in Ops /\ op[o].age = "fresh" /\ o \notin scan.quiet
  BY Sorts, PlanAlone DEF IInv, Interpret, At, Typed, TurnsTyped, InTurn, outside
<1>2. Steps(Anchor, Anchor, "interpreting", FALSE)
  BY DEF Interpret, StepTo, Steps
<1>3. ASSUME CanTransition(op[Anchor].state, "interpreting", FALSE)
      PROVE  TurnsTyped' /\ turn'[Anchor] = [turn[Anchor] EXCEPT !.at = "deciding"]
             /\ \A n \in Messages \ {Anchor} : turn'[n] = turn[n]
  <2>1. Goto(Anchor, "deciding")
    BY <1>3 DEF Interpret, StepTo
  <2> QED
    BY <1>1, <2>1, GotoTyped DEF TurnSteps
<1>4. ASSUME CanTransition(op[Anchor].state, "interpreting", FALSE),
             op'[Anchor].state = "interpreting", op'[Anchor].age = "fresh",
             op'[Anchor].record = op[Anchor].record,
             \A p \in Ops \ {Anchor} : op'[p] = op[p]
      PROVE  PlanInv' /\ \A o \in DeviceOps : DeviceInv(o)'
  <2>1. PlanInv'
    BY <1>1, <1>3, <1>4 DEF DevicesInv, PlanInv, Turn
  <2>2. ASSUME NEW o \in DeviceOps PROVE DeviceInv(o)'
    BY <1>1, <1>3, <1>4 DEF DevicesInv, DeviceInv, PlanInv
  <2> QED
    BY <2>1, <2>2
<1> QED
  BY <1>1, <1>2, <1>3, <1>4, PlanMoves

LEMMA DecidePlan ==
    ASSUME IInv, Decide(Anchor), UNCHANGED environment
    PROVE  IInv'
<1>1. /\ Anchor \in Messages /\ Anchor \in DeviceOps /\ Anchor \in Ops
      /\ turn[Anchor].at = "deciding" /\ turn[Anchor] \in Turn
      /\ DevicesInv /\ TurnsTyped /\ InTurn
      /\ UNCHANGED <<frozen, anchored, scan, phone>>
      /\ \A o \in DeviceOps : o \in Ops /\ op[o].age = "fresh" /\ o \notin scan.quiet
  BY Sorts, PlanAlone DEF IInv, Decide, At, Typed, TurnsTyped, InTurn, outside
<1>2. ASSUME NEW end \in {"waiting_for_clarification", "succeeded", "failed_safe"},
             StepTo(Anchor, Anchor, end, FALSE, Over(Anchor))
      PROVE  IInv'
  <2>1. Steps(Anchor, Anchor, end, FALSE)
    BY <1>2 DEF StepTo, Steps
  <2>2. ASSUME CanTransition(op[Anchor].state, end, FALSE)
        PROVE  TurnsTyped' /\ turn'[Anchor] = Resting
               /\ \A n \in Messages \ {Anchor} : turn'[n] = turn[n]
    <3>1. Over(Anchor)
      BY <1>2, <2>2 DEF StepTo
    <3> QED
      BY <1>1, <3>1, OverTyped
  <2>3. ASSUME CanTransition(op[Anchor].state, end, FALSE),
               op'[Anchor].state = end, op'[Anchor].age = "fresh",
               op'[Anchor].record = op[Anchor].record,
               \A p \in Ops \ {Anchor} : op'[p] = op[p]
        PROVE  PlanInv' /\ \A o \in DeviceOps : DeviceInv(o)'
    <3>1. PlanInv'
      BY <1>1, <2>2, <2>3 DEF DevicesInv, PlanInv, Resting
    <3>2. ASSUME NEW o \in DeviceOps PROVE DeviceInv(o)'
      BY <1>1, <2>2, <2>3 DEF DevicesInv, DeviceInv, PlanInv
    <3> QED
      BY <3>1, <3>2
  <2> QED
    BY <1>1, <2>1, <2>2, <2>3, PlanMoves
<1>3. ASSUME StepTo(Anchor, Anchor, "dispatching", FALSE,
                    Goto(Anchor, "freezing"))
      PROVE  IInv'
  <2>1. Steps(Anchor, Anchor, "dispatching", FALSE)
    BY <1>3 DEF StepTo, Steps
  <2>2. ASSUME CanTransition(op[Anchor].state, "dispatching", FALSE)
        PROVE  TurnsTyped' /\ turn'[Anchor] = [turn[Anchor] EXCEPT !.at = "freezing"]
               /\ \A n \in Messages \ {Anchor} : turn'[n] = turn[n]
    <3>1. Goto(Anchor, "freezing")
      BY <1>3, <2>2 DEF StepTo
    <3> QED
      BY <1>1, <3>1, GotoTyped DEF TurnSteps
  <2>3. ASSUME CanTransition(op[Anchor].state, "dispatching", FALSE),
               op'[Anchor].state = "dispatching", op'[Anchor].age = "fresh",
               op'[Anchor].record = op[Anchor].record,
               \A p \in Ops \ {Anchor} : op'[p] = op[p]
        PROVE  PlanInv' /\ \A o \in DeviceOps : DeviceInv(o)'
    <3>1. PlanInv'
      BY <1>1, <2>2, <2>3 DEF DevicesInv, PlanInv, Turn
    <3>2. ASSUME NEW o \in DeviceOps PROVE DeviceInv(o)'
      BY <1>1, <2>2, <2>3 DEF DevicesInv, DeviceInv, PlanInv
    <3> QED
      BY <3>1, <3>2
  <2> QED
    BY <1>1, <2>1, <2>2, <2>3, PlanMoves
<1> QED
  BY <1>2, <1>3 DEF Decide

LEMMA FreezePlan ==
    ASSUME IInv, Freeze(Anchor), UNCHANGED environment
    PROVE  IInv'
<1>1. /\ Anchor \in Messages /\ Anchor \in DeviceOps
      /\ turn[Anchor].at = "freezing" /\ Typed /\ DevicesInv
      /\ frozen' = TRUE
      /\ UNCHANGED <<anchored, scan, finance, phone, faults, cancels>>
      /\ \A o \in DeviceOps : o \in Ops /\ op[o].age = "fresh" /\ o \notin scan.quiet
      /\ ~frozen /\ op[Anchor].state \in {"dispatching", "cancelled_pre_submit"}
  <2>1. DevicesInv /\ turn[Anchor].at = "freezing"
    BY DEF IInv, Freeze, At
  <2>2. \A o \in DeviceOps : op[o].age = "fresh" /\ o \notin scan.quiet
    BY <2>1, PlanAlone
  <2> QED
    BY <2>1, <2>2, Sorts DEF IInv, Freeze, outside, DevicesInv, PlanInv
<1>2. \A o \in Ops : op[o] \in OpRow
  BY <1>1 DEF Typed, RowsTyped
<1>3. \A o \in Ops : /\ Moved(op[o], "dispatching") \in OpRow
                     /\ Moved(op[o], "dispatching").state = "dispatching"
                     /\ Moved(op[o], "dispatching").age = "fresh"
                     /\ Moved(op[o], "dispatching").record = op[o].record
  BY <1>2, MovedTyped DEF OperationStates, RecoverableStates
<1>4. ASSUME NEW o \in Ops
      PROVE  /\ op'[o] \in OpRow
             /\ o \in FinanceOps => op'[o] = op[o]
             /\ o \in DeviceOps =>
                  /\ op'[o].state = IF op[o].state = "absent" THEN "dispatching"
                                    ELSE op[o].state
                  /\ op'[o].age = "fresh" /\ op'[o].record = op[o].record
  BY <1>1, <1>2, <1>3, Sorts DEF Freeze, OpRow, Ages
<1>5. RowsTyped'
  BY <1>1, <1>4 DEF RowsTyped, Freeze
<1>6. turn' = [turn EXCEPT ![Anchor] =
                  [turn[Anchor] EXCEPT !.at = "issuing", !.todo = DeviceOps]]
  BY DEF Freeze
<1>7. TurnsTyped' /\ turn'[Anchor].at = "issuing" /\ turn'[Anchor].todo = DeviceOps
      /\ \A n \in Messages \ {Anchor} : turn'[n] = turn[n]
  BY <1>1, <1>6 DEF Typed, TurnsTyped, Turn, TurnSteps
<1>8. Typed'
  BY <1>1, <1>5, <1>7 DEF Typed, ScanTyped, OutsideTyped, CountsTyped
<1>9. PlanInv'
  BY <1>1, <1>4, <1>7 DEF PlanInv, DevicesInv, DeviceInv
<1>10. ASSUME NEW o \in DeviceOps PROVE DeviceInv(o)'
  BY <1>1, <1>4 DEF DevicesInv, DeviceInv, PlanInv
<1> QED
  BY <1>1, <1>4, <1>7, <1>8, <1>9, <1>10, Sorts, OnePlan DEF DevicesInv

LEMMA ItemDoneTyped ==
    ASSUME TurnsTyped, NEW o, ItemDone(Anchor, o), UNCHANGED anchored
    PROVE  /\ TurnsTyped'
           /\ \/ turn'[Anchor] = Resting
              \/ turn'[Anchor] = [turn[Anchor] EXCEPT !.todo = turn[Anchor].todo \ {o}]
           /\ \A n \in Messages \ {Anchor} : turn'[n] = turn[n]
<1>1. Anchor \in Messages /\ turn[Anchor] \in Turn
  BY Sorts DEF TurnsTyped
<1>2. [turn[Anchor] EXCEPT !.todo = turn[Anchor].todo \ {o}] \in Turn
  BY <1>1 DEF Turn
<1>3. turn' = [turn EXCEPT ![Anchor] =
                 IF turn[Anchor].todo = {o} THEN Resting
                 ELSE [turn[Anchor] EXCEPT !.todo = turn[Anchor].todo \ {o}]]
  BY <1>1 DEF ItemDone, TurnsTyped
<1> QED
  BY <1>1, <1>2, <1>3, RestingTyped DEF TurnsTyped

\* A row of the list is issued, or denied.
LEMMA ItemPlan ==
    ASSUME IInv, turn[Anchor].at \in {"issuing", "resuming"},
           NEW o \in turn[Anchor].todo,
           NEW t \in {"source_in_progress", "failed_safe", "waiting_for_clarification"},
           StepTo(Anchor, o, t, FALSE, ItemDone(Anchor, o)), InTurn,
           UNCHANGED environment
    PROVE  IInv'
<1>1. /\ Anchor \in Messages /\ turn[Anchor] \in Turn /\ o \in DeviceOps
      /\ Anchor \in DeviceOps /\ TurnsTyped /\ DevicesInv
      /\ UNCHANGED <<frozen, anchored, scan, phone>>
      /\ \A p \in DeviceOps : p \in Ops /\ op[p].age = "fresh" /\ p \notin scan.quiet
      /\ frozen /\ op[o].state \in {"dispatching", "cancelled_pre_submit"}
  <2>1. DevicesInv /\ turn[Anchor].at # "idle"
    BY DEF IInv
  <2>2. \A p \in DeviceOps : op[p].age = "fresh" /\ p \notin scan.quiet
    BY <2>1, PlanAlone
  <2> QED
    BY <2>1, <2>2, Sorts DEF IInv, InTurn, outside, DevicesInv, PlanInv, Typed,
       TurnsTyped, Turn
<1>2. Steps(Anchor, o, t, FALSE)
  BY DEF StepTo, Steps
<1>3. ASSUME CanTransition(op[o].state, t, FALSE)
      PROVE  /\ TurnsTyped'
             /\ \/ turn'[Anchor] = Resting
                \/ turn'[Anchor] =
                      [turn[Anchor] EXCEPT !.todo = turn[Anchor].todo \ {o}]
             /\ \A n \in Messages \ {Anchor} : turn'[n] = turn[n]
  BY <1>1, <1>3, ItemDoneTyped DEF StepTo
<1>4. ASSUME CanTransition(op[o].state, t, FALSE),
             op'[o].state = t, op'[o].age = "fresh", op'[o].record = op[o].record,
             \A p \in Ops \ {o} : op'[p] = op[p]
      PROVE  PlanInv' /\ \A p \in DeviceOps : DeviceInv(p)'
  <2>1. PlanInv'
    <3>1. CASE turn'[Anchor] = Resting
      BY <1>1, <1>4, <3>1 DEF DevicesInv, PlanInv, Resting, ParkedStates
    <3>2. CASE turn'[Anchor] = [turn[Anchor] EXCEPT !.todo = turn[Anchor].todo \ {o}]
      BY <1>1, <1>4, <3>2 DEF DevicesInv, PlanInv, Turn
    <3> QED
      BY <1>3, <1>4, <3>1, <3>2
  <2>2. ASSUME NEW p \in DeviceOps PROVE DeviceInv(p)'
    BY <1>1, <1>4 DEF DevicesInv, DeviceInv
  <2> QED
    BY <2>1, <2>2
<1> QED
  BY <1>1, <1>2, <1>3, <1>4, PlanMoves

LEMMA TurnFailsPlan ==
    ASSUME IInv, TurnFails(Anchor), UNCHANGED environment
    PROVE  IInv'
<1>1. Anchor \in Messages /\ Over(Anchor) /\ Typed /\ DevicesInv
      /\ UNCHANGED <<op, frozen, anchored, scan, finance, phone, cancels>>
      /\ faults' = faults + 1
  BY Sorts DEF IInv, TurnFails, db, outside
<1>2. TurnsTyped' /\ turn'[Anchor] = Resting
      /\ \A n \in Messages \ {Anchor} : turn'[n] = turn[n]
  BY <1>1, OverTyped DEF Typed
<1>3. DevicesInv'
  BY <1>1, <1>2, PlanAbandoned
<1>4. Typed'
  BY <1>1, <1>2 DEF Typed, RowsTyped, ScanTyped, OutsideTyped, CountsTyped
<1> QED
  BY <1>1, <1>2, <1>3, <1>4, OnePlan

LEMMA ReceivePlan ==
    ASSUME IInv, Receive(Anchor), UNCHANGED environment
    PROVE  IInv'
<1>1. Anchor \in Messages /\ Anchor \in DeviceOps /\ Typed /\ DevicesInv
  BY Sorts DEF IInv
<1>2. /\ Typed'
      /\ op'[Anchor].state = "accepted" /\ op'[Anchor].record = op[Anchor].record
      /\ op[Anchor].state = "absent" => op'[Anchor].age = "fresh"
      /\ op[Anchor].state # "absent" => op'[Anchor] = op[Anchor]
      /\ op[Anchor].state \in {"absent", "accepted"}
      /\ anchored' = anchored \cup {Anchor}
      /\ UNCHANGED <<frozen, turn, scan, finance, phone, faults, cancels>>
      /\ \A p \in Ops \ {Anchor} : op'[p] = op[p]
  BY <1>1, ReceiveTyped
<1>3. \A o \in DeviceOps : o \in Ops /\ op[o].age = "fresh" /\ o \notin scan.quiet
  BY <1>1, <1>2, PlanAlone, Sorts
<1>4. PlanInv'
  BY <1>1, <1>2 DEF DevicesInv, PlanInv
<1>5. ASSUME NEW o \in DeviceOps PROVE DeviceInv(o)'
  BY <1>1, <1>2, <1>3 DEF DevicesInv, DeviceInv, PlanInv
<1>6. \A o \in FinanceOps : op'[o] = op[o]
  BY <1>2, Sorts
<1> QED
  BY <1>2, <1>4, <1>5, <1>6, OnePlan DEF DevicesInv

LEMMA StartTurnPlan ==
    ASSUME IInv, StartTurn(Anchor), UNCHANGED environment
    PROVE  IInv'
<1>1. /\ Anchor \in Messages /\ Anchor \in DeviceOps /\ Typed /\ DevicesInv
      /\ turn[Anchor] \in Turn /\ Anchor \in anchored
      /\ anchored' = anchored \ {Anchor}
      /\ UNCHANGED <<op, frozen, scan, finance, phone, faults, cancels>>
  BY Sorts DEF IInv, StartTurn, db, outside, Typed, TurnsTyped
<1>2. \A o \in DeviceOps : o \in Ops /\ op[o].age = "fresh" /\ o \notin scan.quiet
  BY <1>1, PlanAlone, Sorts
<1>3. \E next \in Turn :
        /\ turn' = [turn EXCEPT ![Anchor] = next]
        /\ \/ next = turn[Anchor]
           \/ next.at = "asking" /\ op[Anchor].state = "accepted"
           \/ /\ next.at = "resuming" /\ frozen
              /\ next.todo = {o \in DeviceOps : Dispatching(o)}
  <2>1. [turn[Anchor] EXCEPT !.at = "asking"] \in Turn
        /\ [turn[Anchor] EXCEPT !.at = "asking"].at = "asking"
    BY <1>1 DEF Turn, TurnSteps
  <2>2. LET next == [turn[Anchor] EXCEPT !.at = "resuming",
                                         !.todo = {o \in DeviceOps : Dispatching(o)}]
        IN next \in Turn /\ next.at = "resuming"
           /\ next.todo = {o \in DeviceOps : Dispatching(o)}
    BY <1>1 DEF Turn, TurnSteps
  <2> QED
    BY <1>1, <2>1, <2>2 DEF StartTurn, Typed, TurnsTyped
<1>4. PICK next \in Turn :
        /\ turn' = [turn EXCEPT ![Anchor] = next]
        /\ \/ next = turn[Anchor]
           \/ next.at = "asking" /\ op[Anchor].state = "accepted"
           \/ /\ next.at = "resuming" /\ frozen
              /\ next.todo = {o \in DeviceOps : Dispatching(o)}
  BY <1>3
<1>5. TurnsTyped' /\ turn'[Anchor] = next
      /\ \A n \in Messages \ {Anchor} : turn'[n] = turn[n]
  BY <1>1, <1>4 DEF Typed, TurnsTyped
<1>6. Typed'
  BY <1>1, <1>5 DEF Typed, RowsTyped, ScanTyped, OutsideTyped, CountsTyped
<1>7. PlanInv'
  BY <1>1, <1>4, <1>5 DEF DevicesInv, PlanInv, Dispatching
<1>8. ASSUME NEW o \in DeviceOps PROVE DeviceInv(o)'
  BY <1>1, <1>2 DEF DevicesInv, DeviceInv
<1> QED
  BY <1>1, <1>5, <1>6, <1>7, <1>8, OnePlan DEF DevicesInv

-----------------------------------------------------------------------------
(* The phone, and its reports.                                             *)

LEMMA PhoneMoves ==
    ASSUME IInv, NEW o \in DeviceOps, NEW deed \in Deeds \ {"none"},
           phone' = [phone EXCEPT ![o] = deed], UNCHANGED op, InPhone,
           UNCHANGED environment,
           \/ phone[o] = "none" /\ op[o].state = "source_in_progress"
           \/ phone[o] = "holding"
    PROVE  IInv'
<1>1. Typed /\ DevicesInv
      /\ UNCHANGED <<frozen, anchored, turn, scan, finance, faults, cancels>>
  BY DEF IInv, InPhone
<1>2. Typed'
  BY <1>1 DEF Typed, RowsTyped, TurnsTyped, ScanTyped, OutsideTyped, CountsTyped
<1>3. phone'[o] = deed /\ \A p \in DeviceOps \ {o} : phone'[p] = phone[p]
  BY <1>1 DEF Typed, OutsideTyped
<1>4. PlanInv'
  BY <1>1 DEF DevicesInv, PlanInv
<1>5. ASSUME NEW p \in DeviceOps PROVE DeviceInv(p)'
  BY <1>1, <1>3 DEF DevicesInv, DeviceInv
<1> QED
  BY <1>1, <1>2, <1>4, <1>5, OnePlan DEF DevicesInv

LEMMA PhoneSteps ==
    ASSUME IInv, NEW o \in DeviceOps, Deliver(o) \/ Execute(o),
           UNCHANGED environment
    PROVE  IInv'
<1>1. ASSUME Deliver(o) PROVE IInv'
  BY <1>1, PhoneMoves DEF Deliver, Deeds
<1>2. ASSUME Execute(o) PROVE IInv'
  BY <1>2, PhoneMoves DEF Execute, Deeds
<1> QED
  BY <1>1, <1>2

LEMMA ReportSteps ==
    ASSUME IInv, NEW o \in DeviceOps, Report(o), UNCHANGED environment
    PROVE  IInv'
<1>1. /\ Typed /\ DevicesInv /\ o \in Ops /\ Anchor \in DeviceOps
      /\ UNCHANGED <<frozen, anchored, turn, scan, finance, phone, faults, cancels>>
      /\ op[o].state \in OperationStates /\ op[o] \in OpRow
  BY Sorts DEF IInv, Report, InPhone, Typed, RowsTyped, OpRow
<1>2. op[o].state = "source_in_progress"
  BY <1>1 DEF Report, DevicesInv, DeviceInv, TerminalStates
<1>3. /\ RowsTyped' /\ \A p \in Ops \ {o} : op'[p] = op[p]
      /\ op'[o].age = "fresh"
      /\ \/ /\ phone[o] = "refused" /\ op'[o].state = "failed_safe"
            /\ op'[o].record = op[o].record
         \/ phone[o] \in {"wrote", "found"} /\ op'[o].state = "succeeded"
  <2>1. CASE phone[o] = "refused"
    <3>1. op' = [op EXCEPT ![o] = Moved(op[o], "failed_safe")]
      BY <2>1 DEF Report
    <3>2. "failed_safe" \in OperationStates
      BY DEF OperationStates, TerminalStates
    <3>3. /\ Moved(op[o], "failed_safe") \in OpRow
          /\ Moved(op[o], "failed_safe").state = "failed_safe"
          /\ Moved(op[o], "failed_safe").age = "fresh"
          /\ Moved(op[o], "failed_safe").record = op[o].record
      BY <1>1, <3>2, MovedTyped
    <3> QED
      BY <1>1, <2>1, <3>1, <3>3 DEF Typed, RowsTyped
  <2>2. CASE phone[o] # "refused"
    <3>1. op' = [op EXCEPT ![o] = [Moved(op[o], "succeeded") EXCEPT !.record = TRUE]]
          /\ phone[o] \in {"wrote", "found"}
      BY <2>2 DEF Report, WithRecord
    <3>2. [Moved(op[o], "succeeded") EXCEPT !.record = TRUE] \in OpRow
      BY <1>1 DEF OpRow, Moved, Ages, OperationStates, TerminalStates
    <3> QED
      BY <1>1, <3>1, <3>2 DEF Typed, RowsTyped, OpRow, Moved
  <2> QED
    BY <2>1, <2>2
<1>4. Typed'
  BY <1>1, <1>3 DEF Typed, TurnsTyped, ScanTyped, OutsideTyped, CountsTyped
<1>5. PlanInv'
  BY <1>1, <1>2, <1>3, Sorts DEF DevicesInv, PlanInv, Typed, TurnsTyped, Turn
<1>6. ASSUME NEW p \in DeviceOps PROVE DeviceInv(p)'
  BY <1>1, <1>2, <1>3, Sorts DEF DevicesInv, DeviceInv
<1>7. \A p \in FinanceOps : op'[p] = op[p]
  BY <1>3, Sorts
<1> QED
  BY <1>1, <1>4, <1>5, <1>6, <1>7, OnePlan DEF DevicesInv

-----------------------------------------------------------------------------
(* Recovery.                                                               *)

\* A step that changes only what the scan remembers.
LEMMA ScanMoves ==
    ASSUME IInv, UNCHANGED op, Recovering, UNCHANGED environment,
           faults' \in Nat, ScanTyped', ScanInv',
           \A o \in FinanceOps : LeftInv(o)' /\ ReadInv(o)',
           \A o \in DeviceOps : o \in scan'.quiet =>
              /\ op[o].age # "fresh" \/ o \in scan.quiet
              /\ scan'.seen[o] = "dispatching" =>
                    op[o].state \in {"dispatching", "cancelled_pre_submit"}
    PROVE  IInv'
<1>1. Typed /\ DevicesInv
      /\ UNCHANGED <<op, frozen, anchored, turn, finance, phone, cancels>>
  BY DEF IInv, Recovering, outside
<1>2. Typed'
  BY <1>1 DEF Typed, RowsTyped, TurnsTyped, OutsideTyped, CountsTyped
<1>3. ASSUME NEW o \in FinanceOps PROVE WriteInv(o)'
  BY <1>1 DEF IInv, WriteInv, FinanceInv, StateInv, TurnInv, CannotLand
<1>4. PlanInv'
  BY <1>1 DEF DevicesInv, PlanInv
<1>5. ASSUME NEW o \in DeviceOps PROVE DeviceInv(o)'
  BY <1>1 DEF DevicesInv, DeviceInv
<1> QED
  BY <1>2, <1>3, <1>4, <1>5 DEF IInv, DevicesInv

LEMMA ScanBeginSteps ==
    ASSUME IInv, ScanBegin, UNCHANGED environment
    PROVE  IInv'
<1> DEFINE seen == [o \in Ops |-> IF Pending(o) THEN op[o].state ELSE "absent"]
           quiet == {o \in Ops : Pending(o) /\ op[o].age # "fresh"}
<1>1. Typed /\ UNCHANGED <<op, turn, finance, faults>> /\ Recovering
      /\ scan' = [NoScan EXCEPT !.at = "reading", !.seen = seen, !.quiet = quiet]
  BY DEF IInv, ScanBegin, Recovering, outside
<1>2. seen \in [Ops -> OperationStates] /\ quiet \in SUBSET Ops
  BY <1>1 DEF Typed, RowsTyped, OpRow, OperationStates
<1>3. /\ ScanTyped' /\ scan'.at = "reading" /\ scan'.seen = seen
      /\ scan'.quiet = quiet
  BY <1>1, <1>2, NoScanTyped DEF ScanTyped, ScanRow
<1>4. ASSUME NEW o \in FinanceOps PROVE LeftInv(o)' /\ ReadInv(o)'
  BY <1>1, <1>3, Sorts DEF IInv, WriteInv, LeftInv, ReadInv, Pending,
     RecoverableStates
<1>5. ASSUME NEW o \in DeviceOps, o \in quiet
      PROVE  op[o].age # "fresh" /\ seen[o] = op[o].state
  BY <1>5, Sorts
<1>6. faults' \in Nat /\ ScanInv'
  BY <1>1, <1>3 DEF Typed, CountsTyped, ScanInv
<1> HIDE DEF seen, quiet
<1> QED
  BY <1>1, <1>3, <1>4, <1>5, <1>6, ScanMoves

LEMMA ScanReadSteps ==
    ASSUME IInv, ScanRead, UNCHANGED environment
    PROVE  IInv'
<1> DEFINE status == [o \in Ops |-> IF o \in scan.quiet \cap FinanceOps
                                    THEN finance[o].row ELSE "none"]
<1>1. Typed /\ UNCHANGED <<op, turn, finance, faults>> /\ Recovering
      /\ scan' = [scan EXCEPT !.at = "applying", !.status = status]
      /\ scan \in ScanRow
  BY DEF IInv, ScanRead, Recovering, outside, Typed, ScanTyped
<1>2. status \in [Ops -> FinanceRows]
  BY <1>1 DEF Typed, OutsideTyped, FinanceRow, FinanceRows
<1>3. /\ ScanTyped' /\ scan'.at = "applying" /\ scan'.seen = scan.seen
      /\ scan'.quiet = scan.quiet /\ scan'.status = status
  BY <1>1, <1>2 DEF ScanTyped, ScanRow
<1>4. ASSUME NEW o \in FinanceOps PROVE LeftInv(o)' /\ ReadInv(o)'
  BY <1>1, <1>3, Sorts DEF IInv, WriteInv, LeftInv, ReadInv
<1>5. ASSUME NEW o \in DeviceOps, o \in scan'.quiet
      PROVE  o \in scan.quiet /\ (scan'.seen[o] = "dispatching" =>
                op[o].state \in {"dispatching", "cancelled_pre_submit"})
  BY <1>3, <1>5 DEF IInv, DevicesInv, DeviceInv
<1>6. faults' \in Nat /\ ScanInv'
  BY <1>1, <1>3 DEF Typed, CountsTyped, ScanInv
<1> HIDE DEF status
<1> QED
  BY <1>1, <1>3, <1>4, <1>5, <1>6, ScanMoves

LEMMA ScanUnreadSteps ==
    ASSUME IInv, ScanUnread, UNCHANGED environment
    PROVE  IInv'
<1>1. Typed /\ UNCHANGED <<op, turn, finance>> /\ Recovering
      /\ scan' = [NoScan EXCEPT !.at = "sweeping"] /\ faults' = faults + 1
  BY DEF IInv, ScanUnread, Recovering, outside
<1>2. ScanTyped' /\ scan'.at = "sweeping" /\ scan'.quiet = {}
  BY <1>1, NoScanTyped DEF ScanTyped, ScanRow, NoScan
<1>3. ASSUME NEW o \in FinanceOps PROVE LeftInv(o)' /\ ReadInv(o)'
  BY <1>1, <1>2 DEF IInv, WriteInv, LeftInv, ReadInv
<1>4. faults' \in Nat /\ ScanInv'
  BY <1>1, <1>2 DEF Typed, CountsTyped, ScanInv
<1> QED
  BY <1>1, <1>2, <1>3, <1>4, ScanMoves

\* A path ends where its last hop does, or is refused on the way.
LEMMA WalkOne ==
    ASSUME NEW s, NEW a
    PROVE  Walk(s, <<a>>) # "absent" =>
              Walk(s, <<a>>) = a /\ CanTransition(s, a, FALSE)
<1>1. 1 \in DOMAIN <<a>> /\ Len(<<a>>) = 1 /\ <<a>>[1] = a
  OBVIOUS
<1>2. (\A i \in DOMAIN <<a>> :
          CanTransition(IF i = 1 THEN s ELSE <<a>>[i - 1], <<a>>[i], FALSE))
      => CanTransition(s, a, FALSE)
  BY <1>1
<1> QED
  BY <1>1, <1>2 DEF Walk

LEMMA WalkTwo ==
    ASSUME NEW s, NEW a, NEW b
    PROVE  /\ Walk(s, <<a, b>>) \in {"absent", b}
           /\ Walk(s, <<a, b>>) # "absent" => CanTransition(s, a, FALSE)
<1>1. /\ 1 \in DOMAIN <<a, b>> /\ <<a, b>>[1] = a
      /\ Len(<<a, b>>) = 2 /\ <<a, b>>[2] = b
  OBVIOUS
<1>2. (\A i \in DOMAIN <<a, b>> :
          CanTransition(IF i = 1 THEN s ELSE <<a, b>>[i - 1], <<a, b>>[i], FALSE))
      => CanTransition(s, a, FALSE)
  BY <1>1
<1> QED
  BY <1>1, <1>2 DEF Walk

LEMMA WalkThree ==
    ASSUME NEW s, NEW a, NEW b, NEW c
    PROVE  /\ Walk(s, <<a, b, c>>) \in {"absent", c}
           /\ Walk(s, <<a, b, c>>) # "absent" => CanTransition(s, a, FALSE)
<1>1. /\ 1 \in DOMAIN <<a, b, c>> /\ <<a, b, c>>[1] = a
      /\ Len(<<a, b, c>>) = 3 /\ <<a, b, c>>[3] = c
  OBVIOUS
<1>2. (\A i \in DOMAIN <<a, b, c>> :
          CanTransition(IF i = 1 THEN s ELSE <<a, b, c>>[i - 1], <<a, b, c>>[i], FALSE))
      => CanTransition(s, a, FALSE)
  BY <1>1
<1> QED
  BY <1>1, <1>2 DEF Walk

\* Where the paths of the table lead.
LEMMA PathEnds ==
    ASSUME NEW s, NEW target, NEW now
    PROVE  /\ Walk(now, Path(s, target)) \in {"absent", target}
           /\ Walk(now, Path(s, target)) # "absent" =>
                 \E hop : CanTransition(now, hop, FALSE)
<1>1. \/ Path(s, target) = <<target>>
      \/ target = "succeeded" /\ Path(s, target) = <<"verifying", target>>
      \/ target = "succeeded"
         /\ Path(s, target) = <<"source_in_progress", "verifying", target>>
      \/ target = "needs_manual_review"
         /\ Path(s, target) = <<"source_in_progress", target>>
  BY DEF Path
<1>2. CASE Path(s, target) = <<target>>
  BY <1>2, WalkOne
<1>3. CASE Path(s, target) = <<"verifying", target>>
  BY <1>3, WalkTwo
<1>4. CASE Path(s, target) = <<"source_in_progress", "verifying", target>>
  <2>1. LET p == <<"source_in_progress", "verifying", target>> IN
        /\ Walk(now, p) \in {"absent", target}
        /\ Walk(now, p) # "absent" => CanTransition(now, "source_in_progress", FALSE)
    BY WalkThree
  <2> QED
    BY <1>4, <2>1
<1>5. CASE Path(s, target) = <<"source_in_progress", target>>
  BY <1>5, WalkTwo
<1> QED
  BY <1>1, <1>2, <1>3, <1>4, <1>5

\* Where recovery takes a write, given what it read of Finance.
LEMMA WriteRecovered ==
    ASSUME NEW o \in FinanceOps, scan.status[o] \in FinanceRows, NEW now, NEW p,
           p = PlanRecovery(scan.seen[o], o \in DeviceOps, scan.status[o],
                            o \in scan.quiet),
           p # Leave, NEW t, t = Walk(now, p), t # "absent"
    PROVE  /\ o \in scan.quiet
           /\ t \in {"source_in_progress"} \cup SettledRows
           /\ t = "succeeded" => scan.status[o] = "succeeded"
           /\ t = "failed_safe" => scan.status[o] \in {"none", "failed_safe"}
           /\ \E hop : CanTransition(now, hop, FALSE)
<1> DEFINE s == scan.seen[o]
           row == scan.status[o]
<1>1. o \in scan.quiet /\ o \notin DeviceOps
  BY Sorts DEF PlanRecovery
<1>2. \/ row \in SettledRows /\ p = Path(s, row)
      \/ row \in {"none", "prepared"} /\ p = Path(s, "needs_manual_review")
      \/ row = "none" /\ p = <<"failed_safe">>
      \/ row = "submitting" /\ p = <<"source_in_progress">>
  BY <1>1 DEF PlanRecovery, FinanceRows, SettledRows
<1>3. CASE row \in SettledRows /\ p = Path(s, row)
  <2>1. t = row /\ \E hop : CanTransition(now, hop, FALSE)
    BY <1>3, PathEnds
  <2> QED
    BY <1>1, <1>3, <2>1 DEF SettledRows
<1>4. CASE p = Path(s, "needs_manual_review")
  <2>1. t = "needs_manual_review" /\ \E hop : CanTransition(now, hop, FALSE)
    BY <1>4, PathEnds
  <2> QED
    BY <1>1, <2>1 DEF SettledRows
<1>5. CASE row = "none" /\ p = <<"failed_safe">>
  <2>1. t = "failed_safe" /\ \E hop : CanTransition(now, hop, FALSE)
    BY <1>5, WalkOne
  <2> QED
    BY <1>1, <1>5, <2>1 DEF SettledRows
<1>6. CASE row = "submitting" /\ p = <<"source_in_progress">>
  <2>1. t = "source_in_progress" /\ \E hop : CanTransition(now, hop, FALSE)
    BY <1>6, WalkOne
  <2> QED
    BY <1>1, <1>6, <2>1 DEF SettledRows
<1> QED
  BY <1>2, <1>3, <1>4, <1>5, <1>6

\* And an action of a plan: only one that was never issued.
LEMMA DeviceRecovered ==
    ASSUME NEW o \in DeviceOps, NEW now, NEW p,
           p = PlanRecovery(scan.seen[o], o \in DeviceOps, scan.status[o],
                            o \in scan.quiet),
           p # Leave, NEW t, t = Walk(now, p), t # "absent"
    PROVE  /\ o \in scan.quiet /\ scan.seen[o] = "dispatching"
           /\ t = "failed_safe" /\ CanTransition(now, "failed_safe", FALSE)
<1>1. o \in scan.quiet /\ scan.seen[o] = "dispatching" /\ p = <<"failed_safe">>
  BY DEF PlanRecovery
<1> QED
  BY <1>1, WalkOne

\* What the scan's last transaction does to a row, if it does anything.
Recovered(o, t) ==
    /\ o \in scan.quiet
    /\ op'[o] = [Moved(op[o], t) EXCEPT !.record = t = "succeeded"]
    /\ IF o \in FinanceOps
       THEN /\ t \in {"source_in_progress"} \cup SettledRows
            /\ t = "succeeded" => scan.status[o] = "succeeded"
            /\ t = "failed_safe" => scan.status[o] \in {"none", "failed_safe"}
            /\ \E hop : CanTransition(op[o].state, hop, FALSE)
       ELSE /\ scan.seen[o] = "dispatching" /\ t = "failed_safe"
            /\ CanTransition(op[o].state, "failed_safe", FALSE)

LEMMA ScanApplied ==
    ASSUME IInv, ScanApply
    PROVE  /\ scan' = [NoScan EXCEPT !.at = scan'.at]
           /\ scan'.at \in {"idle", "sweeping"} /\ scan.at = "applying"
           /\ op' = [o \in Ops |-> op'[o]]
           /\ \A o \in Ops : op'[o] = op[o] \/ \E t : Recovered(o, t)
           /\ UNCHANGED faults /\ Recovering
<1> DEFINE pending == {o \in Ops : scan.seen[o] # "absent"}
           plan(o) == PlanRecovery(scan.seen[o], o \in DeviceOps, scan.status[o],
                                   o \in scan.quiet)
           path == [o \in pending |-> plan(o)]
           moving == {o \in pending : path[o] # Leave}
           end == [o \in moving |-> Walk(op[o].state, path[o])]
           refused == \E o \in moving : end[o] = "absent"
<1>1. /\ scan.at = "applying"
      /\ scan' = [NoScan EXCEPT !.at = IF refused THEN "idle" ELSE "sweeping"]
      /\ op' = [o \in Ops |->
                  IF refused \/ o \notin moving THEN op[o]
                  ELSE [Moved(op[o], end[o]) EXCEPT
                          !.record = end[o] = "succeeded"]]
      /\ UNCHANGED faults /\ Recovering
  BY DEF ScanApply
<1>2. ASSUME NEW o \in Ops, op'[o] # op[o] PROVE \E t : Recovered(o, t)
  <2>1. ~refused /\ o \in moving
        /\ op'[o] = [Moved(op[o], end[o]) EXCEPT !.record = end[o] = "succeeded"]
    BY <1>1, <1>2
  <2>2. PICK p : /\ p = plan(o) /\ p # Leave
                 /\ end[o] = Walk(op[o].state, p) /\ end[o] # "absent"
    BY <2>1
  <2>3. scan.status[o] \in FinanceRows
    BY DEF IInv, Typed, ScanTyped, ScanRow
  <2>4. p = PlanRecovery(scan.seen[o], o \in DeviceOps, scan.status[o],
                         o \in scan.quiet)
    BY <2>2
  <2>5. CASE o \in FinanceOps
    <3>1. /\ o \in scan.quiet
          /\ end[o] \in {"source_in_progress"} \cup SettledRows
          /\ end[o] = "succeeded" => scan.status[o] = "succeeded"
          /\ end[o] = "failed_safe" => scan.status[o] \in {"none", "failed_safe"}
          /\ \E hop : CanTransition(op[o].state, hop, FALSE)
      <4>1. PICK t : t = end[o]
        OBVIOUS
      <4>2. t = Walk(op[o].state, p) /\ t # "absent" /\ p # Leave
        BY <2>2, <4>1
      <4>3. /\ o \in scan.quiet
            /\ t \in {"source_in_progress"} \cup SettledRows
            /\ t = "succeeded" => scan.status[o] = "succeeded"
            /\ t = "failed_safe" => scan.status[o] \in {"none", "failed_safe"}
            /\ \E hop : CanTransition(op[o].state, hop, FALSE)
        BY <2>3, <2>4, <2>5, <4>2, WriteRecovered
      <4> QED
        BY <4>1, <4>3
    <3>2. Recovered(o, end[o])
      BY <2>1, <2>5, <3>1 DEF Recovered
    <3> QED
      BY <3>2
  <2>6. CASE o \notin FinanceOps
    <3>1. /\ o \in scan.quiet /\ scan.seen[o] = "dispatching"
          /\ end[o] = "failed_safe"
          /\ CanTransition(op[o].state, "failed_safe", FALSE)
      <4>1. o \in DeviceOps
        BY <2>6, Sorts
      <4>2. PICK t : t = end[o]
        OBVIOUS
      <4>3. t = Walk(op[o].state, p) /\ t # "absent" /\ p # Leave
        BY <2>2, <4>2
      <4>4. /\ o \in scan.quiet /\ scan.seen[o] = "dispatching"
            /\ t = "failed_safe" /\ CanTransition(op[o].state, "failed_safe", FALSE)
        BY <2>4, <4>1, <4>3, DeviceRecovered
      <4> QED
        BY <4>2, <4>4
    <3>2. Recovered(o, end[o])
      BY <2>1, <2>6, <3>1 DEF Recovered
    <3> QED
      BY <3>2
  <2> QED
    BY <2>5, <2>6
<1>3. scan' = [NoScan EXCEPT !.at = scan'.at] /\ scan'.at \in {"idle", "sweeping"}
  BY <1>1 DEF NoScan
<1>4. op' = [o \in Ops |-> op'[o]]
  BY <1>1
<1> QED
  BY <1>1, <1>2, <1>3, <1>4

LEMMA RecoveredRow ==
    ASSUME NEW o \in Ops, op[o] \in OpRow, NEW t, Recovered(o, t),
           o \in FinanceOps \/ o \in DeviceOps
    PROVE  /\ op'[o] \in OpRow
           /\ op'[o].state = t /\ op'[o].age = "fresh"
           /\ op'[o].record => t = "succeeded"
<1>1. t \in OperationStates
  BY DEF Recovered, SettledRows, OperationStates, RecoverableStates, TerminalStates
<1>2. /\ Moved(op[o], t) \in OpRow
      /\ Moved(op[o], t).state = t /\ Moved(op[o], t).age = "fresh"
  BY <1>1, MovedTyped
<1>3. CASE t = "succeeded"
  <2>1. op'[o] = [Moved(op[o], t) EXCEPT !.record = TRUE]
    BY <1>3 DEF Recovered
  <2> QED
    BY <1>2, <1>3, <2>1 DEF OpRow
<1>4. CASE t # "succeeded"
  <2>1. op'[o] = [Moved(op[o], t) EXCEPT !.record = FALSE]
    BY <1>4 DEF Recovered
  <2> QED
    BY <1>2, <1>4, <2>1 DEF OpRow
<1> QED
  BY <1>3, <1>4

LEMMA ScanApplySteps ==
    ASSUME IInv, ScanApply, UNCHANGED environment
    PROVE  IInv'
<1>1. /\ Typed /\ DevicesInv /\ Anchor \in DeviceOps
      /\ UNCHANGED <<frozen, anchored, turn, finance, phone, faults, cancels>>
      /\ scan' = [NoScan EXCEPT !.at = scan'.at]
      /\ scan'.at \in {"idle", "sweeping"} /\ scan.at = "applying"
      /\ op' = [o \in Ops |-> op'[o]]
      /\ \A o \in Ops : op'[o] = op[o] \/ \E t : Recovered(o, t)
  BY ScanApplied, Sorts DEF IInv, Recovering, outside
<1>2. ScanTyped' /\ scan'.quiet = {} /\ ScanInv'
  BY <1>1, NoScanTyped DEF ScanTyped, ScanRow, NoScan, ScanInv
<1>3. ASSUME NEW o \in Ops
      PROVE  /\ op'[o] \in OpRow
             /\ \/ op'[o] = op[o]
                \/ \E t : /\ Recovered(o, t)
                          /\ op'[o].state = t /\ op'[o].age = "fresh"
                          /\ op'[o].record => t = "succeeded"
  <2>1. op[o] \in OpRow /\ (o \in FinanceOps \/ o \in DeviceOps)
    BY <1>1, Sorts DEF Typed, RowsTyped
  <2>2. ASSUME op'[o] # op[o]
        PROVE  \E t : /\ Recovered(o, t) /\ op'[o] \in OpRow
                      /\ op'[o].state = t /\ op'[o].age = "fresh"
                      /\ op'[o].record => t = "succeeded"
    <3>1. PICK t : Recovered(o, t)
      BY <1>1, <2>2
    <3> QED
      BY <2>1, <3>1, RecoveredRow
  <2> QED
    BY <2>1, <2>2
<1>4. Typed'
  BY <1>1, <1>2, <1>3 DEF Typed, RowsTyped, TurnsTyped, OutsideTyped, CountsTyped
<1>5. ASSUME NEW o \in FinanceOps PROVE WriteInv(o)'
  <2>1. WriteInv(o) /\ o \in Ops /\ FinanceInv(o)'
    BY <1>1, Sorts, FinanceKept DEF IInv, WriteInv
  <2>2. CASE op'[o] = op[o]
    BY <1>1, <1>2, <2>1, <2>2 DEF WriteInv, StateInv, TurnInv, LeftInv, ReadInv,
       CannotLand
  <2>3. CASE op'[o] # op[o]
    <3>1. PICK t : /\ Recovered(o, t)
                   /\ op'[o].state = t /\ op'[o].age = "fresh"
                   /\ op'[o].record => t = "succeeded"
      BY <1>3, <2>1, <2>3
    <3>2. /\ t \in {"source_in_progress"} \cup SettledRows
          /\ t = "succeeded" => finance[o].row = "succeeded"
          /\ t = "failed_safe" => CannotLand(o)
          /\ turn[o].at = "idle"
      BY <1>1, <2>1, <3>1 DEF Recovered, WriteInv, ReadInv, LeftInv, CannotLand,
         SettledRows
    <3>3. StateInv(o)'
      BY <1>1, <3>1, <3>2 DEF StateInv, CannotLand, SettledRows, ParkedStates,
         ClaimsNoWrite
    <3>4. TurnInv(o)' /\ LeftInv(o)' /\ ReadInv(o)'
      BY <1>1, <1>2, <3>1, <3>2 DEF TurnInv, LeftInv, ReadInv
    <3> QED
      BY <2>1, <3>3, <3>4 DEF WriteInv
  <2> QED
    BY <2>2, <2>3
<1>6. ASSUME NEW o \in DeviceOps, op'[o] # op[o]
      PROVE  /\ op[o].state = "dispatching" /\ op'[o].state = "failed_safe"
             /\ op'[o].age = "fresh" /\ ~op'[o].record
             /\ turn[Anchor].at = "idle"
  <2>1. o \in Ops /\ o \notin FinanceOps /\ DeviceInv(o)
    BY <1>1, Sorts DEF DevicesInv
  <2>2. PICK t : /\ Recovered(o, t)
                 /\ op'[o].state = t /\ op'[o].age = "fresh"
                 /\ op'[o].record => t = "succeeded"
    BY <1>3, <1>6, <2>1
  <2>3. /\ o \in scan.quiet /\ scan.seen[o] = "dispatching" /\ t = "failed_safe"
        /\ CanTransition(op[o].state, "failed_safe", FALSE)
    BY <2>1, <2>2 DEF Recovered
  <2>4. op[o].state = "dispatching" \/ op[o].state = "cancelled_pre_submit"
    BY <2>1, <2>3 DEF DeviceInv
  <2>5. op[o].state # "cancelled_pre_submit"
    BY <2>3, Table DEF CanTransition, TerminalStates
  <2> QED
    BY <2>1, <2>2, <2>3, <2>4, <2>5 DEF DeviceInv
<1>7. PlanInv'
  BY <1>1, <1>6, Sorts DEF DevicesInv, PlanInv, Typed, TurnsTyped, Turn
<1>8. ASSUME NEW o \in DeviceOps PROVE DeviceInv(o)'
  BY <1>1, <1>2, <1>6 DEF DevicesInv, DeviceInv
<1> QED
  BY <1>2, <1>4, <1>5, <1>7, <1>8 DEF IInv, DevicesInv

LEMMA SweepSteps ==
    ASSUME IInv, Sweep, UNCHANGED environment
    PROVE  IInv'
<1>1. /\ Typed /\ DevicesInv /\ Anchor \in DeviceOps
      /\ UNCHANGED <<frozen, anchored, turn, finance, phone, faults, cancels>>
      /\ scan' = NoScan
      /\ op' = [o \in Ops |-> IF Overdue(o)
                              THEN Moved(op[o], "needs_manual_review")
                              ELSE op[o]]
  BY Sorts DEF IInv, Sweep, Recovering, outside
<1>2. ScanTyped' /\ scan'.quiet = {} /\ ScanInv'
  BY <1>1, NoScanTyped DEF ScanTyped, NoScan, ScanInv
<1>3. ASSUME NEW o \in Ops
      PROVE  /\ op'[o] \in OpRow
             /\ \/ op'[o] = op[o]
                \/ /\ o \in DeviceOps /\ op[o].age = "overdue"
                   /\ op[o].state = "source_in_progress"
                   /\ op'[o].state = "needs_manual_review"
                   /\ op'[o].age = "fresh" /\ op'[o].record = op[o].record
  <2>1. op[o] \in OpRow /\ "needs_manual_review" \in OperationStates
    BY <1>1 DEF Typed, RowsTyped, OperationStates, TerminalStates
  <2>2. LET row == Moved(op[o], "needs_manual_review") IN
        /\ row \in OpRow
        /\ row.state = "needs_manual_review" /\ row.age = "fresh"
        /\ row.record = op[o].record
    BY <2>1, MovedTyped
  <2> QED
    BY <1>1, <2>1, <2>2 DEF Overdue
<1>4. Typed'
  BY <1>1, <1>2, <1>3 DEF Typed, RowsTyped, TurnsTyped, OutsideTyped, CountsTyped
<1>5. ASSUME NEW o \in FinanceOps PROVE WriteInv(o)'
  <2>1. WriteInv(o) /\ op'[o] = op[o]
    BY <1>3, Sorts DEF IInv
  <2> QED
    BY <1>1, <1>2, <2>1 DEF WriteInv, FinanceInv, StateInv, TurnInv, LeftInv,
       ReadInv, CannotLand
<1>6. PlanInv'
  <2>1. CASE \A o \in DeviceOps : op'[o] = op[o]
    BY <1>1, <2>1, Sorts DEF DevicesInv, PlanInv, Typed, TurnsTyped, Turn
  <2>2. CASE \E o \in DeviceOps : op'[o] # op[o]
    <3>1. turn[Anchor].at = "idle"
      BY <1>1, <1>3, <2>2, Sorts DEF DevicesInv, DeviceInv
    <3>2. op'[Anchor].state = op[Anchor].state
          \/ op'[Anchor].state = "needs_manual_review"
      BY <1>3, Sorts
    <3> QED
      BY <1>1, <3>1, <3>2 DEF DevicesInv, PlanInv
  <2> QED
    BY <2>1, <2>2
<1>7. ASSUME NEW o \in DeviceOps PROVE DeviceInv(o)'
  <2>1. o \in Ops /\ Anchor \in Ops /\ DeviceInv(o) /\ o \notin scan'.quiet
    BY <1>1, <1>2, Sorts DEF DevicesInv
  <2>2. op'[Anchor].state = op[Anchor].state
        \/ op'[Anchor].state = "needs_manual_review"
    BY <1>3, <2>1
  <2>3. CASE op'[o] = op[o]
    BY <1>1, <2>1, <2>2, <2>3 DEF DeviceInv
  <2>4. CASE op'[o] # op[o]
    BY <1>1, <1>3, <2>1, <2>4 DEF DeviceInv
  <2> QED
    BY <2>3, <2>4
<1> QED
  BY <1>2, <1>4, <1>5, <1>6, <1>7 DEF IInv, DevicesInv

-----------------------------------------------------------------------------
(* A restart, a cancel, and time.                                          *)

LEMMA ProcessDiesSteps ==
    ASSUME IInv, ProcessDies, UNCHANGED environment
    PROVE  IInv'
<1>1. /\ Typed /\ DevicesInv /\ Anchor \in Messages
      /\ UNCHANGED <<op, frozen, finance, phone, cancels>>
      /\ turn' = [m \in Messages |-> Resting] /\ anchored' = {}
      /\ scan' = NoScan /\ faults' = faults + 1
  BY Sorts DEF IInv, ProcessDies, db, outside
<1>2. ScanTyped' /\ scan'.quiet = {} /\ ScanInv'
  BY <1>1, NoScanTyped DEF ScanTyped, NoScan, ScanInv
<1>3. Typed'
  BY <1>1, <1>2, RestingTyped DEF Typed, RowsTyped, TurnsTyped, OutsideTyped,
     CountsTyped
<1>4. ASSUME NEW m \in Messages PROVE turn'[m].at = "idle"
  BY <1>1 DEF Resting
<1>5. ASSUME NEW o \in FinanceOps PROVE WriteInv(o)'
  <2>1. WriteInv(o) /\ turn'[o].at = "idle"
    BY <1>4, Sorts DEF IInv
  <2> QED
    BY <1>1, <1>2, <2>1 DEF WriteInv, FinanceInv, StateInv, TurnInv, LeftInv,
       ReadInv, CannotLand
<1>6. PlanInv'
  BY <1>1, <1>4 DEF DevicesInv, PlanInv
<1>7. ASSUME NEW o \in DeviceOps PROVE DeviceInv(o)'
  BY <1>1, <1>2, <1>4 DEF DevicesInv, DeviceInv
<1> QED
  BY <1>2, <1>3, <1>5, <1>6, <1>7 DEF IInv, DevicesInv

\* A cancel that is accepted ends an operation that has not been submitted.
LEMMA CancelRow ==
    ASSUME Typed, NEW o \in Ops, Cancel(o), UNCHANGED environment
    PROVE  /\ Typed'
           /\ \A p \in Ops \ {o} : op'[p] = op[p]
           /\ op'[o].age = "fresh" /\ op'[o].record = op[o].record
           /\ \/ op'[o].state = op[o].state
              \/ /\ op'[o].state = "cancelled_pre_submit"
                 /\ op[o].state \in {"accepted", "interpreting", "dispatching"}
                                    \cup ParkedStates
           /\ UNCHANGED <<frozen, anchored, turn, scan, finance, phone>>
<1> DEFINE can == CanTransition(op[o].state, "cancelled_pre_submit", FALSE)
<1>1. op[o] \in OpRow /\ op[o].state \in OperationStates
      /\ "cancelled_pre_submit" \in OperationStates /\ FALSE \in BOOLEAN
  BY DEF Typed, RowsTyped, OpRow, OperationStates, TerminalStates
<1>2. /\ UNCHANGED <<frozen, anchored, turn, scan, finance, phone, faults>>
      /\ cancels' = cancels + 1
      /\ op' = [op EXCEPT ![o] =
                  IF can THEN Moved(op[o], "cancelled_pre_submit")
                  ELSE [op[o] EXCEPT !.age = "fresh"]]
  BY DEF Cancel, outside, Typed, RowsTyped
<1>3. CASE can
  <2>1. /\ Moved(op[o], "cancelled_pre_submit") \in OpRow
        /\ Moved(op[o], "cancelled_pre_submit").state = "cancelled_pre_submit"
        /\ Moved(op[o], "cancelled_pre_submit").age = "fresh"
        /\ Moved(op[o], "cancelled_pre_submit").record = op[o].record
    BY <1>1, MovedTyped
  <2>2. op[o].state \in {"accepted", "interpreting", "dispatching"} \cup ParkedStates
    BY <1>1, <1>3, MovesFrom
  <2>3. op' = [op EXCEPT ![o] = Moved(op[o], "cancelled_pre_submit")]
    <3> HIDE DEF can
    <3> QED
      BY <1>2, <1>3
  <2>4. Typed'
    <3>1. RowsTyped'
      BY <1>2, <2>1, <2>3 DEF Typed, RowsTyped
    <3> QED
      BY <1>2, <3>1 DEF Typed, TurnsTyped, ScanTyped, OutsideTyped, CountsTyped
  <2> QED
    BY <1>2, <2>1, <2>2, <2>3, <2>4 DEF Typed, RowsTyped
<1>4. CASE ~can
  <2>1. op' = [op EXCEPT ![o] = [op[o] EXCEPT !.age = "fresh"]]
    <3> HIDE DEF can
    <3> QED
      BY <1>2, <1>4
  <2>2. [op[o] EXCEPT !.age = "fresh"] \in OpRow
    BY <1>1 DEF OpRow, Ages
  <2>3. Typed'
    <3>1. RowsTyped'
      BY <1>2, <2>1, <2>2 DEF Typed, RowsTyped
    <3> QED
      BY <1>2, <3>1 DEF Typed, TurnsTyped, ScanTyped, OutsideTyped, CountsTyped
  <2> QED
    BY <1>1, <1>2, <2>1, <2>3 DEF Typed, RowsTyped, OpRow
<1> QED
  BY <1>3, <1>4

LEMMA CancelSteps ==
    ASSUME IInv, NEW o \in Ops, Cancel(o), UNCHANGED environment
    PROVE  IInv'
<1>1. /\ Typed' /\ Typed
      /\ \A p \in Ops \ {o} : op'[p] = op[p]
      /\ op'[o].age = "fresh" /\ op'[o].record = op[o].record
      /\ \/ op'[o].state = op[o].state
         \/ /\ op'[o].state = "cancelled_pre_submit"
            /\ op[o].state \in {"accepted", "interpreting", "dispatching"}
                               \cup ParkedStates
      /\ UNCHANGED <<frozen, anchored, turn, scan, finance, phone>>
  BY CancelRow DEF IInv
<1>2. CASE o \in FinanceOps
  <2>1. WriteInv(o) /\ FinanceInv(o)'
    BY <1>1, <1>2, FinanceKept DEF IInv, WriteInv
  <2>2. StateInv(o)'
    BY <1>1, <2>1 DEF WriteInv, StateInv, FinanceInv, CannotLand, ParkedStates,
       ClaimsNoWrite
  <2>3. TurnInv(o)'
    BY <1>1, <2>1 DEF WriteInv, TurnInv, CannotLand, ParkedStates
  <2>4. LeftInv(o)' /\ ReadInv(o)'
    BY <1>1, <2>1 DEF WriteInv, LeftInv, ReadInv, ParkedStates, RecoverableStates
  <2> QED
    BY <1>1, <1>2, <2>1, <2>2, <2>3, <2>4, OneWrite DEF WriteInv
<1>3. CASE o \in DeviceOps
  <2>1. DevicesInv /\ Anchor \in DeviceOps /\ \A p \in DeviceOps : p \in Ops
    BY Sorts DEF IInv
  <2>2. PlanInv'
    BY <1>1, <1>3, <2>1, Sorts DEF DevicesInv, PlanInv, ParkedStates, Typed,
       TurnsTyped, Turn
  <2>3. ASSUME NEW p \in DeviceOps PROVE DeviceInv(p)'
    BY <1>1, <1>3, <2>1 DEF DevicesInv, DeviceInv, ParkedStates
  <2>4. \A p \in FinanceOps : op'[p] = op[p]
    BY <1>1, <1>3, Sorts
  <2> QED
    BY <1>1, <2>2, <2>3, <2>4, OnePlan DEF DevicesInv
<1> QED
  BY <1>2, <1>3, Sorts

LEMMA GrowsOldSteps ==
    ASSUME IInv, NEW o \in Ops, GrowsOld(o), UNCHANGED environment
    PROVE  IInv'
<1>1. /\ Typed /\ op[o].state \in RecoverableStates
      /\ MayAge(o) /\ op[o] \in OpRow
      /\ UNCHANGED <<frozen, anchored, turn, scan, finance, phone, faults, cancels>>
      /\ op' = [op EXCEPT ![o].age = IF @ = "fresh" THEN "quiet" ELSE "overdue"]
  BY DEF IInv, GrowsOld, outside, Typed, RowsTyped
<1>2. /\ RowsTyped'
      /\ op'[o].state = op[o].state /\ op'[o].record = op[o].record
      /\ \A p \in Ops \ {o} : op'[p] = op[p]
  BY <1>1 DEF Typed, RowsTyped, OpRow, Ages
<1>3. Typed'
  BY <1>1, <1>2 DEF Typed, TurnsTyped, ScanTyped, OutsideTyped, CountsTyped
<1>4. CASE o \in FinanceOps
  <2>1. WriteInv(o) /\ FinanceInv(o)' /\ turn[o].at = "idle"
        /\ finance[o].call # "sent"
    BY <1>1, <1>4, FinanceKept, Sorts DEF IInv, WriteInv, MayAge, MessageOf, At
  <2>2. StateInv(o)' /\ TurnInv(o)' /\ ReadInv(o)'
    BY <1>1, <1>2, <2>1 DEF WriteInv, StateInv, TurnInv, ReadInv, CannotLand
  <2>3. LeftInv(o)'
    BY <1>1, <1>2, <2>1 DEF LeftInv, RecoverableStates
  <2> QED
    BY <1>1, <1>2, <1>3, <1>4, <2>1, <2>2, <2>3, OneWrite DEF WriteInv
<1>5. CASE o \in DeviceOps
  <2>1. /\ DevicesInv /\ Anchor \in DeviceOps /\ \A p \in DeviceOps : p \in Ops
        /\ turn[Anchor].at = "idle" /\ Anchor \notin anchored
    BY <1>1, <1>5, Sorts DEF IInv, MayAge, MessageOf, At
  <2>2. op[Anchor].state \notin {"absent", "accepted"}
    BY <1>1, <1>5, <2>1 DEF DevicesInv, PlanInv, DeviceInv, RecoverableStates
  <2>3. PlanInv'
    BY <1>1, <1>2, <2>1 DEF DevicesInv, PlanInv
  <2>4. ASSUME NEW p \in DeviceOps PROVE DeviceInv(p)'
    BY <1>1, <1>2, <2>1, <2>2 DEF DevicesInv, DeviceInv
  <2>5. \A p \in FinanceOps : op'[p] = op[p]
    BY <1>2, <1>5, Sorts
  <2> QED
    BY <1>1, <1>3, <2>3, <2>4, <2>5, OnePlan DEF DevicesInv
<1> QED
  BY <1>4, <1>5, Sorts

-----------------------------------------------------------------------------
(* The invariant holds at first, and every step keeps it.                  *)

LEMMA InitInv == Init => IInv
<1> SUFFICES ASSUME Init PROVE IInv
  OBVIOUS
<1>1. /\ RowsTyped /\ TurnsTyped /\ ScanTyped /\ OutsideTyped /\ CountsTyped
  <2>1. [state |-> "absent", age |-> "fresh", record |-> FALSE] \in OpRow
    BY DEF OpRow, OperationStates, Ages
  <2>2. RowsTyped
    BY <2>1 DEF Init, RowsTyped
  <2>3. TurnsTyped /\ ScanTyped /\ CountsTyped
    BY RestingTyped, NoScanTyped DEF Init, TurnsTyped, ScanTyped, CountsTyped
  <2>4. OutsideTyped
    BY DEF Init, OutsideTyped, FinanceRow, FinanceRows, Answers, Deeds
  <2> QED
    BY <2>2, <2>3, <2>4
<1>2. /\ \A o \in Ops : op[o].state = "absent" /\ op[o].age = "fresh" /\ ~op[o].record
      /\ \A m \in Messages : turn[m].at = "idle"
      /\ scan.at = "idle" /\ scan.quiet = {}
      /\ \A o \in DeviceOps : phone[o] = "none"
      /\ frozen = FALSE
  BY DEF Init, Resting, NoScan
<1>3. ASSUME NEW o \in FinanceOps PROVE WriteInv(o)
  <2>1. finance[o] = [row |-> "none", landed |-> FALSE, call |-> "none",
                      answer |-> "none", calls |-> 0]
    BY DEF Init
  <2>2. o \in Ops /\ o \in Messages
    BY Sorts
  <2> QED
    BY <1>2, <2>1, <2>2 DEF WriteInv, FinanceInv, StateInv, TurnInv, LeftInv,
       ReadInv, CannotLand, ParkedStates, ClaimsNoWrite
<1>4. PlanInv /\ ScanInv
  BY <1>2, Sorts DEF PlanInv, ScanInv
<1>5. ASSUME NEW o \in DeviceOps PROVE DeviceInv(o)
  BY <1>2, Sorts DEF DeviceInv
<1> QED
  BY <1>1, <1>3, <1>4, <1>5 DEF IInv, Typed, DevicesInv

LEMMA TurnStepInv ==
    ASSUME IInv, NEW m \in Messages, TurnStep(m), UNCHANGED environment
    PROVE  IInv'
<1>1. CASE m \in FinanceOps
  <2>1. turn[m].at \notin {"freezing", "issuing", "resuming"}
    BY <1>1 DEF IInv, WriteInv, TurnInv
  <2>2. ~Freeze(m) /\ ~IssueItem(m) /\ ~ResumedDenied(m)
    BY <2>1 DEF Freeze, IssueItem, ResumedDenied, At
  <2>3. ASSUME GiveUpWaiting(m) PROVE IInv'
    <3>1. turn[m].at # "idle" /\ Over(m)
          /\ UNCHANGED <<db, anchored, scan, outside, faults, cancels>>
      BY <2>3 DEF GiveUpWaiting, At, InTurn, db
    <3> QED
      BY <1>1, <3>1, GiveUpWrite
  <2> QED
    BY <1>1, <2>2, <2>3, InterpretWrite, DecideWrite, BeginCommitWrite,
       CallWrite, HearWrite, SettleWrite, BeginVerifyingWrite,
       RecordReceiptWrite DEF TurnStep
<1>2. CASE m = Anchor
  <2>1. turn[Anchor].at \in {"idle", "asking", "deciding", "freezing", "issuing",
                             "resuming"}
    BY DEF IInv, DevicesInv, PlanInv
  <2>2. /\ ~BeginCommit(m) /\ ~Call(m) /\ ~Hear(m) /\ ~GiveUpWaiting(m)
        /\ ~Settle(m) /\ ~BeginVerifying(m) /\ ~RecordReceipt(m)
    BY <1>2, <2>1 DEF BeginCommit, Call, Hear, GiveUpWaiting, Settle,
       BeginVerifying, RecordReceipt, At
  <2>3. ASSUME IssueItem(m) PROVE IInv'
    <3>1. PICK o \in turn[Anchor].todo :
             StepTo(Anchor, o, "source_in_progress", FALSE, ItemDone(Anchor, o))
      BY <1>2, <2>3 DEF IssueItem
    <3>2. turn[Anchor].at \in {"issuing", "resuming"} /\ InTurn
      BY <1>2, <2>3 DEF IssueItem, At
    <3> QED
      BY <3>1, <3>2, ItemPlan
  <2>4. ASSUME ResumedDenied(m) PROVE IInv'
    <3>1. PICK o \in turn[Anchor].todo,
               end \in {"failed_safe", "waiting_for_clarification"} :
             StepTo(Anchor, o, end, FALSE, ItemDone(Anchor, o))
      BY <1>2, <2>4 DEF ResumedDenied
    <3>2. turn[Anchor].at \in {"issuing", "resuming"} /\ InTurn
      BY <1>2, <2>4 DEF ResumedDenied, At
    <3> QED
      BY <3>1, <3>2, ItemPlan
  <2> QED
    BY <1>2, <2>2, <2>3, <2>4, InterpretPlan, DecidePlan, FreezePlan
    DEF TurnStep
<1> QED
  BY <1>1, <1>2, Sorts

LEMMA NextInv == IInv /\ [Next]_vars => IInv'
<1> SUFFICES ASSUME IInv, [Next]_vars PROVE IInv'
  OBVIOUS
<1>1. ASSUME NEW m \in Messages, UNCHANGED environment,
             Receive(m) \/ StartTurn(m) \/ TurnStep(m) \/ TurnFails(m)
      PROVE  IInv'
  <2>1. CASE m \in FinanceOps
    BY <1>1, <2>1, ReceiveWrite, StartTurnWrite, TurnStepInv, TurnFailsWrite
  <2>2. CASE m = Anchor
    BY <1>1, <2>2, ReceivePlan, StartTurnPlan, TurnStepInv, TurnFailsPlan
  <2> QED
    BY <2>1, <2>2, Sorts
<1>2. ASSUME NEW o \in FinanceOps, FinanceStep(o) \/ CallLost(o),
             UNCHANGED environment
      PROVE  IInv'
  BY <1>2, FinanceSteps
<1>3. ASSUME NEW o \in DeviceOps, Deliver(o) \/ Execute(o) \/ Report(o),
             UNCHANGED environment
      PROVE  IInv'
  BY <1>3, PhoneSteps, ReportSteps
<1>4. ASSUME Scanning \/ ScanUnread \/ ProcessDies, UNCHANGED environment
      PROVE  IInv'
  BY <1>4, ScanBeginSteps, ScanReadSteps, ScanUnreadSteps, ScanApplySteps,
     SweepSteps, ProcessDiesSteps DEF Scanning
<1>5. ASSUME NEW o \in Ops, Cancel(o) \/ GrowsOld(o), UNCHANGED environment
      PROVE  IInv'
  BY <1>5, CancelSteps, GrowsOldSteps
<1>6. CASE UNCHANGED vars
  <2>1. Typed' /\ ScanInv'
    BY <1>6 DEF IInv, Typed, RowsTyped, TurnsTyped, ScanTyped, OutsideTyped,
       CountsTyped, ScanInv, vars, db, outside
  <2>2. ASSUME NEW o \in FinanceOps PROVE WriteInv(o)'
    BY <1>6, WriteKept DEF IInv, vars, db, outside
  <2>3. DevicesInv'
    <3>1. turn[Anchor].todo \in SUBSET DeviceOps
      BY Sorts DEF IInv, Typed, TurnsTyped, Turn
    <3> QED
      BY <1>6, <3>1, DevicesKept DEF IInv, vars, db, outside
  <2> QED
    BY <2>1, <2>2, <2>3 DEF IInv
<1> QED
  BY <1>1, <1>2, <1>3, <1>4, <1>5, <1>6 DEF Next

\* What the turns, the writes, the devices, the scan and the sweep rely on holds
\* in every state the service reaches, for any operations, devices and bounds.
THEOREM InductiveInvariant == Spec => []IInv
  BY InitInv, NextInv, PTL DEF Spec

-----------------------------------------------------------------------------
(* What it is for.                                                         *)

(* The rows, the turns, the scan and what the model keeps of Finance and   *)
(* of the phone stay in their types.                                       *)
THEOREM TypeCorrect == Spec => []TypeOK
<1>1. IInv => TypeOK
  BY TypedIsTypeOK DEF IInv
<1> QED
  BY <1>1, InductiveInvariant, PTL

(* An operation that is said to have written nothing has written nothing,  *)
(* then or later, unless Finance's call failed at `prepared'.              *)
THEOREM ClaimsHold == Spec => []ClaimsAreTrue
<1>1. ASSUME IInv PROVE ClaimsAreTrue
  <2>1. ASSUME NEW o \in FinanceOps, op[o].state \in ClaimsNoWrite,
               ~environment.strands
        PROVE  ~finance[o].landed
    BY <1>1, <2>1 DEF IInv, WriteInv, FinanceInv, StateInv, CannotLand
  <2>2. ASSUME NEW o \in DeviceOps, op[o].state \in ClaimsNoWrite
        PROVE  phone[o] # "wrote"
    BY <1>1, <2>2 DEF IInv, DevicesInv, DeviceInv, ClaimsNoWrite, ParkedStates
  <2> QED
    BY <2>1, <2>2, Sorts DEF ClaimsAreTrue, WroteNothing
<1> QED
  BY <1>1, InductiveInvariant, PTL

(* A receipt on an operation names a row Finance settled, or an event the  *)
(* phone made or found.                                                    *)
THEOREM ReceiptsHold == Spec => []ReceiptIsReal
<1>1. ASSUME IInv PROVE ReceiptIsReal
  <2>1. ASSUME NEW o \in FinanceOps, op[o].record
        PROVE  finance[o].row = "succeeded" /\ finance[o].landed
    BY <1>1, <2>1 DEF IInv, WriteInv, FinanceInv, StateInv
  <2>2. ASSUME NEW o \in DeviceOps, op[o].record
        PROVE  phone[o] \in {"wrote", "found"}
    BY <1>1, <2>2 DEF IInv, DevicesInv, DeviceInv
  <2> QED
    BY <2>1, <2>2, Sorts DEF ReceiptIsReal
<1> QED
  BY <1>1, InductiveInvariant, PTL

(* Turns that fail, restarts, recovery and cancels: Finance is called for  *)
(* an operation at most once, and what may still be served cannot be       *)
(* cancelled.                                                              *)
THEOREM CallsHold == Spec => []CalledOnce
<1>1. ASSUME IInv PROVE CalledOnce
  <2>1. ASSUME NEW o \in FinanceOps
        PROVE  /\ finance[o].calls <= 1
               /\ finance[o].call # "none" =>
                    /\ op[o].state # "cancelled_pre_submit"
                    /\ "cancelled_pre_submit" \notin AllowedTransitions[op[o].state]
    <3>1. FinanceInv(o) /\ StateInv(o) /\ op[o].state \in OperationStates
      BY <1>1, Sorts DEF IInv, WriteInv, Typed, RowsTyped, OpRow
    <3>2. finance[o].call # "none" =>
             op[o].state \in {"source_in_progress", "verifying", "succeeded",
                              "failed_safe", "needs_manual_review"}
      BY <3>1 DEF FinanceInv, StateInv, OperationStates, RecoverableStates,
         TerminalStates
    <3>3. \A s \in {"source_in_progress", "verifying", "succeeded",
                    "failed_safe", "needs_manual_review"} :
             "cancelled_pre_submit" \notin AllowedTransitions[s]
      BY Table DEF ParkedStates, TerminalStates
    <3> QED
      BY <3>1, <3>2, <3>3 DEF FinanceInv
  <2> QED
    BY <2>1 DEF CalledOnce
<1> QED
  BY <1>1, InductiveInvariant, PTL

(* Nothing of a plan reaches the phone before all of its rows are on disk. *)
THEOREM PlansHold == Spec => []PlanIsWhole
<1>1. ASSUME IInv PROVE PlanIsWhole
  BY <1>1 DEF IInv, DevicesInv, DeviceInv, PlanIsWhole
<1> QED
  BY <1>1, InductiveInvariant, PTL

-----------------------------------------------------------------------------
(* What no step does to a row: one that has ended stays as it is, and a    *)
(* receipt comes with success.                                             *)

RowStep(o) ==
    \/ op'[o].state = op[o].state /\ op'[o].record = op[o].record
    \/ /\ op[o].state \notin TerminalStates
       /\ op'[o].record => op[o].record \/ op'[o].state = "succeeded"

LEMMA StepToRows ==
    ASSUME RowsTyped, NEW o \in Ops, NEW t, NEW proven \in BOOLEAN,
           \/ UNCHANGED op
           \/ /\ CanTransition(op[o].state, t, proven)
              /\ op' = [op EXCEPT ![o] = Moved(op[o], t)]
    PROVE  \A p \in Ops : RowStep(p)
<1>1. CASE UNCHANGED op
  BY <1>1 DEF RowStep
<1>2. CASE /\ CanTransition(op[o].state, t, proven)
           /\ op' = [op EXCEPT ![o] = Moved(op[o], t)]
  <2>1. op[o] \in OpRow /\ op[o].state \in OperationStates
    BY DEF RowsTyped, OpRow
  <2>2. t \in OperationStates /\ op[o].state \notin TerminalStates
    BY <1>2, <2>1, MovesFrom
  <2>3. Moved(op[o], t).record = op[o].record
    BY <2>1, <2>2, MovedTyped
  <2> QED
    BY <1>2, <2>2, <2>3 DEF RowStep, RowsTyped
<1> QED
  BY <1>1, <1>2

LEMMA TurnStepRows ==
    ASSUME IInv, NEW m \in Messages, TurnStep(m)
    PROVE  \A p \in Ops : RowStep(p)
<1>1. Typed /\ RowsTyped /\ m \in Ops /\ FALSE \in BOOLEAN /\ TRUE \in BOOLEAN
      /\ Anchor \in Ops
  BY Sorts DEF IInv, Typed
<1>2. ASSUME UNCHANGED op PROVE \A p \in Ops : RowStep(p)
  BY <1>2 DEF RowStep
<1>3. ASSUME NEW o \in Ops, NEW t, NEW proven \in BOOLEAN,
             Steps(m, o, t, proven)
      PROVE  \A p \in Ops : RowStep(p)
  <2>1. \/ UNCHANGED op
        \/ /\ CanTransition(op[o].state, t, proven)
           /\ op' = [op EXCEPT ![o] = Moved(op[o], t)]
    BY <1>3 DEF Steps
  <2> QED
    BY <1>1, <2>1, StepToRows
<1>4. ASSUME Interpret(m) PROVE \A p \in Ops : RowStep(p)
  <2>1. Steps(m, m, "interpreting", FALSE)
    BY <1>4 DEF Interpret, StepTo, Steps
  <2> QED
    BY <1>1, <1>3, <2>1
<1>5. ASSUME Decide(m) PROVE \A p \in Ops : RowStep(p)
  <2>1. \E t : Steps(m, m, t, FALSE)
    BY <1>5 DEF Decide, StepTo, Steps
  <2> QED
    BY <1>1, <1>3, <2>1
<1>6. ASSUME BeginCommit(m) PROVE \A p \in Ops : RowStep(p)
  <2>1. Steps(m, m, "source_in_progress", FALSE)
    BY <1>6 DEF BeginCommit, StepTo, Steps
  <2> QED
    BY <1>1, <1>3, <2>1
<1>7. ASSUME Settle(m) PROVE \A p \in Ops : RowStep(p)
  <2>1. Steps(m, m, turn[m].target, TRUE)
    BY <1>7 DEF Settle, StepTo, Steps
  <2> QED
    BY <1>1, <1>3, <2>1
<1>8. ASSUME BeginVerifying(m) PROVE \A p \in Ops : RowStep(p)
  <2>1. Steps(m, m, "verifying", FALSE)
    BY <1>8 DEF BeginVerifying, StepTo, Steps
  <2> QED
    BY <1>1, <1>3, <2>1
<1>9. ASSUME IssueItem(m) PROVE \A p \in Ops : RowStep(p)
  <2>1. PICK o \in turn[m].todo : Steps(m, o, "source_in_progress", FALSE)
    BY <1>9 DEF IssueItem, StepTo, Steps
  <2>2. o \in Ops
    BY <1>1, <2>1, Sorts DEF Typed, TurnsTyped, Turn
  <2> QED
    BY <1>1, <1>3, <2>1, <2>2
<1>10. ASSUME ResumedDenied(m) PROVE \A p \in Ops : RowStep(p)
  <2>1. PICK o \in turn[m].todo, t \in {"failed_safe", "waiting_for_clarification"} :
           Steps(m, o, t, FALSE)
    BY <1>10 DEF ResumedDenied, StepTo, Steps
  <2>2. o \in Ops
    BY <1>1, <2>1, Sorts DEF Typed, TurnsTyped, Turn
  <2> QED
    BY <1>1, <1>3, <2>1, <2>2
<1>11. ASSUME RecordReceipt(m) PROVE \A p \in Ops : RowStep(p)
  <2>1. CASE CanTransition(op[m].state, "succeeded", FALSE)
    <3>1. op' = [op EXCEPT ![m] = [Moved(op[m], "succeeded") EXCEPT !.record = TRUE]]
      BY <1>11, <2>1 DEF RecordReceipt, WithRecord
    <3>2. op[m] \in OpRow /\ op[m].state \in OperationStates
      BY <1>1 DEF RowsTyped, OpRow
    <3>3. op[m].state \notin TerminalStates
      BY <1>1, <2>1, <3>2, MovesFrom
    <3>4. [Moved(op[m], "succeeded") EXCEPT !.record = TRUE].state = "succeeded"
      BY <3>2 DEF Moved, OpRow
    <3> QED
      BY <1>1, <3>1, <3>3, <3>4 DEF RowStep, RowsTyped
  <2>2. CASE ~CanTransition(op[m].state, "succeeded", FALSE)
    BY <1>2, <1>11, <2>2 DEF RecordReceipt
  <2> QED
    BY <2>1, <2>2
<1>12. ASSUME Freeze(m) PROVE \A p \in Ops : RowStep(p)
  <2> SUFFICES ASSUME NEW p \in Ops PROVE RowStep(p)
    OBVIOUS
  <2>1. op[p] \in OpRow /\ "dispatching" \in OperationStates
    BY <1>1 DEF RowsTyped, OperationStates, RecoverableStates
  <2>2. Moved(op[p], "dispatching").record = op[p].record
    BY <2>1, MovedTyped
  <2>3. \/ op[p].state = "absent" /\ op'[p] = Moved(op[p], "dispatching")
        \/ op'[p] = [op[p] EXCEPT !.age = "fresh"]
        \/ op'[p] = op[p]
    BY <1>12 DEF Freeze
  <2> QED
    BY <2>1, <2>2, <2>3 DEF RowStep, OpRow, TerminalStates
<1>13. ASSUME Call(m) \/ Hear(m) \/ GiveUpWaiting(m)
       PROVE  \A p \in Ops : RowStep(p)
  BY <1>2, <1>13 DEF Call, Hear, GiveUpWaiting, db
<1> QED
  BY <1>4, <1>5, <1>6, <1>7, <1>8, <1>9, <1>10, <1>11, <1>12, <1>13 DEF TurnStep

LEMMA StepRows ==
    ASSUME IInv, Next
    PROVE  \A p \in Ops : RowStep(p)
<1>1. Typed /\ RowsTyped /\ UNCHANGED environment
  BY DEF IInv, Typed, Next
<1>2. ASSUME UNCHANGED op PROVE \A p \in Ops : RowStep(p)
  BY <1>2 DEF RowStep
<1>3. ASSUME NEW m \in Messages, Receive(m) PROVE \A p \in Ops : RowStep(p)
  <2>1. /\ op'[m].record = op[m].record /\ op[m].state \in {"absent", "accepted"}
        /\ \A p \in Ops \ {m} : op'[p] = op[p]
    BY <1>1, <1>3, ReceiveTyped
  <2> QED
    BY <2>1 DEF RowStep, TerminalStates
<1>4. ASSUME NEW m \in Messages, StartTurn(m) \/ TurnFails(m)
      PROVE  \A p \in Ops : RowStep(p)
  BY <1>2, <1>4 DEF StartTurn, TurnFails, db
<1>5. ASSUME NEW o \in FinanceOps, FinanceStep(o) \/ CallLost(o)
      PROVE  \A p \in Ops : RowStep(p)
  <2>1. InFinance
    BY <1>5 DEF FinanceStep, Arrive, Submit, Land, Conclude, Answer, CallLost
  <2> QED
    BY <1>2, <2>1 DEF InFinance, db
<1>6. ASSUME NEW o \in DeviceOps, Deliver(o) \/ Execute(o)
      PROVE  \A p \in Ops : RowStep(p)
  BY <1>2, <1>6 DEF Deliver, Execute
<1>7. ASSUME NEW o \in DeviceOps, Report(o) PROVE \A p \in Ops : RowStep(p)
  <2>1. o \in Ops /\ op[o] \in OpRow /\ op[o].state \notin TerminalStates
        /\ "failed_safe" \in OperationStates
    BY <1>1, <1>7, Sorts DEF RowsTyped, Report, OperationStates, TerminalStates
  <2>2. CASE op' = [op EXCEPT ![o] = Moved(op[o], "failed_safe")]
    <3>1. Moved(op[o], "failed_safe").record = op[o].record
      BY <2>1, MovedTyped
    <3> QED
      BY <1>1, <2>1, <2>2, <3>1 DEF RowStep, RowsTyped
  <2>3. CASE op' = WithRecord(o, "succeeded")
    <3>1. [Moved(op[o], "succeeded") EXCEPT !.record = TRUE].state = "succeeded"
      BY <2>1 DEF Moved, OpRow
    <3> QED
      BY <1>1, <2>1, <2>3, <3>1 DEF RowStep, RowsTyped, WithRecord
  <2> QED
    BY <1>7, <2>2, <2>3 DEF Report
<1>8. ASSUME ScanBegin \/ ScanRead \/ ScanUnread \/ ProcessDies
      PROVE  \A p \in Ops : RowStep(p)
  BY <1>2, <1>8 DEF ScanBegin, ScanRead, ScanUnread, ProcessDies, db
<1>9. ASSUME ScanApply PROVE \A p \in Ops : RowStep(p)
  <2> SUFFICES ASSUME NEW p \in Ops PROVE RowStep(p)
    OBVIOUS
  <2>1. /\ scan.at = "applying" /\ op[p] \in OpRow
        /\ p \in FinanceOps \/ p \in DeviceOps
        /\ op'[p] = op[p] \/ \E t : Recovered(p, t)
    BY <1>1, <1>9, ScanApplied, Sorts DEF RowsTyped
  <2>2. ASSUME NEW t, Recovered(p, t) PROVE RowStep(p)
    <3>1. op'[p].record => op'[p].state = "succeeded"
      BY <2>1, <2>2, RecoveredRow
    <3>2. CASE p \in FinanceOps
      <4>1. PICK hop : CanTransition(op[p].state, hop, FALSE)
        BY <2>2, <3>2 DEF Recovered
      <4>2. op[p].state \in OperationStates /\ FALSE \in BOOLEAN
        BY <2>1 DEF OpRow
      <4>3. op[p].state \notin TerminalStates
        BY <4>1, <4>2, MovesFrom
      <4> QED
        BY <3>1, <4>3 DEF RowStep
    <3>3. CASE p \notin FinanceOps
      <4>1. CanTransition(op[p].state, "failed_safe", FALSE)
        BY <2>2, <3>3 DEF Recovered
      <4>2. op[p].state \in OperationStates /\ FALSE \in BOOLEAN
        BY <2>1 DEF OpRow
      <4>3. op[p].state \notin TerminalStates
        BY <4>1, <4>2, MovesFrom
      <4> QED
        BY <3>1, <4>3 DEF RowStep
    <3> QED
      BY <3>2, <3>3
  <2> QED
    BY <2>1, <2>2 DEF RowStep
<1>10. ASSUME Sweep PROVE \A p \in Ops : RowStep(p)
  <2> SUFFICES ASSUME NEW p \in Ops PROVE RowStep(p)
    OBVIOUS
  <2>1. op[p] \in OpRow /\ "needs_manual_review" \in OperationStates
    BY <1>1 DEF RowsTyped, OperationStates, TerminalStates
  <2>2. Moved(op[p], "needs_manual_review").record = op[p].record
    BY <2>1, MovedTyped
  <2> QED
    BY <1>10, <2>2 DEF RowStep, Sweep, Overdue, TerminalStates
<1>11. ASSUME NEW o \in Ops, Cancel(o) PROVE \A p \in Ops : RowStep(p)
  <2>1. /\ \A p \in Ops \ {o} : op'[p] = op[p]
        /\ op'[o].record = op[o].record
        /\ \/ op'[o].state = op[o].state
           \/ op[o].state \in {"accepted", "interpreting", "dispatching"}
                              \cup ParkedStates
    BY <1>1, <1>11, CancelRow
  <2> QED
    BY <2>1 DEF RowStep, ParkedStates, TerminalStates
<1>12. ASSUME NEW o \in Ops, GrowsOld(o) PROVE \A p \in Ops : RowStep(p)
  BY <1>1, <1>12 DEF GrowsOld, RowStep, RowsTyped, OpRow
<1> QED
  BY <1>1, <1>3, <1>4, <1>5, <1>6, <1>7, <1>8, <1>9, <1>10, <1>11, <1>12,
     TurnStepRows DEF Next, Scanning

\* The two together: a receipt is never taken back.
Closed == \A o \in Ops : op[o].record => op[o].state = "succeeded"

LEMMA ClosedInv == Spec => []Closed
<1>1. Init => Closed
  BY DEF Init, Closed
<1>2. IInv /\ Closed /\ [Next]_vars => Closed'
  <2> SUFFICES ASSUME IInv, Closed, [Next]_vars PROVE Closed'
    OBVIOUS
  <2>1. CASE Next
    <3>1. \A o \in Ops : RowStep(o)
      BY <2>1, StepRows
    <3> QED
      BY <3>1 DEF Closed, RowStep, TerminalStates
  <2>2. CASE UNCHANGED vars
    BY <2>2 DEF Closed, vars, db
  <2> QED
    BY <2>1, <2>2
<1> QED
  BY <1>1, <1>2, InductiveInvariant, PTL DEF Spec

(* Once an operation has ended, cancelled, failed, succeeded or handed to  *)
(* a person, no turn, report, scan, sweep or cancel moves its row again,   *)
(* and a receipt that was shown stays.                                     *)
EndedIsFinal ==
    \A o \in Ops :
        /\ op[o].state \in TerminalStates => op'[o].state = op[o].state
        /\ op[o].record => op'[o].record

THEOREM EndsAreFinal == Spec => [][EndedIsFinal]_vars
<1>1. IInv /\ Closed /\ [Next]_vars => [EndedIsFinal]_vars
  <2> SUFFICES ASSUME IInv, Closed, Next PROVE EndedIsFinal
    OBVIOUS
  <2>1. \A o \in Ops : RowStep(o)
    BY StepRows
  <2> QED
    BY <2>1 DEF EndedIsFinal, RowStep, Closed, TerminalStates
<1> QED
  BY <1>1, InductiveInvariant, ClosedInv, PTL DEF Spec

-----------------------------------------------------------------------------
(* The promise of a governed write, as the Agent's user sees it kept.      *)

Wanted == [o \in FinanceOps |-> IF finance[o].row = "none" THEN "no write"
                                ELSE "write"]
Outcome == [o \in FinanceOps |->
              IF finance[o].row \in {"succeeded", "failed_safe",
                                     "needs_manual_review"}
              THEN finance[o].row ELSE "open"]
Written(o) == {[token |-> o, body |-> "write", faithful |-> TRUE]}
Landed == [o \in FinanceOps |->
             IF finance[o].landed
             THEN {[token |-> o, body |-> "write", faithful |-> TRUE]}
             ELSE {}]
Told == {o \in FinanceOps : op[o].record}

LEMMA PromiseInit == Init => Promise!Init
  BY Sorts DEF Init, Promise!Init

\* Where the ledger and the executions are as they were, more may be told.
LEMMA PromiseTell ==
    ASSUME IInv, IInv', EndedIsFinal,
           \A o \in FinanceOps : /\ finance'[o].row = finance[o].row
                                 /\ finance'[o].landed = finance[o].landed
    PROVE  Promise!Next
<1>1. Wanted' = Wanted /\ Outcome' = Outcome /\ Landed' = Landed
  BY DEF Wanted, Outcome, Landed
<1>2. Told \subseteq Told'
  BY Sorts DEF Told, EndedIsFinal
<1>3. \A o \in Told' : Outcome[o] = "succeeded"
  BY DEF Told, Outcome, IInv, WriteInv, StateInv
<1>4. Told' = Told \cup Told' /\ Told' \in SUBSET FinanceOps
  BY <1>2 DEF Told
<1>5. PICK ks \in SUBSET FinanceOps : ks = Told'
  BY <1>4
<1>6. Promise!Tell(ks)
  BY <1>1, <1>3, <1>4, <1>5 DEF Promise!Tell, Told, Wanted, Outcome, Landed
<1> QED
  BY <1>6 DEF Promise!Next

\* A step of Finance binds a key, writes its row, settles it, or does nothing
\* the promise speaks of.
LEMMA PromiseFinance ==
    ASSUME IInv, IInv', EndedIsFinal, NEW o \in FinanceOps,
           FinanceStep(o) \/ CallLost(o)
    PROVE  Promise!Next
<1> DEFINE g == finance[o]
<1>1. /\ finance \in [FinanceOps -> FinanceRow] /\ FinanceInv(o) /\ g \in FinanceRow
  BY DEF IInv, Typed, OutsideTyped, WriteInv
<1>2. Told' = Told
  BY DEF FinanceStep, Arrive, Submit, Land, Conclude, Answer, CallLost,
     InFinance, db, Told
<1>3. ASSUME NEW f \in FinanceRow, finance' = [finance EXCEPT ![o] = f],
             f.row = g.row, f.landed = g.landed
      PROVE  Promise!Next
  BY <1>1, <1>3, PromiseTell DEF FinanceRow
<1>4. ASSUME Arrive(o) PROVE Promise!Next
  <2>1. CASE /\ finance[o].call = "sent"
             /\ finance' = [finance EXCEPT ![o].call = "running",
                                           ![o].row = "prepared"]
    <3>1. g.row = "none" /\ ~g.landed
      BY <1>1, <2>1 DEF FinanceInv, FinanceRow
    <3>2. finance'[o].row = "prepared" /\ finance'[o].landed = g.landed
          /\ \A p \in FinanceOps \ {o} : finance'[p] = finance[p]
      BY <1>1, <2>1 DEF FinanceRow
    <3>3. Wanted' = [Wanted EXCEPT ![o] = "write"] /\ Wanted[o] = "no write"
      BY <3>1, <3>2 DEF Wanted
    <3>4. Outcome' = Outcome /\ Landed' = Landed
      BY <3>1, <3>2 DEF Outcome, Landed
    <3>5. Promise!Bind(o, "write")
      BY <1>2, <3>3, <3>4 DEF Promise!Bind, Wanted, Outcome, Landed, Told
    <3> QED
      BY <3>5 DEF Promise!Next
  <2>2. ASSUME NEW said \in {"duplicate", "question", "error"},
               finance' = [finance EXCEPT ![o].call = "none", ![o].answer = said]
        PROVE  Promise!Next
    <3>1. [g EXCEPT !.call = "none", !.answer = said] \in FinanceRow
      BY <1>1 DEF FinanceRow, Answers
    <3> QED
      BY <1>1, <1>3, <2>2, <3>1 DEF FinanceRow
  <2> QED
    BY <1>4, <2>1, <2>2 DEF Arrive
<1>5. ASSUME Submit(o) PROVE Promise!Next
  <2>1. g.row = "prepared" /\ ~g.landed
    BY <1>1, <1>5 DEF Submit, FinanceInv, FinanceRow
  <2>2. CASE finance' = [finance EXCEPT ![o].row = "submitting"]
    <3>1. finance'[o].row = "submitting" /\ finance'[o].landed = g.landed
          /\ \A p \in FinanceOps \ {o} : finance'[p] = finance[p]
      BY <1>1, <2>2 DEF FinanceRow
    <3>2. Wanted' = Wanted /\ Outcome' = Outcome /\ Landed' = Landed
      BY <2>1, <3>1 DEF Wanted, Outcome, Landed
    <3>3. Promise!Tell({})
      BY <1>2, <3>2 DEF Promise!Tell, Wanted, Outcome, Landed, Told
    <3> QED
      BY <3>3 DEF Promise!Next
  <2>3. CASE finance' = [finance EXCEPT ![o].row = "failed_safe"]
    <3>1. finance'[o].row = "failed_safe" /\ finance'[o].landed = g.landed
          /\ \A p \in FinanceOps \ {o} : finance'[p] = finance[p]
      BY <1>1, <2>3 DEF FinanceRow
    <3>2. /\ Wanted' = Wanted /\ Landed' = Landed /\ Landed[o] = {}
          /\ Outcome' = [Outcome EXCEPT ![o] = "failed_safe"]
          /\ Outcome[o] = "open" /\ Wanted[o] # "no write"
      BY <2>1, <3>1 DEF Wanted, Outcome, Landed
    <3>3. Promise!Settle(o, "failed_safe")
      BY <1>2, <3>2 DEF Promise!Settle, Wanted, Outcome, Landed, Told
    <3> QED
      BY <3>3 DEF Promise!Next
  <2> QED
    BY <1>5, <2>2, <2>3 DEF Submit
<1>6. ASSUME Land(o) PROVE Promise!Next
  <2> DEFINE e == [token |-> o, body |-> "write", faithful |-> TRUE]
  <2>1. g.row \in {"submitting", "needs_manual_review"} /\ ~g.landed
        /\ finance' = [finance EXCEPT ![o].landed = TRUE]
    BY <1>6 DEF Land
  <2>2. finance'[o].row = g.row /\ finance'[o].landed = TRUE
        /\ \A p \in FinanceOps \ {o} : finance'[p] = finance[p]
    BY <1>1, <2>1 DEF FinanceRow
  <2>3. /\ Wanted' = Wanted /\ Outcome' = Outcome
        /\ Landed' = [Landed EXCEPT ![o] = {e}] /\ Landed[o] = {}
        /\ Outcome[o] \in {"open", "needs_manual_review"}
        /\ Wanted[o] = "write"
    BY <2>1, <2>2 DEF Wanted, Outcome, Landed
  <2>4. e \in Promise!Entries /\ e.body = "write"
    BY DEF Promise!Entries
  <2>5. Promise!Land(o)
    BY <1>2, <2>3, <2>4 DEF Promise!Land, Wanted, Outcome, Landed, Told
  <2> QED
    BY <2>5 DEF Promise!Next
<1>7. ASSUME Conclude(o) PROVE Promise!Next
  <2> DEFINE e == [token |-> o, body |-> "write", faithful |-> TRUE]
  <2>1. PICK next \in {"succeeded", "needs_manual_review"} :
           /\ finance' = [finance EXCEPT ![o].row = next]
           /\ next = "succeeded" => g.landed
    BY <1>7 DEF Conclude
  <2>2. finance'[o].row = next /\ finance'[o].landed = g.landed
        /\ g.row = "submitting"
        /\ \A p \in FinanceOps \ {o} : finance'[p] = finance[p]
    BY <1>1, <1>7, <2>1 DEF FinanceRow, Conclude
  <2>3. /\ Wanted' = Wanted /\ Landed' = Landed
        /\ next = "succeeded" => Landed[o] = {e}
        /\ Outcome' = [Outcome EXCEPT ![o] = next]
        /\ Outcome[o] = "open" /\ Wanted[o] # "no write"
    BY <2>1, <2>2 DEF Wanted, Outcome, Landed
  <2>4. e.faithful = TRUE
    OBVIOUS
  <2>5. Promise!Settle(o, next)
    BY <1>2, <2>1, <2>3, <2>4 DEF Promise!Settle, Wanted, Outcome, Landed, Told
  <2> QED
    BY <2>5 DEF Promise!Next
<1>8. ASSUME Answer(o) PROVE Promise!Next
  <2>1. PICK said \in Says(g.row) :
           finance' = [finance EXCEPT ![o].call = "none", ![o].answer = said]
    BY <1>8 DEF Answer
  <2>2. said \in Answers
    BY <2>1 DEF Says, Answers
  <2>3. [g EXCEPT !.call = "none", !.answer = said] \in FinanceRow
    BY <1>1, <2>2 DEF FinanceRow
  <2> QED
    BY <1>1, <1>3, <2>1, <2>3 DEF FinanceRow
<1>9. ASSUME CallLost(o) PROVE Promise!Next
  <2>1. [g EXCEPT !.call = "none"] \in FinanceRow
    BY <1>1 DEF FinanceRow
  <2> QED
    BY <1>1, <1>3, <1>9, <2>1 DEF FinanceRow, CallLost
<1> QED
  BY <1>4, <1>5, <1>6, <1>7, <1>8, <1>9 DEF FinanceStep

LEMMA PromiseStep ==
    ASSUME IInv, IInv', EndedIsFinal, Next
    PROVE  Promise!Next
<1>1. finance \in [FinanceOps -> FinanceRow]
  BY DEF IInv, Typed, OutsideTyped
<1>2. ASSUME UNCHANGED finance PROVE Promise!Next
  BY <1>2, PromiseTell
<1>3. ASSUME NEW m \in Messages, TurnStep(m) PROVE Promise!Next
  <2>1. CASE finance' = [finance EXCEPT ![m].call = "sent", ![m].calls = @ + 1]
    <3>1. \A o \in FinanceOps : /\ finance'[o].row = finance[o].row
                                /\ finance'[o].landed = finance[o].landed
      BY <1>1, <2>1 DEF FinanceRow
    <3> QED
      BY <3>1, PromiseTell
  <2>2. UNCHANGED finance
        \/ finance' = [finance EXCEPT ![m].call = "sent", ![m].calls = @ + 1]
    BY <1>3 DEF TurnStep, Interpret, Decide, BeginCommit, Call, Hear,
       GiveUpWaiting, Settle, BeginVerifying, RecordReceipt, Freeze, IssueItem,
       ResumedDenied, InTurn, outside
  <2> QED
    BY <1>2, <2>1, <2>2
<1>4. ASSUME NEW m \in Messages, Receive(m) \/ StartTurn(m) \/ TurnFails(m)
      PROVE  Promise!Next
  BY <1>2, <1>4 DEF Receive, StartTurn, TurnFails, outside
<1>5. ASSUME NEW o \in FinanceOps, FinanceStep(o) \/ CallLost(o)
      PROVE  Promise!Next
  BY <1>5, PromiseFinance
<1>6. ASSUME NEW o \in DeviceOps, Deliver(o) \/ Execute(o) \/ Report(o)
      PROVE  Promise!Next
  BY <1>2, <1>6 DEF Deliver, Execute, Report, InPhone
<1>7. ASSUME Scanning \/ ScanUnread \/ ProcessDies PROVE Promise!Next
  BY <1>2, <1>7 DEF Scanning, ScanBegin, ScanRead, ScanApply, Sweep, ScanUnread,
     ProcessDies, Recovering, outside
<1>8. ASSUME NEW o \in Ops, Cancel(o) \/ GrowsOld(o) PROVE Promise!Next
  BY <1>2, <1>8 DEF Cancel, GrowsOld, outside
<1> QED
  BY <1>3, <1>4, <1>5, <1>6, <1>7, <1>8 DEF Next

(* The receipts the Agent shows are of keys that Finance settled as        *)
(* succeeded, with one row of that request in the ledger: turns, recovery  *)
(* and Finance together implement the promise of a governed write.         *)
THEOREM PromiseKept == Spec => KeepsPromise
<1>1. IInv /\ IInv' /\ [EndedIsFinal]_vars /\ [Next]_vars
      => [Promise!Next]_(Promise!vars)
  <2>1. CASE UNCHANGED vars
    BY <2>1 DEF vars, db, outside, Promise!vars
  <2>2. ASSUME IInv, IInv', EndedIsFinal, Next PROVE Promise!Next
    BY <2>2, PromiseStep
  <2> QED
    BY <2>1, <2>2
<1> QED
  BY <1>1, PromiseInit, InductiveInvariant, EndsAreFinal, PTL
  DEF Spec, KeepsPromise, Promise!Spec

=============================================================================
