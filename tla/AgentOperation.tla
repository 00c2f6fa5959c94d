--------------------------- MODULE AgentOperation ---------------------------
(***************************************************************************)
(* The Agent's operations (api/operation_state.py, operation_store.py):    *)
(* the turns that drive them (api/orchestrator.py, finance_dispatcher.py), *)
(* the recovery scan that projects Finance's outcome onto those a turn     *)
(* left behind (api/recovery.py, composition.py), the sweep and the report *)
(* endpoint of actions a phone executes, and a user who cancels.           *)
(*                                                                         *)
(* A message is a Finance write or a frozen plan of device actions whose   *)
(* first item is the message's own operation.  An action is one committed  *)
(* transaction or one answer received.  Finance appears as what            *)
(* GovernedWrite shows of it: the state of the key's execution, whether    *)
(* its row has landed, and the one call in flight.                         *)
(***************************************************************************)
EXTENDS Naturals, Sequences, SequencesExt

CONSTANTS
    FinanceOps,     \* operations that write to the ledger
    Plan,           \* the device actions of one message, in order
    Environments,   \* what may happen around the service
    MaxFaults,      \* bound: turns and processes that die, reads that fail
    MaxCancels      \* bound: cancels that touch an operation's row

DeviceOps == Range(Plan)
Anchor == Head(Plan)
Messages == FinanceOps \cup {Anchor}
Ops == FinanceOps \cup DeviceOps

ASSUME AgentOperationAssumption ==
    /\ Plan \in Seq(DeviceOps) /\ Plan # <<>> /\ IsInjective(Plan)
    /\ FinanceOps \cap DeviceOps = {}
    /\ Environments \subseteq [messages : SUBSET Messages, strands : BOOLEAN]

VARIABLES
    op,             \* operations
    frozen,         \* the plan's rows are on disk, with their arguments
    anchored,       \* messages whose request has read its row at `accepted'
    turn,           \* the one task of each message in this process
    scan,           \* what the recovery scan has read
    finance,        \* Finance's execution of each key, and the call to it
    phone,          \* what the phone did with each action
    faults, cancels,
    environment     \* one of Environments, for good

db == <<op, frozen>>
outside == <<finance, phone>>
vars == <<db, anchored, turn, scan, outside, faults, cancels, environment>>

-----------------------------------------------------------------------------
RecoverableStates == {"dispatching", "source_in_progress", "verifying"}
ParkedStates == {"waiting_for_clarification", "waiting_for_duplicate_decision"}
TerminalStates == {"succeeded", "failed_safe", "needs_manual_review",
                   "cancelled_pre_submit"}
OperationStates == {"absent", "accepted", "interpreting"}
    \cup RecoverableStates \cup ParkedStates \cup TerminalStates

Mutant_AllowedTransitions ==
    [s \in OperationStates |->
        CASE s = "source_in_progress" ->
               {"verifying", "failed_safe", "needs_manual_review",
                "cancelled_pre_submit"} \cup ParkedStates
          [] s = "verifying" ->
               {"succeeded", "failed_safe", "needs_manual_review"}
          [] s \in {"absent"} \cup TerminalStates -> {}
          [] s \in ParkedStates -> {"cancelled_pre_submit"}
          [] OTHER -> OperationStates \ {"absent", "needs_manual_review"}]

AllowedTransitions ==
    [s \in OperationStates |->
        CASE s = "accepted" ->
               {"interpreting", "failed_safe", "cancelled_pre_submit"}
          [] s = "interpreting" ->
               {"waiting_for_clarification", "dispatching", "succeeded",
                "failed_safe", "cancelled_pre_submit"}
          [] s \in ParkedStates -> {"cancelled_pre_submit"}
          [] s = "dispatching" ->
               {"source_in_progress", "succeeded", "failed_safe",
                "cancelled_pre_submit"} \cup ParkedStates
          [] s = "source_in_progress" ->
               {"verifying", "failed_safe", "needs_manual_review"}
               \cup ParkedStates
          [] s = "verifying" ->
               {"succeeded", "failed_safe", "needs_manual_review"}
          [] s \in {"absent"} \cup TerminalStates -> {}]

NeedsZeroWriteEvidence(s, target) ==
    s \in {"source_in_progress", "verifying"} /\ target \in ParkedStates

\* transition_operation of a row in state s, as far as it may refuse.
CanTransition(s, target, proven) ==
    /\ target \in AllowedTransitions[s]
    /\ NeedsZeroWriteEvidence(s, target) => proven

\* Ages: how long ago updated_at moved.
Ages == {"fresh", "quiet", "overdue"}

\* Every transition moves updated_at.
Moved(row, target) == [row EXCEPT !.state = target, !.age = "fresh"]

FinanceRows == {"none", "prepared", "submitting", "succeeded", "failed_safe",
                "needs_manual_review"}
Answers == {"none", "written", "unknown", "duplicate", "question", "error"}
TurnSteps == {"idle", "asking", "deciding", "resolved", "sending", "waiting",
              "settling", "verified", "receipted", "freezing", "issuing",
              "resuming"}

Resting == [at |-> "idle", target |-> "absent", todo |-> {}]
NoScan == [at |-> "idle", seen |-> [o \in Ops |-> "absent"], quiet |-> {},
           status |-> [o \in Ops |-> "none"]]

(* The types of the rows, of what turns and scans carry, and of what other *)
(* machines hold.                                                          *)
TypeOK ==
    /\ op \in [Ops -> [state : OperationStates, age : Ages, record : BOOLEAN]]
    /\ frozen \in BOOLEAN
    /\ anchored \subseteq Messages
    /\ turn \in [Messages -> [at : TurnSteps, target : OperationStates,
                             todo : SUBSET DeviceOps]]
    /\ scan \in [at : {"idle", "reading", "applying", "sweeping"},
                 seen : [Ops -> OperationStates], quiet : SUBSET Ops,
                 status : [Ops -> FinanceRows]]
    /\ finance \in [FinanceOps -> [row : FinanceRows, landed : BOOLEAN,
                                   call : {"none", "sent", "running"},
                                   answer : Answers, calls : Nat]]
    /\ phone \in [DeviceOps -> {"none", "holding", "wrote", "found",
                                "refused"}]
    /\ faults \in Nat /\ cancels \in Nat
    /\ environment \in Environments

Init ==
    /\ op = [o \in Ops |-> [state |-> "absent", age |-> "fresh",
                            record |-> FALSE]]
    /\ frozen = FALSE
    /\ anchored = {}
    /\ turn = [m \in Messages |-> Resting]
    /\ scan = NoScan
    /\ finance = [o \in FinanceOps |->
                    [row |-> "none", landed |-> FALSE, call |-> "none",
                     answer |-> "none", calls |-> 0]]
    /\ phone = [o \in DeviceOps |-> "none"]
    /\ faults = 0 /\ cancels = 0
    /\ environment \in Environments

-----------------------------------------------------------------------------
(* A turn: the task that runs one message.  A process has at most one of   *)
(* each message at a time (operation_tasks).                               *)

At(m, step) == turn[m].at = step
Goto(m, step) == turn' = [turn EXCEPT ![m].at = step]
Over(m) == turn' = [turn EXCEPT ![m] = Resting]

\* _step: the row is read again and moved from the state it has now; a move
\* the table refuses is an exception that ends the turn.
StepTo(m, o, target, proven, on) ==
    IF CanTransition(op[o].state, target, proven)
    THEN op' = [op EXCEPT ![o] = Moved(op[o], target)] /\ on
    ELSE UNCHANGED op /\ Over(m)

InTurn == UNCHANGED <<frozen, anchored, scan, outside, faults, cancels>>

\* A message arrives, for the first time or again; one whose row has left
\* `accepted' is answered from its row and starts nothing.
Receive(m) ==
    /\ m \in environment.messages \ anchored
    /\ op[m].state \in {"absent", "accepted"}
    /\ anchored' = anchored \cup {m}
    /\ op' = [op EXCEPT ![m] = IF @.state = "absent" THEN Moved(@, "accepted")
                               ELSE @]
    /\ UNCHANGED <<frozen, turn, scan, outside, faults, cancels>>

Dispatching(o) == op[o].state = "dispatching"

\* The request joins the task of its message, or starts one, which reads the
\* row again: a frozen plan it finds there is finished from its rows.
StartTurn(m) ==
    /\ m \in anchored
    /\ anchored' = anchored \ {m}
    /\ turn' = [turn EXCEPT ![m] =
          IF ~At(m, "idle") THEN @
          ELSE IF op[m].state = "accepted" THEN [@ EXCEPT !.at = "asking"]
          ELSE IF m = Anchor /\ frozen /\ \E o \in DeviceOps : Dispatching(o)
               THEN [@ EXCEPT !.at = "resuming",
                              !.todo = {o \in DeviceOps : Dispatching(o)}]
          ELSE @]
    /\ UNCHANGED <<db, scan, outside, faults, cancels>>

\* The model has answered: only now does the row leave `accepted'.
Interpret(m) ==
    /\ At(m, "asking")
    /\ StepTo(m, m, "interpreting", FALSE, Goto(m, "deciding"))
    /\ InTurn

\* What the answer means.  A plan of which one item cannot be issued ends as
\* that item, before anything is written down.
Decide(m) ==
    /\ At(m, "deciding")
    /\ \/ \E end \in {"waiting_for_clarification", "succeeded",
                      "failed_safe"} :
            StepTo(m, m, end, FALSE, Over(m))
       \/ StepTo(m, m, "dispatching", FALSE,
                 Goto(m, IF m = Anchor THEN "freezing"
                         ELSE "resolved"))
    /\ InTurn

\* _commit: `source_in_progress' commits before the call can leave.
BeginCommit(m) ==
    /\ At(m, "resolved")
    /\ StepTo(m, m, "source_in_progress", FALSE, Goto(m, "sending"))
    /\ InTurn

Mutant_Settling(m, target) ==
    turn' = [turn EXCEPT ![m] =
               [turn[m] EXCEPT !.at = "settling", !.target = finance[m].answer]]

Settling(m, target) ==
    turn' = [turn EXCEPT ![m] =
               [turn[m] EXCEPT !.at = "settling", !.target = target]]

\* _call: refused on this side, or on its way.
Call(m) ==
    /\ At(m, "sending")
    /\ \/ Settling(m, "failed_safe") /\ UNCHANGED finance
       \/ /\ Goto(m, "waiting")
          /\ finance' = [finance EXCEPT ![m].call = "sent", ![m].calls = @ + 1]
    /\ UNCHANGED <<db, anchored, scan, phone, faults, cancels>>

\* The execution states that prove that nothing has been sent.
ProvesZeroWrite(row) == row \in {"none", "prepared", "failed_safe"}

\* dispatcher.commit: what the turn makes of the answer.
Mutant_Hear(m) ==
    /\ At(m, "waiting") /\ finance[m].answer # "none"
    /\ Goto(m, "verified")
    /\ UNCHANGED op /\ InTurn

Hear(m) ==
    /\ At(m, "waiting")
    /\ CASE finance[m].answer = "written" -> Goto(m, "verified")
         [] finance[m].answer = "unknown" -> Over(m)
         [] finance[m].answer = "duplicate" ->
              \E end \in {"waiting_for_duplicate_decision", "failed_safe"} :
                Settling(m, end)
         [] finance[m].answer = "question" ->
              \E end \in {"waiting_for_clarification", "failed_safe"} :
                Settling(m, end)
         [] finance[m].answer = "error" ->
              \/ ProvesZeroWrite(finance[m].row) /\ Settling(m, "failed_safe")
              \/ Over(m)
         [] OTHER -> FALSE
    /\ UNCHANGED op /\ InTurn

\* The answer is late or lost: the operation is left to recovery.
GiveUpWaiting(m) == At(m, "waiting") /\ Over(m) /\ UNCHANGED op /\ InTurn

Settle(m) ==
    /\ At(m, "settling")
    /\ StepTo(m, m, turn[m].target, TRUE, Over(m))
    /\ InTurn

BeginVerifying(m) ==
    /\ At(m, "verified")
    /\ StepTo(m, m, "verifying", FALSE, Goto(m, "receipted"))
    /\ InTurn

WithRecord(o, target) ==
    [op EXCEPT ![o] = [Moved(op[o], target) EXCEPT !.record = TRUE]]

RecordReceipt(m) ==
    /\ At(m, "receipted")
    /\ IF CanTransition(op[m].state, "succeeded", FALSE)
       THEN op' = WithRecord(m, "succeeded")
       ELSE UNCHANGED op
    /\ Over(m) /\ InTurn

\* _freeze_action_plan: every row of the list in one transaction.
Mutant_Freeze(m) ==
    /\ At(m, "freezing")
    /\ frozen' = TRUE
    /\ UNCHANGED op
    /\ turn' = [turn EXCEPT ![m] =
                  [turn[m] EXCEPT !.at = "issuing", !.todo = {Anchor}]]
    /\ UNCHANGED <<anchored, scan, outside, faults, cancels>>

Freeze(m) ==
    /\ At(m, "freezing")
    /\ frozen' = TRUE
    /\ op' = [o \in Ops |-> IF o \in DeviceOps \ {Anchor}
                                 /\ op[o].state = "absent"
                            THEN Moved(op[o], "dispatching")
                            ELSE IF o = Anchor
                                 THEN [op[o] EXCEPT !.age = "fresh"]
                            ELSE op[o]]
    /\ turn' = [turn EXCEPT ![m] =
                  [turn[m] EXCEPT !.at = "issuing", !.todo = DeviceOps]]
    /\ UNCHANGED <<anchored, scan, outside, faults, cancels>>

\* The rows of a list are taken in the order of the plan.
IsNext(o, todo) ==
    \E i \in DOMAIN Plan : Plan[i] = o /\ \A j \in 1..(i - 1) : Plan[j] \notin todo

ItemDone(m, o) ==
    turn' = [turn EXCEPT ![m] = IF turn[m].todo = {o} THEN Resting
                                ELSE [turn[m] EXCEPT !.todo = @ \ {o}]]

\* One row of the plan: its action is sealed on it as it is parked.
IssueItem(m) ==
    /\ At(m, "issuing") \/ At(m, "resuming")
    /\ \E o \in turn[m].todo :
         /\ IsNext(o, turn[m].todo)
         /\ StepTo(m, o, "source_in_progress", FALSE, ItemDone(m, o))
    /\ InTurn

\* resume_action_plan resolves again, and may no longer be allowed to issue.
ResumedDenied(m) ==
    /\ At(m, "resuming")
    /\ \E o \in turn[m].todo,
          end \in {"failed_safe", "waiting_for_clarification"} :
         /\ IsNext(o, turn[m].todo)
         /\ StepTo(m, o, end, FALSE, ItemDone(m, o))
    /\ InTurn

TurnStep(m) ==
    \/ Interpret(m) \/ Decide(m) \/ BeginCommit(m) \/ Call(m) \/ Hear(m)
    \/ GiveUpWaiting(m) \/ Settle(m) \/ BeginVerifying(m) \/ RecordReceipt(m)
    \/ Freeze(m) \/ IssueItem(m) \/ ResumedDenied(m)

\* An exception ends one turn where it is; a restart ends them all, with the
\* requests that waited for them and the scan.
TurnFails(m) ==
    /\ faults < MaxFaults /\ turn[m].at # "idle"
    /\ Over(m)
    /\ faults' = faults + 1
    /\ UNCHANGED <<db, anchored, scan, outside, cancels>>

ProcessDies ==
    /\ faults < MaxFaults
    /\ turn' = [m \in Messages |-> Resting]
    /\ anchored' = {}
    /\ scan' = NoScan
    /\ faults' = faults + 1
    /\ UNCHANGED <<db, outside, cancels>>

-----------------------------------------------------------------------------
(* Finance, as the control plane and the one call show it.                 *)

InFinance == UNCHANGED <<db, anchored, turn, scan, phone, faults, cancels>>

\* The call is refused before anything is prepared, or prepares its row.
Arrive(o) ==
    /\ finance[o].call = "sent"
    /\ \/ \E said \in {"duplicate", "question", "error"} :
            finance' = [finance EXCEPT ![o].call = "none", ![o].answer = said]
       \/ finance' = [finance EXCEPT ![o].call = "running",
                                     ![o].row = "prepared"]
    /\ InFinance

\* The call, or Finance's own recovery, submits what was prepared; recovery
\* fails it safe if it cannot read what to submit.
Submit(o) ==
    /\ finance[o].row = "prepared"
    /\ \E next \in {"submitting", "failed_safe"} :
         finance' = [finance EXCEPT ![o].row = next]
    /\ InFinance

\* The row appears in the ledger.
Land(o) ==
    /\ finance[o].row \in {"submitting", "needs_manual_review"}
    /\ ~finance[o].landed
    /\ finance' = [finance EXCEPT ![o].landed = TRUE]
    /\ InFinance

Conclude(o) ==
    /\ finance[o].row = "submitting"
    /\ \/ /\ finance[o].landed
          /\ finance' = [finance EXCEPT ![o].row = "succeeded"]
       \/ finance' = [finance EXCEPT ![o].row = "needs_manual_review"]
    /\ InFinance

\* What the call can say of the row.  It fails at `prepared' when the
\* transaction that would submit it does (a full disk, a lock not obtained).
Says(row) ==
    CASE row = "succeeded" -> {"written"}
      [] row = "prepared" -> IF environment.strands THEN {"error"} ELSE {}
      [] row = "failed_safe" -> {"error"}
      [] OTHER -> {"unknown", "error"}

Answer(o) ==
    /\ finance[o].call = "running"
    /\ \E said \in Says(finance[o].row) :
         finance' = [finance EXCEPT ![o].call = "none", ![o].answer = said]
    /\ InFinance

\* Finance dies, or the call never reaches it.
CallLost(o) ==
    /\ finance[o].call # "none"
    /\ finance' = [finance EXCEPT ![o].call = "none"]
    /\ InFinance

FinanceStep(o) ==
    Arrive(o) \/ Submit(o) \/ Land(o) \/ Conclude(o) \/ Answer(o)

-----------------------------------------------------------------------------
(* The phone, and the endpoint its report reaches.                         *)

InPhone == UNCHANGED <<frozen, anchored, turn, scan, finance, faults, cancels>>

\* A reply or a poll hands over the actions of rows that are parked.
Deliver(o) ==
    /\ op[o].state = "source_in_progress"
    /\ phone[o] = "none"
    /\ phone' = [phone EXCEPT ![o] = "holding"]
    /\ UNCHANGED op /\ InPhone

Execute(o) ==
    /\ phone[o] = "holding"
    /\ \E did \in {"wrote", "found", "refused"} :
         phone' = [phone EXCEPT ![o] = did]
    /\ UNCHANGED op /\ InPhone

\* _process_device_action_result: both hops of a success in one transaction.
Mutant_Report(o) ==
    /\ phone[o] \in {"wrote", "found", "refused"}
    /\ op[o].state \notin TerminalStates
    /\ op' = WithRecord(o, "succeeded")
    /\ UNCHANGED phone /\ InPhone

Report(o) ==
    /\ phone[o] \in {"wrote", "found", "refused"}
    /\ op[o].state \notin TerminalStates
    /\ IF phone[o] = "refused"
       THEN /\ CanTransition(op[o].state, "failed_safe", FALSE)
            /\ op' = [op EXCEPT ![o] = Moved(op[o], "failed_safe")]
       ELSE /\ CanTransition(op[o].state, "verifying", FALSE)
            /\ op' = WithRecord(o, "succeeded")
    /\ UNCHANGED phone /\ InPhone

-----------------------------------------------------------------------------
(* Recovery: one scan at a time, in three transactions around the reads.   *)

Recovering == UNCHANGED <<frozen, anchored, turn, outside, cancels>>

Pending(o) == op[o].state \in RecoverableStates

\* recover_pending's first transaction: the rows as they are, and which of
\* them have been quiet.
ScanBegin ==
    /\ scan.at = "idle"
    /\ \E o \in Ops : Pending(o)
    /\ scan' = [NoScan EXCEPT
                  !.at = "reading",
                  !.seen = [o \in Ops |-> IF Pending(o) THEN op[o].state
                                          ELSE "absent"],
                  !.quiet = {o \in Ops : Pending(o) /\ op[o].age # "fresh"}]
    /\ UNCHANGED <<op, faults>> /\ Recovering

\* Finance's answers, read with no transaction open; if it cannot be reached
\* the scan moves nothing and the sweep still runs.
ScanRead ==
    /\ scan.at = "reading"
    /\ scan' = [scan EXCEPT !.at = "applying",
                            !.status = [o \in Ops |->
                                IF o \in scan.quiet \cap FinanceOps
                                THEN finance[o].row ELSE "none"]]
    /\ UNCHANGED <<op, faults>> /\ Recovering

ScanUnread ==
    /\ faults < MaxFaults /\ scan.at = "reading"
    /\ scan' = [NoScan EXCEPT !.at = "sweeping"]
    /\ faults' = faults + 1
    /\ UNCHANGED op /\ Recovering

\* _RECOVERY_PATHS.
Path(s, target) ==
    CASE s = "dispatching" /\ target = "succeeded" ->
           <<"source_in_progress", "verifying", "succeeded">>
      [] s = "dispatching" /\ target = "needs_manual_review" ->
           <<"source_in_progress", "needs_manual_review">>
      [] s = "source_in_progress" /\ target = "succeeded" ->
           <<"verifying", "succeeded">>
      [] OTHER -> <<target>>

Leave == <<>>

\* plan_recovery, from the state the scan saw and the status it read.  An item
\* of a plan has no tool before it is issued and is planned for as a write of
\* Finance's would be, with the same target.
Mutant_PlanRecovery(s, device, row, quiet) ==
    IF ~quiet \/ (device /\ s # "dispatching") THEN Leave
    ELSE IF device THEN <<"failed_safe">>
    ELSE IF row \in {"succeeded", "failed_safe", "needs_manual_review"}
    THEN Path(s, row)
    ELSE Leave

PlanRecovery(s, device, row, quiet) ==
    IF ~quiet \/ (device /\ s # "dispatching") THEN Leave
    ELSE IF device THEN <<"failed_safe">>
    ELSE IF row \in {"succeeded", "failed_safe", "needs_manual_review"}
    THEN Path(s, row)
    ELSE IF s # "dispatching"
    THEN IF row \in {"none", "prepared"} THEN Path(s, "needs_manual_review")
         ELSE Leave
    ELSE IF row = "none" THEN <<"failed_safe">>
    ELSE IF row = "prepared" THEN Leave
    ELSE <<"source_in_progress">>

\* _walk: each hop from the state the row has by then, or "absent" if the
\* table refuses one of them.
Walk(s, path) ==
    IF \A i \in DOMAIN path :
          CanTransition(IF i = 1 THEN s ELSE path[i - 1], path[i], FALSE)
    THEN path[Len(path)] ELSE "absent"

\* The last transaction: every pending row, or none.  A row read before the
\* network is planned for as it was and walked from where it is.
ScanApply ==
    LET pending == {o \in Ops : scan.seen[o] # "absent"}
        path == [o \in pending |->
                   PlanRecovery(scan.seen[o], o \in DeviceOps, scan.status[o],
                                o \in scan.quiet)]
        moving == {o \in pending : path[o] # Leave}
        end == [o \in moving |-> Walk(op[o].state, path[o])]
        refused == \E o \in moving : end[o] = "absent"
    IN /\ scan.at = "applying"
       /\ scan' = [NoScan EXCEPT !.at = IF refused THEN "idle"
                                        ELSE "sweeping"]
       /\ op' = [o \in Ops |->
                   IF refused \/ o \notin moving THEN op[o]
                   ELSE [Moved(op[o], end[o]) EXCEPT
                           !.record = end[o] = "succeeded"]]
       /\ UNCHANGED faults /\ Recovering

Overdue(o) ==
    /\ o \in DeviceOps
    /\ op[o].state = "source_in_progress" /\ op[o].age = "overdue"

\* sweep_timed_out_device_actions.
Mutant_Sweep ==
    /\ scan.at = "sweeping"
    /\ scan' = NoScan
    /\ op' = [o \in Ops |-> IF Overdue(o) THEN Moved(op[o], "failed_safe")
                            ELSE op[o]]
    /\ UNCHANGED faults /\ Recovering

Sweep ==
    /\ scan.at = "sweeping"
    /\ scan' = NoScan
    /\ op' = [o \in Ops |-> IF Overdue(o)
                            THEN Moved(op[o], "needs_manual_review")
                            ELSE op[o]]
    /\ UNCHANGED faults /\ Recovering

Scanning == ScanBegin \/ ScanRead \/ ScanApply \/ Sweep

-----------------------------------------------------------------------------
\* request_cancel: the row is touched whatever its state.
Cancel(o) ==
    /\ cancels < MaxCancels /\ op[o].state # "absent"
    /\ cancels' = cancels + 1
    /\ op' = [op EXCEPT ![o] =
                IF CanTransition(@.state, "cancelled_pre_submit", FALSE)
                THEN Moved(@, "cancelled_pre_submit")
                ELSE [@ EXCEPT !.age = "fresh"]]
    /\ UNCHANGED <<frozen, anchored, turn, scan, outside, faults>>

MessageOf(o) == IF o \in DeviceOps THEN Anchor ELSE o

\* A turn that is alive moves its operation before the quiet period is over,
\* and a call that was sent has reached Finance by then.
MayAge(o) ==
    /\ At(MessageOf(o), "idle") /\ MessageOf(o) \notin anchored
    /\ o \in FinanceOps => finance[o].call # "sent"

GrowsOld(o) ==
    /\ op[o].state \in RecoverableStates
    /\ op[o].age # "overdue"
    /\ op[o].age = "quiet" => o \in DeviceOps
    /\ MayAge(o)
    /\ op' = [op EXCEPT ![o].age = IF @ = "fresh" THEN "quiet" ELSE "overdue"]
    /\ UNCHANGED <<frozen, anchored, turn, scan, outside, faults, cancels>>

-----------------------------------------------------------------------------
Next ==
    /\ UNCHANGED environment
    /\ \/ \E m \in Messages :
            Receive(m) \/ StartTurn(m) \/ TurnStep(m) \/ TurnFails(m)
       \/ \E o \in FinanceOps : FinanceStep(o) \/ CallLost(o)
       \/ \E o \in DeviceOps : Deliver(o) \/ Execute(o) \/ Report(o)
       \/ Scanning \/ ScanUnread \/ ProcessDies
       \/ \E o \in Ops : Cancel(o) \/ GrowsOld(o)

Spec == Init /\ [][Next]_vars

\* Tasks run on, the scan comes back every minute, Finance settles what it
\* has begun, time passes.
Fairness ==
    /\ WF_vars((\E m \in Messages : StartTurn(m) \/ TurnStep(m))
               /\ UNCHANGED environment)
    /\ WF_vars((\E o \in FinanceOps :
                   Submit(o) \/ Conclude(o) \/ Arrive(o) \/ CallLost(o))
               /\ UNCHANGED environment)
    /\ WF_vars((\E o \in Ops : GrowsOld(o)) /\ UNCHANGED environment)
    /\ WF_vars(Scanning /\ UNCHANGED environment)

FairSpec == Spec /\ Fairness

-----------------------------------------------------------------------------
(* Properties.                                                             *)

ClaimsNoWrite == ParkedStates \cup {"failed_safe", "cancelled_pre_submit"}

WroteNothing(o) ==
    IF o \in FinanceOps THEN ~finance[o].landed ELSE phone[o] # "wrote"

(* failed_safe, cancelled_pre_submit and the parked states tell the user   *)
(* that nothing was written: no row of that key is in the ledger and no    *)
(* event of that action in the calendar, then or later.                    *)
FailedSafeWroteNothing ==
    \A o \in Ops : op[o].state \in ClaimsNoWrite => WroteNothing(o)

(* The same, of the writes around which the claim can be kept: a Finance   *)
(* call that never fails between `prepared' and `submitting'.  Turns,      *)
(* scans, cancels and reports that overtake one another never make it      *)
(* false.                                                                  *)
ClaimsAreTrue ==
    \A o \in Ops :
        /\ op[o].state \in ClaimsNoWrite
        /\ o \in FinanceOps => ~environment.strands
        => WroteNothing(o)

(* A receipt names something that is there: Finance settled that key with  *)
(* its row in the ledger, or the phone made or found that event.           *)
ReceiptIsReal ==
    \A o \in Ops :
        op[o].record =>
            IF o \in FinanceOps
            THEN finance[o].row = "succeeded" /\ finance[o].landed
            ELSE phone[o] \in {"wrote", "found"}

(* Whatever retries, faults and recovery do, the Agent calls Finance for   *)
(* an operation at most once, and while that call may still be served the  *)
(* operation is not one a cancel could end as never submitted.             *)
CalledOnce ==
    \A o \in FinanceOps :
        /\ finance[o].calls <= 1
        /\ finance[o].call # "none" =>
             /\ op[o].state # "cancelled_pre_submit"
             /\ "cancelled_pre_submit" \notin AllowedTransitions[op[o].state]

(* No action of a plan leaves for the phone before every item of the plan  *)
(* has a row that a resumed turn, a sweep or a report can find.            *)
PlanIsWhole ==
    (\E o \in DeviceOps : phone[o] # "none") =>
        frozen /\ \A o \in DeviceOps : op[o].state # "absent"

(* An operation whose turn is gone does not stay where only a turn could   *)
(* move it: recovery or the sweep ends it.                                 *)
EveryOperationSettles ==
    []<>(\A o \in Ops : op[o].state \notin RecoverableStates)

(* With Finance behind it the Agent keeps the promise of a governed write: *)
(* the receipts it shows are of keys that Finance settled as succeeded.    *)
Promise == INSTANCE LedgerWrite WITH
    Keys <- FinanceOps, Bodies <- {"write"}, NoBody <- "no write",
    Tokens <- FinanceOps,
    want <- [o \in FinanceOps |-> IF finance[o].row = "none" THEN "no write"
                                  ELSE "write"],
    outcome <- [o \in FinanceOps |->
                  IF finance[o].row \in {"succeeded", "failed_safe",
                                         "needs_manual_review"}
                  THEN finance[o].row ELSE "open"],
    rows <- [o \in FinanceOps |->
               IF finance[o].landed
               THEN {[token |-> o, body |-> "write", faithful |-> TRUE]}
               ELSE {}],
    told <- {o \in FinanceOps : op[o].record}

KeepsPromise == Promise!Spec
=============================================================================
