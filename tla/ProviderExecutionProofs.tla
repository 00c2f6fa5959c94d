----------------------- MODULE ProviderExecutionProofs -----------------------
(***************************************************************************)
(* Proofs about ProviderExecution.  The authority and a worker's runtime   *)
(* speak only through requests whose answers may be lost, so what holds    *)
(* between their tables is held by a chain of facts: a row that goes past  *)
(* a grant belongs to the attempt's owner, a process has such a row, a     *)
(* stopped row has no process, a known result has a process that is over,  *)
(* isolation is signed for a stopped row only, and an attempt that was     *)
(* granted and is no longer the feature's active one is over.              *)
(***************************************************************************)
EXTENDS ProviderExecution, FiniteSetTheorems, TLAPS

-----------------------------------------------------------------------------
(* The inductive invariant.                                                *)

Past(state) == state \in {"granted", "starting", "running", "result_ready",
                          "reported"}
Measured(state) == state \in {"result_ready", "reported"}
Launched(state) == state \in {"starting", "running", "result_ready",
                              "reported", "unknown"}

\* A row of worker w, its process, and the owner of the attempt.
RowOk(w, row, p, owner) ==
    /\ Past(row.state) => owner = w
    /\ p # "none" => owner = w /\ Launched(row.state)
    /\ row.state \in {"running", "result_ready", "reported"} => p # "none"
    /\ row.stopped => row.state = "unknown" /\ p # "running"
    /\ row.result # "none" <=> Measured(row.state)
    /\ Known(row.result) => p = "exited"

RowInv ==
    \A w \in Workers, i \in Attempts :
        RowOk(w, rt[w][i], proc[w][i], attempt[i].owner)

\* The life of an attempt, by itself and with its job.
AttemptOk(row, work) ==
    /\ row.state \in {"absent", "prepared"} => row.owner = NoWorker
    /\ row.state # "absent" => row.version >= 1
    /\ row.state = "absent" => work.state = "absent"
    /\ row.refused => row.owner # NoWorker
    /\ row.owner # NoWorker => work.state # "pending" /\ row.version >= 2
    /\ row.report => /\ row.state = "result_recorded"
                     /\ Known(row.evidence) /\ work.state = row.evidence
    /\ work.state = "pending" => work.epoch < MaxClaims
    /\ work.state = "absent" => work.epoch = 0

AttemptInv == \A i \in Attempts : AttemptOk(attempt[i], job[i])

\* A granted attempt that is no longer its feature's active one is over.
Over(row) == (row.state = "unknown" /\ row.stopped) \/ Known(row.result)

\* What the authority holds about an attempt is what its owner's row says.
OwnerInv ==
    \A i \in Attempts :
        LET w == attempt[i].owner
        IN  /\ settling[i] => attempt[i].evidence # "none"
            /\ attempt[i].evidence # "none" =>
                   w # NoWorker /\ rt[w][i].result = attempt[i].evidence
            /\ isolation[i] # 0 =>
                   w # NoWorker /\ rt[w][i].state = "unknown" /\ rt[w][i].stopped
            /\ w # NoWorker => IsActive(i) \/ Over(rt[w][i])

\* The active attempt of a feature is one of its attempts that has begun.
ActiveInv ==
    \A f \in Features : active[f] # 0 =>
        /\ FeatureOf[active[f]] = f
        /\ attempt[active[f]].state # "absent"

-----------------------------------------------------------------------------
(* The types, by the rows of each table.                                   *)

GateRows == [mode : {"absent", "paused", "open", "cancelled"},
             version : Nat, epoch : Nat]
AttemptRows == [state : AttemptStates, version : Nat, selected : Nat,
                of : Attempts \cup {0}, approval : Nat, warrant : BOOLEAN,
                owner : Workers \cup {NoWorker}, epoch : Nat,
                evidence : Outcomes \cup {"none"}, report : BOOLEAN,
                refused : BOOLEAN]
JobRows == [state : JobStates, epoch : 0..MaxClaims, live : BOOLEAN,
            owner : Workers \cup {NoWorker}]
LeaseRows == [Epochs -> {"none", "live", "over"}]
ManifestRows == [worker : Workers \cup {NoWorker}, epoch : Nat]
ApprovalRows == [status : {"none", "accepted", "consumed", "revoked"},
                 gate : Nat, version : Nat]
Rows == [state : RuntimeStates, registered : BOOLEAN, stopped : BOOLEAN,
         late : BOOLEAN, result : Outcomes \cup {"none"}]
Ends == {"none", "running", "exited"}

AuthorityTyped ==
    /\ gate \in [Features -> GateRows]
    /\ active \in [Features -> Attempts \cup {0}]
    /\ attempt \in [Attempts -> AttemptRows]
    /\ job \in [Attempts -> JobRows]
    /\ lease \in [Attempts -> LeaseRows]
    /\ manifest \in [Attempts -> ManifestRows]
    /\ isolation \in [Attempts -> Nat]
    /\ approval \in [Attempts -> ApprovalRows]
    /\ settling \in [Attempts -> BOOLEAN]
    /\ recovering \in [Attempts -> Nat]

RuntimesTyped ==
    /\ rt \in [Workers -> [Attempts -> Rows]]
    /\ held \in [Workers -> [Attempts -> BOOLEAN]]
    /\ proc \in [Workers -> [Attempts -> Ends]]
    /\ crashes \in Nat

IInv == /\ AuthorityTyped /\ RuntimesTyped
        /\ RowInv /\ AttemptInv /\ OwnerInv /\ ActiveInv
        /\ OpenForOne /\ RefusedIsFinal

\* The tables' types, row by row.
LEMMA TypesByRow == TypeOK <=> AuthorityTyped /\ RuntimesTyped
  BY DEF TypeOK, AuthorityTypeOK, AuthorityTyped, RuntimesTyped, GateRows,
         AttemptRows, JobRows, LeaseRows, ManifestRows, ApprovalRows, Rows, Ends

LEMMA TypesByRowNext == TypeOK' <=> AuthorityTyped' /\ RuntimesTyped'
  BY DEF TypeOK, AuthorityTypeOK, AuthorityTyped, RuntimesTyped, GateRows,
         AttemptRows, JobRows, LeaseRows, ManifestRows, ApprovalRows, Rows, Ends

\* The rows of one attempt.
LEMMA RowsOf ==
  ASSUME AuthorityTyped, NEW i \in Attempts
  PROVE  /\ FeatureOf[i] \in Features /\ gate[FeatureOf[i]] \in GateRows
         /\ attempt[i] \in AttemptRows /\ job[i] \in JobRows
         /\ lease[i] \in LeaseRows /\ i # 0 /\ i \in Nat
  BY AuthorityAssumption DEF AuthorityTyped

-----------------------------------------------------------------------------
(* Every step keeps the types.                                             *)

\* A stopped or opened gate is a gate.
LEMMA StoppedTyped ==
  ASSUME NEW g \in GateRows, NEW mode \in {"paused", "open", "cancelled"}
  PROVE  /\ Stopped(g, mode) \in GateRows
         /\ Stopped(g, mode).mode = mode
         /\ Stopped(g, mode).epoch = g.epoch + 1
  BY DEF Stopped, GateRows

LEMMA GateParkedTyped ==
  ASSUME AuthorityTyped, NEW i \in Attempts
  PROVE  GateParked(i) \in [Features -> GateRows]
<1>1. Stopped(gate[FeatureOf[i]], "paused") \in GateRows
  BY RowsOf, StoppedTyped
<1> QED BY <1>1 DEF GateParked, AuthorityTyped

LEMMA LeasesOverTyped ==
  ASSUME AuthorityTyped, NEW i \in Attempts
  PROVE  [lease EXCEPT ![i] = LeasesOver(i)] \in [Attempts -> LeaseRows]
<1>1. LeasesOver(i) \in LeaseRows
  BY RowsOf DEF LeasesOver, LeaseRows
<1> QED BY <1>1 DEF AuthorityTyped

LEMMA UnleasedTyped ==
  ASSUME NEW row \in JobRows, NEW state \in JobStates
  PROVE  Unleased(row, state) \in JobRows
  BY DEF Unleased, JobRows

\* An attempt whose state and version change, which is opened, or whose
\* warrant ends.
LEMMA MovedTyped ==
  ASSUME NEW row \in AttemptRows, NEW s \in AttemptStates, NEW v \in Nat
  PROVE  [row EXCEPT !.state = s, !.version = v] \in AttemptRows
  BY DEF AttemptRows

LEMMA OpenedTyped ==
  ASSUME NEW row \in AttemptRows, NEW epoch \in Nat
  PROVE  [row EXCEPT !.approval = epoch, !.warrant = TRUE] \in AttemptRows
  BY DEF AttemptRows

LEMMA ReplacesTyped ==
  ASSUME NEW row \in AttemptRows, NEW i \in Attempts
  PROVE  [row EXCEPT !.of = i] \in AttemptRows
  BY DEF AttemptRows

LEMMA QueuedTyped ==
  ASSUME NEW row \in JobRows, NEW state \in JobStates
  PROVE  [row EXCEPT !.state = state] \in JobRows
  BY DEF JobRows

LEMMA EndsWarrant ==
  ASSUME NEW row \in AttemptRows
  PROVE  [row EXCEPT !.warrant = FALSE] \in AttemptRows
  BY DEF AttemptRows

LEMMA MadeUnknownTyped ==
  ASSUME NEW row \in AttemptRows
  PROVE  MadeUnknown(row) \in AttemptRows
<1>1. "unknown" \in AttemptStates /\ row.version + 1 \in Nat
  BY DEF AttemptStates, AttemptRows
<1>2. MadeUnknown(row) = [row EXCEPT !.state = "unknown",
                                     !.version = row.version + 1]
  BY DEF MadeUnknown
<1> QED BY <1>1, <1>2, MovedTyped

\* The authority's own steps.
LEMMA AuthorityStepTyped ==
  ASSUME AuthorityTyped, AuthorityStep
  PROVE  AuthorityTyped'
<1>1. ASSUME NEW i \in Attempts, Prepare(i) PROVE AuthorityTyped'
  <2> DEFINE f == FeatureOf[i]
             g == IF gate[f].mode = "absent"
                  THEN [mode |-> "paused", version |-> 1, epoch |-> 0]
                  ELSE gate[f]
  <2>1. g \in GateRows /\ g.version \in Nat
    BY RowsOf DEF GateRows
  <2>2. gate' = [gate EXCEPT ![f] = g]
        /\ attempt' = [attempt EXCEPT ![i].selected = g.version]
    BY <1>1 DEF Prepare
  <2> HIDE DEF g
  <2>3. [attempt[i] EXCEPT !.selected = g.version] \in AttemptRows
    BY <2>1, RowsOf DEF AttemptRows
  <2>4. gate' \in [Features -> GateRows]
    BY <2>1, <2>2, RowsOf DEF AuthorityTyped
  <2>5. attempt' \in [Attempts -> AttemptRows]
    BY <2>2, <2>3 DEF AuthorityTyped
  <2> QED BY <1>1, <2>4, <2>5 DEF Prepare, AuthorityTyped
<1>2. ASSUME NEW i \in Attempts, Start(i) PROVE AuthorityTyped'
  <2>1. gate' \in [Features -> GateRows]
    BY <1>2, RowsOf, StoppedTyped DEF Start, Opened, AuthorityTyped
  <2>2. attempt' \in [Attempts -> AttemptRows]
    <3> DEFINE moved == [attempt[i] EXCEPT !.state = "prepared", !.version = 1]
               new == [moved EXCEPT
                          !.approval = gate[FeatureOf[i]].epoch + 1,
                          !.warrant = TRUE]
    <3>1. moved \in AttemptRows
      BY RowsOf, MovedTyped DEF AttemptStates
    <3>2. gate[FeatureOf[i]].epoch + 1 \in Nat
      BY RowsOf DEF GateRows
    <3>3. new \in AttemptRows
      BY <3>1, <3>2, OpenedTyped
    <3>4. attempt' = [attempt EXCEPT ![i] = new]
      BY <1>2 DEF Start
    <3> QED BY <3>3, <3>4 DEF AuthorityTyped
  <2>3. job' \in [Attempts -> JobRows]
    BY <1>2, RowsOf, QueuedTyped DEF Start, AuthorityTyped, JobStates
  <2> QED BY <1>2, <2>1, <2>2, <2>3 DEF Start, AuthorityTyped
<1>3. ASSUME NEW i \in Attempts, CancelJob(i) PROVE AuthorityTyped'
  <2>1. job' \in [Attempts -> JobRows]
    BY <1>3, RowsOf, UnleasedTyped DEF CancelJob, AuthorityTyped, JobStates
  <2> QED BY <1>3, <2>1 DEF CancelJob, AuthorityTyped
<1>4. ASSUME NEW i \in Attempts, JobLeaseLapses(i) PROVE AuthorityTyped'
  <2>1. job' \in [Attempts -> JobRows]
    BY <1>4, RowsOf DEF JobLeaseLapses, AuthorityTyped, JobRows
  <2> QED BY <1>4, <2>1, LeasesOverTyped DEF JobLeaseLapses, AuthorityTyped
<1>5. ASSUME NEW i \in Attempts, PolicyLeaseLapses(i) PROVE AuthorityTyped'
  BY <1>5, LeasesOverTyped DEF PolicyLeaseLapses, AuthorityTyped
<1>6. ASSUME NEW i \in Attempts, WarrantLapses(i) PROVE AuthorityTyped'
  <2>1. attempt' \in [Attempts -> AttemptRows]
    BY <1>6, RowsOf, EndsWarrant DEF WarrantLapses, AuthorityTyped
  <2> QED BY <1>6, <2>1, LeasesOverTyped DEF WarrantLapses, AuthorityTyped
<1>7. ASSUME NEW i \in Attempts, Reclaim(i) PROVE AuthorityTyped'
  <2>1. job' \in [Attempts -> JobRows]
    BY <1>7, RowsOf, UnleasedTyped
       DEF Reclaim, ReclaimBlocked, RequeueOrExpire, AuthorityTyped, JobStates
  <2>2. attempt' \in [Attempts -> AttemptRows]
    BY <1>7, RowsOf, MadeUnknownTyped
       DEF Reclaim, ReclaimBlocked, RequeueOrExpire, AuthorityTyped
  <2>3. gate' \in [Features -> GateRows] /\ lease' \in [Attempts -> LeaseRows]
    BY <1>7, GateParkedTyped, LeasesOverTyped
       DEF Reclaim, ReclaimBlocked, RequeueOrExpire, AuthorityTyped
  <2> QED BY <1>7, <2>1, <2>2, <2>3 DEF Reclaim, AuthorityTyped
<1>8. ASSUME NEW i \in Attempts, BeginRecovery(i) PROVE AuthorityTyped'
  <2>1. attempt[i].version \in Nat
    BY RowsOf DEF AttemptRows
  <2> QED BY <1>8, <2>1 DEF BeginRecovery, AuthorityTyped
<1>9. ASSUME NEW i \in Attempts, FinishRecovery(i) PROVE AuthorityTyped'
  <2>1. attempt' \in [Attempts -> AttemptRows]
    BY <1>9, RowsOf, MadeUnknownTyped DEF FinishRecovery, AuthorityTyped
  <2> QED BY <1>9, <2>1 DEF FinishRecovery, AuthorityTyped
<1>10. ASSUME NEW i \in Attempts, Approve(i) PROVE AuthorityTyped'
  <2>1. [status |-> "accepted", gate |-> GateOf(i).version,
         version |-> attempt[i].version] \in ApprovalRows
    BY RowsOf DEF AttemptRows, ApprovalRows, GateOf, GateRows
  <2> QED BY <1>10, <2>1 DEF Approve, AuthorityTyped
<1>11. ASSUME NEW i \in Attempts, Revoke(i) PROVE AuthorityTyped'
  <2>1. attempt' \in [Attempts -> AttemptRows]
    <3>1. \A n \in Attempts : [attempt[n] EXCEPT !.warrant = FALSE]
                                  \in AttemptRows
      BY RowsOf, EndsWarrant
    <3> QED BY <1>11, <3>1, RowsOf DEF Revoke
  <2>2. approval' \in [Attempts -> ApprovalRows]
    BY <1>11 DEF Revoke, AuthorityTyped, ApprovalRows
  <2> QED BY <1>11, <2>1, <2>2 DEF Revoke, AuthorityTyped
<1>12. ASSUME NEW i \in Attempts, EnqueueReplacement(i) PROVE AuthorityTyped'
  <2>1. job' \in [Attempts -> JobRows]
    BY <1>12, RowsOf, QueuedTyped DEF EnqueueReplacement, AuthorityTyped,
                                     JobStates
  <2> QED BY <1>12, <2>1 DEF EnqueueReplacement, AuthorityTyped
<1>13. ASSUME NEW i \in Attempts, NEW n \in Attempts, Resume(i, n)
       PROVE  AuthorityTyped'
  <2> DEFINE old == [attempt[i] EXCEPT !.state = "superseded",
                                       !.version = attempt[i].version + 1]
             between == [attempt EXCEPT ![i] = old]
             moved == [between[n] EXCEPT !.state = "prepared", !.version = 1]
             of == [moved EXCEPT !.of = i]
             new == [of EXCEPT
                        !.approval = gate[FeatureOf[i]].epoch + 1,
                        !.warrant = TRUE]
  <2>1. attempt[i].version + 1 \in Nat /\ gate[FeatureOf[i]].epoch + 1 \in Nat
    BY RowsOf DEF AttemptRows, GateRows
  <2>2. old \in AttemptRows
    BY <2>1, RowsOf, MovedTyped DEF AttemptStates
  <2>3. between \in [Attempts -> AttemptRows]
    BY <2>2 DEF AuthorityTyped
  <2>4. moved \in AttemptRows
    BY <2>3, MovedTyped DEF AttemptStates
  <2>5. new \in AttemptRows
    BY <2>1, <2>4, ReplacesTyped, OpenedTyped
  <2>6. attempt' = [between EXCEPT ![n] = new]
    BY <1>13 DEF Resume
  <2> HIDE DEF between, new
  <2>7. attempt' \in [Attempts -> AttemptRows]
    BY <2>3, <2>5, <2>6
  <2>8. gate' \in [Features -> GateRows]
    BY <1>13, RowsOf, StoppedTyped DEF Resume, Opened, AuthorityTyped
  <2>9. approval' \in [Attempts -> ApprovalRows]
    BY <1>13 DEF Resume, AuthorityTyped, ApprovalRows
  <2> QED BY <1>13, <2>7, <2>8, <2>9 DEF Resume, AuthorityTyped
<1>14. ASSUME NEW f \in Features, NEW mode \in {"paused", "cancelled"},
              Control(f, mode)
       PROVE  AuthorityTyped'
  <2>1. Stopped(gate[f], mode) \in GateRows
    BY StoppedTyped DEF AuthorityTyped
  <2> QED BY <1>14, <2>1 DEF Control, AuthorityTyped
<1> QED
  BY <1>1, <1>2, <1>3, <1>4, <1>5, <1>6, <1>7, <1>8, <1>9, <1>10, <1>11,
     <1>12, <1>13, <1>14 DEF AuthorityStep

-----------------------------------------------------------------------------
(* What a step may do to the tables without breaking what relates them.    *)

\* One row of an inventory and its process change.
Puts(w, i, row, p) == /\ rt' = [rt EXCEPT ![w][i] = row]
                      /\ proc' = [proc EXCEPT ![w][i] = p]

LEMMA Put ==
  ASSUME RuntimesTyped, NEW w \in Workers, NEW i \in Attempts,
         NEW row \in Rows, NEW p \in Ends, Puts(w, i, row, p)
  PROVE  /\ rt' \in [Workers -> [Attempts -> Rows]]
         /\ proc' \in [Workers -> [Attempts -> Ends]]
         /\ rt'[w][i] = row /\ proc'[w][i] = p
         /\ \A v \in Workers, j \in Attempts : v # w \/ j # i =>
                rt'[v][j] = rt[v][j] /\ proc'[v][j] = proc[v][j]
  BY DEF RuntimesTyped, Puts

\* A row without an owner is as good a row for any owner.
LEMMA Unowned ==
  ASSUME NEW w \in Workers, NEW row, NEW p, NEW owner,
         RowOk(w, row, p, NoWorker)
  PROVE  RowOk(w, row, p, owner)
  BY AuthorityAssumption DEF RowOk

\* The owner of an attempt is chosen once.
OwnersStay ==
    \A j \in Attempts : \/ attempt'[j].owner = attempt[j].owner
                        \/ attempt[j].owner = NoWorker

LEMMA RowsMove ==
  ASSUME RuntimesTyped, RowInv, NEW w \in Workers, NEW i \in Attempts,
         NEW row \in Rows, NEW p \in Ends, Puts(w, i, row, p),
         RowOk(w, row, p, attempt'[i].owner), OwnersStay
  PROVE  RowInv'
<1>1. SUFFICES ASSUME NEW v \in Workers, NEW j \in Attempts
               PROVE  RowOk(v, rt'[v][j], proc'[v][j], attempt'[j].owner)
  BY DEF RowInv
<1>2. CASE v = w /\ j = i
  BY <1>2, Put
<1>3. CASE ~(v = w /\ j = i)
  <2>1. rt'[v][j] = rt[v][j] /\ proc'[v][j] = proc[v][j]
    BY <1>3, Put
  <2>2. RowOk(v, rt[v][j], proc[v][j], attempt[j].owner)
    BY DEF RowInv
  <2> QED BY <2>1, <2>2, Unowned DEF OwnersStay
<1> QED BY <1>2, <1>3

LEMMA RowsStay ==
  ASSUME RowInv, OwnersStay, UNCHANGED <<rt, proc>>
  PROVE  RowInv'
<1>1. SUFFICES ASSUME NEW v \in Workers, NEW j \in Attempts
               PROVE  RowOk(v, rt[v][j], proc[v][j], attempt'[j].owner)
  BY DEF RowInv
<1>2. RowOk(v, rt[v][j], proc[v][j], attempt[j].owner)
  BY DEF RowInv
<1> QED BY <1>2, Unowned DEF OwnersStay

\* A result, once measured, and a stop, once proven, stay in a row.
Kept(old, new) ==
    /\ old.result # "none" => new.result = old.result
    /\ old.state = "unknown" /\ old.stopped =>
           new.state = "unknown" /\ new.stopped

AllKept == \A w \in Workers, i \in Attempts : Kept(rt[w][i], rt'[w][i])

LEMMA KeptByPut ==
  ASSUME RuntimesTyped, NEW w \in Workers, NEW i \in Attempts,
         NEW row \in Rows, NEW p \in Ends, Puts(w, i, row, p),
         Kept(rt[w][i], row)
  PROVE  AllKept
  BY Put DEF AllKept, Kept

\* What an authority's step may do to one attempt: choose its owner while it
\* is active, keep what its owner measured, note isolation for a stopped
\* row, and end its turn as the active one when it is over.
OwnerMoves(j) ==
    LET w == attempt'[j].owner
    IN  /\ \/ w = attempt[j].owner
           \/ attempt[j].owner = NoWorker /\ IsActive(j)'
        /\ \/ attempt'[j].evidence = attempt[j].evidence
           \/ /\ w # NoWorker /\ attempt'[j].evidence # "none"
              /\ rt'[w][j].result = attempt'[j].evidence
        /\ settling'[j] => settling[j] \/ attempt'[j].evidence # "none"
        /\ \/ isolation'[j] = isolation[j]
           \/ w # NoWorker /\ rt'[w][j].state = "unknown" /\ rt'[w][j].stopped
        /\ w # NoWorker /\ IsActive(j) => IsActive(j)' \/ Over(rt'[w][j])

LEMMA OwnerMove ==
  ASSUME AuthorityTyped, RuntimesTyped, OwnerInv, AllKept,
         \A j \in Attempts : OwnerMoves(j)
  PROVE  OwnerInv'
<1>1. SUFFICES ASSUME NEW j \in Attempts
      PROVE  LET w == attempt'[j].owner
             IN  /\ settling'[j] => attempt'[j].evidence # "none"
                 /\ attempt'[j].evidence # "none" =>
                        w # NoWorker /\ rt'[w][j].result = attempt'[j].evidence
                 /\ isolation'[j] # 0 =>
                        /\ w # NoWorker
                        /\ rt'[w][j].state = "unknown" /\ rt'[w][j].stopped
                 /\ w # NoWorker => IsActive(j)' \/ Over(rt'[w][j])
  BY DEF OwnerInv
<1> DEFINE v == attempt[j].owner
           w == attempt'[j].owner
<1>2. /\ settling[j] => attempt[j].evidence # "none"
      /\ attempt[j].evidence # "none" =>
             v # NoWorker /\ rt[v][j].result = attempt[j].evidence
      /\ isolation[j] # 0 =>
             v # NoWorker /\ rt[v][j].state = "unknown" /\ rt[v][j].stopped
      /\ v # NoWorker => IsActive(j) \/ Over(rt[v][j])
  BY DEF OwnerInv
<1>3. v \in Workers \cup {NoWorker}
  BY RowsOf DEF AttemptRows
<1>4. v # NoWorker => Kept(rt[v][j], rt'[v][j])
  BY <1>3 DEF AllKept
<1>5. v # NoWorker /\ Over(rt[v][j]) => Over(rt'[v][j])
  BY <1>4, AuthorityAssumption DEF Over, Kept, Known
<1>6. OwnerMoves(j)
  OBVIOUS
<1>7. v # NoWorker => w = v
  BY <1>6 DEF OwnerMoves
<1>8. attempt'[j].evidence # "none" =>
          w # NoWorker /\ rt'[w][j].result = attempt'[j].evidence
  BY <1>2, <1>4, <1>6, <1>7 DEF OwnerMoves, Kept
<1>9. settling'[j] => attempt'[j].evidence # "none"
  BY <1>2, <1>6 DEF OwnerMoves
<1>10. isolation'[j] # 0 =>
           w # NoWorker /\ rt'[w][j].state = "unknown" /\ rt'[w][j].stopped
  BY <1>2, <1>4, <1>6, <1>7 DEF OwnerMoves, Kept
<1>11. w # NoWorker => IsActive(j)' \/ Over(rt'[w][j])
  BY <1>2, <1>5, <1>6, <1>7 DEF OwnerMoves
<1> QED BY <1>8, <1>9, <1>10, <1>11

\* A step that leaves gates and active attempts alone, and of an attempt
\* what an open gate depends on.
OpenStays ==
    /\ UNCHANGED <<gate, active>>
    /\ \A j \in Attempts :
           /\ attempt'[j].approval = attempt[j].approval
           /\ attempt'[j].report = attempt[j].report
           /\ attempt'[j].refused = attempt[j].refused
           /\ attempt[j].state # "absent" => attempt'[j].state # "absent"

LEMMA OpenMove ==
  ASSUME AuthorityTyped, ActiveInv, OpenForOne, RefusedIsFinal, OpenStays
  PROVE  ActiveInv' /\ OpenForOne' /\ RefusedIsFinal'
<1>1. \A f \in Features : active[f] \in Attempts \cup {0}
  BY DEF AuthorityTyped
<1>2. ActiveInv'
  BY <1>1 DEF ActiveInv, OpenStays
<1>3. OpenForOne'
  BY <1>1 DEF OpenForOne, OpenStays
<1>4. RefusedIsFinal'
  BY DEF RefusedIsFinal, OpenStays
<1> QED BY <1>2, <1>3, <1>4

-----------------------------------------------------------------------------
(* The steps of a runtime that the authority does not see.                 *)

LEMMA RuntimeMove ==
  ASSUME IInv, NEW w \in Workers, NEW i \in Attempts,
         NEW row \in Rows, NEW p \in Ends, Puts(w, i, row, p),
         RowOk(w, row, p, attempt[i].owner), Kept(rt[w][i], row),
         held' \in [Workers -> [Attempts -> BOOLEAN]],
         UNCHANGED <<authority, crashes>>
  PROVE  IInv'
<1>1. AuthorityTyped'
  BY DEF IInv, AuthorityTyped, authority
<1>2. RuntimesTyped'
  BY Put DEF IInv, RuntimesTyped
<1>3. attempt' = attempt /\ OwnersStay
  BY DEF authority, OwnersStay
<1>4. RowInv'
  BY <1>3, RowsMove DEF IInv
<1>5. AttemptInv'
  BY DEF IInv, AttemptInv, authority
<1>6. AllKept
  BY KeptByPut DEF IInv
<1>7. \A j \in Attempts : OwnerMoves(j)
  BY DEF OwnerMoves, authority, IsActive
<1>8. OwnerInv'
  BY <1>6, <1>7, OwnerMove DEF IInv
<1>9. OpenStays
  BY DEF OpenStays, authority
<1> QED BY <1>1, <1>2, <1>4, <1>5, <1>8, <1>9, OpenMove DEF IInv

\* A row of the inventory, and what the invariant says of it.
LEMMA RowOf ==
  ASSUME IInv, NEW w \in Workers, NEW i \in Attempts
  PROVE  /\ rt[w][i] \in Rows /\ proc[w][i] \in Ends
         /\ RowOk(w, rt[w][i], proc[w][i], attempt[i].owner)
  BY DEF IInv, RuntimesTyped, RowInv

\* A row whose state changes, short of a result.
LEMMA Moved ==
  ASSUME NEW row \in Rows, NEW state \in RuntimeStates
  PROVE  [row EXCEPT !.state = state] \in Rows
  BY DEF Rows

\* A lock is taken or let go.
LEMMA HeldTyped ==
  ASSUME RuntimesTyped, NEW w \in Workers, NEW i \in Attempts,
         Keeps \/ LetsGo(w, i)
  PROVE  held' \in [Workers -> [Attempts -> BOOLEAN]]
<1>1. CASE Keeps
  BY <1>1 DEF RuntimesTyped, Keeps
<1>2. CASE LetsGo(w, i)
  <2>1. [held[w] EXCEPT ![i] = FALSE] \in [Attempts -> BOOLEAN]
    BY DEF RuntimesTyped
  <2> QED BY <1>2, <2>1 DEF RuntimesTyped, LetsGo
<1> QED BY <1>1, <1>2

LEMMA UnseenSteps ==
  ASSUME IInv, NEW w \in Workers, NEW i \in Attempts,
         \/ DispatchRefused(w, i) \/ BeginStart(w, i) \/ Spawn(w, i)
         \/ Register(w, i) \/ Fail(w, i) \/ ProcessExits(w, i)
         \/ Collect(w, i) \/ ReconcileUnstarted(w, i) \/ ReconcileStarted(w, i)
  PROVE  IInv'
<1> DEFINE old == rt[w][i]
           q == proc[w][i]
<1>0. /\ old \in Rows /\ q \in Ends /\ RuntimesTyped
      /\ RowOk(w, old, q, attempt[i].owner)
  BY RowOf DEF IInv
<1>1. ASSUME DispatchRefused(w, i) PROVE IInv'
  <2> DEFINE row == [old EXCEPT !.state = "refused"]
  <2>1. row \in Rows
    BY <1>0, Moved DEF RuntimeStates
  <2>2. Puts(w, i, row, q)
    BY <1>0, <1>1 DEF DispatchRefused, Moves, Puts, RuntimesTyped
  <2>3. RowOk(w, row, q, attempt[i].owner) /\ Kept(old, row)
    BY <1>0, <1>1 DEF DispatchRefused, RowOk, Kept, Past, Measured, Launched,
                      Rows
  <2> HIDE DEF row
  <2> QED BY <1>0, <1>1, <2>1, <2>2, <2>3, HeldTyped, RuntimeMove
          DEF DispatchRefused
<1>2. ASSUME BeginStart(w, i) PROVE IInv'
  <2> DEFINE row == [old EXCEPT !.state = "starting"]
  <2>1. row \in Rows
    BY <1>0, Moved DEF RuntimeStates
  <2>2. Puts(w, i, row, q)
    BY <1>0, <1>2 DEF BeginStart, Moves, Puts, RuntimesTyped
  <2>3. RowOk(w, row, q, attempt[i].owner) /\ Kept(old, row)
    BY <1>0, <1>2 DEF BeginStart, RowOk, Kept, Past, Measured, Launched, Rows
  <2> HIDE DEF row
  <2> QED BY <1>0, <1>2, <2>1, <2>2, <2>3, HeldTyped, RuntimeMove
          DEF BeginStart
<1>3. ASSUME Spawn(w, i) PROVE IInv'
  <2>1. Puts(w, i, old, "running")
    BY <1>0, <1>3 DEF Spawn, Puts, RuntimesTyped
  <2>2. RowOk(w, old, "running", attempt[i].owner) /\ Kept(old, old)
    BY <1>0, <1>3, AuthorityAssumption
       DEF Spawn, RowOk, Kept, Past, Measured, Launched, Rows, Known
  <2> QED BY <1>0, <1>3, <2>1, <2>2, RuntimeMove
          DEF Spawn, RuntimesTyped, Ends
<1>4. ASSUME Register(w, i) PROVE IInv'
  <2> DEFINE row == [old EXCEPT !.state = "running", !.registered = TRUE]
  <2>1. row \in Rows
    BY <1>0 DEF Rows, RuntimeStates
  <2>2. Puts(w, i, row, q)
    BY <1>0, <1>4 DEF Register, Puts, RuntimesTyped
  <2>3. RowOk(w, row, q, attempt[i].owner) /\ Kept(old, row)
    BY <1>0, <1>4 DEF Register, RowOk, Kept, Past, Measured, Launched, Rows
  <2> HIDE DEF row
  <2> QED BY <1>0, <1>4, <2>1, <2>2, <2>3, RuntimeMove
          DEF Register, RuntimesTyped
<1>5. ASSUME Fail(w, i) PROVE IInv'
  <2> DEFINE row == [old EXCEPT !.state = "unknown"]
  <2>1. row \in Rows
    BY <1>0, Moved DEF RuntimeStates
  <2>2. PICK p \in Ends : Puts(w, i, row, p) /\ (p = "none" <=> q = "none")
    <3>1. CASE proc' = proc
      BY <1>0, <1>5, <3>1 DEF Fail, Moves, Puts, RuntimesTyped
    <3>2. CASE proc' = Dead(w, i)
      <4> DEFINE p == IF q = "running" THEN "exited" ELSE q
      <4>1. p \in Ends /\ (p = "none" <=> q = "none")
        BY <1>0 DEF Ends
      <4>2. Puts(w, i, row, p)
        BY <1>0, <1>5, <3>2 DEF Fail, Moves, Puts, RuntimesTyped, Dead
      <4> QED BY <4>1, <4>2
    <3> QED BY <1>5, <3>1, <3>2 DEF Fail
  <2>3. RowOk(w, row, p, attempt[i].owner) /\ Kept(old, row)
    BY <1>0, <1>5, <2>2, AuthorityAssumption
       DEF Fail, RowOk, Kept, Past, Measured, Launched, Rows, Known
  <2> HIDE DEF row
  <2> QED BY <1>0, <1>5, <2>1, <2>2, <2>3, HeldTyped, RuntimeMove DEF Fail
<1>6. ASSUME ProcessExits(w, i) PROVE IInv'
  <2>1. Puts(w, i, old, "exited")
    BY <1>0, <1>6 DEF ProcessExits, Puts, RuntimesTyped
  <2>2. RowOk(w, old, "exited", attempt[i].owner) /\ Kept(old, old)
    BY <1>0, <1>6 DEF ProcessExits, RowOk, Kept, Past, Measured, Launched, Rows
  <2> QED BY <1>0, <1>6, <2>1, <2>2, RuntimeMove
          DEF ProcessExits, RuntimesTyped, Ends
<1>7. ASSUME Collect(w, i) PROVE IInv'
  <2>1. PICK o \in Outcomes :
            /\ rt' = [rt EXCEPT ![w][i].state = "result_ready",
                                ![w][i].result = o]
            /\ proc' = IF Known(o) THEN Dead(w, i) ELSE proc
    BY <1>7 DEF Collect
  <2> DEFINE row == [old EXCEPT !.state = "result_ready", !.result = o]
             p == IF Known(o) /\ q = "running" THEN "exited" ELSE q
  <2>2. row \in Rows /\ p \in Ends
    BY <1>0 DEF Rows, Ends, RuntimeStates
  <2>3. Puts(w, i, row, p)
    BY <1>0, <2>1 DEF Puts, Dead, RuntimesTyped
  <2>4. RowOk(w, row, p, attempt[i].owner) /\ Kept(old, row)
    BY <1>0, <1>7, AuthorityAssumption
       DEF Collect, RowOk, Kept, Past, Measured, Launched, Known, Rows,
           Outcomes, Ends
  <2> HIDE DEF row, p
  <2> QED BY <1>0, <1>7, <2>2, <2>3, <2>4, RuntimeMove
          DEF Collect, RuntimesTyped
<1>8. ASSUME ReconcileUnstarted(w, i) PROVE IInv'
  <2> DEFINE row == [old EXCEPT !.state = "unknown", !.stopped = TRUE]
  <2>1. row \in Rows
    BY <1>0 DEF Rows, RuntimeStates
  <2>2. Puts(w, i, row, q)
    BY <1>0, <1>8 DEF ReconcileUnstarted, Puts, RuntimesTyped
  <2>3. RowOk(w, row, q, attempt[i].owner) /\ Kept(old, row)
    BY <1>0, <1>8, AuthorityAssumption
       DEF ReconcileUnstarted, RowOk, Kept, Past, Measured, Launched, Rows,
           Known
  <2> HIDE DEF row
  <2> QED BY <1>0, <1>8, <2>1, <2>2, <2>3, RuntimeMove
          DEF ReconcileUnstarted, RuntimesTyped
<1>9. ASSUME ReconcileStarted(w, i) PROVE IInv'
  <2>1. PICK proven \in BOOLEAN :
            /\ rt' = [rt EXCEPT ![w][i].state = "unknown",
                                ![w][i].stopped = proven]
            /\ proc' = IF proven THEN Dead(w, i) ELSE proc
    BY <1>9 DEF ReconcileStarted
  <2> DEFINE row == [old EXCEPT !.state = "unknown", !.stopped = proven]
             p == IF proven /\ q = "running" THEN "exited" ELSE q
  <2>2. row \in Rows /\ p \in Ends
    BY <1>0 DEF Rows, Ends, RuntimeStates
  <2>3. Puts(w, i, row, p)
    BY <1>0, <2>1 DEF Puts, Dead, RuntimesTyped
  <2>4. RowOk(w, row, p, attempt[i].owner) /\ Kept(old, row)
    BY <1>0, <1>9, AuthorityAssumption
       DEF ReconcileStarted, RowOk, Kept, Past, Measured, Launched, Known,
           Rows, Ends
  <2> HIDE DEF row, p
  <2> QED BY <1>0, <1>9, <2>2, <2>3, <2>4, RuntimeMove
          DEF ReconcileStarted, RuntimesTyped
<1> QED BY <1>1, <1>2, <1>3, <1>4, <1>5, <1>6, <1>7, <1>8, <1>9

-----------------------------------------------------------------------------
(* The requests of a worker, and what becomes of its locks.                *)

\* One attempt changes.
LEMMA PutAttempt ==
  ASSUME AuthorityTyped, NEW i \in Attempts, NEW row \in AttemptRows,
         attempt' = [attempt EXCEPT ![i] = row]
  PROVE  /\ attempt' \in [Attempts -> AttemptRows]
         /\ attempt'[i] = row
         /\ \A j \in Attempts \ {i} : attempt'[j] = attempt[j]
  BY DEF AuthorityTyped

\* Steps that touch neither the rows of attempts nor the runtimes' rows.
LEMMA AttemptsStay ==
  ASSUME IInv, AuthorityTyped', RuntimesTyped', AttemptInv',
         AllKept, RowInv',
         UNCHANGED <<gate, active, attempt, settling, isolation>>
  PROVE  IInv'
<1>1. \A j \in Attempts : OwnerMoves(j)
  BY DEF OwnerMoves, IsActive
<1>2. OwnerInv'
  BY <1>1, OwnerMove DEF IInv
<1>3. OpenStays
  BY DEF OpenStays
<1> QED BY <1>2, <1>3, OpenMove DEF IInv

LEMMA RowsUnchanged ==
  ASSUME IInv, UNCHANGED <<attempt, rt, proc>>
  PROVE  AllKept /\ RowInv'
<1>1. OwnersStay
  BY DEF OwnersStay
<1>2. AllKept
  BY DEF AllKept, Kept
<1> QED BY <1>1, <1>2, RowsStay DEF IInv

LEMMA ClaimStep ==
  ASSUME IInv, NEW w \in Workers, NEW i \in Attempts, ClaimJob(w, i)
  PROVE  IInv'
<1> DEFINE new == [state |-> "leased", epoch |-> job[i].epoch + 1,
                   live |-> TRUE, owner |-> w]
<1>1. AttemptOk(attempt[i], job[i]) /\ job[i] \in JobRows
  BY RowsOf DEF IInv, AttemptInv
<1>2. new \in JobRows
  BY <1>1, AuthorityAssumption DEF ClaimJob, Claim, AttemptOk, JobRows, JobStates
<1>3. job' = [job EXCEPT ![i] = new] /\ UNCHANGED attempt
  BY DEF ClaimJob, Claim
<1>4. AttemptOk(attempt[i], new)
  BY <1>1, AuthorityAssumption DEF ClaimJob, Claim, AttemptOk, Dispatched, Known
<1> HIDE DEF new
<1>5. AttemptInv'
  BY <1>3, <1>4 DEF IInv, AttemptInv, AuthorityTyped
<1>6. AuthorityTyped'
  BY <1>2, <1>3 DEF ClaimJob, Claim, IInv, AuthorityTyped
<1>7. RuntimesTyped'
  BY DEF ClaimJob, runtimes, IInv, RuntimesTyped
<1>8. AllKept /\ RowInv'
  BY RowsUnchanged DEF ClaimJob, Claim, runtimes
<1> QED BY <1>5, <1>6, <1>7, <1>8, AttemptsStay DEF ClaimJob, Claim

LEMMA AdoptStep ==
  ASSUME IInv, NEW w \in Workers, NEW i \in Attempts, Adopt(w, i)
  PROVE  IInv'
<1> DEFINE old == rt[w][i]
           row == [old EXCEPT !.state = "prepared"]
           q == proc[w][i]
<1>0. /\ old \in Rows /\ q \in Ends /\ RuntimesTyped /\ AuthorityTyped
      /\ RowOk(w, old, q, attempt[i].owner)
  BY RowOf DEF IInv
<1>1. row \in Rows
  BY <1>0, Moved DEF RuntimeStates
<1>2. Puts(w, i, row, q)
  BY <1>0 DEF Adopt, Moves, Puts, RuntimesTyped
<1>3. RowOk(w, row, q, attempt[i].owner) /\ Kept(old, row)
  BY <1>0 DEF Adopt, RowOk, Kept, Past, Measured, Launched, Rows
<1> HIDE DEF row
<1>4. AllKept
  BY <1>0, <1>1, <1>2, <1>3, KeptByPut
<1>5. UNCHANGED <<attempt, job>> /\ OwnersStay
  BY DEF Adopt, OwnersStay
<1>6. RowInv'
  BY <1>0, <1>1, <1>2, <1>3, <1>5, RowsMove DEF IInv
<1>7. held' \in [Workers -> [Attempts -> BOOLEAN]]
  <2>1. [held[w] EXCEPT ![i] = TRUE] \in [Attempts -> BOOLEAN]
    BY <1>0 DEF RuntimesTyped
  <2> QED BY <1>0, <2>1 DEF RuntimesTyped, Adopt
<1>8. RuntimesTyped'
  BY <1>0, <1>1, <1>2, <1>7, Put DEF RuntimesTyped, Adopt
<1>9. lease' \in [Attempts -> LeaseRows]
  <2>1. CASE UNCHANGED lease
    BY <1>0, <2>1 DEF AuthorityTyped
  <2>2. CASE lease' = LeaseInContext(i)
    <3>1. [lease[i] EXCEPT ![job[i].epoch] = "live"] \in LeaseRows
      BY <1>0, RowsOf DEF LeaseRows
    <3> QED BY <1>0, <2>2, <3>1 DEF LeaseInContext, AuthorityTyped
  <2> QED BY <2>1, <2>2 DEF Adopt, Context
<1>10. AuthorityTyped'
  BY <1>0, <1>9 DEF AuthorityTyped, Adopt
<1>11. AttemptInv'
  BY <1>5 DEF IInv, AttemptInv
<1> QED BY <1>4, <1>6, <1>8, <1>10, <1>11, AttemptsStay DEF Adopt

LEMMA AcknowledgeTyped ==
  ASSUME AuthorityTyped, NEW w \in Workers, NEW i \in Attempts,
         Acknowledge(w, i) \/ UNCHANGED manifest
  PROVE  manifest' \in [Attempts -> ManifestRows]
<1>1. [worker |-> w, epoch |-> job[i].epoch] \in ManifestRows
  BY RowsOf DEF ManifestRows, JobRows
<1> QED BY <1>1 DEF Acknowledge, AuthorityTyped

LEMMA AcknowledgeSteps ==
  ASSUME IInv, NEW w \in Workers, NEW i \in Attempts,
         AcknowledgeManifest(w, i) \/ AcknowledgeFails(w, i)
  PROVE  IInv'
<1> DEFINE old == rt[w][i]
           q == proc[w][i]
<1>0. /\ old \in Rows /\ q \in Ends /\ RuntimesTyped /\ AuthorityTyped
      /\ RowOk(w, old, q, attempt[i].owner)
  BY RowOf DEF IInv
<1>1. /\ UNCHANGED <<attempt, job, gate, active, settling, isolation, crashes>>
      /\ Keeps \/ LetsGo(w, i)
  BY DEF AcknowledgeManifest, AcknowledgeFails
<1>2. AuthorityTyped'
  BY <1>0, AcknowledgeTyped
     DEF AcknowledgeManifest, AcknowledgeFails, AuthorityTyped
<1>3. AttemptInv'
  BY <1>1 DEF IInv, AttemptInv
<1>4. RuntimesTyped' /\ RowInv' /\ AllKept
  <2>1. CASE AcknowledgeManifest(w, i)
    <3> DEFINE row == [old EXCEPT !.state = "dispatch_requested"]
    <3>1. row \in Rows
      BY <1>0, Moved DEF RuntimeStates
    <3>2. Puts(w, i, row, q)
      BY <1>0, <2>1 DEF AcknowledgeManifest, Moves, Puts, RuntimesTyped
    <3>3. RowOk(w, row, q, attempt[i].owner) /\ Kept(old, row)
      BY <1>0, <2>1 DEF AcknowledgeManifest, RowOk, Kept, Past, Measured,
                        Launched, Rows
    <3> HIDE DEF row
    <3>4. AllKept
      BY <1>0, <3>1, <3>2, <3>3, KeptByPut
    <3>5. RowInv'
      BY <1>0, <1>1, <3>1, <3>2, <3>3, RowsMove DEF IInv, OwnersStay
    <3> QED BY <1>0, <1>1, <3>1, <3>2, <3>4, <3>5, Put, HeldTyped
            DEF RuntimesTyped
  <2>2. CASE AcknowledgeFails(w, i)
    <3>1. UNCHANGED <<rt, proc>>
      BY <2>2 DEF AcknowledgeFails
    <3> QED BY <1>0, <1>1, <3>1, RowsUnchanged, HeldTyped DEF RuntimesTyped
  <2> QED BY <2>1, <2>2
<1> QED BY <1>1, <1>2, <1>3, <1>4, AttemptsStay

LEMMA CrashStep ==
  ASSUME IInv, NEW w \in Workers, Crash(w)
  PROVE  IInv'
<1>0. RuntimesTyped /\ UNCHANGED <<authority, proc>>
  BY DEF IInv, Crash
<1>1. ASSUME NEW i \in Attempts
      PROVE  [rt[w][i] EXCEPT !.late = TRUE] \in Rows
  <2>1. rt[w][i] \in Rows
    BY <1>0 DEF RuntimesTyped
  <2> QED BY <2>1 DEF Rows
<1>2. ASSUME NEW v \in Workers
      PROVE  rt'[v] \in [Attempts -> Rows] /\ held'[v] \in [Attempts -> BOOLEAN]
  BY <1>0, <1>1 DEF Crash, RuntimesTyped
<1>3. RuntimesTyped'
  BY <1>0, <1>2 DEF Crash, RuntimesTyped
<1>4. ASSUME NEW v \in Workers, NEW i \in Attempts
      PROVE  /\ rt'[v][i].state = rt[v][i].state
             /\ rt'[v][i].stopped = rt[v][i].stopped
             /\ rt'[v][i].result = rt[v][i].result
  <2>1. rt[v][i] \in Rows
    BY <1>0 DEF RuntimesTyped
  <2>2. CASE rt'[v][i] = rt[v][i]
    BY <2>2
  <2>3. CASE rt'[v][i] = [rt[v][i] EXCEPT !.late = TRUE]
    BY <2>1, <2>3 DEF Rows
  <2> QED BY <1>0, <2>2, <2>3 DEF Crash, RuntimesTyped
<1>5. RowInv'
  BY <1>0, <1>4 DEF IInv, RowInv, RowOk, authority
<1>6. AllKept
  BY <1>4 DEF AllKept, Kept
<1>7. AuthorityTyped' /\ AttemptInv'
  BY <1>0 DEF IInv, AuthorityTyped, AttemptInv, authority
<1> QED BY <1>0, <1>3, <1>5, <1>6, <1>7, AttemptsStay DEF authority

\* The grant: the attempt has a worker, and goes on being the active one.
LEMMA DispatchMoves ==
  ASSUME IInv, NEW w \in Workers, NEW i \in Attempts,
         GrantsDispatch(w, i), Dispatch(w, i),
         UNCHANGED <<gate, active, job, settling, isolation>>
  PROVE  /\ attempt' \in [Attempts -> AttemptRows]
         /\ AttemptInv' /\ OwnersStay /\ OpenStays
         /\ attempt'[i].owner = w
         /\ \A j \in Attempts : OwnerMoves(j)
<1> DEFINE moved == [attempt[i] EXCEPT !.state = "dispatching",
                                       !.version = attempt[i].version + 1]
           new == [moved EXCEPT !.owner = w, !.epoch = job[i].epoch]
<1>1. attempt[i] \in AttemptRows /\ job[i] \in JobRows /\ AuthorityTyped
  BY RowsOf DEF IInv
<1>2. AttemptOk(attempt[i], job[i])
  BY DEF IInv, AttemptInv
<1>3. moved \in AttemptRows
  <2>1. attempt[i].version + 1 \in Nat /\ "dispatching" \in AttemptStates
    BY <1>1 DEF AttemptStates, AttemptRows
  <2> QED BY <1>1, <2>1, MovedTyped
<1>4. new \in AttemptRows
  <2>1. job[i].epoch \in Nat
    BY <1>1, AuthorityAssumption DEF JobRows
  <2> HIDE DEF moved
  <2> QED BY <1>3, <2>1 DEF AttemptRows
<1>5. attempt' = [attempt EXCEPT ![i] = new]
  BY <1>1 DEF Dispatch, AuthorityTyped
<1>6. /\ attempt[i].state = "prepared" /\ attempt[i].owner = NoWorker
      /\ attempt[i].version \in Nat /\ attempt[i].version >= 1
      /\ job[i].state = "leased" /\ IsActive(i)
  BY <1>1, <1>2 DEF GrantsDispatch, MayLaunch, HasAuthority, AttemptOk,
                    AttemptRows
<1>7. /\ new.state = "dispatching" /\ new.version = attempt[i].version + 1
      /\ new.owner = w /\ new.evidence = attempt[i].evidence
      /\ new.report = attempt[i].report /\ new.refused = attempt[i].refused
      /\ new.approval = attempt[i].approval
  BY <1>1 DEF AttemptRows
<1> HIDE DEF new, moved
<1>8. /\ attempt' \in [Attempts -> AttemptRows] /\ attempt'[i] = new
      /\ \A j \in Attempts \ {i} : attempt'[j] = attempt[j]
  BY <1>1, <1>4, <1>5, PutAttempt
<1>9. AttemptOk(new, job[i])
  BY <1>2, <1>6, <1>7, AuthorityAssumption DEF AttemptOk
<1>10. AttemptInv'
  BY <1>8, <1>9 DEF AttemptInv, IInv
<1>11. OwnersStay
  BY <1>6, <1>8 DEF OwnersStay
<1>12. OpenStays
  BY <1>6, <1>7, <1>8 DEF OpenStays
<1>13. \A j \in Attempts : OwnerMoves(j)
  BY <1>6, <1>7, <1>8 DEF OwnerMoves, IsActive
<1> QED BY <1>7, <1>8, <1>10, <1>11, <1>12, <1>13

LEMMA DispatchSteps ==
  ASSUME IInv, NEW w \in Workers, NEW i \in Attempts,
         \/ DispatchGranted(w, i) \/ DispatchUnanswered(w, i)
         \/ DispatchArrivesLate(w, i)
  PROVE  IInv'
<1> DEFINE old == rt[w][i]
           q == proc[w][i]
           Grants == GrantsDispatch(w, i) /\ Dispatch(w, i)
<1>0. /\ old \in Rows /\ q \in Ends /\ RuntimesTyped /\ AuthorityTyped
      /\ RowOk(w, old, q, attempt[i].owner)
  BY RowOf DEF IInv
<1>1. /\ UNCHANGED <<gate, active, job, lease, manifest, isolation, approval,
                     settling, recovering, proc, crashes>>
      /\ Grants \/ UNCHANGED attempt
  BY DEF DispatchGranted, DispatchUnanswered, DispatchArrivesLate
<1>2. held' \in [Workers -> [Attempts -> BOOLEAN]]
  BY <1>0, HeldTyped
     DEF DispatchGranted, DispatchUnanswered, DispatchArrivesLate, Keeps
<1>3. PICK row \in Rows :
         /\ Puts(w, i, row, q) /\ Kept(old, row)
         /\ RowOk(w, row, q, attempt'[i].owner)
  <2>1. CASE DispatchGranted(w, i)
    <3> DEFINE row == [old EXCEPT !.state = "granted"]
    <3>1. row \in Rows
      BY <1>0, Moved DEF RuntimeStates
    <3>2. Puts(w, i, row, q)
      BY <1>0, <2>1 DEF DispatchGranted, Moves, Puts, RuntimesTyped
    <3>3. attempt'[i].owner = w
      BY <1>1, <2>1, DispatchMoves DEF DispatchGranted
    <3>4. RowOk(w, row, q, w) /\ Kept(old, row)
      BY <1>0, <2>1 DEF DispatchGranted, RowOk, Kept, Past, Measured, Launched,
                        Rows
    <3> QED BY <3>1, <3>2, <3>3, <3>4
  <2>2. CASE DispatchUnanswered(w, i)
    <3>1. PICK late \in BOOLEAN :
              rt' = [rt EXCEPT ![w][i].state = "unknown", ![w][i].late = late]
      BY <2>2 DEF DispatchUnanswered
    <3> DEFINE row == [old EXCEPT !.state = "unknown", !.late = late]
    <3>2. row \in Rows
      BY <1>0 DEF Rows, RuntimeStates
    <3>3. Puts(w, i, row, q)
      BY <1>0, <1>1, <3>1 DEF Puts, RuntimesTyped
    <3>4. \A owner : RowOk(w, row, q, owner) /\ Kept(old, row)
      BY <1>0, <2>2, AuthorityAssumption
         DEF DispatchUnanswered, RowOk, Kept, Past, Measured, Launched, Rows,
             Known
    <3> HIDE DEF row
    <3> QED BY <3>2, <3>3, <3>4
  <2>3. CASE DispatchArrivesLate(w, i)
    <3> DEFINE row == [old EXCEPT !.late = FALSE]
    <3>1. row \in Rows
      BY <1>0 DEF Rows
    <3>2. Puts(w, i, row, q)
      BY <1>0, <1>1, <2>3 DEF DispatchArrivesLate, Puts, RuntimesTyped
    <3>3. attempt'[i].owner = w
      BY <1>1, <2>3, DispatchMoves DEF DispatchArrivesLate
    <3>4. RowOk(w, row, q, attempt[i].owner) /\ Kept(old, row)
      BY <1>0 DEF RowOk, Kept, Past, Measured, Launched, Rows
    <3>5. RowOk(w, row, q, w)
      BY <3>4 DEF RowOk
    <3> QED BY <3>1, <3>2, <3>3, <3>4, <3>5
  <2> QED BY <2>1, <2>2, <2>3
<1>4. AllKept
  BY <1>0, <1>3, KeptByPut
<1>5. RuntimesTyped'
  BY <1>0, <1>1, <1>2, <1>3, Put DEF RuntimesTyped
<1>6. /\ attempt' \in [Attempts -> AttemptRows] /\ AttemptInv'
      /\ OwnersStay /\ OpenStays /\ \A j \in Attempts : OwnerMoves(j)
  <2>1. CASE Grants
    BY <1>1, <2>1, DispatchMoves
  <2>2. CASE UNCHANGED attempt
    BY <1>0, <1>1, <2>2 DEF IInv, AuthorityTyped, AttemptInv, OwnersStay,
                            OpenStays, OwnerMoves, IsActive
  <2> QED BY <1>1, <2>1, <2>2
<1>7. AuthorityTyped'
  BY <1>0, <1>1, <1>6 DEF AuthorityTyped
<1>8. RowInv'
  BY <1>0, <1>3, <1>6, RowsMove DEF IInv
<1> QED BY <1>4, <1>5, <1>6, <1>7, <1>8, OwnerMove, OpenMove DEF IInv

LEMMA SubmitStep ==
  ASSUME IInv, NEW w \in Workers, NEW i \in Attempts, Submit(w, i)
  PROVE  IInv'
<1> DEFINE result == rt[w][i].result
           new == [attempt[i] EXCEPT !.evidence = result]
<1>0. /\ rt[w][i] \in Rows /\ RuntimesTyped /\ AuthorityTyped
      /\ attempt[i] \in AttemptRows
      /\ RowOk(w, rt[w][i], proc[w][i], attempt[i].owner)
      /\ AttemptOk(attempt[i], job[i])
  BY RowOf, RowsOf DEF IInv, AttemptInv
<1>1. /\ attempt[i].owner = w /\ result # "none" /\ w # NoWorker
      /\ result \in Outcomes \cup {"none"}
  BY <1>0, AuthorityAssumption DEF Submit, RowOk, Past, Measured, Rows
<1>2. attempt[i].evidence # "none" => attempt[i].evidence = result
  BY <1>1 DEF IInv, OwnerInv
<1>3. new \in AttemptRows
  BY <1>0, <1>1 DEF AttemptRows
<1>4. /\ new.state = attempt[i].state /\ new.version = attempt[i].version
      /\ new.owner = w /\ new.evidence = result
      /\ new.report = attempt[i].report /\ new.refused = attempt[i].refused
      /\ new.approval = attempt[i].approval
  BY <1>0, <1>1 DEF AttemptRows
<1>5. attempt' = [attempt EXCEPT ![i] = new]
  BY <1>0 DEF Submit, KeepEvidence, AuthorityTyped
<1>6. AttemptOk(new, job[i])
  BY <1>0, <1>1, <1>2, <1>4, AuthorityAssumption DEF AttemptOk, Known
<1> HIDE DEF new
<1>7. /\ attempt' \in [Attempts -> AttemptRows] /\ attempt'[i] = new
      /\ \A j \in Attempts \ {i} : attempt'[j] = attempt[j]
  BY <1>0, <1>3, <1>5, PutAttempt
<1>8. /\ UNCHANGED <<gate, active, job, lease, manifest, isolation, approval,
                     recovering, rt, proc, crashes>>
      /\ settling' = [settling EXCEPT ![i] = TRUE]
  BY DEF Submit, KeepEvidence
<1>9. AuthorityTyped'
  BY <1>0, <1>7, <1>8 DEF AuthorityTyped
<1>10. RuntimesTyped'
  BY <1>0, <1>8, HeldTyped DEF Submit, RuntimesTyped
<1>11. AttemptInv'
  BY <1>6, <1>7, <1>8 DEF IInv, AttemptInv
<1>12. OwnersStay /\ OpenStays
  BY <1>1, <1>4, <1>7, <1>8 DEF OwnersStay, OpenStays
<1>13. RowInv' /\ AllKept
  BY <1>8, <1>12, RowsStay DEF IInv, AllKept, Kept
<1>14. \A j \in Attempts : OwnerMoves(j)
  BY <1>0, <1>1, <1>4, <1>7, <1>8 DEF OwnerMoves, IsActive, AuthorityTyped
<1> QED BY <1>0, <1>9, <1>10, <1>11, <1>12, <1>13, <1>14, OwnerMove, OpenMove
        DEF IInv

LEMMA IsolateStep ==
  ASSUME IInv, NEW w \in Workers, NEW i \in Attempts, Isolate(w, i)
  PROVE  IInv'
<1>0. RuntimesTyped /\ AuthorityTyped /\ attempt[i] \in AttemptRows
  BY RowsOf DEF IInv
<1>1. /\ UNCHANGED <<gate, active, attempt, job, lease, manifest, approval,
                     settling, recovering, rt, held, proc, crashes>>
      /\ isolation' = [isolation EXCEPT ![i] = attempt[i].version]
      /\ w # NoWorker
  BY AuthorityAssumption DEF Isolate, runtimes
<1>2. AuthorityTyped' /\ RuntimesTyped' /\ AttemptInv'
  BY <1>0, <1>1 DEF IInv, AuthorityTyped, RuntimesTyped, AttemptInv,
                    AttemptRows
<1>3. OwnersStay /\ OpenStays /\ AllKept
  BY <1>1 DEF OwnersStay, OpenStays, AllKept, Kept
<1>4. RowInv'
  BY <1>1, <1>3, RowsStay DEF IInv
<1>5. \A j \in Attempts : OwnerMoves(j)
  BY <1>0, <1>1 DEF Isolate, OwnerMoves, IsActive, AuthorityTyped
<1> QED BY <1>0, <1>2, <1>3, <1>4, <1>5, OwnerMove, OpenMove DEF IInv

LEMMA JudgementDiesStep ==
  ASSUME IInv, NEW i \in Attempts, JudgementDies(i)
  PROVE  IInv'
<1>0. RuntimesTyped /\ AuthorityTyped
  BY DEF IInv
<1>1. /\ UNCHANGED <<gate, active, attempt, job, lease, manifest, isolation,
                     approval, recovering, rt, held, proc, crashes>>
      /\ settling' = [settling EXCEPT ![i] = FALSE]
  BY DEF JudgementDies, runtimes
<1>2. AuthorityTyped' /\ RuntimesTyped' /\ AttemptInv'
  BY <1>0, <1>1 DEF IInv, AuthorityTyped, RuntimesTyped, AttemptInv
<1>3. OwnersStay /\ OpenStays /\ AllKept
  BY <1>1 DEF OwnersStay, OpenStays, AllKept, Kept
<1>4. RowInv'
  BY <1>1, <1>3, RowsStay DEF IInv
<1>5. \A j \in Attempts : OwnerMoves(j)
  BY <1>0, <1>1 DEF OwnerMoves, IsActive, AuthorityTyped
<1> QED BY <1>0, <1>2, <1>3, <1>4, <1>5, OwnerMove, OpenMove DEF IInv

-----------------------------------------------------------------------------
(* The authority's own steps.                                              *)

LEMMA AuthorityMove ==
  ASSUME IInv, AuthorityTyped', UNCHANGED runtimes, AttemptInv', OwnersStay,
         \A j \in Attempts : OwnerMoves(j),
         ActiveInv', OpenForOne', RefusedIsFinal'
  PROVE  IInv'
<1>1. UNCHANGED <<rt, held, proc, crashes>>
  BY DEF runtimes
<1>2. RuntimesTyped'
  BY <1>1 DEF IInv, RuntimesTyped
<1>3. RowInv' /\ AllKept
  BY <1>1, RowsStay DEF IInv, AllKept, Kept
<1> QED BY <1>2, <1>3, OwnerMove DEF IInv

\* A change of one feature's gate, its active attempt and its attempts.
LEMMA OpenElse ==
  ASSUME AuthorityTyped, ActiveInv, OpenForOne, NEW f \in Features,
         \A g \in Features \ {f} : gate'[g] = gate[g] /\ active'[g] = active[g],
         \A j \in Attempts : FeatureOf[j] # f => attempt'[j] = attempt[j],
         active'[f] # 0 => /\ FeatureOf[active'[f]] = f
                           /\ attempt'[active'[f]].state # "absent",
         gate'[f].mode = "open" =>
             /\ active'[f] # 0
             /\ attempt'[active'[f]].approval = gate'[f].epoch
             /\ ~attempt'[active'[f]].report /\ ~attempt'[active'[f]].refused
  PROVE  ActiveInv' /\ OpenForOne'
<1>1. \A g \in Features : active[g] \in Attempts \cup {0}
  BY DEF AuthorityTyped
<1>2. ActiveInv'
  BY <1>1 DEF ActiveInv
<1>3. OpenForOne'
  BY <1>1 DEF ActiveInv, OpenForOne
<1> QED BY <1>2, <1>3

\* What leaves an attempt's owner, evidence, report, refusal and approval
\* alone, and at most makes it unknown before it has reported.
Soft(old, new) ==
    /\ new.owner = old.owner /\ new.evidence = old.evidence
    /\ new.report = old.report /\ new.refused = old.refused
    /\ new.approval = old.approval
    /\ \/ new.state = old.state /\ new.version = old.version
       \/ /\ new.state = "unknown" /\ new.version = old.version + 1
          /\ ~old.report

AllSoft == \A j \in Attempts : Soft(attempt[j], attempt'[j])

LEMMA SoftMove ==
  ASSUME IInv, AllSoft
  PROVE  /\ OwnersStay /\ RefusedIsFinal'
         /\ UNCHANGED job => AttemptInv'
         /\ UNCHANGED <<gate, active>> => OpenStays
         /\ UNCHANGED <<active, settling, isolation>> =>
                \A j \in Attempts : OwnerMoves(j)
<1>1. OwnersStay
  BY DEF OwnersStay, AllSoft, Soft
<1>2. ASSUME UNCHANGED job PROVE AttemptInv'
  <2> SUFFICES ASSUME NEW j \in Attempts PROVE AttemptOk(attempt'[j], job'[j])
    BY DEF AttemptInv
  <2>1. AttemptOk(attempt[j], job[j]) /\ attempt[j].version \in Nat
    BY RowsOf DEF IInv, AttemptInv, AttemptRows
  <2>2. Soft(attempt[j], attempt'[j])
    BY DEF AllSoft
  <2> QED BY <1>2, <2>1, <2>2 DEF Soft, AttemptOk
<1>3. UNCHANGED <<gate, active>> => OpenStays
  BY DEF OpenStays, AllSoft, Soft
<1>4. ASSUME UNCHANGED <<active, settling, isolation>>
      PROVE  \A j \in Attempts : OwnerMoves(j)
  BY <1>4 DEF OwnerMoves, IsActive, AllSoft, Soft
<1>5. RefusedIsFinal'
  BY DEF IInv, RefusedIsFinal, AllSoft, Soft
<1> QED BY <1>1, <1>2, <1>3, <1>4, <1>5

LEMMA SoftUnknown ==
  ASSUME NEW row \in AttemptRows, ~row.report
  PROVE  Soft(row, MadeUnknown(row))
  BY DEF Soft, MadeUnknown, AttemptRows

LEMMA SoftWarrant ==
  ASSUME NEW row \in AttemptRows
  PROVE  Soft(row, row) /\ Soft(row, [row EXCEPT !.warrant = FALSE])
  BY DEF Soft, AttemptRows

LEMMA QuietSteps ==
  ASSUME IInv, NEW i \in Attempts, UNCHANGED runtimes, AuthorityTyped',
         \/ CancelJob(i) \/ JobLeaseLapses(i) \/ PolicyLeaseLapses(i)
         \/ BeginRecovery(i) \/ Approve(i) \/ EnqueueReplacement(i)
  PROVE  IInv'
<1>1. UNCHANGED <<gate, active, attempt, settling, isolation>>
  BY DEF CancelJob, JobLeaseLapses, PolicyLeaseLapses, BeginRecovery, Approve,
         EnqueueReplacement
<1>2. RuntimesTyped' /\ AllKept /\ RowInv'
  BY <1>1, RowsUnchanged DEF runtimes, IInv, RuntimesTyped
<1>3. /\ AttemptOk(attempt[i], job[i]) /\ job[i] \in JobRows
      /\ job \in [Attempts -> JobRows]
  BY RowsOf DEF IInv, AttemptInv, AuthorityTyped
<1>4. AttemptInv'
  <2>1. CASE UNCHANGED job
    BY <1>1, <2>1 DEF IInv, AttemptInv
  <2>2. CASE CancelJob(i)
    <3>1. AttemptOk(attempt[i], Unleased(job[i], "cancelled"))
      BY <1>3, <2>2, AuthorityAssumption
         DEF CancelJob, AttemptOk, Unleased, JobRows, Known
    <3> QED BY <1>1, <1>3, <2>2, <3>1 DEF CancelJob, IInv, AttemptInv
  <2>3. CASE JobLeaseLapses(i)
    <3>1. AttemptOk(attempt[i], [job[i] EXCEPT !.live = FALSE])
      BY <1>3 DEF AttemptOk, JobRows
    <3> QED BY <1>1, <1>3, <2>3, <3>1 DEF JobLeaseLapses, IInv, AttemptInv
  <2>4. CASE EnqueueReplacement(i)
    <3>1. AttemptOk(attempt[i], [job[i] EXCEPT !.state = "pending"])
      BY <1>3, <2>4, AuthorityAssumption
         DEF EnqueueReplacement, AttemptOk, JobRows, Known
    <3> QED BY <1>1, <1>3, <2>4, <3>1 DEF EnqueueReplacement, IInv, AttemptInv
  <2> QED BY <2>1, <2>2, <2>3, <2>4
          DEF CancelJob, JobLeaseLapses, PolicyLeaseLapses, BeginRecovery,
              Approve, EnqueueReplacement
<1> QED BY <1>1, <1>2, <1>4, AttemptsStay

LEMMA WarrantSteps ==
  ASSUME IInv, NEW i \in Attempts, UNCHANGED runtimes, AuthorityTyped',
         WarrantLapses(i) \/ Revoke(i) \/ FinishRecovery(i)
  PROVE  IInv'
<1>1. UNCHANGED <<gate, active, job, settling, isolation>>
  BY DEF WarrantLapses, Revoke, FinishRecovery
<1>2. attempt \in [Attempts -> AttemptRows]
  BY DEF IInv, AuthorityTyped
<1>3. AllSoft
  <2>1. CASE WarrantLapses(i)
    BY <1>2, <2>1, SoftWarrant DEF WarrantLapses, AllSoft
  <2>2. CASE Revoke(i)
    BY <1>2, <2>2, SoftWarrant DEF Revoke, AllSoft
  <2>3. CASE FinishRecovery(i)
    <3>1. Eligible(i) => ~attempt[i].report
      BY DEF Eligible
    <3>2. \/ attempt' = attempt
          \/ /\ Eligible(i)
             /\ attempt' = [attempt EXCEPT ![i] = MadeUnknown(@)]
      BY <2>3 DEF FinishRecovery
    <3> QED BY <1>2, <3>1, <3>2, SoftWarrant, SoftUnknown DEF AllSoft
  <2> QED BY <2>1, <2>2, <2>3
<1>4. ActiveInv' /\ OpenForOne' /\ RefusedIsFinal'
  BY <1>1, <1>3, SoftMove, OpenMove DEF IInv
<1> QED BY <1>1, <1>3, <1>4, SoftMove, AuthorityMove

LEMMA PrepareStep ==
  ASSUME IInv, NEW i \in Attempts, UNCHANGED runtimes, AuthorityTyped',
         Prepare(i)
  PROVE  IInv'
<1> DEFINE f == FeatureOf[i]
<1>1. /\ UNCHANGED <<active, job, settling, isolation>>
      /\ active[f] = 0 /\ f \in Features
      /\ AuthorityTyped /\ attempt \in [Attempts -> AttemptRows]
  BY RowsOf DEF Prepare, IInv, AuthorityTyped
<1>2. PICK v : attempt' = [attempt EXCEPT ![i].selected = v]
  BY DEF Prepare
<1>3. AllSoft
  BY <1>1, <1>2 DEF AllSoft, Soft, AttemptRows
<1>4. /\ gate'[f].mode = "paused"
      /\ \A g \in Features \ {f} : gate'[g] = gate[g]
  BY <1>1 DEF Prepare, AuthorityTyped
<1>5. \A j \in Attempts : FeatureOf[j] # f => attempt'[j] = attempt[j]
  BY <1>1, <1>2
<1>6. ActiveInv' /\ OpenForOne'
  BY <1>1, <1>4, <1>5, OpenElse DEF IInv
<1> QED BY <1>1, <1>3, <1>6, SoftMove, AuthorityMove

LEMMA ControlStep ==
  ASSUME IInv, NEW f \in Features, NEW mode \in {"paused", "cancelled"},
         UNCHANGED runtimes, AuthorityTyped', Control(f, mode)
  PROVE  IInv'
<1>1. /\ UNCHANGED <<active, attempt, job, settling, isolation>>
      /\ AuthorityTyped /\ attempt \in [Attempts -> AttemptRows]
      /\ gate[f] \in GateRows
  BY DEF Control, IInv, AuthorityTyped
<1>2. AllSoft
  BY <1>1 DEF AllSoft, Soft
<1>3. /\ gate'[f].mode # "open"
      /\ \A g \in Features \ {f} : gate'[g] = gate[g]
  BY <1>1, StoppedTyped DEF Control, AuthorityTyped
<1>4. ActiveInv' /\ OpenForOne'
  BY <1>1, <1>3, OpenElse DEF IInv, ActiveInv
<1> QED BY <1>1, <1>2, <1>4, SoftMove, AuthorityMove

\* A gate stopped for its attempt's sake is not open if that is the active one.
LEMMA ParkedGate ==
  ASSUME IInv, NEW i \in Attempts, IsActive(i)
  PROVE  /\ GateParked(i)[FeatureOf[i]].mode # "open"
         /\ \A g \in Features \ {FeatureOf[i]} : GateParked(i)[g] = gate[g]
<1>1. /\ AuthorityTyped /\ FeatureOf[i] \in Features /\ i # 0
      /\ gate[FeatureOf[i]] \in GateRows
  BY RowsOf DEF IInv
<1>2. ~Approved(i) => gate[FeatureOf[i]].mode # "open"
  BY <1>1 DEF IInv, OpenForOne, Approved, IsActive, GateOf
<1> QED BY <1>1, <1>2, StoppedTyped DEF GateParked, AuthorityTyped

LEMMA ReclaimStep ==
  ASSUME IInv, NEW i \in Attempts, UNCHANGED runtimes, AuthorityTyped',
         Reclaim(i)
  PROVE  IInv'
<1> DEFINE f == FeatureOf[i]
<1>1. /\ UNCHANGED <<active, settling, isolation>>
      /\ AuthorityTyped /\ attempt \in [Attempts -> AttemptRows]
      /\ job \in [Attempts -> JobRows] /\ job[i] \in JobRows
      /\ attempt[i] \in AttemptRows
      /\ AttemptOk(attempt[i], job[i]) /\ job[i].state = "leased"
      /\ f \in Features
  BY RowsOf DEF Reclaim, IInv, AuthorityTyped, AttemptInv
<1>2. \/ attempt' = attempt
      \/ ~attempt[i].report /\ attempt' = [attempt EXCEPT ![i] = MadeUnknown(@)]
  BY DEF Reclaim, ReclaimBlocked, RequeueOrExpire
<1>3. AllSoft
  BY <1>1, <1>2, SoftWarrant, SoftUnknown DEF AllSoft
<1>4. PICK state \in {"pending", "expired"} :
         /\ job' = [job EXCEPT ![i] = Unleased(@, state)]
         /\ state = "pending" => /\ job[i].epoch < MaxClaims
                                 /\ attempt[i].owner = NoWorker
                                 /\ attempt' = attempt
  BY <1>1 DEF Reclaim, ReclaimBlocked, RequeueOrExpire, Blocked, Dispatched
<1>5. AttemptOk(attempt'[i], Unleased(job[i], state))
  <2>1. Soft(attempt[i], attempt'[i]) /\ attempt[i].version \in Nat
    BY <1>1, <1>3 DEF AllSoft, AttemptRows
  <2> QED BY <1>1, <1>4, <2>1, AuthorityAssumption
          DEF AttemptOk, Unleased, JobRows, Known, Soft
<1>6. AttemptInv'
  BY <1>1, <1>2, <1>4, <1>5 DEF AttemptInv, IInv
<1>7. ActiveInv' /\ OpenForOne'
  <2>1. CASE gate' = gate
    BY <1>1, <1>3, <2>1, SoftMove, OpenMove DEF IInv
  <2>2. CASE gate' = GateParked(i) /\ IsActive(i)
    <3>1. \A j \in Attempts : FeatureOf[j] # f => attempt'[j] = attempt[j]
      BY <1>1, <1>2
    <3>2. attempt'[i].state # "absent" /\ active'[f] = i
      <4>1. i # 0 /\ attempt[i].state # "absent"
        BY <1>1, <2>2, RowsOf DEF ActiveInv, IInv, IsActive
      <4> QED BY <1>1, <1>3, <2>2, <4>1 DEF AllSoft, Soft, IsActive
    <3> QED BY <1>1, <2>2, <3>1, <3>2, ParkedGate, OpenElse DEF IInv
  <2> QED BY <2>1, <2>2 DEF Reclaim, ReclaimBlocked, RequeueOrExpire
<1> QED BY <1>1, <1>3, <1>6, <1>7, SoftMove, AuthorityMove

LEMMA StartStep ==
  ASSUME IInv, NEW i \in Attempts, UNCHANGED runtimes, AuthorityTyped',
         Start(i)
  PROVE  IInv'
<1> DEFINE f == FeatureOf[i]
<1>1. /\ UNCHANGED <<settling, isolation>>
      /\ AuthorityTyped /\ f \in Features /\ i # 0 /\ active[f] = 0
      /\ attempt \in [Attempts -> AttemptRows] /\ attempt[i] \in AttemptRows
      /\ job \in [Attempts -> JobRows] /\ job[i] \in JobRows
      /\ active \in [Features -> Attempts \cup {0}]
      /\ gate \in [Features -> GateRows] /\ gate[f] \in GateRows
      /\ AttemptOk(attempt[i], job[i]) /\ attempt[i].state = "absent"
  BY RowsOf DEF Start, IInv, AuthorityTyped, AttemptInv
<1>2. /\ attempt'[i].state = "prepared" /\ attempt'[i].version = 1
      /\ attempt'[i].approval = gate[f].epoch + 1
      /\ attempt'[i].owner = attempt[i].owner
      /\ attempt'[i].evidence = attempt[i].evidence
      /\ attempt'[i].report = attempt[i].report
      /\ attempt'[i].refused = attempt[i].refused
      /\ \A j \in Attempts \ {i} : attempt'[j] = attempt[j]
  BY <1>1 DEF Start, AttemptRows
<1>3. /\ job'[i].state = "pending" /\ job'[i].epoch = job[i].epoch
      /\ \A j \in Attempts \ {i} : job'[j] = job[j]
  BY <1>1 DEF Start, JobRows
<1>4. /\ attempt[i].owner = NoWorker /\ ~attempt[i].report
      /\ ~attempt[i].refused /\ job[i].epoch = 0
  BY <1>1 DEF AttemptOk, AttemptRows
<1>5. AttemptOk(attempt'[i], job'[i])
  BY <1>2, <1>3, <1>4, AuthorityAssumption DEF AttemptOk
<1>6. AttemptInv'
  BY <1>2, <1>3, <1>5 DEF AttemptInv, IInv
<1>7. OwnersStay /\ RefusedIsFinal'
  BY <1>2, <1>4 DEF OwnersStay, IInv, RefusedIsFinal
<1>8. /\ active'[f] = i
      /\ \A g \in Features \ {f} : active'[g] = active[g] /\ gate'[g] = gate[g]
      /\ gate'[f].epoch = gate[f].epoch + 1
  BY <1>1, StoppedTyped DEF Start, Opened
<1>9. \A j \in Attempts : OwnerMoves(j)
  <2> SUFFICES ASSUME NEW j \in Attempts PROVE OwnerMoves(j)
    OBVIOUS
  <2>1. IsActive(j) => IsActive(j)'
    BY <1>1, <1>8, RowsOf DEF IsActive
  <2> QED BY <1>1, <1>2, <2>1 DEF OwnerMoves
<1>10. ActiveInv' /\ OpenForOne'
  BY <1>1, <1>2, <1>4, <1>8, OpenElse DEF IInv
<1> QED BY <1>6, <1>7, <1>9, <1>10, AuthorityMove

LEMMA ResumeStep ==
  ASSUME IInv, NEW i \in Attempts, NEW n \in Attempts, UNCHANGED runtimes,
         AuthorityTyped', Resume(i, n)
  PROVE  IInv'
<1> DEFINE f == FeatureOf[i]
<1>1. /\ UNCHANGED <<job, settling, isolation>>
      /\ AuthorityTyped /\ RuntimesTyped /\ f \in Features
      /\ active[f] = i /\ n # 0 /\ i # 0
      /\ attempt \in [Attempts -> AttemptRows] /\ attempt[i] \in AttemptRows
      /\ attempt[n] \in AttemptRows
      /\ active \in [Features -> Attempts \cup {0}]
      /\ gate \in [Features -> GateRows] /\ gate[f] \in GateRows
      /\ AttemptOk(attempt[i], job[i]) /\ AttemptOk(attempt[n], job[n])
      /\ attempt[n].state = "absent" /\ FeatureOf[n] = f
  BY RowsOf DEF Resume, Replaceable, IsActive, IInv, AuthorityTyped, AttemptInv
<1>2. attempt[i].state # "absent" /\ n # i
  BY <1>1 DEF IInv, ActiveInv
<1>3. /\ attempt'[i].state = "superseded"
      /\ attempt'[i].version = attempt[i].version + 1
      /\ attempt'[i].owner = attempt[i].owner
      /\ attempt'[i].evidence = attempt[i].evidence
      /\ attempt'[i].report = attempt[i].report
      /\ attempt'[i].refused = attempt[i].refused
  BY <1>1, <1>2 DEF Resume, AttemptRows
<1>4. /\ attempt'[n].state = "prepared" /\ attempt'[n].version = 1
      /\ attempt'[n].approval = gate[f].epoch + 1
      /\ attempt'[n].owner = attempt[n].owner
      /\ attempt'[n].evidence = attempt[n].evidence
      /\ attempt'[n].report = attempt[n].report
      /\ attempt'[n].refused = attempt[n].refused
  BY <1>1, <1>2 DEF Resume, AttemptRows
<1>5. \A j \in Attempts \ {i, n} : attempt'[j] = attempt[j]
  BY <1>1 DEF Resume
<1>6. /\ attempt[n].owner = NoWorker /\ ~attempt[n].report
      /\ ~attempt[n].refused /\ job[n].state = "absent"
  BY <1>1 DEF AttemptOk, AttemptRows
<1>7. ~attempt[i].report /\ attempt[i].version \in Nat
  BY <1>1 DEF Resume, Replaceable, AttemptRows
<1>8. AttemptOk(attempt'[i], job'[i]) /\ AttemptOk(attempt'[n], job'[n])
  BY <1>1, <1>3, <1>4, <1>6, <1>7 DEF AttemptOk
<1>9. AttemptInv'
  BY <1>1, <1>5, <1>8 DEF AttemptInv, IInv
<1>10. OwnersStay /\ RefusedIsFinal'
  BY <1>3, <1>4, <1>5 DEF OwnersStay, IInv, RefusedIsFinal
<1>11. /\ active'[f] = n
       /\ \A g \in Features \ {f} : active'[g] = active[g] /\ gate'[g] = gate[g]
       /\ gate'[f].epoch = gate[f].epoch + 1
  BY <1>1, StoppedTyped DEF Resume, Opened
<1>12. attempt[i].owner # NoWorker => Over(rt[attempt[i].owner][i])
  <2>1. ASSUME attempt[i].owner # NoWorker
        PROVE  isolation[i] # 0
    BY <1>1, <1>7, <2>1 DEF Resume, Replaceable, Dispatched, AttemptOk
  <2> QED BY <2>1 DEF IInv, OwnerInv, Over
<1>13. \A j \in Attempts : OwnerMoves(j)
  <2> SUFFICES ASSUME NEW j \in Attempts PROVE OwnerMoves(j)
    OBVIOUS
  <2>0. UNCHANGED rt
    BY DEF runtimes
  <2>1. /\ attempt'[j].owner = attempt[j].owner
        /\ attempt'[j].evidence = attempt[j].evidence
    BY <1>3, <1>4, <1>5
  <2>2. CASE j = i
    BY <1>1, <1>12, <2>0, <2>1, <2>2 DEF OwnerMoves
  <2>3. CASE j # i
    <3>1. IsActive(j) => IsActive(j)'
      BY <1>1, <1>11, <2>3, RowsOf DEF IsActive
    <3> QED BY <1>1, <2>1, <3>1 DEF OwnerMoves
  <2> QED BY <2>2, <2>3
<1>14. \A j \in Attempts : FeatureOf[j] # f => attempt'[j] = attempt[j]
  BY <1>1, <1>5
<1>15. ActiveInv' /\ OpenForOne'
  BY <1>1, <1>4, <1>6, <1>11, <1>14, OpenElse DEF IInv
<1> QED BY <1>9, <1>10, <1>13, <1>15, AuthorityMove

LEMMA JudgeStep ==
  ASSUME IInv, NEW w \in Workers, NEW i \in Attempts, Judge(w, i)
  PROVE  IInv'
<1> DEFINE f == FeatureOf[i]
<1>1. PICK kill \in BOOLEAN : JudgeResult(i, kill)
  BY DEF Judge
<1>2. /\ UNCHANGED <<lease, manifest, isolation, approval, recovering, held,
                     proc, crashes>>
      /\ settling[i] /\ settling' = [settling EXCEPT ![i] = FALSE]
  BY <1>1 DEF JudgeResult, Judge
<1>3. /\ AuthorityTyped /\ RuntimesTyped /\ f \in Features /\ i # 0
      /\ attempt \in [Attempts -> AttemptRows] /\ attempt[i] \in AttemptRows
      /\ job \in [Attempts -> JobRows] /\ job[i] \in JobRows
      /\ gate \in [Features -> GateRows] /\ gate[f] \in GateRows
      /\ active \in [Features -> Attempts \cup {0}]
      /\ settling \in [Attempts -> BOOLEAN]
      /\ AttemptOk(attempt[i], job[i]) /\ attempt[i].owner = w
      /\ w # NoWorker
  BY RowsOf, AuthorityAssumption DEF Judge, IInv, AuthorityTyped, AttemptInv
<1>4. attempt[i].evidence # "none" /\ rt[w][i].result = attempt[i].evidence
  BY <1>2, <1>3 DEF IInv, OwnerInv
<1>5. /\ RuntimesTyped' /\ AllKept
      /\ OwnersStay => RowInv'
  <2> DEFINE old == rt[w][i]
             q == proc[w][i]
             row == [old EXCEPT !.state = "reported"]
  <2>1. old \in Rows /\ q \in Ends /\ RowOk(w, old, q, attempt[i].owner)
    BY RowOf
  <2>2. CASE UNCHANGED rt
    BY <1>2, <1>3, <2>2, RowsStay DEF RuntimesTyped, AllKept, Kept, IInv
  <2>3. CASE old.state = "result_ready" /\ Moves(w, i, "reported")
    <3>1. row \in Rows
      BY <2>1, Moved DEF RuntimeStates
    <3>2. Puts(w, i, row, q)
      BY <1>2, <1>3, <2>1, <2>3 DEF Moves, Puts, RuntimesTyped
    <3>3. RowOk(w, row, q, w) /\ Kept(old, row)
      BY <1>3, <2>1, <2>3 DEF RowOk, Kept, Past, Measured, Launched, Rows
    <3>4. OwnersStay => attempt'[i].owner = w
      BY <1>3 DEF OwnersStay
    <3> HIDE DEF row
    <3>5. RuntimesTyped'
      BY <1>2, <1>3, <2>1, <3>1, <3>2, Put DEF RuntimesTyped
    <3>6. AllKept
      BY <1>3, <2>1, <3>1, <3>2, <3>3, KeptByPut
    <3> QED BY <1>3, <2>1, <3>1, <3>2, <3>3, <3>4, <3>5, <3>6, RowsMove
            DEF IInv
  <2> QED BY <2>2, <2>3 DEF Judge
<1>6. ASSUME attempt[i].report, UNCHANGED <<gate, active, attempt, job>>
      PROVE  IInv'
  <2>1. AuthorityTyped' /\ AttemptInv'
    BY <1>2, <1>3, <1>6 DEF AuthorityTyped, AttemptInv, IInv
  <2>2. OwnersStay /\ OpenStays
    BY <1>6 DEF OwnersStay, OpenStays
  <2>3. \A j \in Attempts : OwnerMoves(j)
    BY <1>2, <1>3, <1>6 DEF OwnerMoves, IsActive
  <2> QED BY <1>3, <1>5, <2>1, <2>2, <2>3, OwnerMove, OpenMove DEF IInv
<1>7. ASSUME ~attempt[i].report, ParkResult(i)
      PROVE  IInv'
  <2>1. PICK row \in AttemptRows :
           /\ attempt' = [attempt EXCEPT ![i] = row]
           /\ row.owner = w /\ row.evidence = attempt[i].evidence
           /\ row.approval = attempt[i].approval
           /\ ~row.report /\ row.refused
           /\ \/ row.state = attempt[i].state
                 /\ row.version = attempt[i].version
              \/ row.state = "unknown" /\ row.version = attempt[i].version + 1
    <3> DEFINE seen == [attempt[i] EXCEPT !.refused = TRUE]
    <3>1. /\ seen \in AttemptRows
          /\ seen.owner = w /\ seen.evidence = attempt[i].evidence
          /\ seen.approval = attempt[i].approval
          /\ seen.state = attempt[i].state
          /\ seen.version = attempt[i].version
          /\ ~seen.report /\ seen.refused
      BY <1>3, <1>7 DEF AttemptRows
    <3>2. \/ attempt' = [attempt EXCEPT ![i] = seen]
          \/ attempt' = [attempt EXCEPT ![i] = MadeUnknown(seen)]
      BY <1>3, <1>7 DEF ParkResult
    <3> HIDE DEF seen
    <3>3. /\ MadeUnknown(seen) \in AttemptRows
          /\ MadeUnknown(seen).owner = w
          /\ MadeUnknown(seen).evidence = attempt[i].evidence
          /\ MadeUnknown(seen).approval = attempt[i].approval
          /\ MadeUnknown(seen).state = "unknown"
          /\ MadeUnknown(seen).version = attempt[i].version + 1
          /\ ~MadeUnknown(seen).report /\ MadeUnknown(seen).refused
      <4>1. MadeUnknown(seen) \in AttemptRows
        BY <3>1, MadeUnknownTyped
      <4> QED BY <3>1, <4>1 DEF MadeUnknown, AttemptRows
    <3> QED BY <3>1, <3>2, <3>3
  <2>2. PICK work \in JobRows :
           /\ job' = [job EXCEPT ![i] = work]
           /\ \/ work = job[i]
              \/ work.state = "expired" /\ work.epoch = job[i].epoch
    <3>1. Unleased(job[i], "expired") \in JobRows
      BY <1>3, UnleasedTyped DEF JobStates
    <3>2. /\ Unleased(job[i], "expired").state = "expired"
          /\ Unleased(job[i], "expired").epoch = job[i].epoch
      BY <1>3 DEF Unleased, JobRows
    <3>3. \/ job' = job
          \/ job' = [job EXCEPT ![i] = Unleased(@, "expired")]
      BY <1>7 DEF ParkResult
    <3> QED BY <1>3, <3>1, <3>2, <3>3
  <2>3. AttemptOk(row, work)
    BY <1>3, <2>1, <2>2, AuthorityAssumption DEF AttemptOk, AttemptRows
  <2>4. /\ attempt' \in [Attempts -> AttemptRows] /\ attempt'[i] = row
        /\ \A j \in Attempts \ {i} : attempt'[j] = attempt[j]
    BY <1>3, <2>1, PutAttempt
  <2>5. AttemptInv'
    BY <1>3, <2>2, <2>3, <2>4 DEF AttemptInv, IInv
  <2>6. /\ UNCHANGED active
        /\ \/ gate' = GateParked(i) /\ IsActive(i)
           \/ gate' = gate /\ ~IsActive(i)
    BY <1>7 DEF ParkResult
  <2>7. AuthorityTyped'
    BY <1>2, <1>3, <2>2, <2>4, <2>6, GateParkedTyped DEF AuthorityTyped
  <2>8. OwnersStay /\ RefusedIsFinal'
    BY <1>3, <2>1, <2>4 DEF OwnersStay, IInv, RefusedIsFinal
  <2>9. \A j \in Attempts : OwnerMoves(j)
    BY <1>2, <1>3, <2>1, <2>4, <2>6 DEF OwnerMoves, IsActive
  <2>10. ActiveInv' /\ OpenForOne'
    <3>0. attempt[i].state # "absent" /\ row.state # "absent"
      BY <1>3, <2>1 DEF AttemptOk
    <3>1. CASE IsActive(i)
      <4>1. active'[f] = i /\ gate'[f].mode # "open"
            /\ \A g \in Features \ {f} : gate'[g] = gate[g]
        BY <2>6, <3>1, ParkedGate DEF IsActive
      <4>2. \A j \in Attempts : FeatureOf[j] # f => attempt'[j] = attempt[j]
        BY <2>4
      <4> QED BY <1>3, <2>4, <2>6, <3>0, <4>1, <4>2, OpenElse DEF IInv
    <3>2. CASE ~IsActive(i)
      <4>1. gate' = gate /\ active' = active
        BY <2>6, <3>2
      <4>2. \A g \in Features : active[g] # 0 =>
                /\ active[g] \in Attempts /\ active[g] # i
                /\ FeatureOf[active[g]] = g
        BY <1>3, <3>2 DEF IsActive, IInv, ActiveInv
      <4>3. \A g \in Features : active[g] # 0 =>
                attempt'[active[g]] = attempt[active[g]]
        BY <2>4, <4>2
      <4> QED BY <4>1, <4>3 DEF IInv, ActiveInv, OpenForOne
    <3> QED BY <3>1, <3>2
  <2> QED BY <1>3, <1>5, <2>5, <2>7, <2>8, <2>9, <2>10, OwnerMove DEF IInv
<1>8. ASSUME ~attempt[i].report, ~Refused(i), AcceptResult(i)
      PROVE  IInv'
  <2>1. /\ HasAuthority(i) /\ Known(attempt[i].evidence)
        /\ active[f] = i /\ gate[f].mode = "open"
    BY <1>8 DEF Refused, HasAuthority, Approved, IsActive, GateOf
  <2>2. ~attempt[i].refused /\ attempt[i].version \in Nat
    BY <1>3, <2>1 DEF IInv, OpenForOne, AttemptRows
  <2> DEFINE moved == [attempt[i] EXCEPT !.state = "result_recorded",
                                         !.version = attempt[i].version + 2]
             row == [moved EXCEPT !.report = TRUE]
             work == Unleased(job[i], attempt[i].evidence)
  <2>3. moved \in AttemptRows
    <3>1. attempt[i].version + 2 \in Nat /\ "result_recorded" \in AttemptStates
      BY <2>2 DEF AttemptStates
    <3> QED BY <1>3, <3>1, MovedTyped
  <2>4. /\ row \in AttemptRows
        /\ row.state = "result_recorded" /\ row.owner = w
        /\ row.version = attempt[i].version + 2
        /\ row.evidence = attempt[i].evidence /\ row.report /\ ~row.refused
    BY <1>3, <2>2, <2>3 DEF AttemptRows
  <2>5. attempt' = [attempt EXCEPT ![i] = row]
    BY <1>3, <1>8 DEF AcceptResult
  <2> HIDE DEF moved, row
  <2>6. /\ attempt' \in [Attempts -> AttemptRows] /\ attempt'[i] = row
        /\ \A j \in Attempts \ {i} : attempt'[j] = attempt[j]
    BY <1>3, <2>4, <2>5, PutAttempt
  <2>7. attempt[i].evidence \in JobStates /\ attempt[i].evidence # "pending"
        /\ attempt[i].evidence # "absent"
    BY <2>1, AuthorityAssumption DEF Known, JobStates
  <2>8. work \in JobRows /\ work.state = attempt[i].evidence
    BY <1>3, <2>7, UnleasedTyped DEF Unleased, JobRows
  <2>9. job' = [job EXCEPT ![i] = work]
    BY <1>8 DEF AcceptResult
  <2> HIDE DEF work
  <2>10. AttemptOk(row, work)
    BY <1>3, <2>1, <2>2, <2>4, <2>7, <2>8, AuthorityAssumption DEF AttemptOk
  <2>11. AttemptInv'
    BY <1>3, <2>6, <2>9, <2>10 DEF AttemptInv, IInv
  <2>12. /\ active'[f] = 0 /\ gate'[f].mode = "paused"
         /\ \A g \in Features \ {f} : active'[g] = active[g]
                                      /\ gate'[g] = gate[g]
    BY <1>3, <1>8, StoppedTyped DEF AcceptResult
  <2>13. /\ active' \in [Features -> Attempts \cup {0}]
         /\ gate' \in [Features -> GateRows]
    BY <1>3, <1>8, StoppedTyped DEF AcceptResult
  <2>14. AuthorityTyped'
    BY <1>2, <1>3, <2>6, <2>8, <2>9, <2>13 DEF AuthorityTyped
  <2>15. OwnersStay /\ RefusedIsFinal'
    BY <1>3, <2>4, <2>6 DEF OwnersStay, IInv, RefusedIsFinal
  <2>16. \A j \in Attempts : OwnerMoves(j)
    <3> SUFFICES ASSUME NEW j \in Attempts PROVE OwnerMoves(j)
      OBVIOUS
    <3>1. CASE j = i
      <4>1. Over(rt'[w][i])
        BY <1>3, <1>4, <1>5, <2>1 DEF AllKept, Kept, Over
      <4> QED BY <1>2, <1>3, <2>4, <2>6, <3>1, <4>1 DEF OwnerMoves
    <3>2. CASE j # i
      <4>1. IsActive(j) => IsActive(j)'
        BY <1>3, <2>1, <2>12, <3>2, RowsOf DEF IsActive
      <4> QED BY <1>2, <1>3, <2>6, <3>2, <4>1 DEF OwnerMoves
    <3> QED BY <3>1, <3>2
  <2>17. ActiveInv' /\ OpenForOne'
    <3>1. \A j \in Attempts : FeatureOf[j] # f => attempt'[j] = attempt[j]
      BY <2>6
    <3> QED BY <1>3, <2>12, <3>1, OpenElse DEF IInv
  <2> QED BY <1>3, <1>5, <2>11, <2>14, <2>15, <2>16, <2>17, OwnerMove DEF IInv
<1> QED BY <1>1, <1>6, <1>7, <1>8 DEF JudgeResult

-----------------------------------------------------------------------------
(* The theorems.                                                           *)

LEMMA InitHolds == Init => IInv
<1> SUFFICES ASSUME Init PROVE IInv
  OBVIOUS
<1> USE DEF Init, AuthorityInit
<1>1. AuthorityTyped
  <2>1. [state |-> "absent", version |-> 0, selected |-> 0, of |-> 0,
         approval |-> 0, warrant |-> FALSE, owner |-> NoWorker,
         epoch |-> 0, evidence |-> "none", report |-> FALSE,
         refused |-> FALSE] \in AttemptRows
    BY DEF AttemptRows, AttemptStates
  <2>2. [state |-> "absent", epoch |-> 0, live |-> FALSE,
         owner |-> NoWorker] \in JobRows
    BY AuthorityAssumption DEF JobRows, JobStates
  <2>3. /\ [mode |-> "absent", version |-> 0, epoch |-> 0] \in GateRows
        /\ NoManifest \in ManifestRows /\ NoApproval \in ApprovalRows
        /\ [e \in Epochs |-> "none"] \in LeaseRows
    BY DEF GateRows, ManifestRows, NoManifest, ApprovalRows, NoApproval,
           LeaseRows
  <2> QED BY <2>1, <2>2, <2>3 DEF AuthorityTyped
<1>2. RuntimesTyped
  BY DEF RuntimesTyped, Rows, RuntimeStates, Ends
<1>3. RowInv
  BY AuthorityAssumption DEF RowInv, RowOk, Past, Measured, Launched, Known
<1>4. AttemptInv /\ OwnerInv
  BY AuthorityAssumption DEF AttemptInv, AttemptOk, OwnerInv
<1>5. ActiveInv /\ OpenForOne /\ RefusedIsFinal
  BY DEF ActiveInv, OpenForOne, RefusedIsFinal
<1> QED BY <1>1, <1>2, <1>3, <1>4, <1>5 DEF IInv

LEMMA NextStep == IInv /\ [Next]_vars => IInv'
<1> SUFFICES ASSUME IInv, [Next]_vars PROVE IInv'
  OBVIOUS
<1>1. ASSUME AuthorityStep, UNCHANGED runtimes PROVE IInv'
  <2>1. AuthorityTyped'
    BY <1>1, AuthorityStepTyped DEF IInv
  <2> QED BY <1>1, <2>1, QuietSteps, WarrantSteps, PrepareStep, ControlStep,
             ReclaimStep, StartStep, ResumeStep DEF AuthorityStep
<1>2. ASSUME NEW w \in Workers, NEW i \in Attempts, RuntimeStep(w, i)
      PROVE  IInv'
  BY <1>2, UnseenSteps, ClaimStep, AdoptStep, AcknowledgeSteps, DispatchSteps,
     SubmitStep, IsolateStep, JudgeStep DEF RuntimeStep
<1>3. ASSUME UNCHANGED vars PROVE IInv'
  <2>1. UNCHANGED <<authority, rt, held, proc, crashes>>
    BY <1>3 DEF vars
  <2>2. AuthorityTyped' /\ RuntimesTyped' /\ AttemptInv' /\ RowInv'
    BY <2>1 DEF IInv, AuthorityTyped, RuntimesTyped, AttemptInv, RowInv,
                authority
  <2>3. OwnerInv' /\ ActiveInv' /\ OpenForOne' /\ RefusedIsFinal'
    BY <2>1 DEF IInv, OwnerInv, ActiveInv, OpenForOne, RefusedIsFinal,
                IsActive, authority
  <2> QED BY <2>2, <2>3 DEF IInv
<1> QED BY <1>1, <1>2, <1>3, JudgementDiesStep, CrashStep DEF Next

(* The chain of facts that binds a worker's inventory and processes to the *)
(* attempts, jobs and gates of the authority holds in every reachable      *)
(* state, however often requests, answers and supervisors are lost.        *)
THEOREM InductiveInvariant == Spec => []IInv
BY InitHolds, NextStep, PTL DEF Spec

(* The tables of the authority, the inventories and the processes have     *)
(* their types.                                                            *)
THEOREM TypeCorrect == Spec => []TypeOK
<1>1. IInv => TypeOK
  BY TypesByRow DEF IInv
<1> QED BY <1>1, InductiveInvariant, PTL

(* A feature is never worked on by two provider processes: the one process *)
(* there may be is the active attempt's, run by the worker it was granted  *)
(* to.  An attempt is replaced only when its process was stopped, and a    *)
(* new action begins only when the last one's process is over.             *)
THEOREM OneProcessHolds == Spec => []OneProcess
<1>1. IInv => OneProcess
  <2> SUFFICES ASSUME IInv, NEW f \in Features
               PROVE  Cardinality({wi \in Workers \X Attempts :
                          FeatureOf[wi[2]] = f
                          /\ proc[wi[1]][wi[2]] = "running"}) <= 1
    BY DEF OneProcess
  <2> DEFINE S == {wi \in Workers \X Attempts :
                      FeatureOf[wi[2]] = f /\ proc[wi[1]][wi[2]] = "running"}
             only == <<attempt[active[f]].owner, active[f]>>
  <2>1. ASSUME NEW w \in Workers, NEW i \in Attempts, FeatureOf[i] = f,
               proc[w][i] = "running"
        PROVE  active[f] = i /\ attempt[i].owner = w
    <3>1. RowOk(w, rt[w][i], proc[w][i], attempt[i].owner)
      BY RowOf
    <3>2. attempt[i].owner = w /\ w # NoWorker
      BY <2>1, <3>1, AuthorityAssumption DEF RowOk
    <3>3. ~Over(rt[w][i])
      BY <2>1, <3>1 DEF RowOk, Over
    <3> QED BY <2>1, <3>2, <3>3 DEF IInv, OwnerInv, IsActive
  <2>2. S \subseteq {only}
    BY <2>1
  <2>3. IsFiniteSet({only}) /\ Cardinality({only}) = 1
    BY FS_Singleton
  <2>4. Cardinality(S) <= Cardinality({only})
    BY <2>2, <2>3, FS_Subset
  <2> QED BY <2>3, <2>4
<1> QED BY <1>1, InductiveInvariant, PTL

(* Only the worker an attempt was granted to ever has a process for it,    *)
(* and a granted attempt's job is not in the queue again.                  *)
THEOREM GrantsHold == Spec => []LaunchedByGrant
<1>1. IInv => LaunchedByGrant
  <2> SUFFICES ASSUME IInv, NEW i \in Attempts
               PROVE  /\ \A w \in Workers : proc[w][i] # "none" =>
                             attempt[i].owner = w
                      /\ Dispatched(i) => job[i].state # "pending"
                                          /\ attempt[i].version >= 2
    BY DEF LaunchedByGrant
  <2>1. AttemptOk(attempt[i], job[i])
    BY DEF IInv, AttemptInv
  <2> QED BY <2>1, RowOf DEF RowOk, AttemptOk, Dispatched
<1> QED BY <1>1, InductiveInvariant, PTL

(* A gate is open only for an active attempt it was approved for, which    *)
(* has neither reported nor been refused.                                  *)
THEOREM OpenHolds == Spec => []OpenForOne
<1>1. IInv => OpenForOne
  BY DEF IInv
<1> QED BY <1>1, InductiveInvariant, PTL

(* No attempt that was once refused is ever reported.                      *)
THEOREM RefusedHolds == Spec => []RefusedIsFinal
<1>1. IInv => RefusedIsFinal
  BY DEF IInv
<1> QED BY <1>1, InductiveInvariant, PTL

(* A report agrees with the evidence, the job, and the inventory of the    *)
(* worker that measured it, and the process it reports on is over.         *)
THEOREM ReportsHold == Spec => []ReportAgrees
<1>1. IInv => ReportAgrees
  <2> SUFFICES ASSUME IInv, NEW i \in Attempts, attempt[i].report
               PROVE  LET w == attempt[i].owner
                      IN  /\ attempt[i].state = "result_recorded"
                          /\ job[i].state = attempt[i].evidence
                          /\ Known(attempt[i].evidence)
                          /\ rt[w][i].result = attempt[i].evidence
                          /\ rt[w][i].state \in {"result_ready", "reported"}
                          /\ proc[w][i] = "exited"
    BY DEF ReportAgrees
  <2> DEFINE w == attempt[i].owner
  <2>1. AttemptOk(attempt[i], job[i]) /\ attempt[i] \in AttemptRows
    BY RowsOf DEF IInv, AttemptInv
  <2>2. /\ attempt[i].state = "result_recorded"
        /\ job[i].state = attempt[i].evidence /\ Known(attempt[i].evidence)
    BY <2>1 DEF AttemptOk
  <2>3. attempt[i].evidence # "none"
    BY <2>2, AuthorityAssumption DEF Known
  <2>4. w \in Workers /\ rt[w][i].result = attempt[i].evidence
    BY <2>1, <2>3 DEF IInv, OwnerInv, AttemptRows
  <2>5. RowOk(w, rt[w][i], proc[w][i], attempt[i].owner)
    BY <2>4, RowOf
  <2> QED BY <2>2, <2>3, <2>4, <2>5 DEF RowOk, Measured
<1> QED BY <1>1, InductiveInvariant, PTL

\* What a step leaves of an attempt whose complete result has arrived.
KeptAt(j) ==
    /\ attempt'[j].evidence = attempt[j].evidence
    /\ \/ attempt'[j].state = attempt[j].state
       \/ attempt'[j].state = "result_recorded"

LEMMA KnownStep ==
  ASSUME IInv, [Next]_vars, NEW j \in Attempts, Known(attempt[j].evidence)
  PROVE  KeptAt(j)
<1>1. /\ attempt \in [Attempts -> AttemptRows] /\ attempt[j] \in AttemptRows
      /\ attempt[j].evidence # "none" /\ attempt[j].owner # NoWorker
      /\ rt[attempt[j].owner][j].result = attempt[j].evidence
      /\ attempt[j].state \notin {"absent", "prepared"}
  <2>1. attempt \in [Attempts -> AttemptRows]
    BY DEF IInv, AuthorityTyped
  <2>2. attempt[j].evidence # "none"
    BY AuthorityAssumption DEF Known
  <2>3. AttemptOk(attempt[j], job[j])
    BY DEF IInv, AttemptInv
  <2> QED BY <2>1, <2>2, <2>3 DEF IInv, OwnerInv, AttemptOk
<1>2. ASSUME UNCHANGED attempt PROVE KeptAt(j)
  BY <1>2 DEF KeptAt
\* An attempt that is not j.
<1>3. ASSUME NEW i \in Attempts, j # i,
             \A k \in Attempts \ {i} : attempt'[k] = attempt[k]
      PROVE  KeptAt(j)
  BY <1>3 DEF KeptAt
<1>4. ASSUME NEW i \in Attempts, Prepare(i) \/ Start(i) PROVE KeptAt(j)
  <2>1. attempt[i].state = "absent" /\ j # i
    BY <1>1, <1>4 DEF Prepare, Start
  <2>2. \A k \in Attempts \ {i} : attempt'[k] = attempt[k]
    BY <1>1, <1>4 DEF Prepare, Start
  <2> QED BY <1>3, <2>1, <2>2
<1>5. ASSUME NEW i \in Attempts,
             \/ CancelJob(i) \/ JobLeaseLapses(i) \/ PolicyLeaseLapses(i)
             \/ BeginRecovery(i) \/ Approve(i) \/ EnqueueReplacement(i)
             \/ JudgementDies(i)
      PROVE  KeptAt(j)
  BY <1>2, <1>5 DEF CancelJob, JobLeaseLapses, PolicyLeaseLapses,
       BeginRecovery, Approve, EnqueueReplacement, JudgementDies
<1>6. ASSUME NEW i \in Attempts, WarrantLapses(i) \/ Revoke(i) PROVE KeptAt(j)
  <2>1. attempt'[j] \in {attempt[j], [attempt[j] EXCEPT !.warrant = FALSE]}
    BY <1>1, <1>6 DEF WarrantLapses, Revoke
  <2> QED BY <1>1, <2>1 DEF KeptAt, AttemptRows
<1>7. ASSUME NEW i \in Attempts, Reclaim(i) \/ FinishRecovery(i)
      PROVE  KeptAt(j)
  <2>1. \/ attempt' = attempt
        \/ /\ ~Known(attempt[i].evidence)
           /\ attempt' = [attempt EXCEPT ![i] = MadeUnknown(@)]
    <3>1. Eligible(i) => ~Known(attempt[i].evidence)
      BY DEF Eligible
    <3>2. ReclaimMakesUnknown(i) => ~Known(attempt[i].evidence)
      BY DEF ReclaimMakesUnknown
    <3>3. CASE Reclaim(i)
      BY <3>2, <3>3 DEF Reclaim, ReclaimBlocked, RequeueOrExpire
    <3>4. CASE FinishRecovery(i)
      BY <3>1, <3>4 DEF FinishRecovery
    <3> QED BY <1>7, <3>3, <3>4
  <2>2. CASE j = i
    BY <1>2, <2>1, <2>2
  <2>3. CASE j # i
    BY <1>1, <1>2, <1>3, <2>1, <2>3
  <2> QED BY <2>2, <2>3
<1>8. ASSUME NEW i \in Attempts, NEW n \in Attempts, Resume(i, n)
      PROVE  KeptAt(j)
  <2>1. ~Known(attempt[i].evidence) /\ attempt[n].state = "absent"
    BY <1>8 DEF Resume, Replaceable
  <2>2. j # i /\ j # n
    BY <1>1, <2>1
  <2>3. attempt'[j] = attempt[j]
    BY <1>1, <1>8, <2>2 DEF Resume
  <2> QED BY <2>3 DEF KeptAt
<1>9. ASSUME NEW f \in Features, NEW mode \in {"paused", "cancelled"},
             Control(f, mode)
      PROVE  KeptAt(j)
  BY <1>2, <1>9 DEF Control
<1>10. ASSUME NEW w \in Workers, NEW i \in Attempts,
              \/ ClaimJob(w, i) \/ Adopt(w, i) \/ AcknowledgeManifest(w, i)
              \/ AcknowledgeFails(w, i) \/ DispatchRefused(w, i)
              \/ BeginStart(w, i) \/ Spawn(w, i) \/ Register(w, i)
              \/ Fail(w, i) \/ ProcessExits(w, i) \/ Collect(w, i)
              \/ ReconcileUnstarted(w, i) \/ ReconcileStarted(w, i)
              \/ Isolate(w, i)
       PROVE  KeptAt(j)
  BY <1>2, <1>10 DEF authority, ClaimJob, Claim, Adopt, AcknowledgeManifest,
       AcknowledgeFails, DispatchRefused, BeginStart, Spawn, Register, Fail,
       ProcessExits, Collect, ReconcileUnstarted, ReconcileStarted, Isolate
<1>11. ASSUME NEW w \in Workers, NEW i \in Attempts,
              \/ DispatchGranted(w, i) \/ DispatchUnanswered(w, i)
              \/ DispatchArrivesLate(w, i)
       PROVE  KeptAt(j)
  <2>1. CASE UNCHANGED attempt
    BY <1>2, <2>1
  <2>2. CASE GrantsDispatch(w, i) /\ Dispatch(w, i)
    <3>1. j # i
      BY <1>1, <2>2 DEF GrantsDispatch, MayLaunch
    <3>2. \A k \in Attempts \ {i} : attempt'[k] = attempt[k]
      BY <1>1, <2>2 DEF Dispatch
    <3> QED BY <1>3, <3>1, <3>2
  <2> QED BY <1>11, <2>1, <2>2
          DEF DispatchGranted, DispatchUnanswered, DispatchArrivesLate
<1>12. ASSUME NEW w \in Workers, NEW i \in Attempts, Submit(w, i)
       PROVE  KeptAt(j)
  <2>1. CASE j # i
    <3>1. \A k \in Attempts \ {i} : attempt'[k] = attempt[k]
      BY <1>1, <1>12 DEF Submit, KeepEvidence
    <3> QED BY <1>3, <2>1, <3>1
  <2>2. CASE j = i
    <3>1. attempt[i].owner = w
      BY <1>12, RowOf DEF Submit, RowOk, Past
    <3> QED BY <1>1, <1>12, <2>2, <3>1
            DEF Submit, KeepEvidence, KeptAt, AttemptRows
  <2> QED BY <2>1, <2>2
<1>13. ASSUME NEW w \in Workers, NEW i \in Attempts, Judge(w, i)
       PROVE  KeptAt(j)
  <2>1. CASE UNCHANGED attempt
    BY <1>2, <2>1
  <2>2. CASE ParkResult(i)
    <3> DEFINE seen == [attempt[i] EXCEPT !.refused = TRUE]
    <3>1. \/ attempt' = [attempt EXCEPT ![i] = seen]
          \/ /\ ~Known(seen.evidence)
             /\ attempt' = [attempt EXCEPT ![i] = MadeUnknown(seen)]
      BY <1>1, <2>2 DEF ParkResult
    <3>2. seen.state = attempt[i].state /\ seen.evidence = attempt[i].evidence
      BY <1>1 DEF AttemptRows
    <3> HIDE DEF seen
    <3>3. CASE j = i
      BY <1>1, <3>1, <3>2, <3>3 DEF KeptAt
    <3>4. CASE j # i
      BY <1>1, <1>3, <3>1, <3>4
    <3> QED BY <3>3, <3>4
  <2>3. CASE AcceptResult(i)
    BY <1>1, <2>3 DEF AcceptResult, KeptAt, AttemptRows
  <2> QED BY <1>13, <2>1, <2>2, <2>3 DEF Judge, JudgeResult
<1>14. ASSUME NEW w \in Workers, Crash(w) PROVE KeptAt(j)
  BY <1>2, <1>14 DEF Crash, authority
<1>15. CASE UNCHANGED vars
  BY <1>2, <1>15 DEF vars, authority
<1>16. CASE AuthorityStep /\ UNCHANGED runtimes
  BY <1>4, <1>5, <1>6, <1>7, <1>8, <1>9, <1>16 DEF AuthorityStep
<1>17. ASSUME NEW w \in Workers, NEW i \in Attempts, RuntimeStep(w, i)
       PROVE  KeptAt(j)
  BY <1>10, <1>11, <1>12, <1>13, <1>17 DEF RuntimeStep
<1> QED BY <1>5, <1>14, <1>15, <1>16, <1>17 DEF Next

(* A complete result that has arrived stays as it arrived, and its attempt *)
(* only moves on to be recorded: no reclaim, recovery or replacement that  *)
(* was under way when it came makes it unknown or supersedes it.           *)
THEOREM KnownHolds == Spec => KnownIsKept
<1>1. IInv /\ [Next]_vars =>
          [\A i \in Attempts : Known(attempt[i].evidence) =>
               /\ attempt'[i].evidence = attempt[i].evidence
               /\ attempt'[i].state = attempt[i].state
                  \/ attempt'[i].state = "result_recorded"]_vars
  BY KnownStep DEF KeptAt
<1> QED BY <1>1, InductiveInvariant, PTL DEF Spec, KnownIsKept

=============================================================================
