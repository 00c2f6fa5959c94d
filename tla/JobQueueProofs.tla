--------------------------- MODULE JobQueueProofs ---------------------------
(***************************************************************************)
(* Proofs about JobQueue for any jobs, workers, budgets and losses.        *)
(***************************************************************************)
EXTENDS JobQueue, SequenceTheorems, TLAPS

Row == [state : JobStates, attempts : Nat, epoch : Nat,
        owner : Workers \cup {NoWorker}, live : BOOLEAN, result : Digests]
Cycle == [at : Steps, job : Jobs \cup {0}, epoch : Nat, done : Progress,
          result : Digests, told : Told]
Point == [artifact : Digests, epoch : Nat]
Results == Progress \cup {Refusal}

-----------------------------------------------------------------------------
(* Progress.                                                               *)

LEMMA ProgressIsSeq ==
    ASSUME NEW s \in Progress
    PROVE  s \in Seq(Exits) /\ Len(s) \in 0..StageCount
<1>1. PICK n \in 0..StageCount : s \in [1..n -> Exits]
  BY DEF Progress
<1>2. n \in Nat
  BY JobQueueAssumption
<1>3. s \in Seq(Exits)
  BY <1>1, <1>2, SeqDef
<1>4. Len(s) = n
  BY <1>1, <1>2, <1>3, LenProperties
<1> QED
  BY <1>3, <1>4

LEMMA SeqIsProgress ==
    ASSUME NEW s \in Seq(Exits), Len(s) <= StageCount
    PROVE  s \in Progress
<1>1. Len(s) \in 0..StageCount /\ s \in [1..Len(s) -> Exits]
  BY LenProperties, JobQueueAssumption
<1> QED
  BY <1>1 DEF Progress

LEMMA EmptyProgress == <<>> \in Progress /\ Len(<<>>) = 0
<1>1. <<>> \in Seq(Exits) /\ Len(<<>>) = 0
  BY EmptySeq
<1>2. PICK s : s = <<>>
  OBVIOUS
<1>3. s \in Seq(Exits) /\ Len(s) <= StageCount
  BY <1>1, <1>2, JobQueueAssumption
<1>4. s \in Progress
  BY <1>3, SeqIsProgress
<1> QED
  BY <1>1, <1>2, <1>4

LEMMA MoreProgress ==
    ASSUME NEW s \in Progress, NEW count \in Nat \ {0}, NEW exit \in Exits,
           Len(s) + count <= StageCount
    PROVE  LET t == s \o [i \in 1..count |-> exit]
           IN  t \in Progress /\ Len(t) = Len(s) + count
<1> DEFINE more == [i \in 1..count |-> exit]
<1>1. more \in Seq(Exits)
  <2>1. more \in [1..count -> Exits] /\ count \in Nat
    OBVIOUS
  <2> QED
    BY <2>1, SeqDef
<1>2. Len(more) = count
  BY <1>1, LenProperties
<1>3. s \in Seq(Exits)
  BY ProgressIsSeq
<1> HIDE DEF more
<1>4. s \o more \in Seq(Exits) /\ Len(s \o more) = Len(s) + count
  BY <1>1, <1>2, <1>3, ConcatProperties
<1> QED
  BY <1>4, SeqIsProgress DEF more

\* Neither of the two other digests is one of stages.
LEMMA NoneIsNoResult == None \notin Results /\ Refusal \notin Progress
<1>1. ASSUME NEW s \in Progress, s = None \/ s = Refusal PROVE FALSE
  <2>1. s \in Seq(Exits)
    BY ProgressIsSeq
  <2>2. Len(s) = 1 /\ (s[1] = "none" \/ s[1] = "refused")
    BY <1>1 DEF None, Refusal
  <2>3. s[1] \in Exits
    BY <2>1, <2>2, ElementOfSeq
  <2> QED
    BY <2>2, <2>3 DEF Exits
<1>2. None # Refusal
  BY DEF None, Refusal
<1> QED
  BY <1>1, <1>2 DEF Results

LEMMA DigestSorts == Digests = Results \cup {None}
  BY DEF Digests, Results

LEMMA VerdictEnds ==
    ASSUME NEW digest PROVE Verdict(digest) \in {"succeeded", "failed"}
  BY DEF Verdict

-----------------------------------------------------------------------------
(* What a cycle and the network carry.                                     *)

CycleInv(w) ==
    /\ worker[w].at # "idle" => worker[w].told = "nothing"
    /\ worker[w].at \notin {"idle", "claiming"} => worker[w].job \in Jobs
    /\ worker[w].told \in {"accepted", "conflict", "cancelled"} =>
          worker[w].job \in Jobs
    /\ worker[w].at = "submitting" => worker[w].result \in Results
    /\ worker[w].at = "staging" =>
          /\ Len(worker[w].done) < StageCount
          /\ WholeRun => worker[w].done = <<>>
    /\ worker[w].at = "guarding" /\ WholeRun =>
          worker[w].done = <<>> \/ Len(worker[w].done) = StageCount
    /\ worker[w].at = "uploading" =>
          /\ Len(worker[w].done) \in 1..StageCount
          /\ WholeRun => Len(worker[w].done) = StageCount

LateInv ==
    \A r \in late :
        /\ r.about = "result" => r.digest \in Results
        /\ r.about = "checkpoint" =>
              r.digest \in Progress /\ Len(r.digest) \in 1..StageCount

RowsTyped == job \in [Jobs -> Row] /\ receipt \in [Jobs -> Digests]
PointsTyped == point \in [Jobs -> [1..StageCount -> Point]]
FilesTyped == file \in [Workers -> [Jobs -> Progress]]
CyclesTyped == worker \in [Workers -> Cycle] /\ \A w \in Workers : CycleInv(w)
LateTyped == late \subseteq Requests /\ LateInv
CountsTyped == crashes \in Nat /\ lost \in Nat /\ deployed \in Deployments

Typed == /\ RowsTyped /\ PointsTyped /\ FilesTyped /\ CyclesTyped /\ LateTyped
         /\ CountsTyped

LEMMA TypedIsTypeOK == Typed => TypeOK
  BY DEF Typed, RowsTyped, PointsTyped, FilesTyped, CyclesTyped, LateTyped,
         CountsTyped, TypeOK, Row, Cycle, Point

LEMMA InitTyped == Init => Typed
<1> SUFFICES ASSUME Init PROVE Typed
  OBVIOUS
<1>1. RowsTyped
  BY DEF Init, RowsTyped, Row, JobStates, Digests
<1>2. PointsTyped
  BY DEF Init, PointsTyped, Point, NoPoint, Digests
<1>3. FilesTyped
  BY EmptyProgress DEF Init, FilesTyped
<1>4. CyclesTyped
  <2>1. AtRest \in Cycle
    BY EmptyProgress DEF AtRest, Cycle, Steps, Digests, Told
  <2> QED
    BY <2>1 DEF Init, CyclesTyped, CycleInv, AtRest
<1>5. LateTyped /\ CountsTyped
  BY DEF Init, LateTyped, LateInv, CountsTyped
<1> QED
  BY <1>1, <1>2, <1>3, <1>4, <1>5 DEF Typed

-----------------------------------------------------------------------------
(* What a step makes of a job's row and receipt.                           *)

RowKept(j) == job'[j] = job[j] /\ receipt'[j] = receipt[j]

RowMoved(j) ==
    /\ receipt'[j] = receipt[j]
    /\ \/ job[j].state = "absent"
          /\ job'[j] = [job[j] EXCEPT !.state = "pending"]
       \/ Active(j) /\ job'[j] = Reclaimed(job[j])
       \/ /\ job[j].state = "pending"
          /\ \E w \in Workers : job'[j] = Claimed(job[j], w)
       \/ /\ job[j].state = "pending" \/ Active(j)
          /\ job'[j] = Released(job[j], "cancelled")
       \/ Active(j) /\ job'[j] = [job[j] EXCEPT !.live = FALSE]
       \/ Active(j) /\ job'[j] = [job[j] EXCEPT !.state = "running"]

RowFinished(j) ==
    /\ receipt[j] = None /\ Active(j)
    /\ \E digest \in Results :
          /\ receipt'[j] = digest
          /\ job'[j] = [Released(job[j], Verdict(digest)) EXCEPT !.result = digest]

RowStep(j) == RowKept(j) \/ RowMoved(j) \/ RowFinished(j)

LEMMA KeptSteps ==
    ASSUME UNCHANGED <<job, receipt>> PROVE \A j \in Jobs : RowStep(j)
  BY DEF RowStep, RowKept

LEMMA FinishSteps ==
    ASSUME Typed, NEW r \in Requests, r.digest \in Results, Finish(r)
    PROVE  \A j \in Jobs : RowStep(j)
<1>1. CASE Finishes(r)
  <2>0. r.job \in Jobs
    BY DEF Requests
  <2>1. RowFinished(r.job)
    <3>1. receipt'[r.job] = r.digest
      BY <1>1, <2>0 DEF Finish, Typed, RowsTyped
    <3>2. job'[r.job] = [Released(job[r.job], Verdict(r.digest))
                             EXCEPT !.result = r.digest]
      BY <1>1, <2>0 DEF Finish, Typed, RowsTyped
    <3> QED
      BY <1>1, <3>1, <3>2 DEF Finishes, Fenced, Holds, RowFinished
  <2>2. ASSUME NEW j \in Jobs, j # r.job PROVE RowKept(j)
    BY <1>1, <2>0, <2>2 DEF Finish, RowKept, Typed, RowsTyped
  <2> QED
    BY <2>1, <2>2 DEF RowStep
<1>2. CASE ~Finishes(r)
  BY <1>2, KeptSteps DEF Finish
<1> QED
  BY <1>1, <1>2

\* One row moves, by one of the transactions.
LEMMA OneRow ==
    ASSUME Typed, NEW j \in Jobs, NEW row,
           job' = [job EXCEPT ![j] = row], receipt' = receipt,
           job'[j] = row => RowMoved(j)
    PROVE  \A i \in Jobs : RowStep(i)
<1>1. job'[j] = row /\ \A i \in Jobs \ {j} : job'[i] = job[i]
  BY DEF Typed, RowsTyped
<1> QED
  BY <1>1 DEF RowStep, RowKept

LEMMA RequestTyped ==
    ASSUME Typed, NEW w \in Workers, NEW about \in {"result", "checkpoint"},
           NEW digest \in Digests, worker[w].job \in Jobs
    PROVE  Request(w, about, digest) \in Requests
  BY DEF Typed, CyclesTyped, Cycle, Request, Requests

LEMMA ResultTyped ==
    ASSUME Typed, NEW w \in Workers, worker[w].at = "submitting"
    PROVE  /\ Result(w) \in Requests /\ Result(w).digest \in Results
           /\ Result(w).job = worker[w].job
           /\ Result(w).digest = worker[w].result
<1>1. worker[w].job \in Jobs /\ worker[w].result \in Results
  BY DEF Typed, CyclesTyped, CycleInv
<1> QED
  BY <1>1, RequestTyped, DigestSorts DEF Result, Request

LEMMA NextRows ==
    ASSUME Typed, Next PROVE \A j \in Jobs : RowStep(j)
<1>1. ASSUME NEW j \in Jobs, Enqueue(j) \/ Cancel(j) \/ LeaseExpires(j)
      PROVE  \A i \in Jobs : RowStep(i)
  <2>1. CASE Enqueue(j)
    BY <2>1, OneRow DEF Enqueue, RowMoved, Typed, RowsTyped
  <2>2. CASE Cancel(j)
    BY <2>2, OneRow DEF Cancel, RowMoved, Active, Typed, RowsTyped
  <2>3. CASE LeaseExpires(j)
    BY <2>3, OneRow DEF LeaseExpires, RowMoved, Typed, RowsTyped
  <2> QED
    BY <1>1, <2>1, <2>2, <2>3
<1>2. ASSUME NEW w \in Workers, Poll(w) PROVE \A i \in Jobs : RowStep(i)
  <2>1. ASSUME NEW i \in Jobs PROVE RowStep(i)
    <3>1. job'[i] = Reclaimed(job[i]) /\ receipt'[i] = receipt[i]
      BY <1>2 DEF Poll
    <3> QED
      BY <3>1 DEF RowStep, RowKept, RowMoved, Reclaimed, Active
  <2> QED
    BY <2>1
<1>3. ASSUME NEW w \in Workers, ClaimOldest(w) PROVE \A i \in Jobs : RowStep(i)
  <2>1. PICK j \in Jobs : /\ job[j].state = "pending"
                          /\ job' = [job EXCEPT ![j] = Claimed(job[j], w)]
    BY <1>3 DEF ClaimOldest, Typed, RowsTyped
  <2> QED
    BY <1>3, <2>1, OneRow DEF ClaimOldest, RowMoved
<1>4. ASSUME NEW w \in Workers, Start(w) PROVE \A i \in Jobs : RowStep(i)
  <2>1. CASE job' = job
    BY <1>4, <2>1, KeptSteps DEF Start
  <2>2. CASE job' # job
    <3>1. /\ Holds(w, worker[w].job, worker[w].epoch)
          /\ job' = [job EXCEPT ![worker[w].job].state = "running"]
          /\ worker[w].job \in Jobs
      BY <1>4, <2>2 DEF Start, Typed, CyclesTyped, CycleInv
    <3> HIDE DEF Holds
    <3>2. Active(worker[w].job)
      BY <3>1 DEF Holds
    <3>3. job' = [job EXCEPT ![worker[w].job] =
                     [job[worker[w].job] EXCEPT !.state = "running"]]
      BY <3>1 DEF Typed, RowsTyped
    <3> QED
      BY <1>4, <3>1, <3>2, <3>3, OneRow DEF Start, RowMoved
  <2> QED
    BY <2>1, <2>2
<1>5. ASSUME NEW w \in Workers, Submit(w) \/ SubmitAgain(w)
      PROVE  \A i \in Jobs : RowStep(i)
  BY <1>5, ResultTyped, FinishSteps DEF Submit, SubmitAgain
<1>6. ASSUME NEW r \in late, Arrive(r) PROVE \A i \in Jobs : RowStep(i)
  <2>1. CASE r.about = "result"
    BY <1>6, <2>1, FinishSteps DEF Arrive, Typed, LateTyped, LateInv
  <2> QED
    BY <1>6, <2>1, KeptSteps DEF Arrive
<1>7. ASSUME NEW w \in Workers,
             \/ NothingToClaim(w) \/ ReadLease(w) \/ Guard(w) \/ RunStage(w)
             \/ Upload(w) \/ Refuse(w) \/ Abandon(w) \/ ClaimAnswerLost(w)
             \/ UploadLost(w) \/ SubmitLost(w) \/ Crash(w)
      PROVE  \A i \in Jobs : RowStep(i)
  BY <1>7, KeptSteps
  DEF NothingToClaim, ReadLease, Guard, RunStage, Upload, Refuse, Abandon,
      ClaimAnswerLost, UploadLost, SubmitLost, Crash
<1> QED
  BY <1>1, <1>2, <1>3, <1>4, <1>5, <1>6, <1>7 DEF Next, WorkerStep

-----------------------------------------------------------------------------
(* The rows stay typed and say the same.                                   *)

LEMMA ReleasedTyped ==
    ASSUME NEW row \in Row, NEW state \in JobStates
    PROVE  Released(row, state) \in Row
<1>1. [row EXCEPT !.state = state] \in Row
  BY DEF Row
<1>2. ASSUME NEW other \in Row
      PROVE  [other EXCEPT !.owner = NoWorker] \in Row
  BY <1>2 DEF Row
<1>3. ASSUME NEW other \in Row
      PROVE  [other EXCEPT !.live = FALSE] \in Row
  BY <1>3 DEF Row
<1> QED
  BY <1>1, <1>2, <1>3 DEF Released

LEMMA NextMaps ==
    ASSUME Typed, Next
    PROVE  /\ job' = [j \in Jobs |-> job'[j]]
           /\ receipt' = [j \in Jobs |-> receipt'[j]]
<1>0. job \in [Jobs -> Row] /\ receipt \in [Jobs -> Digests]
  BY DEF Typed, RowsTyped
<1>1. ASSUME NEW r, Finish(r)
      PROVE  /\ job' = [j \in Jobs |-> job'[j]]
             /\ receipt' = [j \in Jobs |-> receipt'[j]]
  BY <1>0, <1>1 DEF Finish
<1>2. CASE UNCHANGED job
  BY <1>0, <1>1, <1>2
  DEF Next, WorkerStep, Enqueue, Cancel, LeaseExpires, Poll, ClaimOldest,
      NothingToClaim, ReadLease, Start, Guard, RunStage, Upload, Submit, Refuse,
      Abandon, ClaimAnswerLost, UploadLost, SubmitLost, SubmitAgain, Crash, Arrive
<1>3. CASE \E j \in Jobs : Enqueue(j) \/ Cancel(j) \/ LeaseExpires(j)
  BY <1>0, <1>3 DEF Enqueue, Cancel, LeaseExpires
<1>4. CASE \E w \in Workers : Poll(w) \/ ClaimOldest(w) \/ Start(w)
  BY <1>0, <1>4 DEF Poll, ClaimOldest, Start
<1>5. CASE \E w \in Workers : Submit(w) \/ SubmitAgain(w)
  BY <1>1, <1>5 DEF Submit, SubmitAgain
<1>6. CASE \E r \in late : Arrive(r)
  BY <1>0, <1>1, <1>6 DEF Arrive
<1> QED
  BY <1>2, <1>3, <1>4, <1>5, <1>6
  DEF Next, WorkerStep, NothingToClaim, ReadLease, Guard, RunStage, Upload,
      Refuse, Abandon, ClaimAnswerLost, UploadLost, SubmitLost, Crash

LEMMA StepTypesRows ==
    ASSUME Typed, \A j \in Jobs : RowStep(j),
           job' = [j \in Jobs |-> job'[j]],
           receipt' = [j \in Jobs |-> receipt'[j]]
    PROVE  RowsTyped'
<1>1. ASSUME NEW j \in Jobs PROVE job'[j] \in Row /\ receipt'[j] \in Digests
  <2>0. job[j] \in Row /\ receipt[j] \in Digests
    BY DEF Typed, RowsTyped
  <2>1. CASE RowKept(j)
    BY <2>0, <2>1 DEF RowKept
  <2>2. CASE RowMoved(j)
    <3>1. ASSUME NEW state \in JobStates
          PROVE  [job[j] EXCEPT !.state = state] \in Row
      BY <2>0, <3>1 DEF Row
    <3>2. Reclaimed(job[j]) \in Row
      <4> DEFINE counted(state) == [Released(job[j], state) EXCEPT !.attempts = @ + 1]
      <4>1. ASSUME NEW state \in JobStates PROVE counted(state) \in Row
        <5>1. Released(job[j], state) \in Row
          BY <2>0, <4>1, ReleasedTyped
        <5> QED
          BY <5>1 DEF Row
      <4>2. \/ Reclaimed(job[j]) = job[j]
            \/ Reclaimed(job[j]) = counted("pending")
            \/ Reclaimed(job[j]) = counted("expired")
        BY DEF Reclaimed
      <4> HIDE DEF counted
      <4> QED
        BY <2>0, <4>1, <4>2 DEF JobStates, TerminalStates
    <3>3. ASSUME NEW w \in Workers PROVE Claimed(job[j], w) \in Row
      <4> DEFINE held == [[job[j] EXCEPT !.state = "leased"] EXCEPT !.owner = w]
      <4>1. [job[j] EXCEPT !.state = "leased"] \in Row
        BY <2>0 DEF Row, JobStates, ActiveStates
      <4>2. held \in Row
        BY <3>3, <4>1 DEF Row
      <4> HIDE DEF held
      <4>3. [held EXCEPT !.live = TRUE] \in Row
        BY <4>2 DEF Row
      <4>4. ASSUME NEW n \in Nat
            PROVE  [[held EXCEPT !.live = TRUE] EXCEPT !.epoch = n] \in Row
        BY <4>3, <4>4 DEF Row
      <4>5. job[j].epoch + 1 \in Nat
        BY <2>0 DEF Row
      <4>6. Claimed(job[j], w) =
                [[held EXCEPT !.live = TRUE] EXCEPT !.epoch = job[j].epoch + 1]
        BY <2>0 DEF Claimed, Row, held
      <4> QED
        BY <4>4, <4>5, <4>6
    <3>4. [job[j] EXCEPT !.live = FALSE] \in Row
      BY <2>0 DEF Row
    <3>5. receipt'[j] \in Digests
      BY <2>0, <2>2 DEF RowMoved
    <3>6. {"pending", "running", "cancelled"} \subseteq JobStates
      BY DEF JobStates, ActiveStates, TerminalStates
    <3> HIDE DEF Row, JobStates, Claimed, Reclaimed, Released
    <3> QED
      BY <2>0, <2>2, <3>1, <3>2, <3>3, <3>4, <3>5, <3>6, ReleasedTyped DEF RowMoved
  <2>3. CASE RowFinished(j)
    BY <2>0, <2>3, VerdictEnds, DigestSorts
    DEF RowFinished, Row, Released, JobStates, TerminalStates
  <2> QED
    BY <2>1, <2>2, <2>3 DEF RowStep
<1> HIDE DEF RowStep
<1> QED
  BY <1>1 DEF RowsTyped

\* What every row says of its receipt and of its executions.
ReceiptInv(j) ==
    /\ receipt[j] # None <=> job[j].state \in {"succeeded", "failed"}
    /\ job[j].result = receipt[j]
    /\ receipt[j] # None => job[j].state = Verdict(receipt[j])

EpochInv(j) ==
    /\ job[j].epoch <= MaxAttempts
    /\ job[j].state = "absent" => job[j].epoch = 0 /\ job[j].attempts = 0
    /\ job[j].state = "pending" =>
          job[j].epoch = job[j].attempts /\ job[j].attempts < MaxAttempts
    /\ job[j].state \in ActiveStates \cup {"succeeded", "failed"} =>
          job[j].epoch = job[j].attempts + 1
    /\ job[j].state = "expired" <=> job[j].attempts = MaxAttempts
    /\ job[j].attempts <= MaxAttempts

RowsInv == \A j \in Jobs : ReceiptInv(j) /\ EpochInv(j)

LEMMA InitRows == Init => RowsInv
<1> SUFFICES ASSUME Init, NEW j \in Jobs PROVE ReceiptInv(j) /\ EpochInv(j)
  BY DEF RowsInv
<1>1. /\ job[j].state = "absent" /\ job[j].attempts = 0 /\ job[j].epoch = 0
      /\ job[j].result = None /\ receipt[j] = None
  BY DEF Init
<1>2. ReceiptInv(j)
  BY <1>1 DEF ReceiptInv
<1>3. EpochInv(j)
  BY <1>1, JobQueueAssumption DEF EpochInv, ActiveStates
<1> QED
  BY <1>2, <1>3

LEMMA ReceiptStep ==
    ASSUME Typed, NEW j \in Jobs, ReceiptInv(j), RowStep(j)
    PROVE  ReceiptInv(j)'
<1>0. job[j] \in Row
  BY DEF Typed, RowsTyped
<1>1. CASE RowKept(j)
  BY <1>1 DEF RowKept, ReceiptInv
<1>2. CASE RowMoved(j)
  BY <1>0, <1>2
  DEF RowMoved, ReceiptInv, Active, ActiveStates, Reclaimed, Released, Claimed, Row
<1>3. CASE RowFinished(j)
  <2>1. PICK digest \in Results :
            /\ receipt'[j] = digest
            /\ job'[j] = [Released(job[j], Verdict(digest))
                             EXCEPT !.result = digest]
    BY <1>3 DEF RowFinished
  <2>2. job'[j].state = Verdict(digest) /\ job'[j].result = digest
    BY <1>0, <2>1 DEF Released, Row
  <2>3. digest # None
    BY NoneIsNoResult
  <2> QED
    BY <2>1, <2>2, <2>3, VerdictEnds DEF ReceiptInv
<1> QED
  BY <1>1, <1>2, <1>3 DEF RowStep

LEMMA EpochStep ==
    ASSUME Typed, NEW j \in Jobs, EpochInv(j), RowStep(j)
    PROVE  EpochInv(j)'
<1>0. /\ job[j] \in Row /\ job[j].attempts \in Nat /\ job[j].epoch \in Nat
      /\ MaxAttempts \in Nat \ {0}
  BY JobQueueAssumption DEF Typed, RowsTyped, Row
<1>1. CASE RowKept(j)
  BY <1>1 DEF RowKept, EpochInv
<1>2. ASSUME RowMoved(j), job'[j].epoch = job[j].epoch,
             job'[j].attempts = job[j].attempts
      PROVE  EpochInv(j)'
  <2>1. ASSUME Active(j), job'[j] = Reclaimed(job[j])
        PROVE  job'[j].state = job[j].state
    <3>1. Reclaimed(job[j]) = job[j] \/
          Reclaimed(job[j]).attempts = job[j].attempts + 1
      BY <1>0 DEF Reclaimed, Released, Row
    <3> QED
      BY <1>0, <1>2, <2>1, <3>1
  <2>2. ASSUME NEW w \in Workers, job'[j] = Claimed(job[j], w) PROVE FALSE
    BY <1>0, <1>2, <2>2 DEF Claimed, Row
  <2>3. \/ job'[j].state = job[j].state
        \/ job[j].state = "absent" /\ job'[j].state = "pending"
        \/ job[j].state \in {"pending"} \cup ActiveStates /\ job'[j].state = "cancelled"
        \/ Active(j) /\ job'[j].state = "running"
    BY <1>0, <1>2, <2>1, <2>2 DEF RowMoved, Active, Released, Row
  <2> QED
    BY <1>0, <1>2, <2>3 DEF EpochInv, Active, ActiveStates
<1>3. ASSUME Active(j), job'[j] = Reclaimed(job[j]) PROVE EpochInv(j)'
  <2>1. CASE Reclaimed(job[j]) = job[j]
    BY <1>3, <2>1 DEF EpochInv
  <2>2. CASE Reclaimed(job[j]) # job[j]
    <3>1. /\ job'[j].state = IF Retryable(job[j]) THEN "pending" ELSE "expired"
          /\ job'[j].attempts = job[j].attempts + 1
          /\ job'[j].epoch = job[j].epoch
      BY <1>0, <1>3, <2>2 DEF Reclaimed, Released, Row
    <3> QED
      BY <1>0, <1>3, <3>1 DEF EpochInv, Active, ActiveStates, Retryable
  <2> QED
    BY <2>1, <2>2
<1>4. ASSUME job[j].state = "pending", NEW w \in Workers,
             job'[j] = Claimed(job[j], w)
      PROVE  EpochInv(j)'
  <2>1. /\ job'[j].state = "leased" /\ job'[j].attempts = job[j].attempts
        /\ job'[j].epoch = job[j].epoch + 1
    BY <1>0, <1>4 DEF Claimed, Row
  <2> QED
    BY <1>0, <1>4, <2>1 DEF EpochInv, ActiveStates
<1>5. CASE RowMoved(j)
  <2>1. \/ \E w \in Workers : job[j].state = "pending" /\ job'[j] = Claimed(job[j], w)
        \/ Active(j) /\ job'[j] = Reclaimed(job[j])
        \/ job'[j].epoch = job[j].epoch /\ job'[j].attempts = job[j].attempts
    BY <1>0, <1>5 DEF RowMoved, Released, Row
  <2> QED
    BY <1>2, <1>3, <1>4, <1>5, <2>1
<1>6. CASE RowFinished(j)
  <2>1. PICK digest \in Results :
            job'[j] = [Released(job[j], Verdict(digest)) EXCEPT !.result = digest]
    BY <1>6 DEF RowFinished
  <2>2. /\ job'[j].state = Verdict(digest) /\ job'[j].attempts = job[j].attempts
        /\ job'[j].epoch = job[j].epoch
    BY <1>0, <2>1 DEF Released, Row
  <2> QED
    BY <1>0, <1>6, <2>2, VerdictEnds
    DEF RowFinished, EpochInv, Active, ActiveStates
<1> QED
  BY <1>1, <1>5, <1>6 DEF RowStep

-----------------------------------------------------------------------------
(* The cycles.                                                             *)

\* Only w's cycle moves.
OnlyCycle(w) ==
    /\ UNCHANGED deployed
    /\ worker' = [v \in Workers |-> IF v = w THEN worker'[w] ELSE worker[v]]

LEMMA CycleChanges ==
    ASSUME Typed, NEW w \in Workers, OnlyCycle(w), worker'[w] \in Cycle,
           CycleInv(w)'
    PROVE  CyclesTyped'
<1>1. ASSUME NEW v \in Workers PROVE worker'[v] \in Cycle /\ CycleInv(v)'
  <2>1. CASE v = w
    BY <2>1
  <2>2. CASE v # w
    BY <1>1, <2>2 DEF OnlyCycle, Typed, CyclesTyped, CycleInv, WholeRun
  <2> QED
    BY <2>1, <2>2
<1>2. worker' \in [Workers -> Cycle]
  BY <1>1 DEF OnlyCycle
<1> QED
  BY <1>1, <1>2 DEF CyclesTyped

LEMMA CyclesKept ==
    Typed /\ UNCHANGED <<worker, deployed>> => CyclesTyped'
  BY DEF Typed, CyclesTyped, CycleInv, WholeRun

LEMMA CycleFields ==
    ASSUME NEW row \in Cycle
    PROVE  /\ \A at \in Steps : [row EXCEPT !.at = at] \in Cycle
           /\ \A j \in Jobs \cup {0} : [row EXCEPT !.job = j] \in Cycle
           /\ \A n \in Nat : [row EXCEPT !.epoch = n] \in Cycle
           /\ \A done \in Progress : [row EXCEPT !.done = done] \in Cycle
           /\ \A digest \in Digests : [row EXCEPT !.result = digest] \in Cycle
           /\ \A told \in Told : [row EXCEPT !.told = told] \in Cycle
<1>1. ASSUME NEW at \in Steps PROVE [row EXCEPT !.at = at] \in Cycle
  BY <1>1 DEF Cycle
<1>2. ASSUME NEW j \in Jobs \cup {0} PROVE [row EXCEPT !.job = j] \in Cycle
  BY <1>2 DEF Cycle
<1>3. ASSUME NEW n \in Nat PROVE [row EXCEPT !.epoch = n] \in Cycle
  BY <1>3 DEF Cycle
<1>4. ASSUME NEW done \in Progress PROVE [row EXCEPT !.done = done] \in Cycle
  BY <1>4 DEF Cycle
<1>5. ASSUME NEW digest \in Digests PROVE [row EXCEPT !.result = digest] \in Cycle
  BY <1>5 DEF Cycle
<1>6. ASSUME NEW told \in Told PROVE [row EXCEPT !.told = told] \in Cycle
  BY <1>6 DEF Cycle
<1> QED
  BY <1>1, <1>2, <1>3, <1>4, <1>5, <1>6

LEMMA GotoChanges ==
    ASSUME Typed, NEW w \in Workers, NEW step \in Steps, Goto(w, step),
           UNCHANGED deployed
    PROVE  /\ OnlyCycle(w) /\ worker'[w] \in Cycle
           /\ worker'[w] = [worker[w] EXCEPT !.at = step]
           /\ worker'[w].at = step /\ worker'[w].job = worker[w].job
           /\ worker'[w].done = worker[w].done
           /\ worker'[w].result = worker[w].result
           /\ worker'[w].told = worker[w].told
<1>0. worker \in [Workers -> Cycle]
  BY DEF Typed, CyclesTyped
<1>1. worker' = [worker EXCEPT ![w] = [worker[w] EXCEPT !.at = step]]
  BY <1>0 DEF Goto
<1>2. worker'[w] = [worker[w] EXCEPT !.at = step] /\ OnlyCycle(w)
  BY <1>0, <1>1 DEF OnlyCycle
<1> QED
  BY <1>0, <1>2, CycleFields DEF Cycle

LEMMA EndedTyped ==
    ASSUME Typed, NEW w \in Workers, NEW told \in Told, Ended(w, told),
           UNCHANGED deployed, told # "nothing" => worker[w].job \in Jobs
    PROVE  CyclesTyped'
<1> DEFINE row == [[[worker[w] EXCEPT !.at = "idle"] EXCEPT !.done = <<>>]
                      EXCEPT !.told = told]
<1>0. worker \in [Workers -> Cycle] /\ "idle" \in Steps
  BY DEF Typed, CyclesTyped, Steps
<1>1. worker' = [worker EXCEPT ![w] = row]
  BY <1>0 DEF Ended
<1>2. row \in Cycle
  BY <1>0, EmptyProgress, CycleFields
<1>3. row.at = "idle" /\ row.job = worker[w].job /\ row.told = told
  BY <1>0 DEF Cycle
<1> HIDE DEF row
<1>4. worker'[w] = row /\ OnlyCycle(w)
  BY <1>0, <1>1 DEF OnlyCycle
<1>5. CycleInv(w)'
  BY <1>3, <1>4 DEF CycleInv
<1> QED
  BY <1>2, <1>4, <1>5, CycleChanges

LEMMA ConcludedTyped ==
    ASSUME Typed, NEW w \in Workers, NEW digest \in Results, Concluded(w, digest),
           UNCHANGED deployed, worker[w].at \notin {"idle", "claiming"}
    PROVE  CyclesTyped'
<1> DEFINE row == [[[worker[w] EXCEPT !.at = "submitting"] EXCEPT !.result = digest]
                      EXCEPT !.done = <<>>]
<1>0. /\ worker \in [Workers -> Cycle] /\ "submitting" \in Steps
      /\ digest \in Digests
  BY DigestSorts DEF Typed, CyclesTyped, Steps
<1>1. worker' = [worker EXCEPT ![w] = row]
  BY <1>0 DEF Concluded
<1>2. row \in Cycle
  BY <1>0, EmptyProgress, CycleFields
<1>3. /\ row.at = "submitting" /\ row.job = worker[w].job
      /\ row.told = worker[w].told /\ row.result = digest
  BY <1>0 DEF Cycle
<1> HIDE DEF row
<1>4. worker'[w] = row /\ OnlyCycle(w)
  BY <1>0, <1>1 DEF OnlyCycle
<1>5. worker[w].job \in Jobs /\ worker[w].told = "nothing"
  BY DEF Typed, CyclesTyped, CycleInv
<1>6. CycleInv(w)'
  BY <1>3, <1>4, <1>5 DEF CycleInv
<1> QED
  BY <1>2, <1>4, <1>6, CycleChanges

\* A stage leaves a longer, typed progress.
LEMMA StageRuns ==
    ASSUME Typed, NEW w \in Workers, RunStage(w)
    PROVE  \E done \in Progress :
               /\ worker' = [worker EXCEPT ![w].at = "uploading", ![w].done = done]
               /\ file' = [file EXCEPT ![w][worker[w].job] = done]
               /\ Len(done) \in 1..StageCount
               /\ WholeRun => Len(done) = StageCount
<1>1. /\ worker[w].done \in Progress /\ Len(worker[w].done) < StageCount
      /\ WholeRun => worker[w].done = <<>>
  BY DEF RunStage, Typed, CyclesTyped, CycleInv, Cycle
<1> DEFINE count == IF WholeRun THEN StageCount ELSE 1
<1>2. PICK exit \in Exits :
          LET done == worker[w].done \o [i \in 1..count |-> exit]
          IN /\ worker' = [worker EXCEPT ![w].at = "uploading", ![w].done = done]
             /\ file' = [file EXCEPT ![w][worker[w].job] = done]
  BY DEF RunStage
<1>3. Len(worker[w].done) \in Nat /\ StageCount \in Nat \ {0}
  BY <1>1, ProgressIsSeq, JobQueueAssumption
<1>4. WholeRun => Len(worker[w].done) = 0
  BY <1>1, EmptyProgress
<1>5. count \in Nat \ {0} /\ Len(worker[w].done) + count <= StageCount
      /\ (WholeRun => Len(worker[w].done) + count = StageCount)
  <2>1. CASE WholeRun
    <3>1. count = StageCount /\ Len(worker[w].done) = 0
      BY <1>4, <2>1
    <3> QED
      BY <1>3, <3>1
  <2>2. CASE ~WholeRun
    <3>1. count = 1 /\ Len(worker[w].done) < StageCount
      BY <1>1, <2>2
    <3> QED
      BY <1>3, <2>2, <3>1
  <2> QED
    BY <2>1, <2>2
<1> DEFINE done == worker[w].done \o [i \in 1..count |-> exit]
<1> HIDE DEF count
<1>6. done \in Progress /\ Len(done) = Len(worker[w].done) + count
  BY <1>1, <1>5, MoreProgress
<1>7. /\ worker' = [worker EXCEPT ![w].at = "uploading", ![w].done = done]
      /\ file' = [file EXCEPT ![w][worker[w].job] = done]
  BY <1>2 DEF count
<1> HIDE DEF done
<1>8. Len(done) \in 1..StageCount /\ (WholeRun => Len(done) = StageCount)
  BY <1>3, <1>5, <1>6
<1> QED
  BY <1>6, <1>7, <1>8

LEMMA NextCycles == ASSUME Typed, Next PROVE CyclesTyped'
<1>0. worker \in [Workers -> Cycle] /\ UNCHANGED deployed
  BY DEF Typed, CyclesTyped, Next
<1>1. CASE UNCHANGED worker
  BY <1>0, <1>1, CyclesKept
<1>2. ASSUME NEW w \in Workers, Poll(w) \/ Crash(w) PROVE CyclesTyped'
  <2>1. PICK row : worker' = [worker EXCEPT ![w] = row] /\
            (row = [AtRest EXCEPT !.at = "claiming"] \/ row = AtRest)
    BY <1>2 DEF Poll, Crash
  <2>2. /\ row.at \in {"idle", "claiming"} /\ row.told = "nothing"
        /\ row \in Cycle
    BY <2>1, EmptyProgress DEF AtRest, Cycle, Steps, Digests, Told
  <2>3. worker'[w] = row /\ OnlyCycle(w)
    BY <1>0, <2>1 DEF OnlyCycle
  <2>4. CycleInv(w)'
    BY <2>2, <2>3 DEF CycleInv
  <2> QED
    BY <2>2, <2>3, <2>4, CycleChanges
<1>3. ASSUME NEW w \in Workers, ClaimOldest(w) PROVE CyclesTyped'
  <2>1. PICK j \in Jobs : worker' = [worker EXCEPT ![w].at = "reading", ![w].job = j]
    BY <1>3 DEF ClaimOldest
  <2> DEFINE row == [[worker[w] EXCEPT !.at = "reading"] EXCEPT !.job = j]
  <2>2. worker' = [worker EXCEPT ![w] = row]
    BY <1>0, <2>1
  <2>3. row \in Cycle /\ row.at = "reading" /\ row.job = j
        /\ row.told = worker[w].told
    <3>1. worker[w] \in Cycle /\ "reading" \in Steps
      BY <1>0 DEF Steps
    <3>2. [worker[w] EXCEPT !.at = "reading"] \in Cycle
      BY <3>1, CycleFields
    <3>3. row \in Cycle
      BY <3>2, CycleFields
    <3>4. row.at = "reading" /\ row.job = j
          /\ row.told = worker[w].told
      BY <3>1 DEF Cycle
    <3> QED
      BY <3>3, <3>4
  <2> HIDE DEF row
  <2>4. worker'[w] = row /\ OnlyCycle(w)
    BY <1>0, <2>2 DEF OnlyCycle
  <2>5. CycleInv(w)'
    BY <1>3, <2>3, <2>4 DEF ClaimOldest, CycleInv, Typed, CyclesTyped
  <2> QED
    BY <2>3, <2>4, <2>5, CycleChanges
<1>4. ASSUME NEW w \in Workers, ReadLease(w) PROVE CyclesTyped'
  <2>1. CASE Ended(w, "nothing")
    BY <1>0, <2>1, EndedTyped DEF Told
  <2>2. CASE worker' = [worker EXCEPT ![w].at = "starting",
                                      ![w].epoch = job[worker[w].job].epoch]
    <3>0. worker[w].job \in Jobs /\ worker[w].told = "nothing"
      BY <1>4 DEF ReadLease, Typed, CyclesTyped, CycleInv
    <3> DEFINE n == job[worker[w].job].epoch
               row == [[worker[w] EXCEPT !.at = "starting"] EXCEPT !.epoch = n]
    <3>1. worker' = [worker EXCEPT ![w] = row]
      BY <1>0, <2>2
    <3>2. n \in Nat
      BY <3>0 DEF Typed, RowsTyped, Row
    <3> HIDE DEF n
    <3>3. row \in Cycle /\ row.at = "starting" /\ row.job = worker[w].job
          /\ row.told = worker[w].told
      <4>1. worker[w] \in Cycle /\ "starting" \in Steps
        BY <1>0 DEF Steps
      <4>2. [worker[w] EXCEPT !.at = "starting"] \in Cycle
        BY <4>1, CycleFields
      <4>3. row \in Cycle
        BY <4>2, <3>2, CycleFields
      <4>4. row.at = "starting" /\ row.job = worker[w].job
            /\ row.told = worker[w].told
        BY <4>1 DEF Cycle
      <4> QED
        BY <4>3, <4>4
    <3> HIDE DEF row
    <3>4. worker'[w] = row /\ OnlyCycle(w)
      BY <1>0, <3>1 DEF OnlyCycle
    <3>5. CycleInv(w)'
      BY <3>0, <3>3, <3>4 DEF CycleInv
    <3> QED
      BY <3>3, <3>4, <3>5, CycleChanges
  <2> QED
    BY <1>4, <2>1, <2>2 DEF ReadLease
<1>5. ASSUME NEW w \in Workers, Start(w) PROVE CyclesTyped'
  <2>0. worker[w].job \in Jobs /\ worker[w].told = "nothing"
    BY <1>5 DEF Start, Typed, CyclesTyped, CycleInv
  <2>1. CASE Ended(w, "abandoned")
    BY <1>0, <2>0, <2>1, EndedTyped DEF Told
  <2> DEFINE done == IF WholeRun THEN <<>> ELSE file[w][worker[w].job]
             row == [[worker[w] EXCEPT !.at = "guarding"] EXCEPT !.done = done]
  <2>2. CASE worker' = [worker EXCEPT ![w].at = "guarding", ![w].done = done]
    <3>1. worker' = [worker EXCEPT ![w] = row]
      BY <1>0, <2>2
    <3>2. done \in Progress /\ (WholeRun => done = <<>>)
      BY <2>0, EmptyProgress DEF Typed, FilesTyped
    <3> HIDE DEF done
    <3>3. row \in Cycle /\ row.at = "guarding" /\ row.job = worker[w].job
          /\ row.told = worker[w].told /\ row.done = done
      <4>1. worker[w] \in Cycle /\ "guarding" \in Steps
        BY <1>0 DEF Steps
      <4>2. [worker[w] EXCEPT !.at = "guarding"] \in Cycle
        BY <4>1, CycleFields
      <4>3. row \in Cycle
        BY <4>2, <3>2, CycleFields
      <4>4. row.at = "guarding" /\ row.job = worker[w].job
            /\ row.told = worker[w].told /\ row.done = done
        BY <4>1 DEF Cycle
      <4> QED
        BY <4>3, <4>4
    <3> HIDE DEF row
    <3>4. worker'[w] = row /\ OnlyCycle(w)
      BY <1>0, <3>1 DEF OnlyCycle
    <3>5. CycleInv(w)'
      BY <1>0, <2>0, <3>2, <3>3, <3>4 DEF CycleInv, WholeRun
    <3> QED
      BY <3>3, <3>4, <3>5, CycleChanges
  <2> QED
    BY <1>5, <2>1, <2>2 DEF Start
<1>6. ASSUME NEW w \in Workers, Refuse(w) PROVE CyclesTyped'
  BY <1>0, <1>6, ConcludedTyped DEF Refuse, Results
<1>7. ASSUME NEW w \in Workers,
             Abandon(w) \/ NothingToClaim(w) \/ ClaimAnswerLost(w) \/ UploadLost(w)
                \/ SubmitLost(w)
      PROVE  CyclesTyped'
  <2>1. PICK told \in {"nothing", "abandoned"} :
            Ended(w, told) /\ (told # "nothing" => worker[w].job \in Jobs)
    BY <1>7
    DEF Abandon, NothingToClaim, ClaimAnswerLost, UploadLost, SubmitLost, Typed,
        CyclesTyped, CycleInv
  <2> QED
    BY <1>0, <2>1, EndedTyped DEF Told
<1>8. ASSUME NEW w \in Workers, Guard(w) PROVE CyclesTyped'
  <2>0. worker[w].job \in Jobs /\ worker[w].told = "nothing"
        /\ worker[w].done \in Progress
    BY <1>8 DEF Guard, Typed, CyclesTyped, CycleInv, Cycle
  <2>1. CASE Concluded(w, worker[w].done)
    BY <1>0, <1>8, <2>0, <2>1, ConcludedTyped DEF Guard, Results
  <2>2. CASE Ended(w, "abandoned")
    BY <1>0, <2>0, <2>2, EndedTyped DEF Told
  <2>3. CASE Goto(w, "staging") /\ Len(worker[w].done) # StageCount
    <3>1. /\ OnlyCycle(w) /\ worker'[w] \in Cycle
          /\ worker'[w].at = "staging" /\ worker'[w].job = worker[w].job
          /\ worker'[w].done = worker[w].done /\ worker'[w].told = worker[w].told
      BY <1>0, <2>3, GotoChanges DEF Steps
    <3>2. Len(worker[w].done) < StageCount
      BY <2>0, <2>3, ProgressIsSeq, JobQueueAssumption
    <3>3. WholeRun => worker[w].done = <<>>
      BY <1>8, <2>3 DEF Guard, Typed, CyclesTyped, CycleInv
    <3>4. CycleInv(w)'
      BY <1>0, <2>0, <3>1, <3>2, <3>3 DEF CycleInv, WholeRun
    <3> QED
      BY <3>1, <3>4, CycleChanges
  <2> QED
    BY <1>8, <2>1, <2>2, <2>3 DEF Guard
<1>9. ASSUME NEW w \in Workers, RunStage(w) PROVE CyclesTyped'
  <2>0. worker[w].job \in Jobs /\ worker[w].told = "nothing"
    BY <1>9 DEF RunStage, Typed, CyclesTyped, CycleInv
  <2>1. PICK done \in Progress :
            /\ worker' = [worker EXCEPT ![w].at = "uploading", ![w].done = done]
            /\ Len(done) \in 1..StageCount
            /\ WholeRun => Len(done) = StageCount
    BY <1>9, StageRuns
  <2> DEFINE row == [[worker[w] EXCEPT !.at = "uploading"] EXCEPT !.done = done]
  <2>2. worker' = [worker EXCEPT ![w] = row]
    BY <1>0, <2>1
  <2>3. row \in Cycle /\ row.at = "uploading" /\ row.job = worker[w].job
        /\ row.told = worker[w].told /\ row.done = done
    <3>1. worker[w] \in Cycle /\ "uploading" \in Steps
      BY <1>0 DEF Steps
    <3>2. [worker[w] EXCEPT !.at = "uploading"] \in Cycle
      BY <3>1, CycleFields
    <3>3. row \in Cycle
      BY <3>2, CycleFields
    <3>4. row.at = "uploading" /\ row.job = worker[w].job
          /\ row.told = worker[w].told /\ row.done = done
      BY <3>1 DEF Cycle
    <3> QED
      BY <3>3, <3>4
  <2> HIDE DEF row
  <2>4. worker'[w] = row /\ OnlyCycle(w)
    BY <1>0, <2>2 DEF OnlyCycle
  <2>5. CycleInv(w)'
    BY <1>0, <2>0, <2>1, <2>3, <2>4 DEF CycleInv, WholeRun
  <2> QED
    BY <2>3, <2>4, <2>5, CycleChanges
<1>10. ASSUME NEW w \in Workers, Upload(w) PROVE CyclesTyped'
  <2>0. /\ worker[w].job \in Jobs /\ worker[w].told = "nothing"
        /\ worker[w].at = "uploading"
        /\ WholeRun => Len(worker[w].done) = StageCount
    BY <1>10 DEF Upload, Typed, CyclesTyped, CycleInv
  <2>1. CASE Goto(w, "guarding")
    <3>1. /\ OnlyCycle(w) /\ worker'[w] \in Cycle
          /\ worker'[w].at = "guarding" /\ worker'[w].job = worker[w].job
          /\ worker'[w].done = worker[w].done /\ worker'[w].told = worker[w].told
      BY <1>0, <2>1, GotoChanges DEF Steps
    <3>2. CycleInv(w)'
      BY <1>0, <2>0, <3>1 DEF CycleInv, WholeRun
    <3> QED
      BY <3>1, <3>2, CycleChanges
  <2>2. CASE Ended(w, "abandoned")
    BY <1>0, <2>0, <2>2, EndedTyped DEF Told
  <2>3. CASE Concluded(w, Refusal)
    BY <1>0, <2>0, <2>3, ConcludedTyped DEF Results
  <2> QED
    BY <1>10, <2>1, <2>2, <2>3 DEF Upload
<1>11. ASSUME NEW w \in Workers, Submit(w) PROVE CyclesTyped'
  <2>1. worker[w].job \in Jobs
    BY <1>11 DEF Submit, Typed, CyclesTyped, CycleInv
  <2>2. Answer(Result(w)) \in Told
    BY DEF Answer, Told
  <2> QED
    BY <1>0, <1>11, <2>1, <2>2, EndedTyped DEF Submit
<1> QED
  BY <1>1, <1>2, <1>3, <1>4, <1>5, <1>6, <1>7, <1>8, <1>9, <1>10, <1>11
  DEF Next, WorkerStep, Enqueue, Cancel, LeaseExpires, SubmitAgain, Arrive
-----------------------------------------------------------------------------
(* Points, files, the network and the counts.                              *)

\* A checkpoint's request names a stage of its job.
Checkpoint(r) ==
    r \in Requests /\ r.digest \in Progress /\ Len(r.digest) \in 1..StageCount

LEMMA UploadIsCheckpoint ==
    ASSUME Typed, NEW w \in Workers, worker[w].at = "uploading"
    PROVE  Checkpoint(Request(w, "checkpoint", worker[w].done))
<1>1. /\ worker[w].job \in Jobs /\ worker[w].done \in Progress
      /\ Len(worker[w].done) \in 1..StageCount
  BY DEF Typed, CyclesTyped, CycleInv, Cycle
<1>2. Request(w, "checkpoint", worker[w].done) \in Requests
  BY <1>1, RequestTyped DEF Digests
<1> QED
  BY <1>1, <1>2 DEF Checkpoint, Request

LEMMA NextPoints ==
    ASSUME Typed, Next
    PROVE  UNCHANGED point \/ \E r \in Requests : Checkpoint(r) /\ Register(r)
<1>1. ASSUME NEW w \in Workers, Upload(w)
      PROVE  UNCHANGED point \/ \E r \in Requests : Checkpoint(r) /\ Register(r)
  <2>1. Checkpoint(Request(w, "checkpoint", worker[w].done))
    BY <1>1, UploadIsCheckpoint DEF Upload
  <2> QED
    BY <1>1, <2>1 DEF Upload, Checkpoint
<1>2. ASSUME NEW r \in late, Arrive(r)
      PROVE  UNCHANGED point \/ \E q \in Requests : Checkpoint(q) /\ Register(q)
  <2>1. CASE r.about = "result"
    BY <1>2, <2>1 DEF Arrive
  <2>2. CASE r.about # "result"
    <3>1. r \in Requests /\ r.about = "checkpoint"
      BY <2>2 DEF Typed, LateTyped, Requests
    <3>2. Checkpoint(r)
      BY <3>1 DEF Typed, LateTyped, LateInv, Checkpoint
    <3> QED
      BY <1>2, <2>2, <3>1, <3>2 DEF Arrive
  <2> QED
    BY <2>1, <2>2
<1> QED
  BY <1>1, <1>2
  DEF Next, WorkerStep, Enqueue, Cancel, LeaseExpires, Poll, ClaimOldest,
      NothingToClaim, ReadLease, Start, Guard, RunStage, Submit, Refuse, Abandon,
      ClaimAnswerLost, UploadLost, SubmitLost, SubmitAgain, Crash

LEMMA PointsStep == ASSUME Typed, Next PROVE PointsTyped'
<1>0. PointsTyped
  BY DEF Typed
<1>1. CASE UNCHANGED point
  BY <1>0, <1>1 DEF PointsTyped
<1>2. ASSUME NEW r \in Requests, Checkpoint(r), Register(r) PROVE PointsTyped'
  <2>1. r.job \in Jobs /\ r.epoch \in Nat /\ r.digest \in Digests
    BY DEF Requests
  <2> DEFINE new == [artifact |-> r.digest, epoch |-> r.epoch]
  <2>2. new \in Point
    BY <2>1 DEF Point
  <2>3. point' = point \/ point' = [point EXCEPT ![r.job][Len(r.digest)] = new]
    BY <1>2 DEF Register
  <2> DEFINE n == Len(r.digest)
             points == [point[r.job] EXCEPT ![n] = new]
  <2>4. n \in 1..StageCount /\ point[r.job] \in [1..StageCount -> Point]
    BY <1>0, <1>2, <2>1 DEF Checkpoint, PointsTyped
  <2>5. point' = point \/ point' = [point EXCEPT ![r.job] = points]
    BY <2>3
  <2> HIDE DEF new, n
  <2>6. points \in [1..StageCount -> Point]
    BY <2>2, <2>4
  <2> HIDE DEF points
  <2> QED
    BY <1>0, <2>1, <2>5, <2>6 DEF PointsTyped
<1> QED
  BY <1>1, <1>2, NextPoints

LEMMA FilesStep == ASSUME Typed, Next PROVE FilesTyped'
<1>0. FilesTyped
  BY DEF Typed
<1>1. CASE UNCHANGED file
  BY <1>0, <1>1 DEF FilesTyped
<1>2. ASSUME NEW w \in Workers, RunStage(w) PROVE FilesTyped'
  <2>1. worker[w].job \in Jobs
    BY <1>2 DEF RunStage, Typed, CyclesTyped, CycleInv
  <2>2. PICK done \in Progress : file' = [file EXCEPT ![w][worker[w].job] = done]
    BY <1>2, StageRuns
  <2> QED
    BY <1>0, <2>1, <2>2 DEF FilesTyped
<1> QED
  BY <1>1, <1>2
  DEF Next, WorkerStep, Enqueue, Cancel, LeaseExpires, Poll, ClaimOldest,
      NothingToClaim, ReadLease, Start, Guard, Upload, Submit, Refuse, Abandon,
      ClaimAnswerLost, UploadLost, SubmitLost, SubmitAgain, Crash, Arrive

LEMMA LateStep == ASSUME Typed, Next PROVE LateTyped'
<1>0. LateTyped
  BY DEF Typed
<1>1. CASE late' \subseteq late
  BY <1>0, <1>1 DEF LateTyped, LateInv
<1>2. ASSUME NEW w \in Workers, UploadLost(w) PROVE LateTyped'
  <2> DEFINE r == Request(w, "checkpoint", worker[w].done)
  <2>1. Checkpoint(r) /\ r.about = "checkpoint"
    BY <1>2, UploadIsCheckpoint DEF UploadLost, Request
  <2>2. late' = late \cup {r}
    BY <1>2 DEF UploadLost
  <2> HIDE DEF r
  <2> QED
    BY <1>0, <2>1, <2>2 DEF LateTyped, LateInv, Checkpoint
<1>3. ASSUME NEW w \in Workers, SubmitLost(w) PROVE LateTyped'
  <2>1. Result(w) \in Requests /\ Result(w).digest \in Results
    BY <1>3, ResultTyped DEF SubmitLost
  <2>2. late' = late \cup {Result(w)} /\ Result(w).about = "result"
    BY <1>3 DEF SubmitLost, Result, Request
  <2> QED
    BY <1>0, <2>1, <2>2 DEF LateTyped, LateInv
<1> QED
  BY <1>1, <1>2, <1>3
  DEF Next, WorkerStep, Enqueue, Cancel, LeaseExpires, Poll, ClaimOldest,
      NothingToClaim, ReadLease, Start, Guard, RunStage, Upload, Submit, Refuse,
      Abandon, ClaimAnswerLost, SubmitAgain, Crash, Arrive

LEMMA CountsStep == ASSUME Typed, Next PROVE CountsTyped'
<1>1. CountsTyped /\ UNCHANGED deployed
  BY DEF Typed, Next
<1>2. crashes' \in {crashes, crashes + 1} /\ lost' \in {lost, lost + 1}
  BY DEF Next, WorkerStep, Enqueue, Cancel, LeaseExpires, Poll, ClaimOldest,
      NothingToClaim, ReadLease, Start, Guard, RunStage, Upload, Submit, Refuse,
      Abandon, ClaimAnswerLost, UploadLost, SubmitLost, SubmitAgain, Crash,
      Arrive, Loses
<1> QED
  BY <1>1, <1>2 DEF CountsTyped

LEMMA NextTyped == ASSUME Typed, Next PROVE Typed'
<1>1. RowsTyped'
  BY NextRows, NextMaps, StepTypesRows
<1> QED
  BY <1>1, PointsStep, FilesStep, NextCycles, LateStep, CountsStep DEF Typed

-----------------------------------------------------------------------------
(* What a worker is told.                                                  *)

Verdicts == {"accepted", "conflict", "cancelled"}

ToldInv(w) ==
    LET j == worker[w].job
    IN /\ worker[w].told = "accepted" =>
              receipt[j] = worker[w].result /\ receipt[j] # None
       /\ worker[w].told = "conflict" => receipt[j] \notin {None, worker[w].result}
       /\ worker[w].told = "cancelled" => job[j].state = "cancelled"

\* A verdict is only ever given by a submission.
LEMMA NextTells ==
    ASSUME Typed, Next, NEW v \in Workers
    PROVE  \/ worker'[v].told \notin Verdicts
           \/ worker'[v] = worker[v]
           \/ Submit(v)
<1>0. worker \in [Workers -> Cycle] /\ worker[v] \in Cycle
  BY DEF Typed, CyclesTyped
<1>1. ASSUME NEW w \in Workers,
             \/ WorkerStep(w) \/ Refuse(w) \/ Abandon(w) \/ ClaimAnswerLost(w)
             \/ UploadLost(w) \/ SubmitLost(w) \/ SubmitAgain(w) \/ Crash(w)
      PROVE  \/ worker'[v].told \notin Verdicts
             \/ worker'[v] = worker[v]
             \/ Submit(v)
  <2>1. CASE v # w
    BY <1>0, <1>1, <2>1
    DEF WorkerStep, Poll, ClaimOldest, NothingToClaim, ReadLease, Start, Guard,
        RunStage, Upload, Submit, Refuse, Abandon, ClaimAnswerLost, UploadLost,
        SubmitLost, SubmitAgain, Crash, Goto, Ended, Concluded
  <2>2. CASE v = w /\ (Poll(w) \/ Crash(w))
    BY <1>0, <2>2 DEF Poll, Crash, AtRest, Verdicts
  <2>3. ASSUME v = w, NEW told \in {"nothing", "abandoned"}, Ended(w, told)
        PROVE  worker'[v].told \notin Verdicts
    BY <1>0, <2>3 DEF Ended, Verdicts, Cycle
  <2>4. ASSUME v = w, worker[w].at # "idle", worker'[w].told = worker[w].told
        PROVE  worker'[v].told \notin Verdicts
    BY <2>4 DEF Typed, CyclesTyped, CycleInv, Verdicts
  <2>5. CASE v = w /\ SubmitAgain(w)
    BY <2>5 DEF SubmitAgain
  <2>6. ASSUME NEW step, Goto(w, step) PROVE worker'[w].told = worker[w].told
    BY <1>0, <2>6 DEF Goto, Cycle
  <2>7. ASSUME NEW digest, Concluded(w, digest)
        PROVE  worker'[w].told = worker[w].told
    BY <1>0, <2>7 DEF Concluded, Cycle
  <2>8. CASE v = w /\ (ClaimOldest(w) \/ RunStage(w))
    BY <1>0, <2>4, <2>8 DEF ClaimOldest, RunStage, Cycle
  <2>9. CASE v = w /\ (ReadLease(w) \/ Start(w))
    BY <1>0, <2>3, <2>4, <2>9 DEF ReadLease, Start, Cycle
  <2>10. CASE v = w /\ (Guard(w) \/ Upload(w))
    BY <2>3, <2>4, <2>6, <2>7, <2>10 DEF Guard, Upload
  <2>11. CASE v = w /\ (\/ NothingToClaim(w) \/ Refuse(w) \/ Abandon(w)
                       \/ ClaimAnswerLost(w) \/ UploadLost(w) \/ SubmitLost(w))
    BY <2>3, <2>4, <2>7, <2>11
    DEF NothingToClaim, Refuse, Abandon, ClaimAnswerLost, UploadLost, SubmitLost
  <2> QED
    BY <1>1, <2>1, <2>2, <2>5, <2>8, <2>9, <2>10, <2>11 DEF WorkerStep
<1>2. CASE UNCHANGED worker
  BY <1>2
<1> QED
  BY <1>1, <1>2 DEF Next, Enqueue, Cancel, LeaseExpires, Arrive

\* What has ended stays.
LEMMA EndedKept ==
    ASSUME NEW j \in Jobs, RowStep(j)
    PROVE  /\ job[j].state \in TerminalStates => RowKept(j)
           /\ receipt[j] # None => receipt'[j] = receipt[j]
  BY DEF RowStep, RowKept, RowMoved, RowFinished, Active, ActiveStates,
         TerminalStates

LEMMA SubmitTells ==
    ASSUME Typed, RowsInv, NEW w \in Workers, Submit(w) PROVE ToldInv(w)'
<1> DEFINE r == Result(w)
<1>1. /\ r.job = worker[w].job /\ r.digest = worker[w].result
      /\ r.digest \in Results /\ worker[w].job \in Jobs
  BY ResultTyped DEF Submit, Typed, CyclesTyped, CycleInv
<1>2. /\ worker'[w].job = worker[w].job /\ worker'[w].result = worker[w].result
      /\ worker'[w].told = Answer(r)
  BY DEF Submit, Ended, Typed, CyclesTyped, Cycle
<1>3. ReceiptInv(r.job) /\ Finish(r) /\ r.digest # None
  BY <1>1, NoneIsNoResult DEF RowsInv, Submit
<1> HIDE DEF r
<1>4. Verdict(r.digest) \in {"succeeded", "failed"}
  BY VerdictEnds
<1>5. CASE Answer(r) = "accepted"
  <2>1. CASE Finishes(r)
    <3>1. receipt'[r.job] = r.digest
      BY <1>1, <1>3, <2>1 DEF Finish, Typed, RowsTyped
    <3> QED
      BY <1>1, <1>2, <1>3, <1>5, <3>1 DEF ToldInv
  <2>2. CASE ~Finishes(r)
    <3>1. job[r.job].result = r.digest
      BY <1>5, <2>2 DEF Answer
    <3>2. receipt'[r.job] = r.digest
      BY <1>3, <2>2, <3>1 DEF Finish, ReceiptInv
    <3> QED
      BY <1>1, <1>2, <1>3, <1>5, <3>2 DEF ToldInv
  <2> QED
    BY <2>1, <2>2
<1>6. CASE Answer(r) = "conflict"
  <2>1. receipt[r.job] \notin {None, r.digest}
    BY <1>6 DEF Answer
  <2>2. receipt' = receipt
    BY <1>3, <2>1 DEF Finish, Finishes
  <2> QED
    BY <1>1, <1>2, <1>6, <2>1, <2>2 DEF ToldInv
<1>7. CASE Answer(r) = "cancelled"
  <2>1. job[r.job].state = "cancelled"
    BY <1>7 DEF Answer
  <2>2. job' = job
    BY <1>3, <2>1 DEF Finish, Finishes, Fenced, Holds, Active, ActiveStates
  <2> QED
    BY <1>1, <1>2, <1>7, <2>1, <2>2 DEF ToldInv
<1> QED
  BY <1>2, <1>5, <1>6, <1>7 DEF ToldInv

LEMMA ToldStep ==
    ASSUME Typed, RowsInv, \A w \in Workers : ToldInv(w), Next
    PROVE  \A w \in Workers : ToldInv(w)'
<1> SUFFICES ASSUME NEW w \in Workers PROVE ToldInv(w)'
  OBVIOUS
<1>1. CASE worker'[w].told \notin Verdicts
  BY <1>1 DEF Verdicts, ToldInv
<1>2. CASE worker'[w] = worker[w] /\ worker[w].told \in Verdicts
  <2>1. worker[w].job \in Jobs
    BY <1>2 DEF Verdicts, Typed, CyclesTyped, CycleInv
  <2>2. RowStep(worker[w].job)
    BY <2>1, NextRows
  <2>3. /\ receipt[worker[w].job] # None =>
              receipt'[worker[w].job] = receipt[worker[w].job]
        /\ job[worker[w].job].state = "cancelled" =>
              job'[worker[w].job] = job[worker[w].job]
    BY <2>1, <2>2, EndedKept DEF TerminalStates, RowKept
  <2> QED
    BY <1>2, <2>3 DEF ToldInv
<1>3. CASE Submit(w)
  BY <1>3, SubmitTells
<1> QED
  BY <1>1, <1>2, <1>3, NextTells

-----------------------------------------------------------------------------
(* The inductive invariant.                                                *)

IInv == Typed /\ RowsInv /\ \A w \in Workers : ToldInv(w)

LEMMA InitIInv == Init => IInv
<1> SUFFICES ASSUME Init PROVE IInv
  OBVIOUS
<1>1. \A w \in Workers : ToldInv(w)
  BY DEF Init, AtRest, ToldInv
<1> QED
  BY <1>1, InitTyped, InitRows DEF IInv

LEMMA NextIInv == IInv /\ [Next]_vars => IInv'
<1> SUFFICES ASSUME IInv, [Next]_vars PROVE IInv'
  OBVIOUS
<1>1. CASE Next
  <2>1. Typed' /\ \A w \in Workers : ToldInv(w)'
    BY <1>1, NextTyped, ToldStep DEF IInv
  <2>2. ASSUME NEW j \in Jobs PROVE ReceiptInv(j)' /\ EpochInv(j)'
    BY <1>1, NextRows, ReceiptStep, EpochStep DEF IInv, RowsInv
  <2>3. RowsInv'
    BY <2>2 DEF RowsInv
  <2> QED
    BY <2>1, <2>3 DEF IInv
<1>2. CASE UNCHANGED vars
  <2>1. Typed'
    BY <1>2 DEF IInv, vars, Typed, RowsTyped, PointsTyped, FilesTyped, CyclesTyped,
        CycleInv, LateTyped, LateInv, CountsTyped, WholeRun
  <2>2. RowsInv' /\ \A w \in Workers : ToldInv(w)'
    BY <1>2 DEF IInv, vars, RowsInv, ReceiptInv, EpochInv, ToldInv
  <2> QED
    BY <2>1, <2>2 DEF IInv
<1> QED
  BY <1>1, <1>2

LEMMA Invariance == Spec => []IInv
  BY InitIInv, NextIInv, PTL DEF Spec

(* The tables, the workers and the network hold what they are declared to, *)
(* whatever the jobs, the workers and their losses.                        *)
THEOREM TypeCorrect == Spec => []TypeOK
<1>1. IInv => TypeOK
  BY TypedIsTypeOK DEF IInv
<1> QED
  BY <1>1, Invariance, PTL

(* The first result that finish_job accepts is the job's result, for good: *)
(* no reclaim, late report or repeat parts the receipt from the row.       *)
THEOREM FirstResultStands == Spec => []ReceiptIsTheResult
<1>1. IInv => ReceiptIsTheResult
  BY DEF IInv, RowsInv, ReceiptInv, ReceiptIsTheResult
<1> QED
  BY <1>1, Invariance, PTL

(* No job is executed more than max_attempts times, and one that expired   *)
(* has had them all.                                                       *)
THEOREM BudgetIsKept == Spec => []EpochsCountExecutions
<1>1. IInv => EpochsCountExecutions
  BY DEF IInv, RowsInv, EpochInv, EpochsCountExecutions
<1> QED
  BY <1>1, Invariance, PTL

(* What submit_result tells a worker of its result stays true of its job.  *)
THEOREM ReportsAreTrue == Spec => []ToldIsTrue
<1>1. IInv => ToldIsTrue
  BY DEF IInv, ToldInv, ToldIsTrue
<1> QED
  BY <1>1, Invariance, PTL

-----------------------------------------------------------------------------
(* Late writes.                                                            *)

\* What has to hold of a step for a job.
RowStands(j) ==
    job[j].state \in TerminalStates => UNCHANGED <<job[j], receipt[j], point[j]>>

PointsStand(j) ==
    \A n \in 1..StageCount :
        point[j][n] # point'[j][n] =>
           point[j][n] = NoPoint /\ point'[j][n].epoch = job[j].epoch

LEMMA RegisterStands ==
    ASSUME Typed, NEW r \in Requests, Checkpoint(r), Register(r), NEW j \in Jobs
    PROVE  /\ job[j].state \in TerminalStates => point'[j] = point[j]
           /\ PointsStand(j)
<1> DEFINE new == [artifact |-> r.digest, epoch |-> r.epoch]
<1>0. /\ r.job \in Jobs /\ Len(r.digest) \in 1..StageCount
      /\ point \in [Jobs -> [1..StageCount -> Point]]
  BY DEF Checkpoint, Requests, Typed, PointsTyped
<1>1. CASE ~Registers(r)
  BY <1>1 DEF Register, PointsStand
<1>2. CASE Registers(r) /\ j # r.job
  BY <1>0, <1>2 DEF Register, PointsStand
<1>3. CASE Registers(r) /\ j = r.job
  <2>1. /\ point[j][Len(r.digest)] = NoPoint /\ r.epoch = job[j].epoch
        /\ job[j].state \in ActiveStates
    BY <1>3 DEF Registers, Fenced, Holds, Active
  <2>2. point' = [point EXCEPT ![j][Len(r.digest)] = new]
    BY <1>3 DEF Register
  <2>3. new.epoch = r.epoch
    OBVIOUS
  <2> HIDE DEF new
  <2>4. ASSUME NEW n \in 1..StageCount
        PROVE  IF n = Len(r.digest) THEN point'[j][n] = new
                                    ELSE point'[j][n] = point[j][n]
    BY <1>0, <2>2
  <2>5. PointsStand(j)
    BY <2>1, <2>3, <2>4 DEF PointsStand
  <2> QED
    BY <2>1, <2>5 DEF ActiveStates, TerminalStates
<1> QED
  BY <1>1, <1>2, <1>3

LEMMA NextStands ==
    ASSUME Typed, Next, NEW j \in Jobs PROVE RowStands(j) /\ PointsStand(j)
<1>1. job[j].state \in TerminalStates => UNCHANGED <<job[j], receipt[j]>>
  BY NextRows, EndedKept DEF RowKept
<1>2. (job[j].state \in TerminalStates => point'[j] = point[j]) /\ PointsStand(j)
  BY NextPoints, RegisterStands DEF PointsStand
<1> QED
  BY <1>1, <1>2 DEF RowStands

LEMMA NextLate ==
    ASSUME Next, NEW r \in late \ late', r.epoch # job[r.job].epoch
    PROVE  UNCHANGED <<job, receipt, point>>
<1>1. Arrive(r)
  <2>1. \E q \in late : Arrive(q)
    BY DEF Next, WorkerStep, Enqueue, Cancel, LeaseExpires, Poll, ClaimOldest,
      NothingToClaim, ReadLease, Start, Guard, RunStage, Upload, Submit, Refuse,
      Abandon, ClaimAnswerLost, UploadLost, SubmitLost, SubmitAgain, Crash
  <2> QED
    BY <2>1 DEF Arrive
<1> QED
  BY <1>1 DEF Arrive, Finish, Finishes, Register, Registers, Fenced, Holds

(* A worker of an older lease, or a report of a job that has ended, changes *)
(* no table, and no resume point is replaced.                              *)
THEOREM LateWorkersChangeNothing == Spec => LateWritesChangeNothing
<1> DEFINE Stands ==
      \A j \in Jobs :
        /\ job[j].state \in TerminalStates =>
              UNCHANGED <<job[j], receipt[j], point[j]>>
        /\ \A n \in 1..StageCount :
              point[j][n] # point'[j][n] =>
                 /\ point[j][n] = NoPoint
                 /\ point'[j][n].epoch = job[j].epoch
        /\ \A r \in late \ late' :
              r.epoch # job[r.job].epoch =>
                UNCHANGED <<job, receipt, point>>
<1>1. IInv /\ [Next]_vars => [Stands]_vars
  <2> SUFFICES ASSUME IInv, Next PROVE Stands
    OBVIOUS
  <2> QED
    BY NextStands, NextLate DEF IInv, RowStands, PointsStand
<1> QED
  BY <1>1, Invariance, PTL DEF Spec, LateWritesChangeNothing
=============================================================================
