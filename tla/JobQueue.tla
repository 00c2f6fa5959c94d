------------------------------ MODULE JobQueue ------------------------------
(***************************************************************************)
(* The DAL job queue (worker/queue.py), the service endpoints in front of  *)
(* it (service/app.py) and the workers that poll it (worker/poll_once.py)  *)
(* over either transport: the database directly, or HTTP requests whose    *)
(* answers can be lost.  A transaction is one step.                        *)
(*                                                                         *)
(* Jobs are numbered in the order of their creation, which is the order of *)
(* claims; a job enqueued by an intake is that intake's only job.  A lease *)
(* is live until the clock passes lease_expires_at.  A digest stands for   *)
(* what it is the digest of: a checkpoint for the exit of each stage it    *)
(* covers, a result for its last checkpoint or for its refusal.            *)
(***************************************************************************)
EXTENDS Naturals, Sequences

CONSTANTS
    Jobs,           \* 1..n
    Workers,        \* worker identities, each polling one job at a time
    NoWorker,       \* worker_id IS NULL
    MaxAttempts,    \* the service's max_attempts
    StageCount,     \* toolchain.STAGES
    Deployments,    \* how workers reach the authority, and their kind of job
    MaxCrashes,     \* bound: worker deaths
    MaxLost         \* bound: requests or answers lost on the way

ASSUME JobQueueAssumption ==
    /\ Jobs \subseteq Nat \ {0}
    /\ NoWorker \notin Workers
    /\ MaxAttempts \in Nat \ {0}
    /\ StageCount \in Nat \ {0}
    /\ Deployments \subseteq [remote : BOOLEAN, whole : BOOLEAN]

VARIABLES
    job,        \* worker_jobs
    receipt,    \* worker_result_receipts: the digest, or None
    point,      \* worker_checkpoints, by job and sequence
    file,       \* each worker's own checkpoint file of a job
    worker,     \* what a poll cycle carries, and where it is
    late,       \* requests whose sender has given up waiting
    crashes, lost,
    deployed    \* one of Deployments, for good

vars == <<job, receipt, point, file, worker, late, crashes, lost, deployed>>

-----------------------------------------------------------------------------
\* Workers use HTTP (remote.py), not the database.
Remote == deployed.remote

\* A coder or fixture job: its stages are one run with one checkpoint.
WholeRun == deployed.whole

Exits == {"ok", "bad"}
Progress == UNION {[1..n -> Exits] : n \in 0..StageCount}

None == <<"none">>
Refusal == <<"refused">>
Digests == Progress \cup {Refusal, None}

ActiveStates == {"leased", "running"}
TerminalStates == {"succeeded", "failed", "expired", "cancelled"}
JobStates == {"absent", "pending"} \cup ActiveStates \cup TerminalStates

NoPoint == [artifact |-> None, epoch |-> 0]

\* A cycle's verdict on its job, from the stages' exits or a refusal.
Verdict(digest) ==
    IF digest # Refusal /\ \A i \in DOMAIN digest : digest[i] = "ok"
    THEN "succeeded" ELSE "failed"

Steps == {"idle", "claiming", "reading", "starting", "guarding", "staging",
          "uploading", "submitting"}

Told == {"nothing", "accepted", "conflict", "cancelled", "stale", "abandoned"}

AtRest == [at |-> "idle", job |-> 0, epoch |-> 0, done |-> <<>>,
           result |-> None, told |-> "nothing"]

\* A result or a checkpoint on its way to the authority.
Requests == [about : {"result", "checkpoint"}, worker : Workers, job : Jobs,
             epoch : Nat, digest : Digests]

(* The types of the tables, of what a worker carries and what is on its way. *)
TypeOK ==
    /\ job \in [Jobs -> [state : JobStates, attempts : Nat, epoch : Nat,
                         owner : Workers \cup {NoWorker}, live : BOOLEAN,
                         result : Digests]]
    /\ receipt \in [Jobs -> Digests]
    /\ point \in [Jobs -> [1..StageCount ->
                            [artifact : Digests, epoch : Nat]]]
    /\ file \in [Workers -> [Jobs -> Progress]]
    /\ worker \in [Workers -> [at : Steps, job : Jobs \cup {0}, epoch : Nat,
                               done : Progress, result : Digests, told : Told]]
    /\ late \subseteq Requests
    /\ crashes \in Nat /\ lost \in Nat
    /\ deployed \in Deployments

Init ==
    /\ job = [j \in Jobs |-> [state |-> "absent", attempts |-> 0, epoch |-> 0,
                              owner |-> NoWorker, live |-> FALSE,
                              result |-> None]]
    /\ receipt = [j \in Jobs |-> None]
    /\ point = [j \in Jobs |-> [n \in 1..StageCount |-> NoPoint]]
    /\ file = [w \in Workers |-> [j \in Jobs |-> <<>>]]
    /\ worker = [w \in Workers |-> AtRest]
    /\ late = {}
    /\ crashes = 0 /\ lost = 0
    /\ deployed \in Deployments

-----------------------------------------------------------------------------
(* The queue's transactions.                                               *)

Active(j) == job[j].state \in ActiveStates

Released(row, state) ==
    [row EXCEPT !.state = state, !.owner = NoWorker, !.live = FALSE]

\* enqueue_job, for an intake that has no job yet.
Enqueue(j) ==
    /\ job[j].state = "absent"
    /\ \A i \in Jobs : i < j => job[i].state # "absent"
    /\ job' = [job EXCEPT ![j].state = "pending"]
    /\ UNCHANGED <<receipt, point, file, worker, late, crashes, lost>>

\* reclaim_expired, of every job at once.
Mutant_Retryable(row) == row.attempts <= MaxAttempts
Retryable(row) == row.attempts + 1 < MaxAttempts

Mutant_Reclaimed(row) ==
    IF row.state = "leased" /\ ~row.live
    THEN [Released(row, IF Retryable(row) THEN "pending" ELSE "expired")
              EXCEPT !.attempts = @ + 1]
    ELSE row
Reclaimed(row) ==
    IF row.state \in ActiveStates /\ ~row.live
    THEN [Released(row, IF Retryable(row) THEN "pending" ELSE "expired")
              EXCEPT !.attempts = @ + 1]
    ELSE row

Claimed(row, w) == [row EXCEPT !.state = "leased", !.owner = w, !.live = TRUE,
                               !.epoch = @ + 1]

\* The fence of a worker's write: an active row, its owner and its epoch.
Mutant_Holds(w, j, epoch) == Active(j) /\ job[j].owner = w
Holds(w, j, epoch) ==
    /\ Active(j)
    /\ job[j].owner = w
    /\ job[j].epoch = epoch

\* cancel_job: the operator's authority, over any holder.
Cancel(j) ==
    /\ job[j].state \in {"pending"} \cup ActiveStates
    /\ job' = [job EXCEPT ![j] = Released(@, "cancelled")]
    /\ UNCHANGED <<receipt, point, file, worker, late, crashes, lost>>

LeaseExpires(j) ==
    /\ Active(j) /\ job[j].live
    /\ job' = [job EXCEPT ![j].live = FALSE]
    /\ UNCHANGED <<receipt, point, file, worker, late, crashes, lost>>

-----------------------------------------------------------------------------
(* A poll cycle.                                                           *)

Goto(w, step) == worker' = [worker EXCEPT ![w].at = step]

Ended(w, told) ==
    worker' = [worker EXCEPT ![w].at = "idle", ![w].done = <<>>,
                             ![w].told = told]

\* A refusal or an unexpected exception is a result, with its own digest.
Concluded(w, digest) ==
    worker' = [worker EXCEPT ![w].at = "submitting", ![w].result = digest,
                             ![w].done = <<>>]

\* reclaim_expired, then claim: transactions of their own.
Poll(w) ==
    /\ worker[w].at = "idle"
    /\ job' = [j \in Jobs |-> Reclaimed(job[j])]
    /\ worker' = [worker EXCEPT ![w] = [AtRest EXCEPT !.at = "claiming"]]
    /\ UNCHANGED <<receipt, point, file, late, crashes, lost>>

ClaimOldest(w) ==
    /\ worker[w].at = "claiming"
    /\ \E j \in Jobs :
        /\ job[j].state = "pending"
        /\ \A i \in Jobs : job[i].state = "pending" => j <= i
        /\ job' = [job EXCEPT ![j] = Claimed(@, w)]
        /\ worker' = [worker EXCEPT ![w].at = "reading", ![w].job = j]
    /\ UNCHANGED <<receipt, point, file, late, crashes, lost>>

NothingToClaim(w) ==
    /\ worker[w].at = "claiming"
    /\ \A j \in Jobs : job[j].state # "pending"
    /\ Ended(w, "nothing")
    /\ UNCHANGED <<job, receipt, point, file, late, crashes, lost>>

\* get_job, after the claim has committed: the row may have moved on.
ReadLease(w) ==
    /\ worker[w].at = "reading"
    /\ IF Remote /\ job[worker[w].job].owner = NoWorker
       THEN Ended(w, "nothing")
       ELSE worker' = [worker EXCEPT ![w].at = "starting",
                                     ![w].epoch = job[worker[w].job].epoch]
    /\ UNCHANGED <<job, receipt, point, file, late, crashes, lost>>

\* mark_running moves the row locally; remotely it is the first heartbeat.
Start(w) ==
    LET j == worker[w].job
        held == Holds(w, j, worker[w].epoch)
        accepted == held /\ IF Remote THEN job[j].live
                                      ELSE job[j].state = "leased"
    IN /\ worker[w].at = "starting"
       /\ IF accepted
          THEN /\ worker' = [worker EXCEPT ![w].at = "guarding",
                        ![w].done = IF WholeRun THEN <<>> ELSE file[w][j]]
               /\ job' = IF Remote THEN job
                         ELSE [job EXCEPT ![j].state = "running"]
          ELSE Ended(w, "abandoned") /\ UNCHANGED job
       /\ UNCHANGED <<receipt, point, file, late, crashes, lost>>

Refuse(w) ==
    /\ worker[w].at \in {"starting", "guarding", "staging"}
    /\ Concluded(w, Refusal)
    /\ UNCHANGED <<job, receipt, point, file, late, crashes, lost>>

\* A kill switch, a missing sandbox, a failed request: the lease is left.
Abandon(w) ==
    /\ worker[w].at \in {"guarding", "staging"}
    /\ Ended(w, "abandoned")
    /\ UNCHANGED <<job, receipt, point, file, late, crashes, lost>>

\* The lease guard's heartbeat in front of a stage.
Guard(w) ==
    LET j == worker[w].job
    IN /\ worker[w].at = "guarding"
       /\ IF Len(worker[w].done) = StageCount
          THEN Concluded(w, worker[w].done)
          ELSE IF Holds(w, j, worker[w].epoch) /\ job[j].live
               THEN Goto(w, "staging")
               ELSE Ended(w, "abandoned")
       /\ UNCHANGED <<job, receipt, point, file, late, crashes, lost>>

\* A stage runs, exits, and its checkpoint replaces the worker's own file.
RunStage(w) ==
    /\ worker[w].at = "staging"
    /\ \E exit \in Exits :
        LET count == IF WholeRun THEN StageCount ELSE 1
            done == worker[w].done \o [i \in 1..count |-> exit]
        IN /\ worker' = [worker EXCEPT ![w].at = "uploading",
                                       ![w].done = done]
           /\ file' = [file EXCEPT ![w][worker[w].job] = done]
    /\ UNCHANGED <<job, receipt, point, late, crashes, lost>>

Request(w, about, digest) ==
    [about |-> about, worker |-> w, job |-> worker[w].job,
     epoch |-> worker[w].epoch, digest |-> digest]

\* _record_checkpoint_fenced: under the fence, the first digest of a sequence.
Fenced(r) == Holds(r.worker, r.job, r.epoch)

Registers(r) == Fenced(r) /\ point[r.job][Len(r.digest)] = NoPoint

Register(r) ==
    point' = IF Registers(r)
             THEN [point EXCEPT ![r.job][Len(r.digest)] =
                        [artifact |-> r.digest, epoch |-> r.epoch]]
             ELSE point

\* The local file is enough for a local worker; the service may refuse the
\* lease, or the digest, which is then the job's result.
Upload(w) ==
    LET r == Request(w, "checkpoint", worker[w].done)
    IN /\ worker[w].at = "uploading"
       /\ IF Remote THEN Register(r) ELSE UNCHANGED point
       /\ IF ~Remote
          THEN Goto(w, "guarding")
          ELSE IF ~Fenced(r)
          THEN Ended(w, "abandoned")
          ELSE IF point'[r.job][Len(r.digest)].artifact = r.digest
          THEN Goto(w, "guarding")
          ELSE Concluded(w, Refusal)
       /\ UNCHANGED <<job, receipt, file, late, crashes, lost>>

\* finish_job's transaction, and what its caller is told.
Finishes(r) == receipt[r.job] = None /\ Fenced(r)

Mutant_Finish(r) ==
    /\ receipt' = IF receipt[r.job] = None
                  THEN [receipt EXCEPT ![r.job] = r.digest] ELSE receipt
    /\ job' = IF Finishes(r)
              THEN [job EXCEPT ![r.job] = [Released(@, Verdict(r.digest))
                                           EXCEPT !.result = r.digest]]
              ELSE job
Finish(r) ==
    IF Finishes(r)
    THEN /\ receipt' = [receipt EXCEPT ![r.job] = r.digest]
         /\ job' = [job EXCEPT ![r.job] = [Released(@, Verdict(r.digest))
                                            EXCEPT !.result = r.digest]]
    ELSE UNCHANGED <<receipt, job>>

Mutant_Answer(r) ==
    LET row == job[r.job]
    IN CASE Finishes(r) -> "accepted"
         [] row.state = Verdict(r.digest) -> "accepted"
         [] row.state = "cancelled" -> "cancelled"
         [] OTHER -> "stale"
Answer(r) ==
    LET row == job[r.job]
    IN IF receipt[r.job] \notin {None, r.digest} THEN "conflict"
       ELSE
       CASE Finishes(r) -> "accepted"
         [] row.state = Verdict(r.digest) /\ row.result = r.digest -> "accepted"
         [] row.state = "cancelled" -> "cancelled"
         [] OTHER -> "stale"

Result(w) == Request(w, "result", worker[w].result)

Submit(w) ==
    /\ worker[w].at = "submitting"
    /\ Finish(Result(w))
    /\ Ended(w, Answer(Result(w)))
    /\ UNCHANGED <<point, file, late, crashes, lost>>

WorkerStep(w) ==
    \/ Poll(w) \/ ClaimOldest(w) \/ NothingToClaim(w) \/ ReadLease(w)
    \/ Start(w) \/ Guard(w) \/ RunStage(w) \/ Upload(w) \/ Submit(w)

-----------------------------------------------------------------------------
(* The network between a remote worker and the service, and worker deaths. *)

Loses == Remote /\ lost < MaxLost /\ lost' = lost + 1

\* The answer to a claim is never asked for again.
ClaimAnswerLost(w) ==
    /\ worker[w].at = "reading" /\ Loses
    /\ Ended(w, "nothing")
    /\ UNCHANGED <<job, receipt, point, file, late, crashes>>

\* A worker that gets no answer gives up; its request may still arrive.
UploadLost(w) ==
    /\ worker[w].at = "uploading" /\ Loses
    /\ late' = late \cup {Request(w, "checkpoint", worker[w].done)}
    /\ Ended(w, "abandoned")
    /\ UNCHANGED <<job, receipt, point, file, crashes>>

SubmitLost(w) ==
    /\ worker[w].at = "submitting" /\ Loses
    /\ late' = late \cup {Result(w)}
    /\ Ended(w, "nothing")
    /\ UNCHANGED <<job, receipt, point, file, crashes>>

\* Answered with a server error: sent again, word for word.
SubmitAgain(w) ==
    /\ worker[w].at = "submitting" /\ Loses
    /\ Finish(Result(w))
    /\ UNCHANGED <<point, file, worker, late, crashes>>

Arrive(r) ==
    /\ late' = late \ {r}
    /\ IF r.about = "result"
       THEN Finish(r) /\ UNCHANGED point
       ELSE Register(r) /\ UNCHANGED <<receipt, job>>
    /\ UNCHANGED <<file, worker, crashes, lost>>

\* A worker dies; its checkpoint files stay.
Crash(w) ==
    /\ crashes < MaxCrashes /\ worker[w].at # "idle"
    /\ crashes' = crashes + 1
    /\ worker' = [worker EXCEPT ![w] = AtRest]
    /\ UNCHANGED <<job, receipt, point, file, late, lost>>

Next ==
    /\ \/ \E j \in Jobs : Enqueue(j) \/ Cancel(j) \/ LeaseExpires(j)
       \/ \E w \in Workers :
           \/ WorkerStep(w) \/ Refuse(w) \/ Abandon(w)
           \/ ClaimAnswerLost(w) \/ UploadLost(w) \/ SubmitLost(w)
           \/ SubmitAgain(w) \/ Crash(w)
       \/ \E r \in late : Arrive(r)
    /\ UNCHANGED deployed

Spec == Init /\ [][Next]_vars

\* Workers poll for as long as they live, every wait of theirs is bounded,
\* and clocks advance.
Fairness ==
    /\ \A w \in Workers : WF_vars(WorkerStep(w) /\ UNCHANGED deployed)
    /\ \A j \in Jobs : WF_vars(LeaseExpires(j) /\ UNCHANGED deployed)

FairSpec == Spec /\ Fairness

-----------------------------------------------------------------------------
(* Properties.                                                             *)

(* A receipt and a finished job are one fact, written once: whatever the   *)
(* order of reclaims, late results and repeats, a job has a receipt exactly *)
(* when a worker's result ended it, with the digest and the verdict of that *)
(* result; a cancelled or expired job has none (finish_job, cancel_job).   *)
ReceiptIsTheResult ==
    \A j \in Jobs :
        /\ receipt[j] # None <=> job[j].state \in {"succeeded", "failed"}
        /\ job[j].result = receipt[j]
        /\ receipt[j] # None => job[j].state = Verdict(receipt[j])

(* Each claim that does not end the job costs one attempt and one epoch,   *)
(* so a job is executed at most max_attempts times however its leases      *)
(* lapse, and `expired' means the budget is spent (claim_job,              *)
(* reclaim_expired).                                                       *)
EpochsCountExecutions ==
    \A j \in Jobs :
        /\ job[j].epoch <= MaxAttempts
        /\ job[j].state = "pending" => job[j].epoch = job[j].attempts
        /\ job[j].state \in ActiveStates \cup {"succeeded", "failed"} =>
              job[j].epoch = job[j].attempts + 1
        /\ job[j].state = "expired" <=> job[j].attempts = MaxAttempts

(* What a worker is told of its result is true of its job: accepted means  *)
(* that this very digest is the job's result, also when the answer to the  *)
(* first report was lost; conflict means that another one is; cancelled    *)
(* that the operator won (LocalSQLiteAdapter.submit_result, result()).     *)
ToldIsTrue ==
    \A w \in Workers :
        LET j == worker[w].job
        IN CASE worker[w].told = "accepted" -> receipt[j] = worker[w].result
             [] worker[w].told = "conflict" ->
                    receipt[j] \notin {None, worker[w].result}
             [] worker[w].told = "cancelled" -> job[j].state = "cancelled"
             [] OTHER -> TRUE

(* A job that has ended stays as it ended, and a resume point once         *)
(* registered is neither replaced nor added to behind the holder's back:   *)
(* a late worker of an older lease changes no table (finish_job,           *)
(* _record_checkpoint_fenced).                                             *)
LateWritesChangeNothing ==
    [][\A j \in Jobs :
        /\ job[j].state \in TerminalStates =>
              UNCHANGED <<job[j], receipt[j], point[j]>>
        /\ \A n \in 1..StageCount :
              point[j][n] # point'[j][n] =>
                 /\ point[j][n] = NoPoint
                 /\ point'[j][n].epoch = job[j].epoch
        /\ \A r \in late \ late' :
              r.epoch # job[r.job].epoch =>
                UNCHANGED <<job, receipt, point>>
      ]_vars

(* Every job that is enqueued is finished, cancelled or given up, although *)
(* workers die, abandon it, lose their leases or never hear an answer: the *)
(* expired lease is reclaimed by whoever polls next (reclaim_expired).     *)
EveryJobSettles ==
    \A j \in Jobs :
        job[j].state # "absent" ~> job[j].state \in TerminalStates

(* "The authority's record is what makes a checkpoint globally             *)
(* recoverable, so a rejected upload is a failure even though the file     *)
(* exists" (worker/remote.py:632): the last checkpoint behind an accepted  *)
(* result is registered with the authority.                                *)
AcceptedIsRegistered ==
    \A j \in Jobs :
        receipt[j] \notin {None, Refusal} =>
            point[j][StageCount].artifact = receipt[j]
=============================================================================
