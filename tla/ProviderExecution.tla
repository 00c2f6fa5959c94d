-------------------------- MODULE ProviderExecution --------------------------
(***************************************************************************)
(* A provider execution from end to end: the authority, and the trusted    *)
(* runtimes of the workers.  A runtime keeps one inventory row per attempt *)
(* (worker/runtime_inventory.py), holds a lock while a process of its own  *)
(* executes the attempt, launches one process for it, and reconciles what  *)
(* it finds after it died.  A launched process outlives its supervisor.    *)
(*                                                                         *)
(* A request to the authority is one step with its answer; the answer, or  *)
(* the request, may be lost, and a dispatch request may arrive late.       *)
(***************************************************************************)
EXTENDS ProviderAuthority, FiniteSets

CONSTANT MaxCrashes     \* bound: deaths of a worker's supervisor

VARIABLES
    rt,         \* runtime_inventory of each worker
    held,       \* the owner lock of a row, by a live execution
    proc,       \* the provider process launched for a row
    crashes

vars == <<authority, rt, held, proc, crashes>>
runtimes == <<rt, held, proc, crashes>>

-----------------------------------------------------------------------------
RuntimeStates == {"none", "prepared", "dispatch_requested", "granted",
                  "starting", "running", "result_ready", "reported", "unknown",
                  "refused"}

(* The types of the authority's tables, the inventories and the processes. *)
TypeOK ==
    /\ AuthorityTypeOK
    /\ rt \in [Workers -> [Attempts ->
                  [state : RuntimeStates, registered : BOOLEAN,
                   stopped : BOOLEAN, late : BOOLEAN,
                   result : Outcomes \cup {"none"}]]]
    /\ held \in [Workers -> [Attempts -> BOOLEAN]]
    /\ proc \in [Workers -> [Attempts -> {"none", "running", "exited"}]]
    /\ crashes \in Nat

Init ==
    /\ AuthorityInit
    /\ rt = [w \in Workers |-> [i \in Attempts |->
                [state |-> "none", registered |-> FALSE, stopped |-> FALSE,
                 late |-> FALSE, result |-> "none"]]]
    /\ held = [w \in Workers |-> [i \in Attempts |-> FALSE]]
    /\ proc = [w \in Workers |-> [i \in Attempts |-> "none"]]
    /\ crashes = 0

-----------------------------------------------------------------------------
Moves(w, i, state) == rt' = [rt EXCEPT ![w][i].state = state]
Keeps == UNCHANGED held
LetsGo(w, i) == held' = [held EXCEPT ![w][i] = FALSE]

ClaimJob(w, i) == Claim(w, i) /\ UNCHANGED runtimes

\* _prepare_runtime, on the context of the job it has just claimed.
Adopt(w, i) ==
    /\ Context(w, i)
    /\ rt[w][i].state = "none"
    /\ Moves(w, i, "prepared")
    /\ held' = [held EXCEPT ![w][i] = TRUE]
    /\ UNCHANGED <<gate, active, attempt, job, manifest, isolation, approval,
                   settling, recovering, proc, crashes>>

\* acknowledge_prelaunch, then the request that must not be made twice.
AcknowledgeManifest(w, i) ==
    /\ held[w][i] /\ rt[w][i].state = "prepared"
    /\ Acknowledge(w, i)
    /\ Moves(w, i, "dispatch_requested") /\ Keeps
    /\ UNCHANGED <<gate, active, attempt, job, lease, isolation, approval,
                   settling, recovering, proc, crashes>>

\* The acknowledgement is recorded and its answer lost, or refused.
AcknowledgeFails(w, i) ==
    /\ held[w][i] /\ rt[w][i].state = "prepared"
    /\ LetsGo(w, i)
    /\ Acknowledge(w, i) \/ UNCHANGED manifest
    /\ UNCHANGED <<gate, active, attempt, job, lease, isolation, approval,
                   settling, recovering, rt, proc, crashes>>

DispatchGranted(w, i) ==
    /\ held[w][i] /\ rt[w][i].state = "dispatch_requested"
    /\ GrantsDispatch(w, i) /\ Dispatch(w, i)
    /\ Moves(w, i, "granted") /\ Keeps
    /\ UNCHANGED <<gate, active, job, lease, manifest, isolation, approval,
                   settling, recovering, proc, crashes>>

\* A refusal may also come from what is not modelled: the manifest's expiry
\* or the worker's enrolment.
DispatchRefused(w, i) ==
    /\ held[w][i] /\ rt[w][i].state = "dispatch_requested"
    /\ Moves(w, i, "refused") /\ LetsGo(w, i)
    /\ UNCHANGED <<authority, proc, crashes>>

\* The answer is lost, or the request itself, which may yet arrive.
DispatchUnanswered(w, i) ==
    /\ held[w][i] /\ rt[w][i].state = "dispatch_requested"
    /\ \E late \in BOOLEAN :
           rt' = [rt EXCEPT ![w][i].state = "unknown", ![w][i].late = late]
    /\ LetsGo(w, i)
    /\ \/ GrantsDispatch(w, i) /\ Dispatch(w, i)
       \/ UNCHANGED attempt
    /\ UNCHANGED <<gate, active, job, lease, manifest, isolation, approval,
                   settling, recovering, proc, crashes>>

DispatchArrivesLate(w, i) ==
    /\ rt[w][i].late
    /\ rt' = [rt EXCEPT ![w][i].late = FALSE]
    /\ GrantsDispatch(w, i) /\ Dispatch(w, i)
    /\ UNCHANGED <<gate, active, job, lease, manifest, isolation, approval,
                   settling, recovering, held, proc, crashes>>

\* A row that stands in the way of another launch on the same worker.
Unresolved(w, i) ==
    \/ rt[w][i].state \in {"starting", "running"}
    \/ rt[w][i].state = "unknown" /\ ~rt[w][i].stopped

\* run_process: a heartbeat, the durable intent, the process, its identity.
BeginStart(w, i) ==
    /\ held[w][i] /\ rt[w][i].state = "granted"
    /\ MayGoOn(w, i)
    /\ \A j \in Attempts \ {i} : ~Unresolved(w, j)
    /\ Moves(w, i, "starting") /\ Keeps
    /\ UNCHANGED <<authority, proc, crashes>>

Spawn(w, i) ==
    /\ held[w][i] /\ rt[w][i].state = "starting" /\ proc[w][i] = "none"
    /\ proc' = [proc EXCEPT ![w][i] = "running"]
    /\ UNCHANGED <<authority, rt, held, crashes>>

Register(w, i) ==
    /\ held[w][i] /\ rt[w][i].state = "starting" /\ proc[w][i] # "none"
    /\ rt' = [rt EXCEPT ![w][i].state = "running", ![w][i].registered = TRUE]
    /\ UNCHANGED <<authority, held, proc, crashes>>

Dead(w, i) == [proc EXCEPT ![w][i] = IF @ = "running" THEN "exited" ELSE @]

\* An exception before the result: the authority is lost before the start,
\* or a step fails and the process is killed, if it can be.
Fail(w, i) ==
    /\ held[w][i] /\ rt[w][i].state \in {"granted", "starting", "running"}
    /\ Moves(w, i, "unknown") /\ LetsGo(w, i)
    /\ proc' \in {proc, Dead(w, i)}
    /\ UNCHANGED <<authority, crashes>>

ProcessExits(w, i) ==
    /\ proc[w][i] = "running"
    /\ proc' = [proc EXCEPT ![w][i] = "exited"]
    /\ UNCHANGED <<authority, rt, held, crashes>>

\* The process is over or is stopped, at its own end, a limit, or a
\* heartbeat that is refused; when its end cannot be proven the outcome is
\* unknown and it may go on.
Mutant_Collect(w, i) ==
    /\ held[w][i] /\ rt[w][i].state = "running"
    /\ \E outcome \in KnownOutcomes :
           rt' = [rt EXCEPT ![w][i].state = "result_ready",
                            ![w][i].result = outcome]
    /\ UNCHANGED <<authority, held, crashes, proc>>
Collect(w, i) ==
    /\ held[w][i] /\ rt[w][i].state = "running"
    /\ \E outcome \in Outcomes :
           /\ rt' = [rt EXCEPT ![w][i].state = "result_ready",
                               ![w][i].result = outcome]
           /\ proc' = IF Known(outcome) THEN Dead(w, i) ELSE proc
    /\ UNCHANGED <<authority, held, crashes>>

\* submit_execution_result, from the execution or from a reconciliation.
Submit(w, i) ==
    /\ rt[w][i].state = "result_ready"
    /\ KeepEvidence(i, rt[w][i].result)
    /\ LetsGo(w, i)
    /\ UNCHANGED <<gate, active, job, lease, manifest, isolation, approval,
                   recovering, rt, proc, crashes>>

\* The judgement, and its answer if it is not lost.
Judge(w, i) ==
    /\ attempt[i].owner = w
    /\ \E kill \in BOOLEAN : JudgeResult(i, kill)
    /\ \/ /\ attempt'[i].report /\ rt[w][i].state = "result_ready"
          /\ Moves(w, i, "reported")
       \/ UNCHANGED rt
    /\ UNCHANGED <<held, proc, crashes>>

\* The service dies between the two transactions.
JudgementDies(i) ==
    /\ settling[i]
    /\ settling' = [settling EXCEPT ![i] = FALSE]
    /\ UNCHANGED <<gate, active, attempt, job, lease, manifest, isolation,
                   approval, recovering, runtimes>>

-----------------------------------------------------------------------------
\* The supervisor dies; its locks go, its processes stay.
Crash(w) ==
    /\ crashes < MaxCrashes
    /\ crashes' = crashes + 1
    /\ held' = [held EXCEPT ![w] = [i \in Attempts |-> FALSE]]
    /\ rt' = [rt EXCEPT ![w] = [i \in Attempts |->
                 IF @[i].state = "dispatch_requested"
                 THEN [@[i] EXCEPT !.late = TRUE] ELSE @[i]]]
    /\ UNCHANGED <<authority, proc>>

\* _reconcile_owned: a row whose execution is gone.  Before a start intent
\* there is nothing to stop; a registered process is stopped, perhaps without
\* proof; one that was never registered is never signalled.
ReconcileUnstarted(w, i) ==
    /\ ~held[w][i] /\ rt[w][i].state \in {"dispatch_requested", "granted"}
    /\ rt' = [rt EXCEPT ![w][i].state = "unknown", ![w][i].stopped = TRUE]
    /\ UNCHANGED <<authority, held, proc, crashes>>

ReconcileStarted(w, i) ==
    /\ ~held[w][i]
    /\ \/ rt[w][i].state \in {"starting", "running"}
       \/ rt[w][i].state = "unknown" /\ rt[w][i].registered
                                     /\ ~rt[w][i].stopped
    /\ \E proven \in (IF rt[w][i].registered THEN BOOLEAN ELSE {FALSE}) :
           /\ rt' = [rt EXCEPT ![w][i].state = "unknown",
                               ![w][i].stopped = proven]
           /\ proc' = IF proven THEN Dead(w, i) ELSE proc
    /\ UNCHANGED <<authority, held, crashes>>

\* issue_challenge, prepare_runtime_isolation and import_evidence: the
\* worker signs for an attempt whose process it has seen stopped.
Mutant_Isolate(w, i) ==
    /\ GateOf(i).mode = "paused" /\ IsActive(i)
    /\ attempt[i].owner = w
    /\ rt[w][i].state = "unknown"
    /\ isolation' = [isolation EXCEPT ![i] = attempt[i].version]
    /\ UNCHANGED <<gate, active, attempt, job, lease, manifest, approval,
                   settling, recovering, runtimes>>
Isolate(w, i) ==
    /\ GateOf(i).mode = "paused" /\ IsActive(i)
    /\ attempt[i].owner = w
    /\ rt[w][i].state = "unknown" /\ rt[w][i].stopped
    /\ isolation' = [isolation EXCEPT ![i] = attempt[i].version]
    /\ UNCHANGED <<gate, active, attempt, job, lease, manifest, approval,
                   settling, recovering, runtimes>>

RuntimeStep(w, i) ==
    \/ ClaimJob(w, i) \/ Adopt(w, i)
    \/ AcknowledgeManifest(w, i) \/ AcknowledgeFails(w, i)
    \/ DispatchGranted(w, i) \/ DispatchRefused(w, i)
    \/ DispatchUnanswered(w, i) \/ DispatchArrivesLate(w, i)
    \/ BeginStart(w, i) \/ Spawn(w, i) \/ Register(w, i) \/ Fail(w, i)
    \/ ProcessExits(w, i) \/ Collect(w, i) \/ Submit(w, i) \/ Judge(w, i)
    \/ ReconcileUnstarted(w, i) \/ ReconcileStarted(w, i) \/ Isolate(w, i)

Next ==
    \/ AuthorityStep /\ UNCHANGED runtimes
    \/ \E w \in Workers, i \in Attempts : RuntimeStep(w, i)
    \/ \E i \in Attempts : JudgementDies(i)
    \/ \E w \in Workers : Crash(w)

Spec == Init /\ [][Next]_vars

\* Leases end, because nobody renews a policy lease and a heartbeat without
\* one is refused; every poll of any worker reclaims (worker/poll_once.py).
Fairness ==
    \A i \in Attempts :
        /\ WF_vars(PolicyLeaseLapses(i) /\ UNCHANGED runtimes)
        /\ WF_vars(JobLeaseLapses(i) /\ UNCHANGED runtimes)
        /\ WF_vars(Reclaim(i) /\ UNCHANGED runtimes)

FairSpec == Spec /\ Fairness

-----------------------------------------------------------------------------
(* The provider works for a feature in one process at a time, though       *)
(* attempts are replaced, supervisors die and leave processes behind, and  *)
(* several workers claim the same job.                                     *)
OneProcess ==
    \A f \in Features :
        Cardinality({wi \in Workers \X Attempts :
            FeatureOf[wi[2]] = f /\ proc[wi[1]][wi[2]] = "running"}) <= 1

(* A process is launched only by the worker the authority granted the      *)
(* attempt to, and a granted attempt is never queued or granted again.     *)
LaunchedByGrant ==
    \A i \in Attempts :
        /\ \A w \in Workers : proc[w][i] # "none" => attempt[i].owner = w
        /\ Dispatched(i) => job[i].state # "pending"
                            /\ attempt[i].version >= 2

(* While a gate is open there is an attempt it was opened for, and no      *)
(* report: a completed, refused or stopped execution leaves no open gate.  *)
OpenForOne ==
    \A f \in Features : gate[f].mode = "open" =>
        /\ active[f] # 0
        /\ attempt[active[f]].approval = gate[f].epoch
        /\ ~attempt[active[f]].report /\ ~attempt[active[f]].refused

(* What is reported is what the worker measured, in every table: attempt,  *)
(* job, evidence, and the inventory of the worker that ran it.             *)
ReportAgrees ==
    \A i \in Attempts : attempt[i].report =>
        LET w == attempt[i].owner
        IN  /\ attempt[i].state = "result_recorded"
            /\ job[i].state = attempt[i].evidence
            /\ Known(attempt[i].evidence)
            /\ rt[w][i].result = attempt[i].evidence
            /\ rt[w][i].state \in {"result_ready", "reported"}
            /\ proc[w][i] = "exited"

(* Evidence never restores authority: a result that was once refused is    *)
(* not accepted later, however often it is submitted.                      *)
RefusedIsFinal == \A i \in Attempts : ~(attempt[i].refused /\ attempt[i].report)

(* A complete result that has arrived is neither forgotten nor paid for    *)
(* twice: the attempt is not made unknown by a reclaim or a recovery that  *)
(* began before it, nor replaced under a decision that was made before it. *)
KnownIsKept ==
    [][\A i \in Attempts : Known(attempt[i].evidence) =>
           /\ attempt'[i].evidence = attempt[i].evidence
           /\ attempt'[i].state = attempt[i].state
              \/ attempt'[i].state = "result_recorded"]_vars

(* A granted attempt does not stay in force for ever: it ends, its gate is *)
(* stopped, or its job was cancelled under it, even when its worker is     *)
(* never heard of again.                                                   *)
EveryGrantEnds ==
    \A i \in Attempts :
        (attempt[i].state = "dispatching" /\ HasAuthority(i))
            ~> (~HasAuthority(i) \/ job[i].state = "cancelled")

(* "One unresolved execution blocks every other launch on this Worker."    *)
(* (worker/runtime_inventory.py)                                           *)
OneProcessPerWorker ==
    \A w \in Workers :
        Cardinality({i \in Attempts : proc[w][i] = "running"}) <= 1
=============================================================================
