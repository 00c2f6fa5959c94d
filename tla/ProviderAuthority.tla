-------------------------- MODULE ProviderAuthority --------------------------
(***************************************************************************)
(* The authority over provider executions: the execution gate of a         *)
(* feature, the attempts it is opened for, their jobs, leases, launch      *)
(* manifests and evidence, operator control, recovery, and the approved    *)
(* replacement of an attempt.  A transaction is one step; here are the     *)
(* steps the service takes by itself, and as operators those it takes for  *)
(* a worker, which ProviderExecution composes with the worker's own.       *)
(*                                                                         *)
(* An attempt, its job and its start receipt or replacement budget are     *)
(* created once each and named alike.  Of a result, whose request id and   *)
(* body a worker fixes before it sends it, the outcome is kept.            *)
(***************************************************************************)
EXTENDS Naturals

CONSTANTS
    Attempts,       \* 1..n
    Initial,        \* those an action starts with; the others replace one
    Features,
    FeatureOf,      \* the feature each attempt is for
    Workers,
    NoWorker,
    MaxClaims,      \* the service's max_attempts for a job
    KnownOutcomes,  \* how a provider process may end: succeeded, failed
    Expiring,       \* bound: the attempts whose start receipt may expire
    Recovered       \* bound: the attempts the operator may recover

ASSUME AuthorityAssumption ==
    /\ Attempts \subseteq Nat \ {0}
    /\ Initial \subseteq Attempts
    /\ FeatureOf \in [Attempts -> Features]
    /\ NoWorker \notin Workers
    /\ MaxClaims \in Nat \ {0}
    /\ KnownOutcomes \subseteq {"succeeded", "failed"}
    /\ Expiring \subseteq Initial
    /\ Recovered \subseteq Attempts

VARIABLES
    gate,       \* execution_gates
    active,     \* the active attempt of the feature's one active action, or 0
    attempt,    \* provider_attempts
    job,        \* worker_jobs of mode provider_v1
    lease,      \* policy leases, by attempt and job lease epoch
    manifest,   \* supervisor_launch_manifests
    isolation,  \* the attempt version unreserved isolation evidence is for
    approval,   \* the latest resume decision about an attempt
    settling,   \* a submitted result is kept and not yet judged
    recovering  \* the version a recovery observed before its probe, or 0

authority == <<gate, active, attempt, job, lease, manifest, isolation,
               approval, settling, recovering>>

-----------------------------------------------------------------------------
Outcomes == KnownOutcomes \cup {"unknown"}

\* known_complete
Known(outcome) == outcome \in KnownOutcomes

AttemptStates == {"absent", "prepared", "dispatching", "result_recorded",
                  "unknown", "superseded"}
JobStates == {"absent", "pending", "leased", "succeeded", "failed", "expired",
              "cancelled"}

Epochs == 1..MaxClaims
NoManifest == [worker |-> NoWorker, epoch |-> 0]
NoApproval == [status |-> "none", gate |-> 0, version |-> 0]

(* The types of the authority's tables. *)
AuthorityTypeOK ==
    /\ gate \in [Features -> [mode : {"absent", "paused", "open", "cancelled"},
                              version : Nat, epoch : Nat]]
    /\ active \in [Features -> Attempts \cup {0}]
    /\ attempt \in [Attempts ->
           [state : AttemptStates, version : Nat, selected : Nat,
            of : Attempts \cup {0}, approval : Nat, warrant : BOOLEAN,
            owner : Workers \cup {NoWorker}, epoch : Nat,
            evidence : Outcomes \cup {"none"}, report : BOOLEAN,
            refused : BOOLEAN]]
    /\ job \in [Attempts -> [state : JobStates, epoch : 0..MaxClaims,
                             live : BOOLEAN,
                             owner : Workers \cup {NoWorker}]]
    /\ lease \in [Attempts -> [Epochs -> {"none", "live", "over"}]]
    /\ manifest \in [Attempts -> [worker : Workers \cup {NoWorker},
                                  epoch : Nat]]
    /\ isolation \in [Attempts -> Nat]
    /\ approval \in [Attempts ->
           [status : {"none", "accepted", "consumed", "revoked"},
            gate : Nat, version : Nat]]
    /\ settling \in [Attempts -> BOOLEAN]
    /\ recovering \in [Attempts -> Nat]

AuthorityInit ==
    /\ gate = [f \in Features |->
                  [mode |-> "absent", version |-> 0, epoch |-> 0]]
    /\ active = [f \in Features |-> 0]
    /\ attempt = [i \in Attempts |->
           [state |-> "absent", version |-> 0, selected |-> 0, of |-> 0,
            approval |-> 0, warrant |-> FALSE, owner |-> NoWorker,
            epoch |-> 0, evidence |-> "none", report |-> FALSE,
            refused |-> FALSE]]
    /\ job = [i \in Attempts |-> [state |-> "absent", epoch |-> 0,
                                  live |-> FALSE, owner |-> NoWorker]]
    /\ lease = [i \in Attempts |-> [e \in Epochs |-> "none"]]
    /\ manifest = [i \in Attempts |-> NoManifest]
    /\ isolation = [i \in Attempts |-> 0]
    /\ approval = [i \in Attempts |-> NoApproval]
    /\ settling = [i \in Attempts |-> FALSE]
    /\ recovering = [i \in Attempts |-> 0]

-----------------------------------------------------------------------------
GateOf(i) == gate[FeatureOf[i]]
IsActive(i) == active[FeatureOf[i]] = i
Dispatched(i) == attempt[i].owner # NoWorker

Stopped(g, mode) ==
    [mode |-> mode, version |-> g.version + 1, epoch |-> g.epoch + 1]
Opened(g) == Stopped(g, "open")

\* The gate is open, for this attempt and since it was approved.
Approved(i) == GateOf(i).mode = "open" /\ attempt[i].approval = GateOf(i).epoch

\* _authority
HasAuthority(i) == Approved(i) /\ IsActive(i)

\* _leases: the job lease, and the policy lease of the same epoch.
HoldsLeases(w, i, e) ==
    /\ job[i].state = "leased" /\ job[i].owner = w
    /\ job[i].live /\ job[i].epoch = e
    /\ e \in Epochs /\ lease[i][e] = "live"

\* _issued_leases
HoldsIssuedLeases(i) ==
    HoldsLeases(attempt[i].owner, i, attempt[i].epoch) /\ attempt[i].warrant

\* The gate after a stop that concerns only this attempt's opening of it.
Mutant_GateParked(i) == gate
GateParked(i) ==
    IF Approved(i)
    THEN [gate EXCEPT ![FeatureOf[i]] = Stopped(@, "paused")] ELSE gate

LeasesOver(i) ==
    [e \in Epochs |-> IF lease[i][e] = "live" THEN "over" ELSE lease[i][e]]

Unleased(row, state) ==
    [row EXCEPT !.state = state, !.owner = NoWorker, !.live = FALSE]

MadeUnknown(row) == [row EXCEPT !.state = "unknown", !.version = @ + 1]

-----------------------------------------------------------------------------
(* The operator.                                                           *)

\* prepare_execution: an action, and a selection at the gate's version.
Prepare(i) ==
    LET f == FeatureOf[i]
        g == IF gate[f].mode = "absent"
             THEN [mode |-> "paused", version |-> 1, epoch |-> 0]
             ELSE gate[f]
    IN  /\ i \in Initial
        /\ attempt[i].state = "absent" /\ attempt[i].selected = 0
        /\ g.mode = "paused" /\ active[f] = 0
        /\ gate' = [gate EXCEPT ![f] = g]
        /\ attempt' = [attempt EXCEPT ![i].selected = g.version]
        /\ UNCHANGED <<active, job, lease, manifest, isolation, approval,
                       settling, recovering>>

\* start_execution
Start(i) ==
    LET f == FeatureOf[i]
    IN  /\ attempt[i].state = "absent"
        /\ gate[f].mode = "paused" /\ attempt[i].selected = gate[f].version
        /\ active[f] = 0
        /\ gate' = [gate EXCEPT ![f] = Opened(@)]
        /\ attempt' = [attempt EXCEPT
               ![i].state = "prepared", ![i].version = 1,
               ![i].approval = gate[f].epoch + 1, ![i].warrant = TRUE]
        /\ active' = [active EXCEPT ![f] = i]
        /\ job' = [job EXCEPT ![i].state = "pending"]
        /\ UNCHANGED <<lease, manifest, isolation, approval, settling,
                       recovering>>

\* control_execution: pause or cancel
Control(f, mode) ==
    /\ gate[f].mode \in (IF mode = "cancelled" THEN {"open", "paused"}
                                               ELSE {"open"})
    /\ gate' = [gate EXCEPT ![f] = Stopped(@, mode)]
    /\ UNCHANGED <<active, attempt, job, lease, manifest, isolation, approval,
                   settling, recovering>>

CancelJob(i) ==
    /\ job[i].state \in {"pending", "leased"}
    /\ job' = [job EXCEPT ![i] = Unleased(@, "cancelled")]
    /\ UNCHANGED <<gate, active, attempt, lease, manifest, isolation, approval,
                   settling, recovering>>

-----------------------------------------------------------------------------
(* Time, and reclaim_expired by any poll.                                  *)

\* A policy lease never outlasts the job lease it was issued under.
JobLeaseLapses(i) ==
    /\ job[i].state = "leased" /\ job[i].live
    /\ job' = [job EXCEPT ![i].live = FALSE]
    /\ lease' = [lease EXCEPT ![i] = LeasesOver(i)]
    /\ UNCHANGED <<gate, active, attempt, manifest, isolation, approval,
                   settling, recovering>>

PolicyLeaseLapses(i) ==
    /\ \E e \in Epochs : lease[i][e] = "live"
    /\ lease' = [lease EXCEPT ![i] = LeasesOver(i)]
    /\ UNCHANGED <<gate, active, attempt, job, manifest, isolation, approval,
                   settling, recovering>>

\* expires_at of the start receipt, which bounds its policy leases too
WarrantLapses(i) ==
    /\ i \in Expiring /\ attempt[i].warrant
    /\ attempt' = [attempt EXCEPT ![i].warrant = FALSE]
    /\ lease' = [lease EXCEPT ![i] = LeasesOver(i)]
    /\ UNCHANGED <<gate, active, job, manifest, isolation, approval, settling,
                   recovering>>

\* A job whose launch was acknowledged or granted is never queued again.
Mutant_Blocked(i) == manifest[i] # NoManifest /\ ~Dispatched(i)
Blocked(i) == Dispatched(i) \/ manifest[i] # NoManifest

ReclaimMakesUnknown(i) ==
    /\ Dispatched(i) /\ attempt[i].state # "unknown"
    /\ ~Known(attempt[i].evidence)

ReclaimBlocked(i) ==
    /\ job' = [job EXCEPT ![i] = Unleased(@, "expired")]
    /\ IF ~attempt[i].report /\ IsActive(i)
       THEN /\ attempt' = IF ReclaimMakesUnknown(i)
                          THEN [attempt EXCEPT ![i] = MadeUnknown(@)]
                          ELSE attempt
            /\ gate' = GateParked(i)
            /\ lease' = [lease EXCEPT ![i] = LeasesOver(i)]
       ELSE UNCHANGED <<attempt, gate, lease>>

Mutant_RequeueOrExpire(i) ==
    /\ job' = [job EXCEPT ![i] = Unleased(@, "pending")]
    /\ UNCHANGED <<attempt, gate, lease>>
RequeueOrExpire(i) ==
    /\ job' = [job EXCEPT ![i] =
                  Unleased(@, IF @.epoch < MaxClaims THEN "pending"
                                                     ELSE "expired")]
    /\ UNCHANGED <<attempt, gate, lease>>

Reclaim(i) ==
    /\ job[i].state = "leased" /\ ~job[i].live
    /\ IF Blocked(i) THEN ReclaimBlocked(i) ELSE RequeueOrExpire(i)
    /\ UNCHANGED <<active, manifest, isolation, approval, settling, recovering>>

-----------------------------------------------------------------------------
(* recover_attempt: eligibility is read, a probe awaited, then the change  *)
(* committed if nothing has moved.                                         *)

Mutant_Eligible(i) == attempt[i].state \in {"dispatching", "unknown"}
Eligible(i) ==
    /\ ~attempt[i].report /\ ~Known(attempt[i].evidence)
    /\ attempt[i].state \in {"dispatching", "unknown"}
    /\ IsActive(i)
    /\ ~(/\ attempt[i].state = "dispatching"
         /\ HasAuthority(i) /\ HoldsIssuedLeases(i))

BeginRecovery(i) ==
    /\ i \in Recovered /\ recovering[i] = 0 /\ Eligible(i)
    /\ recovering' = [recovering EXCEPT ![i] = attempt[i].version]
    /\ UNCHANGED <<gate, active, attempt, job, lease, manifest, isolation,
                   approval, settling>>

FinishRecovery(i) ==
    /\ recovering[i] # 0
    /\ recovering' = [recovering EXCEPT ![i] = 0]
    /\ attempt' = IF /\ attempt[i].version = recovering[i] /\ Eligible(i)
                     /\ attempt[i].state = "dispatching"
                  THEN [attempt EXCEPT ![i] = MadeUnknown(@)] ELSE attempt
    /\ UNCHANGED <<gate, active, job, lease, manifest, isolation, approval,
                   settling>>

-----------------------------------------------------------------------------
(* Replacement: a decision bound to what it was shown, consumed once.      *)

\* _binding: what a proposal, its import and its use all recheck.
Replaceable(i) ==
    /\ GateOf(i).mode = "paused" /\ IsActive(i) /\ ~attempt[i].report
    /\ ~Known(attempt[i].evidence)
    /\ Dispatched(i) => isolation[i] = attempt[i].version

\* propose and import_decision
Approve(i) ==
    /\ Replaceable(i)
    /\ approval[i].status # "consumed"
    /\ approval' = [approval EXCEPT ![i] =
           [status |-> "accepted", gate |-> GateOf(i).version,
            version |-> attempt[i].version]]
    /\ UNCHANGED <<gate, active, attempt, job, lease, manifest, isolation,
                   settling, recovering>>

\* revoke_decision: for future use, which includes leases still to be issued.
Revoke(i) ==
    /\ approval[i].status \in {"accepted", "consumed"}
    /\ approval' = [approval EXCEPT ![i].status = "revoked"]
    /\ attempt' = [n \in Attempts |->
           IF attempt[n].of = i THEN [attempt[n] EXCEPT !.warrant = FALSE]
                                ELSE attempt[n]]
    /\ UNCHANGED <<gate, active, job, lease, manifest, isolation, settling,
                   recovering>>

\* resume: the old attempt is superseded by n, under a fresh approval epoch.
Resume(i, n) ==
    LET f == FeatureOf[i]
    IN  /\ approval[i] = [status |-> "accepted", gate |-> GateOf(i).version,
                          version |-> attempt[i].version]
        /\ Replaceable(i)
        /\ FeatureOf[n] = f
        /\ n \notin Initial /\ attempt[n].state = "absent"
        /\ approval' = [approval EXCEPT ![i].status = "consumed"]
        /\ attempt' = [attempt EXCEPT
               ![i].state = "superseded", ![i].version = @ + 1,
               ![n].state = "prepared", ![n].version = 1, ![n].of = i,
               ![n].approval = gate[f].epoch + 1, ![n].warrant = TRUE]
        /\ gate' = [gate EXCEPT ![f] = Opened(@)]
        /\ active' = [active EXCEPT ![f] = n]
        /\ UNCHANGED <<job, lease, manifest, isolation, settling, recovering>>

\* consume_intent
EnqueueReplacement(n) ==
    /\ attempt[n].of # 0 /\ job[n].state = "absent"
    /\ HasAuthority(n) /\ attempt[n].state = "prepared"
    /\ job[attempt[n].of].state # "absent"
    /\ job' = [job EXCEPT ![n].state = "pending"]
    /\ UNCHANGED <<gate, active, attempt, lease, manifest, isolation, approval,
                   settling, recovering>>

-----------------------------------------------------------------------------
(* What the service does for a worker's requests.                          *)

\* claim_job
Claim(w, i) ==
    /\ job[i].state = "pending" /\ ~Dispatched(i)
    /\ job' = [job EXCEPT ![i] = [state |-> "leased", epoch |-> @.epoch + 1,
                                  live |-> TRUE, owner |-> w]]
    /\ UNCHANGED <<gate, active, attempt, lease, manifest, isolation, approval,
                   settling, recovering>>

\* initial_context, or _context of a replacement: a policy lease is issued
\* for a fresh epoch, and none after a manifest.
MayLaunch(w, i) ==
    /\ HasAuthority(i) /\ attempt[i].state = "prepared" /\ attempt[i].warrant
    /\ job[i].state = "leased" /\ job[i].owner = w /\ job[i].live

LeaseInContext(i) ==
    [lease EXCEPT ![i][job[i].epoch] = "live"]

Context(w, i) ==
    /\ MayLaunch(w, i)
    /\ \/ lease[i][job[i].epoch] = "live" /\ UNCHANGED lease
       \/ /\ lease[i][job[i].epoch] = "none" /\ manifest[i] = NoManifest
          /\ lease' = LeaseInContext(i)

\* acknowledge_manifest
Acknowledge(w, i) ==
    /\ MayLaunch(w, i) /\ HoldsLeases(w, i, job[i].epoch)
    /\ manifest[i] \in {NoManifest, [worker |-> w, epoch |-> job[i].epoch]}
    /\ manifest' = [manifest EXCEPT ![i] = [worker |-> w,
                                            epoch |-> job[i].epoch]]

\* claim_dispatch
GrantsDispatch(w, i) ==
    /\ MayLaunch(w, i) /\ HoldsLeases(w, i, job[i].epoch)
    /\ manifest[i] = [worker |-> w, epoch |-> job[i].epoch]

Dispatch(w, i) ==
    attempt' = [attempt EXCEPT
        ![i].state = "dispatching", ![i].version = @ + 1,
        ![i].owner = w, ![i].epoch = job[i].epoch]

\* check_episode_heartbeat, and stop_required of execution_status
MayGoOn(w, i) ==
    /\ HasAuthority(i) /\ HoldsLeases(w, i, attempt[i].epoch)
    /\ attempt[i].state = "dispatching" /\ attempt[i].evidence = "none"

\* The first transaction of submit_execution_result keeps what has arrived.
KeepEvidence(i, outcome) ==
    /\ attempt' = [attempt EXCEPT ![i].evidence = outcome]
    /\ settling' = [settling EXCEPT ![i] = TRUE]

\* Its second one judges it.  The version of a dispatched attempt is 2.
Refused(i) ==
    \/ job[i].state = "cancelled"
    \/ attempt[i].version # 2
    \/ ~HasAuthority(i)
    \/ ~HoldsIssuedLeases(i)
    \/ ~Known(attempt[i].evidence)
    \/ attempt[i].state = "unknown"

Mutant_ParkResult(i) ==
    /\ attempt' = [attempt EXCEPT ![i].refused = TRUE]
    /\ UNCHANGED <<gate, active, job>>
ParkResult(i) ==
    /\ IF IsActive(i)
       THEN /\ gate' = GateParked(i)
            /\ attempt' = [attempt EXCEPT ![i] =
                   LET seen == [@ EXCEPT !.refused = TRUE]
                   IN  IF ~Known(@.evidence) /\ @.state = "dispatching"
                       THEN MadeUnknown(seen) ELSE seen]
            /\ job' = IF job[i].state = "leased"
                      THEN [job EXCEPT ![i] = Unleased(@, "expired")] ELSE job
       ELSE /\ attempt' = [attempt EXCEPT ![i].refused = TRUE]
            /\ UNCHANGED <<gate, job>>
    /\ UNCHANGED active

Mutant_AcceptResult(i) ==
    LET f == FeatureOf[i]
    IN  /\ attempt' = [attempt EXCEPT
               ![i].state = "result_recorded", ![i].version = @ + 2,
               ![i].report = TRUE]
        /\ job' = [job EXCEPT ![i] = Unleased(@, attempt[i].evidence)]
        /\ active' = [active EXCEPT ![f] = 0]
        /\ UNCHANGED gate
AcceptResult(i) ==
    LET f == FeatureOf[i]
    IN  /\ attempt' = [attempt EXCEPT
               ![i].state = "result_recorded", ![i].version = @ + 2,
               ![i].report = TRUE]
        /\ job' = [job EXCEPT ![i] = Unleased(@, attempt[i].evidence)]
        /\ active' = [active EXCEPT ![f] = 0]
        /\ gate' = [gate EXCEPT ![f] = Stopped(@, "paused")]

\* Under the kill switch everything that was not yet accepted is refused.
JudgeResult(i, kill) ==
    /\ settling[i]
    /\ settling' = [settling EXCEPT ![i] = FALSE]
    /\ \/ attempt[i].report /\ UNCHANGED <<gate, active, attempt, job>>
       \/ ~attempt[i].report /\ (Refused(i) \/ kill) /\ ParkResult(i)
       \/ ~attempt[i].report /\ ~Refused(i) /\ ~kill /\ AcceptResult(i)
    /\ UNCHANGED <<lease, manifest, isolation, approval, recovering>>

-----------------------------------------------------------------------------
AuthorityStep ==
    \/ \E i \in Attempts :
           \/ Prepare(i) \/ Start(i) \/ CancelJob(i)
           \/ JobLeaseLapses(i) \/ PolicyLeaseLapses(i) \/ WarrantLapses(i)
           \/ Reclaim(i) \/ BeginRecovery(i) \/ FinishRecovery(i)
           \/ Approve(i) \/ Revoke(i) \/ EnqueueReplacement(i)
           \/ \E n \in Attempts : Resume(i, n)
    \/ \E f \in Features, mode \in {"paused", "cancelled"} : Control(f, mode)
=============================================================================
