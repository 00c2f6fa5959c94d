# A verification of the personal agent

TLA+ models of this repository's own protocols, TLC runs of them on small
instances, and theorems about them checked by TLAPS. Paths are relative to the
repository root; `PROJECT.json` maps every definition of a module to the lines
it models.

- [1. The system](#1-the-system): components, state, operations, hard behaviour
- [2. The modules and the code](#2-the-modules-and-the-code)
- [3. The runs](#3-the-runs): what each one checks, its bounds, fairness
- [4. The proofs](#4-the-proofs)
- [5. What the checks found](#5-what-the-checks-found)
- [6. What is left out](#6-what-is-left-out)
- [7. Plan](#7-plan)

## 1. The system

A phone talks to an Agent service (`src/personal_agent`), which lets a language
model call tools. The tools that touch personal data live in a second service,
the data MCP server (`src/personal_data_mcp`), whose ledger is a Feishu Bitable:
an external table reached over HTTP, edited by people too. A third service, the
development control plane (`src/personal_agent_dal`, "DAL"), drives coding jobs
and GitHub effects. Each service keeps SQLite databases; every state change is a
short transaction that compares and swaps on a state and a version.

How they interact:

    iOS client --HTTP--> Agent operations --MCP call--> Finance governed write
                             ^     |                      |            |
             projection of   |     | run leases,     execution store   | create,
             the execution   |     | sessions        (SQLite)          | read
                             +-----+--control read--------+            v
                     Agent recovery                       ^        Feishu table
                                                          |            ^
                         Finance recovery scans ----------+------------+
                         (start-up and every 60 s)

    DAL timeline --> DAL job queue <--poll, heartbeat, result-- remote worker
         |                |
         +--> transition engine --> commit capability --> GitHub effect executor

### Finance (`src/personal_data_mcp`)

| Component | State | Operations | Hard behaviour | What makes it correct |
|---|---|---|---|---|
| Execution store (`storage/execution_store.py`, `state_machine.py`) | one row per idempotency key: state, version, fingerprint, client token, sealed payload, recovery lease; receipts; resource locks; audit chain | `prepare_execution`, `transition`, `acquire/release_recovery_lease`, `record_receipt`, `mark_receipt_verified`, resource locks | two workers alive at once after a restart; leases that lapse under their holder | no step overwrites newer state; settled is final |
| Governed create (`finance/write_path.py`) | the row, and what a call carries over its awaits | `execute_governed_write`: prepare, submit, create, receipt, read back, success | response lost, late or malformed; death between any two commits; a retry at any moment | at most one record per key; success only with proof; what a caller is told is true |
| Write recovery (`finance/reconciler.py`, scans in `server/composition.py`) | the same row, under a lease | `reconcile_write`: replay under the same token, read back, settle or hand to a person | a lease shorter than the work; a deadline racing a late record; a config that changed | no duplicate; every write is settled |
| Family fund (`finance/family_fund.py`) | a resource lock per ledger year; the executions of all keys of that year | read the balance, compute, write, verify, under the lock | the lock lapses while its holder waits; a person adds a row meanwhile | one open recharge at a time; success only on the balance it was computed from |
| Category update (`finance/category_update.py`) | an execution row, without a client token | read, compare, update one field, read back | a lost update cannot be replayed | never a second write over another edit |
| Duplicate gate (`finance/duplicate_check.py`, `submit_expense`, `finance/income_write.py`) | pending decisions, each bound to a fingerprint and a candidate set | raise, override, expire | a retry that meets the row its first try wrote; a decision spent just before a crash or used twice | nothing is written over a duplicate unasked; a retry is not taken for one |
| Calendar mirror (`calendar/ingest.py`) | mirrored events with versions, a watermark and a rebuild epoch per device | merge a batch, sweep a window, rebuild | batches late, repeated and out of order | older testimony never revives or removes |
| Schema and config freeze, policies, parsing, queries | none of their own | checks and mappings | - | unit-testable functions |
| Feishu connector (`feishu/`) | a token cache, a rate limiter | create, read, update, list | what the callers above observe of it | - |

### Agent (`src/personal_agent`)

| Component | State | Operations | Hard behaviour | What makes it correct |
|---|---|---|---|---|
| Operations (`api/operation_store.py`, `operation_state.py`, `recovery.py`, `finance_dispatcher.py`, turns in `orchestrator.py`) | one operation per `(device, client_request_id)`: state, age, record; the frozen plan of a message with several actions | open, transition, freeze a plan, one call to Finance, `request_cancel`, device reports, scan and sweep | a cancel racing the submit; recovery reading Finance while a live turn goes on; a turn that dies inside a plan | what the user is told of a write is true; Finance is called once; a plan is whole before it leaves; nothing stays in progress |
| Run store (`runtime/`) | runs with a lease and a fence, budgets, sealed evidence | lease, reserve, finish, recover, sweep | a provider call outlasting its lease | a stale holder changes nothing; budgets are never exceeded |
| Sessions and compaction (`context/`) | sessions of a timeline, their open operations | route a message, close, compact | an operation that opens while a session closes | an open operation pins its session |
| Media store (`media/`, `api/chat_anchor.py`, `api/media_read.py`) | a row per image and one per upload attempt; staged and final files; a stripe lock; the deletion manifest | start, receive, complete, anchor, read, delete; clean up and reap | a death between a commit and its bytes, or a link and its commit; a DELETE without the lock beside a reader or a writer | a row that promises bytes has them; a deleted image leaves nothing; none is left half-way |
| HTTP API, orchestrator, auth, backup | the above | routing | - | - |

### DAL (`src/personal_agent_dal`)

| Component | State | Operations | Hard behaviour | What makes it correct |
|---|---|---|---|---|
| Job queue and worker (`worker/queue.py`, `poll_once.py`, `remote.py`, endpoints of `service/app.py`) | jobs with a lease owner and an epoch, result receipts, checkpoints here and with the worker | enqueue, claim, mark running, heartbeat, checkpoint, reclaim, finish, cancel | a late result after a reclaim; a result reported twice; an answer that is lost | the first result stands; an older lease changes nothing; every job ends |
| Provider executions (`machine/provider_execution.py` and around it, `worker/runtime_inventory.py`, `provider_runtime.py`) | an execution gate per feature; attempts, leases, launch manifests, evidence; the worker's inventory and its processes | prepare, start, claim, acknowledge, dispatch, launch, submit, judge, control, reclaim, recover, approve, replace | a supervisor that dies over its process; a dispatch or a result that is lost; a recovery that probes while a result comes in | one process at a time; no gate left open; nothing known is forgotten or refused-then-accepted |
| GitHub effects (`github/adapter_controller.py`, `executor.py`, `reconciliation.py`, edges of `machine/engine.py`) | effects with a version, a dispatch marker and a claim; confirmation receipts; the parked feature | wake, claim, dispatch, close, confirm, sweep, read back, resume | death after the marker; a confirmation racing a sweep; a read-back of what others changed | fired at most once; `not executed` is true; no dispatch stays parked |
| Commit capability (`machine/commit_capability_store.py`) | one-time capabilities | issue, consume | a capability presented twice | consumed at most once |
| Transition engine, review loop, timeline (`machine/`, `timeline/`) | entities, driver steps, gates | guarded compare-and-swap, reserve, dispatch, accept | an interrupted attempt must be reconciled, not replaced | a step is dispatched once |

The risk monitor, the spike evaluations, the iOS client, the deployment files
and the core library hold no concurrent protocol of their own. `PROJECT.json`
lists every component with its status, and every hazard with its line and the
properties that watch it.

## 2. The modules and the code

| Module | Models | Role |
|---|---|---|
| `ExecutionStore` | `storage/state_machine.py`, the row operations of `storage/execution_store.py` | pure operators: what one transaction makes of one row |
| `GovernedWrite` | `execute_governed_write`, `reconcile_write`, the recovery scans, the source and the network | the composed protocol; EXTENDS `ExecutionStore` |
| `LedgerWrite` | what a governed write promises | the abstract specification; `GovernedWrite` and `AgentOperation` instantiate it as `Promise` |
| `FamilyFund` | `update_family_fund`, its recovery, the resource lock, people at the ledger | a protocol on top of a governed write |
| `DuplicateGate` | `duplicate_check.py` and its two callers | what comes before `Prepare`; the write behind it is abstract |
| `AgentOperation` | the operation table, turns, frozen plans, the call to Finance, the scan, the sweep, phone reports, cancels | the Agent over a Finance that does what `GovernedWrite` shows of it |
| `JobQueue` | `worker/queue.py`, the poll cycle over either transport | queue, workers and the network between them |
| `ProviderAuthority` | the service's tables of provider executions and the steps it takes by itself | operators and actions, extended by the next |
| `ProviderExecution` | the worker's inventory, supervisor and process, composed with the authority | EXTENDS `ProviderAuthority` |
| `ExternalEffect` | the life of a GitHub write | composers, sweeps, GitHub, people |
| `MediaLifecycle` | the upload state machine, its endpoints, an image's use by a message, the cleanup | rows, files and locks of the media store |
| `GovernedWriteProofs`, `FamilyFundProofs`, `DuplicateGateProofs`, `AgentOperationProofs`, `JobQueueProofs`, `ProviderExecutionProofs`, `ExternalEffectProofs`, `MediaProofs` | - | theorems about the module each is named for |
| `MCGovernedWrite`, `MCFamilyFund`, `MCAgentOperation`, `MCJobQueue`, `MCProviderExecution` | - | instances for TLC |
| `MCFinance`, `MCDal`, `MCAgent` | - | two protocols that share no state on one instance: `part`, chosen in the first state, says which of them runs; each EXTENDS both, which is why the second of each pair (`DuplicateGate`, `ExternalEffect`, `MediaLifecycle`) names its definitions apart (`GateNext`, `EffectNext`, `MediaNext`) |

### Granularity

One action is one stretch of code between two awaits. A `with sessions()` block
is one transaction, hence one step; a request to the source is a step, its
processing another, the handling of its answer a third. Calls and workers
interleave freely, as they do in two processes of the service
(`storage/execution_store.py:4`: "two workers can be alive at once after a
restart") and, between awaits, in one. In the DAL a request to the service is one
transaction, hence one step, and its loss, its late arrival and the loss of its
answer are steps of the network.

### State

| TLA+ | Code |
|---|---|
| `exec[k]` | the `tool_executions` row of key `k`: `state`, `state_version`, fingerprint (`body`), `client_token`, whether the sealed payload is there and bound to the running config (`payload`), `recovery_lease_owner` |
| `exec[k].submitted`, `.leased` | time, as the facts the code asks of it: `submitted_at` is absent, within `DEADLINE_SECONDS`, or before that; `recovery_lease_until` is ahead or not |
| `receipt[k]` | the `external_receipts` row of the key |
| `call[c]`, `worker[r]` | the local variables a coroutine carries across an await, and where it is |
| `sent`, `answer`, `ledger` | create requests on their way, responses on their way back, rows of the Bitable |
| `lock`, `balance`, `landed`, `handRows` (`FamilyFund`) | the `resource_locks` row of the year; the running total; the row of each key and the total it was added to; rows typed in by a person |
| `op[o]`, `frozen` (`AgentOperation`) | the `operations` row (state, record, and how long ago it moved: fresh, past the quiet period, past the sweep's limit); whether the plan's rows are on disk |
| `turn[m]`, `scan` | the one task of a message and what it carries; what the recovery scan has read of Finance and not yet applied |
| `finance[o]`, `phone[o]` | the key's execution and the call to it; what the phone did with an action |
| `job[j]`, `receipt[j]`, `point[j][n]` (`JobQueue`) | `worker_jobs`, `worker_result_receipts`, `worker_checkpoints`; `live` is a lease that has not run out |
| `file[w][j]`, `worker[w]`, `late` | the worker's own checkpoint file; its poll cycle; requests whose sender gave up |
| `gate`, `active`, `attempt`, `lease`, `manifest`, `isolation`, `approval` (`ProviderAuthority`) | the tables of these names in `machine/provider_execution.py` and around it |
| `rt[w][i]`, `held`, `proc[w][i]` (`ProviderExecution`) | the worker's runtime inventory, the supervisor's lock on a row, the process itself |
| `effect[e]`, `receipt[e]`, `parked` (`ExternalEffect`) | `external_effects` with version and claim, `effect_confirm_receipts`, the feature at `reconciliation_required` |
| `composer`, `pass`, `remote[e]`, `verdicts` | what a request that wakes an effect carries, what a sweep carries, GitHub and the request on its way there, conclusive read-backs people have been told of |
| `check`, `execution[k]`, `rows`, `request` (`DuplicateGate`) | `duplicate_checks`; executions and how each was let in; matching rows of the ledger; the calls |
| `row[m]`, `attempt[m]`, `due[m]` (`MediaLifecycle`) | `media_objects` (state, current attempt), the current row of `media_attempts` with what was sealed, and whether the deadline or the retention of the present state has passed |
| `staging[m]`, `final[m]`, `lock[m]`, `entries` | the attempts with a file under `staging/`, the attempt whose file is the final one, the holder of the stripe, the images named in the deletion manifest |

A client token is named by the call that minted it, and a record by its token,
because the source creates at most one record per token. Two bodies are equal
when their fingerprints are.

### Actions

`GovernedWrite`, for a call: `Prepare`, `Submit`, `SendCreate`, `RecordCreated` or
`CreateUnknown`, `ReadBack`, `CommitSuccess` or `CommitMismatch` are the numbered
steps of `execute_governed_write`; `Cancel` is its cancellation at an await. For a
worker: `AcquireLease`, then `Drive` (the snapshot and the branch `_drive` takes on
it), then `SubmitPrepared`, `PromoteSubmitting`, `ResumeUnknown`, `ReplayCreate`,
`RecordReplayed`, `Reread`, `RecoveryReadBack`, `RecoverySuccess`, or
`FailUnrecoverable` and `ToManualReview`, and `ReleaseLease`. The environment
processes, drops or answers requests, lets leases and deadlines pass, kills the
process (`Crash`), and brings it back with another ledger config (`Reconfigure`).
A compare-and-swap that loses raises in the code; in the model the call ends with
outcome `stale`, a worker goes on to the release of its lease.

`FamilyFund` keeps the same protocol under the lock in fewer steps, because
`GovernedWrite` already interleaves the rest, and adds what is its own: the
pre-check, the lock and the second look, the balance that is read and may change,
the renewal before the write, and the verification against the planned balance.
Where `overlap` is true every actor has a process of its own; where it is false all
share one, whose event loop runs nobody else between two awaits (`Runs`). `Overlaps`
says which of the two an instance contains.

`DuplicateGate` has one action per step of a tool call: `Look` (is this key already
started?), `ReadLedger`, the three ways through or out of the gate (`PassUnasked`,
`PassReleased` for a decision that is spent, `RaiseCheck`), then `RefuseWrite` or
`StartWrite`. Which of the two reads comes first is what tells the tools apart. People
add and take out rows, rows land late, checks lapse, calls die.

`AgentOperation`: `Receive` anchors a message, `StartTurn` and `Interpret` begin it,
`Decide` takes one of the model's verdicts. A Finance write goes on with `BeginCommit`,
`Call`, `Hear` or `GiveUpWaiting`, `Settle`, `BeginVerifying` and `RecordReceipt`; a plan
with `Freeze` (every row of the plan in one transaction) and `IssueItem` for each.
`ScanBegin`, `ScanRead` (or `ScanUnread`), `ScanApply` and `Sweep` are one recovery pass:
it plans from what it read before the network and walks (`Walk`) from what it finds
then. `Report`, `Cancel`, `TurnFails`, `ProcessDies` and Finance's own steps interleave
with all of it.

`JobQueue`: `Poll` (which reclaims), `ClaimOldest`, `ReadLease`, `Start`, `Guard`,
`RunStage`, `Upload` and `Submit` are a poll cycle; `Finish`, `Register` and `Fenced` are
the transactions behind the endpoints, so that a late request (`Arrive`) and a repeated
one (`SubmitAgain`) meet exactly the fence a prompt one meets. `deployed` chooses between
HTTP with checkpoints per stage and the database with one run.

`ProviderExecution`: the authority prepares and starts an attempt, a worker claims its
job, adopts it, acknowledges a manifest, is granted the dispatch (or refused, or not
answered, or granted late), registers, spawns, collects and submits; the authority
parks and then judges the result. `Control`, `CancelJob`, lapsing leases, `Reclaim`,
`BeginRecovery`/`FinishRecovery`, `Approve`/`Revoke`/`Resume` and the worker's restart
(`ReconcileUnstarted`, `ReconcileStarted`, `Isolate`) interleave with it.

`ExternalEffect`: `Wake`, `ClaimEffect`, `DispatchEffect` (the marker), `Send` or `NotSent`, `Hear`,
then `CloseNotExecuted`, `CloseUnknown` with `StopFeature`, or `Confirm`. A pass of the
sweep takes an expired dispatch (`Expire`, `ParkFeature`), a lapsed reconciliation
(`ReclaimClaim`) or an unknown effect (`StartReconciliation`, `ReadBack`,
`JudgeReadBack`, `StillUnknown`). `ResumeEffect` is a person who acts on a verdict. Every edge
is a compare-and-swap on the version read in an earlier step, and what loses it goes
on as the code does.

`MediaLifecycle`: `StartUpload`; a PUT from `ReceiveArrives` through `ReceiveClaims` (or the
take-over of a lapsed claim, `ReceiveAbandons`, `ReceiveDiscards`, `ReceiveTakesOver`) to
`ReceiveWrites` and `ReceiveSeals`, one step per commit and per file; a publication that
links (`CompleteLinks`, or `CompleteAdopts` what an earlier one linked), unlinks and
commits; `AnchorImage`, `ReadChecks` and `ReadServes`; `Delete`, which takes no lock. A cleanup
pass selects, decides under the lock, and reaps: it commits its authority, takes the lock
anew, removes the files one by one and commits. `Lapse` lets a deadline pass, `Crash` ends
a process and with it its locks. The clock is read before the lock is taken (`sees`).

## 3. The runs

| Run | Instance | Question | Answer |
|---|---|---|---|
| `governed_safety` | 1 key, 2 bodies, 2 calls, 1 worker, 1 crash, 1 reconfiguration | all safety properties, the invariant the proofs use, and does the protocol implement `LedgerWrite`? | hold; yes |
| `governed_settles` | 1 call, 2 workers, 1 crash, fair | is every write settled while workers race over it and die? | yes |
| `governed_reconfigured` | 1 call, 1 worker, 1 crash, 1 reconfiguration, fair | also when the config changes? | no, see section 5 |
| `finance_overlap` | fund: 2 keys (a reconcile to 3, a top-up of 2), 2 calls, 1 worker, 1 row by hand, in one process or overlapping; gate: 3 keys, 3 calls, 2 checks, 1 row by hand, either tool | one open recharge; success on the planned balance; a mismatch real in one process; no retry stopped by its own row; nothing repeated unasked | hold |
| `fund_handover` | the fund, processes overlap | is a mismatch always real? | no, see section 5 |
| `agent_turns` | a Finance write or a plan of two phone actions, 2 faults, 2 cancels, fair | is what the user is told true, the receipt real, the plan whole; is Finance called once; does everything settle; is the promise of a governed write kept? | yes |
| | or 1 image, 2 threads with 3 locked calls, 1 cleanup, 1 death, fair | are the bytes a row promises there, also for a reader; does a deleted image leave nothing; does every image settle? | yes |
| `agent_stranded` | one write, no fault or cancel in the Agent | does `failed_safe` stay true? | no, see section 5 |
| `jobqueue_lease` | 1 job, 2 workers, 2 attempts; over HTTP with 2 stages, or on the database in one run; 1 death, 1 lost message, fair | the first result stands, an older lease changes nothing, every job ends | hold |
| `jobqueue_registered` | 2 workers over HTTP, 3 attempts | is the last checkpoint of an accepted result registered? | no, see section 5 |
| `provider_replaced` | an attempt and its replacement, 2 workers, 1 supervisor death, 1 recovery | one process; no gate left open; nothing refused accepted later; nothing known forgotten | hold |
| `provider_two_features` | two attempts of two features, 1 worker, no crash | does an unresolved execution block the other? | no, see section 5 |
| `dal_settles` | one attempt, 2 workers, 2 claims, 1 death, fair; one GitHub write, 2 composers, 1 sweep, 2 deaths, fair | who launches, what is reported, whether a grant ends; fired once, truth of `not executed`, the race of receipt and sweep, no dispatch parked for ever | hold |

The properties, each stated with the code it is about where it is defined:

- `AtMostOneRecord`: a key has at most one ledger row, and it is the request the key
  was first bound to.
- `SucceededIsProven`: `succeeded` comes with a verified receipt that names a row
  holding exactly what was asked.
- `FailedSafeIsSafe`: while an execution says nothing was sent, no row exists and
  none is on its way.
- `ToldIsTrue` (`GovernedWrite`): `created` and `idempotent_replay` are said only of the
  caller's own request, and only when it succeeded.
- `SettledIsFinal` (action property): losers of a race change nothing of a settled
  execution, and a receipt never comes to name another row.
- `ImplementsPromise`, `KeepsPromise` (refinement): the governed write, and the Agent in
  front of it, are `LedgerWrite`.
- `EveryWriteSettles`, `EveryOperationSettles`, `EveryJobSettles`, `EveryGrantEnds`,
  `NoParkRots`, `EveryImageSettles` (liveness): a write, an operation, a job, the authority
  of an attempt, a dispatched GitHub write and an uploaded image each come to an end.
- `OneOpenRecharge`, `SuccessLandedOnPlan`, `MismatchIsRealInOneProcess`: as in the table.
- `NoSelfDuplicate`, `AskedBeforeRepeating`: a check never shows the row of the key it was
  raised for; a row that was there when the request came was on the card of the decision
  that let it through, and that decision let in nothing else.
- `ClaimsAreTrue`, `ReceiptIsReal`, `CalledOnce`, `PlanIsWhole`: what the Agent says of a
  write is true then and later (except in the case of `agent_stranded`); a plan has all
  its rows before any of it leaves.
- `ReceiptIsTheResult`, `EpochsCountExecutions`, `ToldIsTrue` (`JobQueue`),
  `LateWritesChangeNothing`: a receipt and a finished job are one fact; a job runs at
  most `max_attempts` times; `accepted`, `conflict` and `cancelled` are true; an ended
  job and a registered checkpoint stay.
- `OneProcess`, `OpenForOne`, `RefusedIsFinal`, `KnownIsKept`, `LaunchedByGrant`,
  `ReportAgrees`: one provider process per feature, no gate open without an attempt,
  evidence never restores authority, a result that arrived is not forgotten, only the
  granted worker launches, and every table says the same of a reported attempt.
- `FiredOnce`, `NotExecutedIsTrue`, `ReceiptKeepsThePark`: a GitHub write goes out once;
  what is closed as not executed left nothing; a confirmed park is never swept.
- `BytesBehindTheRow`, `DeletedHoldsNothing`: an image at `uploaded` or beyond has the file its
  attempt sealed, and a reader that found it usable gets that file; a deleted one has no
  file, and the manifest names no image that is in use.

The types of `ExecutionStore`'s rows, `FamilyFund`, `DuplicateGate`, `JobQueue`,
`ExternalEffect` and `MediaLifecycle` are proved (section 4) and are not repeated as
properties of runs.

Each property has in `PROJECT.json` a mutant, a plausible bug in one mapped
definition under which TLC finds the property violated. The `Mutant_` operators
stand beside the definitions they spoil and are used by nothing else.

### Bounds

- *One key* in `GovernedWrite`: no transaction reads a row of another key, and calls
  and workers of other keys cannot touch this one's token. The proofs are for any
  number of keys.
- *Two calls, two bodies*: enough for a retry, a conflicting reuse of the key, and a
  call that is slow while another finishes. One worker races both calls. Two
  workers at once, which race over lapsed leases, are in `governed_settles`.
- *One crash, one reconfiguration*: a call may moreover be cancelled at any await,
  which has the effect of the death of one of several processes, so a row changes
  hands more often than the counters say.
- *Amounts* in `FamilyFund`: from 1, the top-up and the hand row together can bring
  the balance just below, to or past the reconcile target of 3, so the runs see a
  reconcile that is needed, one that is not, and one whose premise has moved.
- `MaxHandRows = 1`: a single change of the balance under a recharge is enough to
  falsify its plan; hand rows only add (section 6).
- `DuplicateGate`: two keys (and a third of another scope) are what one decision could be
  spent on wrongly; three calls are a first try, its retry and somebody else's; two
  checks are one that is spent and one that is raised in the meantime.
- `AgentOperation`: two faults are one that strands an operation and one that hits the
  recovery of it; two cancels are one that is refused and one that is not, or a repeat.
  `Environments` keeps a Finance write and a plan apart, since messages share no row.
- `JobQueue`: two workers, two attempts and two stages: one lease that lapses under its
  holder and is claimed again, a checkpoint that is and one that is not the last. One
  death and one lost message; leases lapse at will. Jobs share nothing but the order
  of claims.
- `ProviderExecution`: `MaxClaims`, `Expiring` and `Recovered` bound how often a job may be
  queued again, which start receipts may lapse and which attempts the operator may
  recover. The replacement is explored with `MaxClaims = 1`, the second claim with one
  attempt.
- `ExternalEffect`: `MaxVersion = 7` stops read-backs of an effect that has been read back
  and returned twice; `MaxDeaths = 2` lets the recovery of a death die too. One effect:
  effects share only the parked feature and the one live reconciliation per feature,
  which the proofs treat for any number.
- `MediaLifecycle`: three locked calls are the upload, the publication and the read of one
  image, or two uploads of which one takes over; requests without the lock (start, oversized
  body, anchor, delete) are unbounded. One death interrupts any of them. One image, because
  images share only the two quotas and the stripe; the quotas are then one image's worth.

Symmetry permutes calls and workers, which occur only as identities; it is not used
where liveness is checked. Where two protocols stand in one run (`MCFinance`, `MCDal`,
`MCAgent`) each is explored in full and the other rests. `CHECK_DEADLOCK FALSE` is said in every run, because the
number of calls is finite: when all are done and everything is settled the system
rightly rests.

### Fairness

`FairSpec` assumes of the environment only what the code brings about or what time
does:

- `SF_vars(\E r : AcquireLease(r, k))` for each key. `server/composition.py` scans at
  start-up and every `RECOVERY_INTERVAL_SECONDS` for as long as the service runs, and
  tries the unfinished keys each time; at one attempt the key may be leased to
  another worker, so the attempt is possible again and again rather than always,
  which is why it is strong fairness. The scan takes the oldest 100 rows: fairness
  to a key needs fewer than that older unfinished ones.
- `WF_vars(WorkerStep(r))`: a worker that has a lease goes on, because each of its
  awaits is bounded by a request timeout.
- `WF_vars(LeaseLapses(k))`, `WF_vars(DeadlinePasses(k))`: clocks advance.

The other modules:

- `AgentOperation`: turns of a live process go on (`WF` of `StartTurn` or `TurnStep`),
  the scan returns every minute (`WF` of `Scanning`), Finance goes on with what it has
  begun, which is `EveryWriteSettles` of the module below, and time passes. No phone has
  to answer and nobody has to cancel.
- `JobQueue`: each worker goes on with its cycle, whose waits are all bounded by timeouts,
  and polls again; leases lapse. A refusal, a report that is sent again and every loss
  are possible and never required.
- `ProviderExecution`: leases lapse because nobody renews a policy lease, and any worker's
  poll reclaims. No worker has to do anything else.
- `ExternalEffect`: composers and passes go on, requests are answered or time out, claims
  lapse, and the timer's sweep comes to an expired dispatch in the end (strong fairness,
  because a pass may be busy elsewhere). No one has to wake an effect and no person has
  to act.
- `MediaLifecycle`: threads go on with what they began, the timer starts a cleanup every five
  minutes (`deploy/systemd/personal-agent-media-cleanup.timer`) which goes on and comes to
  each image it may remove, and deadlines pass. The cleanup only tries the lock; that it
  finds it free in the end rests on the number of calls being finite, that is, on clients
  that do not hold one image's stripe at every attempt of the timer.

Nothing is assumed of a tool call, which may hang for ever, nor of the source, which
may never answer. A scan refuses a row while the ledger's schema does not validate;
liveness is for a ledger whose schema does, in the end, stay valid.

## 4. The proofs

TLC checks one small instance; what follows TLAPS checks for every set of keys, calls,
workers, jobs, effects and so on, and for every bound.

| Module | Theorem | Says |
|---|---|---|
| `GovernedWriteProofs` | `TypeCorrect` | `Spec => []TypeOK` |
| | `AlwaysBound` | `Spec => [](TypeOK /\ Bound)` |
| | `OneRecordPerKey` | `Spec => []AtMostOneRecord` |
| | `SuccessIsProven` | `Spec => []SucceededIsProven` |
| | `NothingSentNothingWritten` | `Spec => []FailedSafeIsSafe` |
| | `CallersAreToldTheTruth` | `Spec => []ToldIsTrue` |
| | `FinalityHolds` | `Spec => SettledIsFinal` |
| | `PromiseKept` | `Spec => ImplementsPromise`: it implements `LedgerWrite` |
| `FamilyFundProofs` | `TypeCorrect` | `Spec => []TypeOK` |
| | `OneRechargeAtATime` | `Spec => []OneOpenRecharge` |
| | `SuccessIsOnPlan` | `Spec => []SuccessLandedOnPlan` |
| | `MismatchRealInOneProcess` | `Spec => []MismatchIsRealInOneProcess` |
| `DuplicateGateProofs` | `GateTypeCorrect` | `GateSpec => []GateTypeOK` |
| | `NoSelfDuplicateHolds` | `GateSpec => []NoSelfDuplicate` |
| | `AskedHolds` | `GateSpec => []AskedBeforeRepeating` |
| `AgentOperationProofs` | `TypeCorrect` | `Spec => []TypeOK` |
| | `ClaimsHold` | `Spec => []ClaimsAreTrue` |
| | `ReceiptsHold` | `Spec => []ReceiptIsReal` |
| | `CallsHold` | `Spec => []CalledOnce` |
| | `PlansHold` | `Spec => []PlanIsWhole` |
| | `EndsAreFinal` | `Spec => [][EndedIsFinal]_vars` |
| | `PromiseKept` | `Spec => KeepsPromise`: the Agent in front of Finance implements `LedgerWrite` |
| `JobQueueProofs` | `TypeCorrect` | `Spec => []TypeOK` |
| | `FirstResultStands` | `Spec => []ReceiptIsTheResult` |
| | `BudgetIsKept` | `Spec => []EpochsCountExecutions` |
| | `ReportsAreTrue` | `Spec => []ToldIsTrue` |
| | `LateWorkersChangeNothing` | `Spec => LateWritesChangeNothing` |
| `ProviderExecutionProofs` | `TypeCorrect` | `Spec => []TypeOK` |
| | `OneProcessHolds` | `Spec => []OneProcess` |
| | `GrantsHold` | `Spec => []LaunchedByGrant` |
| | `OpenHolds` | `Spec => []OpenForOne` |
| | `RefusedHolds` | `Spec => []RefusedIsFinal` |
| | `ReportsHold` | `Spec => []ReportAgrees` |
| | `KnownHolds` | `Spec => KnownIsKept` |
| `ExternalEffectProofs` | `TypeCorrect` | `EffectSpec => []EffectTypeOK` |
| | `FiredAtMostOnce` | `EffectSpec => []FiredOnce` |
| | `ConfirmedParkKept` | `EffectSpec => []ReceiptKeepsThePark` |
| | `NotExecutedTrue` | `EffectSpec => []NotExecutedIsTrue` |
| `MediaProofs` | `TypeCorrect` | `MediaSpec => []MediaTypeOK` |
| | `BytesAreThere` | `MediaSpec => []BytesBehindTheRow` |
| | `NothingIsLeft` | `MediaSpec => []DeletedHoldsNothing` |

*Assumptions.* Each module names its own (`StoreAssumption`, `GovernedAssumption`,
`FundAssumption`, `GateAssumption`, `AgentOperationAssumption`, `JobQueueAssumption`,
`AuthorityAssumption`, `ExternalEffectAssumption`, `MediaAssumption`): null values are none
of the proper ones, actors of two kinds are disjoint, bounds are numbers, the fund has a
key, a plan names each of its actions once. TLC evaluates them on every run. That the ledger honours a client token, and that
GitHub applies a request before it times out or never, are no assumptions but parts of
the models of these two (`SourceCreates`, `ClaimLapses`), external to the code.

### The governed write

None of the safety properties is inductive. That a key has one record,
for instance, depends on what is on the wire, on what every call and worker still
carries, and on the answers that are on their way back. `Bound` says of all of them
that they belong to the row they were made for: `TokenBound` (a token was minted for
one key), `RequestBound` (what is on the wire carries the row's own token and payload,
and the row already admits it), `LedgerBound`, `ReceiptBound`, `CallBound`,
`WorkerBound`. TLC checks `Bound` in `governed_safety` with the rest.

Most of `Bound` survives most steps for one reason: a step only adds to what is
durable. `Persist` says so (a row keeps its token and body, and once something may have
been sent that stays so; a created ledger row does not change; a call that has started
keeps its key). `FramedKeepsBound` derives that each part of `Bound` whose own variables
are not touched is preserved, so the lemma of an action is left with the parts it
disturbs: `SendCreateBound` with the new request, `RecordCreatedBound` with the new
receipt, and so on. `FinalityHolds` is an action property proved from `Bound` along
the same cases: a winner of a compare-and-swap starts from a state that has
successors, which the terminal ones have not.

That `GovernedWrite` implements `LedgerWrite` is proved under the refinement mapping of
`Promise`: `Wanted`, `Outcome`, `Landed` and `Told` are read off the rows, the ledger and
the answers. `PromiseCall`, `PromiseWorker`, `PromiseLand` and `PromiseEnvironment` classify
every step by what it is to the promise. Preparing binds a key; a row that lands is the
one row of its key (`Bound`), so the abstract `Land` is enabled; a move that stays open is
invisible (`MoveOpen`), one that settles is `Settle`, whose guard is the proof that
`Bound` has put behind every verdict (`MoveSettles`); a call that ends with an answer is
`Tell`, which speaks of a set of keys because one scan of the Agent may tell of several.
One thing beyond `Bound` is needed, `AbsentIsEmpty`: a row that was never
prepared is bound to nothing.

### The family fund

The lock may lapse under whoever holds it, so `OneOpenRecharge` cannot rest on the lock
alone. What carries it is the renewal in the same step as the write: only a call that
still holds the lock prepares, and by `AloneInv` a call that holds it between its look
and its write is alone. `AloneInv` in turn survives another key's write, because that
writer would have to hold the same lock.

`SuccessLandedOnPlan` is about an arithmetic fact: a row that landed is the row that was
planned. The balance never falls and a row lands on the balance of the moment, so
whoever verifies that the balance now is the balance it read plus its own credit knows
that nothing came between. `LandedSince` and `Matches` say this, `ExecInv`, `CallInv` and
`WorkerInv` keep it for whatever carries a plan over an await. The proof classifies the
steps on each variable once (`NextExec`, `NextCalls`, `NextWorkers`, `NextWire`, `NextSource`, `NextLock`),
and each part of the invariant is proved from these classes rather than action by action.

`MismatchRealInOneProcess` needs `SoloInv` on top: between the first look at its own key
and its write a call of a single process is alone with that key, because it either has not
awaited anything or holds the lock. Where processes overlap `SoloInv` is void, and
`fund_handover` is the reason.

### The duplicate gate

`AskedBeforeRepeating` is about a row from the arrival of a request to the write it
leads to. `RequestInv` follows it: what was there at the arrival is in the ledger or was
taken out by a person, then in what the call read, then on the card of the decision it
spends, whose scope is the call's own. `SpentOnce` keeps two calls, or a call and an
execution, from holding one decision. `NoSelfDuplicate` rests on `RowsBegun` and on the
order of the two reads: what a call has read of its own key comes with a started
execution, and the expense tool asks for that afterwards. For the income tool,
which asks first, the theorem says nothing and TLC has the counterexample.

### Agent operations

`IInv` treats each write apart and the plan as a whole. For a write, `FinanceInv`
relates the one call, its answer and the execution; `StateInv` says what each state of the
operation claims about Finance; `TurnInv` says what a turn carries from one await to the
next; `LeftInv` says that a row recovery may take has no turn and no call in flight;
and `ReadInv` says what becomes of the scan's reading by the time it is applied: still
so, or the row has moved to where a cancel alone can have taken it. For the plan,
`PlanInv` holds the turn's list to what is on disk and `DeviceInv` each row to what the
phone was given. `ClaimsHold`, `ReceiptsHold`, `CallsHold` and `PlansHold` follow from
it. Its premise in the claims, an environment that does not strand an execution at
`prepared`, is the finding `agent_stranded` and part of the property.

`RowStep` says of every step what it may do to a row, along the table of moves; with
`Closed` (a receipt comes with `succeeded`) it gives `EndsAreFinal`. `PromiseKept` reads
Finance's executions as the abstract write and what the Agent says as what is told.

### Provider executions

A worker and the authority agree only through requests whose answers may be lost, so
no table mirrors another. What holds is a chain. `RowInv`: a process has a row, a
stopped row has no process, a known result has a process that is over. `AttemptInv`
lists the combinations of an attempt and its job. `OwnerInv`: what the authority holds
about an attempt is what its owner's row says, isolation is signed only for a stopped
row, and an attempt that was granted and is no longer the active one of its feature is
over. `ActiveInv` names that active attempt. `OneProcess` follows: a running process has a
row that is not over, so its attempt is active, so there is one per feature, and it has
one owner. `OpenForOne` and `RefusedIsFinal` are inductive only together with the rest
and are conjuncts of `IInv`.

### The job queue

Every step does one of three things to a job's row (`RowStep`): it leaves it as it is
as far as results go (`RowKept`), it moves it between waiting and leased (`RowMoved`), or
it finishes it with a receipt (`RowFinished`). From these `ReceiptInv` (a receipt and a
finished row are one fact, of one verdict) and `EpochInv` (the epoch is the number of
claims, which the state of the row pins to the attempts) are inductive for each job by
itself. What a worker believes depends on both: `ToldInv` says for each answer it has
been given what the tables hold, and survives because receipts and cancellations stay.
`CycleInv` and `LateInv` bind what the cycles and the network carry to proper results, so
that a late request is judged like a prompt one.

### External effects

The three properties rest on each other. `FireInv`: as long as a row is at a state
before its dispatch nobody is at the call, and who is at the call is alone there. Two
composers may carry the same claim; what parts them is that the compare-and-swap leaves
the state of the claim. `ParkInv` relates each carried version to the version of the row:
never ahead of it, and behind it as soon as a confirmation receipt exists, for everyone
who could still close the dispatch. A sweep that found the effect expired therefore loses
to a confirmation it did not see.

`NotExecutedIsTrue` needs the whole of `TrueInv`: `RemoteInv` says of every state of the row
what GitHub and the wire may hold, `CallInv` of the composer what its judgement is worth
(a verdict of absence means the request is gone and was handled), `SweepInv` of the sweep
the same for its read-back. Its one environmental premise is in `ClaimLapses`: the claim
outlives the call made under it (section 6).

### The media store

`RowInv` says of each state of a row which file is behind it. It is kept by steps that take
several commits, while `DELETE`, an oversized body and the cleanup's mark change the row
without the lock, so the invariant has two more parts. `Locked`: whoever is at a step under
the stripe holds it, hence nobody else touches the files. `CallInv`: what a caller has found
survives all that may be done to its row without the lock. That is the split of the proof:
`Apart` collects what may happen to an image whose stripe another holds (its files, its
number and its seal stay, its state may only be withdrawn), `Absorbing` what may happen to
one that is being removed, `OthersStep` draws the conclusion for all who only look on, and
`OwnStep` and `RowsStep` treat each action for its own caller and its own row. A reader is
safe from a reaper because the reaper takes the stripe again after its mark; a writer that
was overtaken cannot bring bytes back because `deleted` is reached under the stripe only.

### What only TLC checks

Liveness under fairness, which needs ENABLED and is out of the prover's reach:
`EveryWriteSettles`, `EveryJobSettles`, `EveryOperationSettles`, `EveryGrantEnds`,
`NoParkRots`, `EveryImageSettles`. Every safety property and both refinements that a
passing run checks are theorems. Of the violations in section 5 there is nothing to
prove; the counterexamples are TLC's.

## 5. What the checks found

**A write can stay at `submitting` for ever** (`governed_reconfigured`). Recovery gives
a write up to a person when its payload is missing or not bound to the running config
(`finance/reconciler.py:418-426`, `445-453`). It does so from whatever state the row is
in, but `ALLOWED_TRANSITIONS` (`storage/state_machine.py:46-48`) has no step from
`submitting` to `needs_manual_review`: the transition raises, the scan swallows it, and
every later scan does the same, though `reconcile_write` promises to take a write "to a
terminal state". The trace: a call submits, its process dies, the service comes back
with a new ledger config. From the code, the same happens to a category update that dies at
`submitting`, whose payload is never sealed, and an unfinished family-fund write blocks
the later ones of its year (`_refuse_unfinished_family_fund`).

**A mismatch can be reported of a recharge that succeeded** (`fund_handover`). While two
processes overlap, a second call of a key can pass the pre-check before the first
prepares, and take the lock after it succeeded. The second look under the lock
considers only other keys; the governed write then answers with a replay that has no
stored fields, and the caller is told `SOURCE_COMMITTED_MISMATCH`. Nothing is written
twice. In a single process it cannot happen (`MismatchIsRealInOneProcess`):
nothing is awaited between the pre-check and the lock.

**A `failed_safe` operation can still write** (`agent_stranded`). When the call to Finance
fails, the Agent reads the key's execution and takes `prepared` as proof that nothing was
written (`api/recovery.py:126-155`). It proves that only of the moment: Finance's own
recovery submits what it finds at `prepared` (`finance/reconciler.py:459`), and the row of
an operation the user was told of as `failed_safe` appears.

**A result is accepted whose checkpoint the authority never saw** (`jobqueue_registered`).
The remote transport writes its local file before it uploads, and a retry resumes after
the stages that file covers (`worker/poll_once.py:890`), so a checkpoint whose upload
failed is never uploaded again; `worker/remote.py:632` says a rejected upload is a failure
for this very reason.

**An unresolved execution does not block the worker** (`provider_two_features`). The check
before a launch looks for rows at `starting`, `running` and `unknown`
(`worker/runtime_inventory.py:82`), and an execution whose process could not be proven
stopped ends at `result_ready`. The next attempt is launched beside it, against "One
unresolved execution blocks every other launch on this Worker".

Met while modelling, and visible in the models though no run is about them:

- The income tool asks whether its key has started before it awaits the ledger
  (`finance/income_write.py:197-205`), the expense tool after it, for the reason given in
  `finance/write_path.py:502-507`. TLC refutes `NoSelfDuplicateOfEither` accordingly: a
  retry of an income can be stopped by its own row. The Agent calls a key once
  (`CalledOnce`), so only another client meets it.
- Two keys of the same purchase may both pass the duplicate gate before either writes,
  and a decision spent just before a refusal or a death is lost; nothing in the code
  says otherwise.
- `_push_readback` (`github/adapter.py:588-593`) reports a token that could not be minted
  anew as `pre_write` although the ref has landed, and the effect is closed as not
  executed. `NotExecutedIsTrue` excepts this case; `NotExecutedIsProven`, without the
  exception, does not hold.
- A composer that dies between the edge to `unknown` and the stop of its feature leaves
  an unparked feature that no later step parks, where `github/executor.py:903` says it is
  parked already. An effect whose claim lapses at `claimed` is not dispatched by a second
  wake, though `executor.py:23-26` describes one. A branch deleted after it landed reads
  back as absent.
- A runtime row made `unknown` before its process is registered never becomes provably
  stopped, and blocks its worker's later launches.
- An operation left at `interpreting` by a death between two commits is out of reach of
  recovery, and only a cancel by the user ends it. The Agent's recovery ends an operation
  as `needs_manual_review` when it finds Finance at `prepared` after a submit, though
  Finance may go on to succeed. A hop the table refuses aborts the whole scan and skips
  its sweep; a cancel or a detach touches `updated_at` and so puts recovery off.
- A resumed plan is issued only if a request that anchored at `accepted` starts its task
  after the first one died: the route answers every other repeat with a replay.
- A PUT with more bytes than were declared rejects the image in whatever state it is
  (`media/uploads.py:457-461`, `media/lifecycle.py:589`), also when it is published and used by
  a message; the cleanup then removes it, and, because `rejected` counts among the states
  "whose objects never had persisted bytes" (`media/deletion.py:59`), writes no manifest
  entry that would keep a restore from bringing it back. In the model `ReceiveOversize` at
  `bound`, then `CleanupDecides` without an entry.
- `recover_unfinished` takes the oldest 100 rows (`server/composition.py:88`), so that many
  stuck ones starve the rest. A category update seals no payload, so one that dies at
  `submitting` is such a row.

## 6. What is left out

In `GovernedWrite`:

- the `require_validated_source` gate and its schema-drift event: it refuses before it
  changes any execution;
- audit events, logs, and the texts of errors; `fault_breakpoint` hooks, except that a
  call may be cancelled where they await;
- the three read-back attempts are one that may fail; the adapter's own retries are
  requests the source may see late or twice, which a token makes one record;
- the dispatch by tool and table kind, which selects mappings and not steps;
- `renew_recovery_lease` and `resume_after_restart`, which only tests call.

In `FamilyFund`:

- amounts are what a row adds to the balance; the halving of a reconcile in exact
  decimals, its conversion to a float and the ledger's doubling are not modelled;
- a lost compare-and-swap is told by the state alone, the worker's transactions before
  its replay are one step, and the 30 s recovery lease inside the 120 s lock is left
  out: while the lock holds nobody else can want it, and when it is over so is the lease;
- rows by hand only add: a row and its opposite, both inside one recharge, would leave
  the verified balance right although it never was in between;
- the lock carries no fencing token. Its renewal and `prepare_execution` are adjacent
  without an await, and the model takes them as one step: a process suspended exactly
  there for the length of the lock is outside it;
- a change of the ledger config, which `GovernedWrite` has.

In `DuplicateGate`: the search for a match is given (all requests are the same purchase),
the year's scan is one step, and the write behind the gate only starts and lands;
`dismiss` and `expire_stale` have no callers outside the tests.

In `AgentOperation`:

- the second runtime with its run leases and submission guards; operations opened by a
  duplicate or calendar decision; a device action outside a plan;
- streams, history, prompts, and the model's choice, which is any of its verdicts;
- *assumed*: a live turn moves its row within the quiet period, and a call that was sent
  reaches Finance within it (`RECOVERY_QUIET_PERIOD` is the transport's read timeout and
  30 s, `api/recovery.py:45-61`); a message has one task in one process.

In `JobQueue`: what a stage does, sandboxing, enrolment, tokens and rate limits; the
contents behind a digest. Provider jobs are in `ProviderExecution`.

In `ProviderExecution`: fences and feature versions beyond those of the gate, digests of
snapshots and inputs, the boot identity across a reboot, and the kill switch as a state
of its own. What the provider process does is not modelled; that it may survive its
supervisor is.

In `ExternalEffect`:

- the capability epoch, the kill switch, owner roots, re-arming, effects owned by
  recovery cases; the replay fence of lifecycle receipts, which the engine keeps under a
  key of its own (`machine/engine.py:1460`) and behind which the version is the fence;
- a push is one call, though it creates, probes and patches;
- *assumed*: from the marker to the answer takes less than the claim's fifteen minutes
  (requests time out at 20 s), and GitHub applies a request by the time it times out or
  never.

In `MediaLifecycle`:

- bodies that are too short, which change nothing; digests and headers beyond whether they
  match the declaration; encryption;
- files that go missing or are damaged on the disk, and the quarantine made for them; the
  state `expired`, which no code sets; the replay of the manifest by a restore;
- the bindings of an image to messages and its reuse by a later one; a stripe shared by
  two images, whose only effect is more refusals and deferrals.

Hazards without a property are two: an update without a token
(`finance/category_update.py:297`) and calendar batches out of order
(`calendar/ingest.py:459`). The one-time capability (`machine/commit_capability_store.py`) is
called only by tests so far.
The exact Decimal half of a reconcile, sent as a float (`finance/family_fund.py:369`), is a
question about number formats that amounts in this model do not ask.

Components without a module, and why, are in `PROJECT.json`; the plan names the next.

## 7. Plan

The order is by what an error would cost: money first, then what the Agent says about
it, then the development plane.

Done: `ExecutionStore`, `LedgerWrite`, `GovernedWrite`, `FamilyFund` and `DuplicateGate`;
`AgentOperation` over `LedgerWrite`; `JobQueue`, `ProviderAuthority` with
`ProviderExecution`, `ExternalEffect`, and `MediaLifecycle`; proofs about all of them (section 4).

1. `CategoryUpdate` on `ExecutionStore`: an update without a token, told from a lost one by
   reading the record before and after.
2. `CalendarMirror`: batches, watermark, sweep and rebuild barrier, against the
   definition "the newest testimony about each event".
3. `CommitCapability`: consumption and its receipt, once the product calls it.
4. `AuditChain`, run leases, sessions; the gates of the review loop as operators
   compared with a reference definition over bounded histories.

Runs as above: the smallest instance in which two actors of each kind can meet, one
crash, and one lost or late message of each kind; each module is written without
`RECURSIVE` so that it can be proved about.

For what is modelled, the theorems left are of a second order: that `JobQueue`
implements an abstract queue with one result per job, that
`ProviderExecution` implements a one-owner lock per feature, and finality in
`ExternalEffect` and `MediaLifecycle` as action properties.
