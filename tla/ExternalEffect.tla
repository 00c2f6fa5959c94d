--------------------------- MODULE ExternalEffect ---------------------------
(***************************************************************************)
(* GitHub writes of one feature (github/adapter_controller.py, executor.py *)
(* and reconciliation.py): a composer claims an intent, marks it as        *)
(* dispatched, makes the one call outside any transaction, and closes the  *)
(* effect on what it heard; a pass of the sweep recovers what expired and  *)
(* reads unknown effects back; a person closes what a pass judged.         *)
(*                                                                         *)
(* An action is one committed transaction, one read that a later step      *)
(* relies on, or one step of the network.  Every lifecycle edge is a       *)
(* compare-and-swap on the version of the row.                             *)
(***************************************************************************)
EXTENDS Naturals

CONSTANTS
    Effects, NoEffect,
    Composers,      \* requests that wake an effect
    Passes,         \* sweeps, and wakes of an unknown effect
    MaxVersion,     \* bound: version at which no further read-back starts
    MaxDeaths       \* bound: composers and passes that die

ASSUME ExternalEffectAssumption ==
    NoEffect \notin Effects /\ MaxVersion \in Nat /\ MaxDeaths \in Nat

VARIABLES
    effect,         \* external_effects, with the action of its target
    receipt,        \* effect_confirm_receipts
    parked,         \* the feature is at reconciliation_required
    composer,       \* what each composer carries
    pass,           \* what each pass carries
    remote,         \* GitHub, and the request on its way there
    verdicts,       \* conclusive read-backs reported to people
    deaths

rows == <<effect, receipt, parked>>
effectVars == <<rows, composer, pass, remote, verdicts, deaths>>

-----------------------------------------------------------------------------
EffectStates == {"intent_recorded", "claimed", "dispatch_started", "unknown",
                 "reconciling", "confirmed_completed",
                 "confirmed_not_executed"}
Actions == {"push_branch", "create_pull_request", "write_check_run"}

\* never: not there yet; moved: a branch at another commit, a closed pull
\* request, a superseded run.
Objects == {"never", "there", "moved", "deleted"}

WriteOutcomes == {"none", "confirmed", "not_executed", "unknown"}
Judgements == {"none", "confirmed_completed", "absent", "unknown"}

Idle == [at |-> "idle", effect |-> NoEffect, saw |-> "none", version |-> 0,
         outcome |-> "none"]
Waiting == [at |-> "idle", effect |-> NoEffect, version |-> 0,
            judged |-> "none"]

EffectRow == [state : EffectStates, version : Nat,
              claim : {"none", "live", "lapsed"}, action : Actions]

ComposerState ==
    [at : {"idle", "woken", "calling", "awaiting", "judged", "stopping"},
     effect : Effects \cup {NoEffect}, version : Nat,
     saw : {"none", "intent_recorded", "claimed"}, outcome : WriteOutcomes]

PassState ==
    [at : {"idle", "expiring", "parking", "reclaiming", "starting", "reading",
           "judging", "returning"},
     effect : Effects \cup {NoEffect}, version : Nat, judged : Judgements]

RemoteState == [object : Objects, wire : BOOLEAN, fired : Nat,
                answer : {"none", "done", "refused"}, reminted : BOOLEAN]

(* The types of the rows, and of what the actors carry between two steps.  *)
EffectTypeOK ==
    /\ effect \in [Effects -> EffectRow]
    /\ receipt \in [Effects -> BOOLEAN]
    /\ parked \in BOOLEAN
    /\ composer \in [Composers -> ComposerState]
    /\ pass \in [Passes -> PassState]
    /\ remote \in [Effects -> RemoteState]
    /\ verdicts \subseteq Effects \X Judgements
    /\ deaths \in Nat

EffectInit ==
    /\ effect \in [Effects -> [state : {"intent_recorded"}, version : {1},
                               claim : {"none"}, action : Actions]]
    /\ receipt = [e \in Effects |-> FALSE]
    /\ parked = FALSE
    /\ composer = [c \in Composers |-> Idle]
    /\ pass = [p \in Passes |-> Waiting]
    /\ remote = [e \in Effects |-> [object |-> "never", wire |-> FALSE,
                                    fired |-> 0, answer |-> "none",
                                    reminted |-> FALSE]]
    /\ verdicts = {}
    /\ deaths = 0

-----------------------------------------------------------------------------
(* The lifecycle edges. *)

\* The row still is what its reader saw: from_state and expected_version.
Current(e, from, version) ==
    effect[e].state = from /\ effect[e].version = version

\* One edge; claim is the claim_expires_at it leaves behind.
EffectMoves(e, target, claim) ==
    effect' = [effect EXCEPT ![e] =
        [effect[e] EXCEPT !.state = target, !.claim = claim,
                          !.version = effect[e].version + 1]]

ComposerAt(c, at) == composer[c].at = at
PassAt(p, at) == pass[p].at = at
ComposerGoes(c, at) == composer' = [composer EXCEPT ![c].at = at]
ComposerEnds(c) == composer' = [composer EXCEPT ![c] = Idle]
PassGoes(p, at) == pass' = [pass EXCEPT ![p].at = at]
PassEnds(p) == pass' = [pass EXCEPT ![p] = Waiting]

Untouched == UNCHANGED <<remote, verdicts, deaths>>

-----------------------------------------------------------------------------
(* dispatch_github_write. *)

\* wake_effect, then the controller's own reading of the row.
Wake(c, e) ==
    /\ ComposerAt(c, "idle")
    /\ effect[e].state \in {"intent_recorded", "claimed"}
    /\ composer' = [composer EXCEPT ![c] =
           [at |-> "woken", effect |-> e, saw |-> effect[e].state,
            version |-> effect[e].version, outcome |-> "none"]]
    /\ UNCHANGED <<rows, pass>> /\ Untouched

ClaimEffect(c) ==
    LET e == composer[c].effect IN
    /\ ComposerAt(c, "woken") /\ composer[c].saw = "intent_recorded"
    /\ IF Current(e, "intent_recorded", composer[c].version)
         THEN /\ EffectMoves(e, "claimed", "live")
              /\ composer' = [composer EXCEPT ![c] =
                     [composer[c] EXCEPT !.saw = "claimed",
                                         !.version = composer[c].version + 1]]
         ELSE ComposerEnds(c) /\ UNCHANGED effect
    /\ UNCHANGED <<receipt, parked, pass>> /\ Untouched

(* The marker is committed before the call, and means it may have arrived. *)
(* Whoever did not commit it has no authority to call.                     *)
Mutant_DispatchEffect(c) ==
    LET e == composer[c].effect IN
    /\ ComposerAt(c, "woken") /\ composer[c].saw = "claimed"
    /\ IF /\ Current(e, "claimed", composer[c].version)
          /\ effect[e].claim # "lapsed"
         THEN EffectMoves(e, "dispatch_started", "live")
         ELSE UNCHANGED effect
    /\ IF effect'[e].state = "dispatch_started"
         THEN composer' = [composer EXCEPT
                  ![c] = [@ EXCEPT !.at = "calling",
                                   !.version = effect'[e].version]]
         ELSE ComposerEnds(c)
    /\ UNCHANGED <<receipt, parked, pass>> /\ Untouched

DispatchEffect(c) ==
    LET e == composer[c].effect IN
    /\ ComposerAt(c, "woken") /\ composer[c].saw = "claimed"
    /\ IF /\ Current(e, "claimed", composer[c].version)
          /\ effect[e].claim # "lapsed"
         THEN /\ EffectMoves(e, "dispatch_started", "live")
              /\ composer' = [composer EXCEPT ![c] =
                     [composer[c] EXCEPT !.at = "calling",
                                         !.version = composer[c].version + 1]]
         ELSE ComposerEnds(c) /\ UNCHANGED effect
    /\ UNCHANGED <<receipt, parked, pass>> /\ Untouched

\* The token could not be minted: nothing leaves.
NotSent(c) ==
    /\ ComposerAt(c, "calling")
    /\ composer' = [composer EXCEPT
           ![c] = [@ EXCEPT !.at = "judged", !.outcome = "not_executed"]]
    /\ UNCHANGED <<rows, pass>> /\ Untouched

Send(c) ==
    LET e == composer[c].effect IN
    /\ ComposerAt(c, "calling")
    /\ ComposerGoes(c, "awaiting")
    /\ remote' = [remote EXCEPT ![e] =
           [remote[e] EXCEPT !.wire = TRUE, !.fired = remote[e].fired + 1]]
    /\ UNCHANGED <<rows, pass, verdicts, deaths>>

(* What the adapter may make of the call (_judge): a timeout, a server     *)
(* error or a read-back that does not match is unknown.  By the time a     *)
(* request times out GitHub has applied it or never will.  A push reads    *)
(* its branch back under a token that may have to be minted anew; when     *)
(* that fails the refusal is of stage pre_write, though the ref is there.  *)
Reminted(e, outcome) ==
    /\ outcome = "not_executed"
    /\ effect[e].action = "push_branch" /\ remote[e].answer = "done"

CanHear(e, outcome) ==
    \/ outcome = "unknown"
    \/ outcome = "not_executed" /\ remote[e].answer = "refused"
    \/ outcome = "confirmed" /\ remote[e].answer = "done"
    \/ Reminted(e, outcome)

Hear(c, outcome) ==
    LET e == composer[c].effect IN
    /\ ComposerAt(c, "awaiting") /\ ~remote[e].wire
    /\ CanHear(e, outcome)
    /\ composer' = [composer EXCEPT
           ![c] = [@ EXCEPT !.at = "judged", !.outcome = outcome]]
    /\ remote' = [remote EXCEPT ![e].reminted = @ \/ Reminted(e, outcome)]
    /\ UNCHANGED <<rows, pass, verdicts, deaths>>

CloseNotExecuted(c) ==
    LET e == composer[c].effect IN
    /\ ComposerAt(c, "judged") /\ composer[c].outcome = "not_executed"
    /\ IF Current(e, "dispatch_started", composer[c].version)
         THEN EffectMoves(e, "confirmed_not_executed", "none")
         ELSE UNCHANGED effect
    /\ ComposerEnds(c)
    /\ UNCHANGED <<receipt, parked, pass>> /\ Untouched

CloseUnknown(c) ==
    LET e == composer[c].effect IN
    /\ ComposerAt(c, "judged") /\ composer[c].outcome = "unknown"
    /\ IF Current(e, "dispatch_started", composer[c].version)
         THEN EffectMoves(e, "unknown", "none") /\ ComposerGoes(c, "stopping")
         ELSE ComposerEnds(c) /\ UNCHANGED effect
    /\ UNCHANGED <<receipt, parked, pass>> /\ Untouched

\* require_reconciliation of the feature; from there it has no such edge.
StopFeature(c) ==
    /\ ComposerAt(c, "stopping")
    /\ parked' = TRUE
    /\ ComposerEnds(c)
    /\ UNCHANGED <<effect, receipt, pass>> /\ Untouched

(* record_effect_confirm_receipt: the row is judged by its state alone,    *)
(* and its version moves with the receipt.                                 *)
Mutant_Confirm(c) ==
    LET e == composer[c].effect IN
    /\ ComposerAt(c, "judged") /\ composer[c].outcome = "confirmed"
    /\ receipt' = [receipt EXCEPT ![e] =
                       @ \/ effect[e].state = "dispatch_started"]
    /\ ComposerEnds(c)
    /\ UNCHANGED <<effect, parked, pass>> /\ Untouched

Confirm(c) ==
    LET e == composer[c].effect IN
    /\ ComposerAt(c, "judged") /\ composer[c].outcome = "confirmed"
    /\ IF effect[e].state = "dispatch_started" /\ ~receipt[e]
         THEN /\ receipt' = [receipt EXCEPT ![e] = TRUE]
              /\ effect' = [effect EXCEPT ![e].version = @ + 1]
         ELSE UNCHANGED <<effect, receipt>>
    /\ ComposerEnds(c)
    /\ UNCHANGED <<parked, pass>> /\ Untouched

-----------------------------------------------------------------------------
(* run_unknown_sweep. *)

Takes(p, e, at) ==
    /\ PassAt(p, "idle")
    /\ pass' = [pass EXCEPT ![p] = [@ EXCEPT !.at = at, !.effect = e,
                                             !.version = effect[e].version]]
    /\ UNCHANGED <<rows, composer>> /\ Untouched

Mutant_SeesExpired(p, e) ==
    /\ effect[e].state = "dispatch_started" /\ effect[e].claim = "lapsed"
    /\ parked /\ ~receipt[e]
    /\ Takes(p, e, "expiring")

\* A park that expired with no receipt to say that it was confirmed.
SeesExpired(p, e) ==
    /\ effect[e].state = "dispatch_started" /\ effect[e].claim = "lapsed"
    /\ ~receipt[e]
    /\ Takes(p, e, "expiring")

Expire(p) ==
    LET e == pass[p].effect IN
    /\ PassAt(p, "expiring")
    /\ IF Current(e, "dispatch_started", pass[p].version)
         THEN EffectMoves(e, "unknown", "none") /\ PassGoes(p, "parking")
         ELSE PassEnds(p) /\ UNCHANGED effect
    /\ UNCHANGED <<receipt, parked, composer>> /\ Untouched

ParkFeature(p) ==
    /\ PassAt(p, "parking")
    /\ parked' = TRUE
    /\ PassEnds(p)
    /\ UNCHANGED <<effect, receipt, composer>> /\ Untouched

SeesLapsedClaim(p, e) ==
    /\ effect[e].state = "reconciling" /\ effect[e].claim = "lapsed"
    /\ Takes(p, e, "reclaiming")

ReclaimClaim(p) ==
    LET e == pass[p].effect IN
    /\ PassAt(p, "reclaiming")
    /\ IF Current(e, "reconciling", pass[p].version)
         THEN EffectMoves(e, "unknown", "none")
         ELSE UNCHANGED effect
    /\ PassEnds(p)
    /\ UNCHANGED <<receipt, parked, composer>> /\ Untouched

(* reconcile_github_write.  A row found at reconciling is adopted at its   *)
(* version, whoever holds the claim.                                       *)
SeesUnknown(p, e) ==
    /\ effect[e].version < MaxVersion
    /\ \/ effect[e].state = "unknown" /\ Takes(p, e, "starting")
       \/ effect[e].state = "reconciling" /\ Takes(p, e, "reading")

\* One live claim per feature: the partial unique index decides.
StartReconciliation(p) ==
    LET e == pass[p].effect IN
    /\ PassAt(p, "starting")
    /\ IF /\ Current(e, "unknown", pass[p].version)
          /\ \A f \in Effects : effect[f].state # "reconciling"
         THEN /\ EffectMoves(e, "reconciling", "live")
              /\ pass' = [pass EXCEPT ![p] =
                     [pass[p] EXCEPT !.at = "reading",
                                     !.version = pass[p].version + 1]]
         ELSE PassEnds(p) /\ UNCHANGED effect
    /\ UNCHANGED <<receipt, parked, composer>> /\ Untouched

(* _judge_read_back of what one read of the object may return.  Only a     *)
(* ref, or the commit of a run, can be proved absent.                      *)
Mutant_Judged(e) ==
    CASE remote[e].object = "there" -> {"confirmed_completed", "unknown"}
      [] OTHER -> {"absent", "unknown"}

Judged(e) ==
    CASE remote[e].object = "there" -> {"confirmed_completed", "unknown"}
      [] remote[e].object \in {"never", "deleted"} ->
           IF effect[e].action = "create_pull_request"
             THEN {"unknown"} ELSE {"absent", "unknown"}
      [] remote[e].object = "moved" -> {"unknown"}

ReadBack(p, judged) ==
    /\ PassAt(p, "reading")
    /\ judged \in Judged(pass[p].effect)
    /\ pass' = [pass EXCEPT
                    ![p] = [@ EXCEPT !.at = "judging", !.judged = judged]]
    /\ UNCHANGED <<rows, composer>> /\ Untouched

\* A verdict is void when the row is no longer at this pass's claim.
JudgeReadBack(p) ==
    LET e == pass[p].effect IN
    /\ PassAt(p, "judging")
    /\ LET holds == Current(e, "reconciling", pass[p].version)
           conclusive == pass[p].judged # "unknown"
       IN /\ IF holds /\ ~conclusive THEN PassGoes(p, "returning")
                                     ELSE PassEnds(p)
          /\ verdicts' = IF holds /\ conclusive
                           THEN verdicts \cup {<<e, pass[p].judged>>}
                           ELSE verdicts
    /\ UNCHANGED <<rows, composer, remote, deaths>>

StillUnknown(p) ==
    LET e == pass[p].effect IN
    /\ PassAt(p, "returning")
    /\ IF Current(e, "reconciling", pass[p].version)
         THEN EffectMoves(e, "unknown", "none")
         ELSE UNCHANGED effect
    /\ PassEnds(p)
    /\ UNCHANGED <<receipt, parked, composer>> /\ Untouched

-----------------------------------------------------------------------------
(* People, time, GitHub and death. *)

(* resume_checkpoint: it closes the effect a verdict was reported of, and  *)
(* resumes the feature it had stopped.                                     *)
ResumeEffect(e, judged) ==
    /\ parked /\ <<e, judged>> \in verdicts
    /\ effect[e].state = "reconciling"
    /\ EffectMoves(e, IF judged = "absent" THEN "confirmed_not_executed"
                                           ELSE "confirmed_completed", "none")
    /\ parked' = FALSE
    /\ UNCHANGED <<receipt, composer, pass>> /\ Untouched

CallInProgress(e) ==
    \/ remote[e].wire
    \/ \E c \in Composers : composer[c].effect = e
                            /\ composer[c].at \in {"calling", "awaiting"}

\* From the marker to the answer takes less than the claim's fifteen minutes.
ClaimLapses(e) ==
    /\ effect[e].claim = "live" /\ ~CallInProgress(e)
    /\ effect' = [effect EXCEPT ![e].claim = "lapsed"]
    /\ UNCHANGED <<receipt, parked, composer, pass>> /\ Untouched

Arrives(e, answer) ==
    /\ remote[e].wire
    /\ remote' = [remote EXCEPT ![e] =
           [remote[e] EXCEPT !.wire = FALSE, !.answer = answer,
                             !.object = IF answer = "done" THEN "there"
                                        ELSE remote[e].object]]
    /\ UNCHANGED <<rows, composer, pass, verdicts, deaths>>

ObjectChanges(e) ==
    /\ remote[e].object = "there"
    /\ \E object \in {"moved", "deleted"} :
           remote' = [remote EXCEPT ![e].object = object]
    /\ UNCHANGED <<rows, composer, pass, verdicts, deaths>>

ComposerDies(c) ==
    /\ ~ComposerAt(c, "idle") /\ deaths < MaxDeaths
    /\ deaths' = deaths + 1
    /\ ComposerEnds(c)
    /\ UNCHANGED <<rows, pass, remote, verdicts>>

PassDies(p) ==
    /\ ~PassAt(p, "idle") /\ deaths < MaxDeaths
    /\ deaths' = deaths + 1
    /\ PassEnds(p)
    /\ UNCHANGED <<rows, composer, remote, verdicts>>

-----------------------------------------------------------------------------
ComposerStep(c) ==
    \/ ClaimEffect(c) \/ DispatchEffect(c)
    \/ NotSent(c) \/ Send(c) \/ \E outcome \in WriteOutcomes : Hear(c, outcome)
    \/ CloseNotExecuted(c) \/ CloseUnknown(c) \/ StopFeature(c) \/ Confirm(c)

PassStep(p) ==
    \/ Expire(p) \/ ParkFeature(p) \/ ReclaimClaim(p)
    \/ StartReconciliation(p)
    \/ \E judged \in Judgements : ReadBack(p, judged)
    \/ JudgeReadBack(p) \/ StillUnknown(p)

Answered(e) == \E answer \in {"none", "done", "refused"} : Arrives(e, answer)

EffectNext ==
    \/ \E c \in Composers :
           \/ ComposerStep(c) \/ ComposerDies(c)
           \/ \E e \in Effects : Wake(c, e)
    \/ \E p \in Passes :
           \/ PassStep(p) \/ PassDies(p)
           \/ \E e \in Effects : \/ SeesExpired(p, e) \/ SeesLapsedClaim(p, e)
                                 \/ SeesUnknown(p, e)
    \/ \E e \in Effects :
           \/ Answered(e) \/ ObjectChanges(e) \/ ClaimLapses(e)
           \/ \E judged \in {"absent", "confirmed_completed"} :
                  ResumeEffect(e, judged)

EffectSpec == EffectInit /\ [][EffectNext]_effectVars

(* The sweep runs on a timer, each call is bounded by its timeouts, and    *)
(* time passes.  Nobody has to wake an effect, and no person has to act.   *)
EffectFairness ==
    /\ \A c \in Composers : WF_effectVars(ComposerStep(c))
    /\ \A p \in Passes : WF_effectVars(PassStep(p))
    /\ \A e \in Effects : /\ WF_effectVars(Answered(e))
                          /\ WF_effectVars(ClaimLapses(e))
                          /\ SF_effectVars(\E p \in Passes : SeesExpired(p, e))

EffectFairSpec == EffectSpec /\ EffectFairness

-----------------------------------------------------------------------------
(* Properties. *)

(* Whoever composes it, dies over it or wakes it again, the outward call   *)
(* of an effect is made at most once.                                      *)
FiredOnce == \A e \in Effects : remote[e].fired <= 1

NotExecutedHolds(e) ==
    effect[e].state = "confirmed_not_executed" =>
        remote[e].object \in {"never", "deleted"} /\ ~remote[e].wire

(* An effect said not to have been executed left nothing at GitHub, and    *)
(* nothing on its way there: not when its composer closed it, and not when *)
(* a person did on a read-back, which other people's changes can mislead.  *)
(* The one exception is a push whose read-back lacked a token.             *)
NotExecutedIsTrue ==
    \A e \in Effects : remote[e].reminted \/ NotExecutedHolds(e)

(* The same without the exception: pre_write (nothing sent) proves that    *)
(* the write was not executed, as _judge has it.                           *)
NotExecutedIsProven == \A e \in Effects : NotExecutedHolds(e)

(* A confirmed park is never swept: the receipt and the recovery of an     *)
(* expired dispatch cannot both win, however their reads interleave.       *)
ReceiptKeepsThePark ==
    \A e \in Effects : receipt[e] => effect[e].state = "dispatch_started"

(* A dispatch whose composer died, or could not write what it heard, does  *)
(* not stay parked: it comes to be unknown, confirmed or not executed.     *)
NoParkRots ==
    \A e \in Effects :
        LET rotting == effect[e].state = "dispatch_started" /\ ~receipt[e]
        IN rotting ~> ~rotting
=============================================================================
