------------------------ MODULE ExternalEffectProofs ------------------------
(***************************************************************************)
(* Proofs about ExternalEffect for any effects, composers and passes.      *)
(***************************************************************************)
EXTENDS ExternalEffect, TLAPS

Claims == {"none", "live", "lapsed"}
ComposerAts == {"woken", "calling", "awaiting", "judged", "stopping"}
PassAts == {"expiring", "parking", "reclaiming", "starting", "reading",
            "judging", "returning"}

EffectTyped == effect \in [Effects -> EffectRow]
RemoteTyped == remote \in [Effects -> RemoteState]

\* Whoever is not at rest carries an effect.
ComposerTyped ==
    /\ composer \in [Composers -> ComposerState]
    /\ \A c \in Composers :
          composer[c].at # "idle" => composer[c].effect \in Effects
PassTyped ==
    /\ pass \in [Passes -> PassState]
    /\ \A p \in Passes : pass[p].at # "idle" => pass[p].effect \in Effects

OthersTyped ==
    /\ receipt \in [Effects -> BOOLEAN]
    /\ parked \in BOOLEAN
    /\ verdicts \subseteq Effects \X Judgements
    /\ deaths \in Nat

Typed == EffectTyped /\ RemoteTyped /\ ComposerTyped /\ PassTyped /\ OthersTyped

-----------------------------------------------------------------------------
(* One variable at a time.                                                 *)

LEMMA InitTyped == EffectInit => Typed
<1> SUFFICES ASSUME EffectInit PROVE Typed
  OBVIOUS
<1>1. EffectTyped
  BY DEF EffectInit, EffectTyped, EffectRow, EffectStates
<1>2. RemoteTyped
  BY DEF EffectInit, RemoteTyped, RemoteState, Objects
<1>3. ComposerTyped
  BY DEF EffectInit, ComposerTyped, ComposerState, Idle, WriteOutcomes
<1>4. PassTyped
  BY DEF EffectInit, PassTyped, PassState, Waiting, Judgements
<1>5. OthersTyped
  BY DEF EffectInit, OthersTyped
<1> QED
  BY <1>1, <1>2, <1>3, <1>4, <1>5 DEF Typed

LEMMA Unchanged ==
    /\ EffectTyped /\ UNCHANGED effect => EffectTyped'
    /\ RemoteTyped /\ UNCHANGED remote => RemoteTyped'
    /\ ComposerTyped /\ UNCHANGED composer => ComposerTyped'
    /\ PassTyped /\ UNCHANGED pass => PassTyped'
    /\ OthersTyped /\ UNCHANGED <<receipt, parked, verdicts, deaths>> => OthersTyped'
  BY DEF EffectTyped, RemoteTyped, ComposerTyped, PassTyped, OthersTyped

LEMMA VersionsTyped ==
    ASSUME Typed
    PROVE  /\ \A e \in Effects : effect[e].version \in Nat
           /\ \A c \in Composers : composer[c].version \in Nat
           /\ \A p \in Passes : pass[p].version \in Nat
           /\ \A e \in Effects : remote[e].fired \in Nat
<1>1. \A e \in Effects : effect[e].version \in Nat
  BY DEF Typed, EffectTyped, EffectRow
<1>2. \A c \in Composers : composer[c].version \in Nat
  BY DEF Typed, ComposerTyped, ComposerState
<1>3. \A p \in Passes : pass[p].version \in Nat
  BY DEF Typed, PassTyped, PassState
<1>4. \A e \in Effects : remote[e].fired \in Nat
  BY DEF Typed, RemoteTyped, RemoteState
<1> QED
  BY <1>1, <1>2, <1>3, <1>4

LEMMA EffectRowTyped ==
    ASSUME NEW row \in EffectRow, NEW target \in EffectStates,
           NEW claim \in Claims, NEW n \in Nat
    PROVE  [row EXCEPT !.state = target, !.claim = claim, !.version = n]
                  \in EffectRow
  BY DEF EffectRow, Claims

\* An edge keeps the table of effects well typed.
LEMMA MovesTyped ==
    ASSUME Typed, NEW e \in Effects, NEW target \in EffectStates,
           NEW claim \in Claims, EffectMoves(e, target, claim)
    PROVE  EffectTyped'
<1>1. effect[e] \in EffectRow
  BY DEF Typed, EffectTyped
<1>2. effect[e].version + 1 \in Nat
  BY VersionsTyped
<1> DEFINE new == [effect[e] EXCEPT !.state = target, !.claim = claim,
                                    !.version = effect[e].version + 1]
<1>3. new \in EffectRow
  BY <1>1, <1>2, EffectRowTyped
<1>4. effect' = [effect EXCEPT ![e] = new]
  BY DEF EffectMoves
<1> QED
  BY <1>3, <1>4 DEF Typed, EffectTyped

LEMMA ComposerGoesTyped ==
    ASSUME ComposerTyped, NEW c \in Composers, composer[c].at # "idle",
           NEW at \in ComposerAts, ComposerGoes(c, at)
    PROVE  ComposerTyped'
  BY DEF ComposerTyped, ComposerGoes, ComposerState, ComposerAts

LEMMA ComposerHearsTyped ==
    ASSUME ComposerTyped, NEW c \in Composers, composer[c].at # "idle",
           NEW outcome \in WriteOutcomes,
           composer' = [composer EXCEPT
                  ![c] = [@ EXCEPT !.at = "judged", !.outcome = outcome]]
    PROVE  ComposerTyped'
  BY DEF ComposerTyped, ComposerState

LEMMA ComposerEndsTyped ==
    ASSUME ComposerTyped, NEW c \in Composers, ComposerEnds(c)
    PROVE  ComposerTyped'
  BY DEF ComposerTyped, ComposerEnds, Idle, ComposerState, WriteOutcomes

LEMMA ComposerClaimsTyped ==
    ASSUME ComposerTyped, NEW c \in Composers, composer[c].at # "idle",
           NEW n \in Nat,
           composer' = [composer EXCEPT
                  ![c] = [@ EXCEPT !.saw = "claimed", !.version = n]]
    PROVE  ComposerTyped'
  BY DEF ComposerTyped, ComposerState

LEMMA ComposerCallsTyped ==
    ASSUME ComposerTyped, NEW c \in Composers, composer[c].at # "idle",
           NEW n \in Nat,
           composer' = [composer EXCEPT
                  ![c] = [@ EXCEPT !.at = "calling", !.version = n]]
    PROVE  ComposerTyped'
  BY DEF ComposerTyped, ComposerState

LEMMA PassGoesTyped ==
    ASSUME PassTyped, NEW p \in Passes, pass[p].at # "idle",
           NEW at \in PassAts, PassGoes(p, at)
    PROVE  PassTyped'
  BY DEF PassTyped, PassGoes, PassState, PassAts

LEMMA PassEndsTyped ==
    ASSUME PassTyped, NEW p \in Passes, PassEnds(p)
    PROVE  PassTyped'
  BY DEF PassTyped, PassEnds, PassState, Waiting, Judgements

LEMMA PassReadsTyped ==
    ASSUME PassTyped, NEW p \in Passes, pass[p].at # "idle", NEW n \in Nat,
           pass' = [pass EXCEPT ![p] = [@ EXCEPT !.at = "reading", !.version = n]]
    PROVE  PassTyped'
  BY DEF PassTyped, PassState

LEMMA PassJudgesTyped ==
    ASSUME PassTyped, NEW p \in Passes, pass[p].at # "idle",
           NEW judged \in Judgements,
           pass' = [pass EXCEPT
                  ![p] = [@ EXCEPT !.at = "judging", !.judged = judged]]
    PROVE  PassTyped'
  BY DEF PassTyped, PassState

LEMMA PassTakesTyped ==
    ASSUME PassTyped, NEW p \in Passes, NEW e \in Effects, NEW n \in Nat,
           NEW at \in PassAts,
           pass' = [pass EXCEPT
                  ![p] = [@ EXCEPT !.at = at, !.effect = e, !.version = n]]
    PROVE  PassTyped'
  BY DEF PassTyped, PassState, PassAts

-----------------------------------------------------------------------------
(* One action at a time.                                                   *)

LEMMA WakeTyped ==
    ASSUME Typed, NEW c \in Composers, NEW e \in Effects, Wake(c, e)
    PROVE  Typed'
<1>1. effect[e].version \in Nat
  BY VersionsTyped
<1>2. ComposerTyped'
  BY <1>1 DEF Wake, Typed, ComposerTyped, ComposerState, WriteOutcomes
<1> QED
  BY <1>2, Unchanged DEF Wake, rows, Untouched, Typed

LEMMA ComposerStepTyped ==
    ASSUME Typed, NEW c \in Composers, ComposerStep(c)
    PROVE  Typed'
<1> USE DEF ComposerAt, rows, Untouched
<1> DEFINE e == composer[c].effect
<1>0. /\ composer[c].at # "idle" => e \in Effects
      /\ composer[c].version + 1 \in Nat
      /\ ComposerTyped /\ EffectTyped /\ RemoteTyped /\ PassTyped /\ OthersTyped
  BY VersionsTyped DEF Typed, ComposerTyped
<1>1. CASE ClaimEffect(c)
  <2>1. EffectTyped'
    BY <1>0, <1>1, MovesTyped, Unchanged DEF ClaimEffect, EffectStates, Claims
  <2>2. ComposerTyped'
    BY <1>0, <1>1, ComposerClaimsTyped, ComposerEndsTyped DEF ClaimEffect
  <2> QED
    BY <1>0, <1>1, <2>1, <2>2, Unchanged DEF ClaimEffect, Typed
<1>2. CASE DispatchEffect(c)
  <2>1. EffectTyped'
    BY <1>0, <1>2, MovesTyped, Unchanged DEF DispatchEffect, EffectStates, Claims
  <2>2. ComposerTyped'
    BY <1>0, <1>2, ComposerCallsTyped, ComposerEndsTyped DEF DispatchEffect
  <2> QED
    BY <1>0, <1>2, <2>1, <2>2, Unchanged DEF DispatchEffect, Typed
<1>3. CASE NotSent(c)
  <2>1. ComposerTyped'
    BY <1>0, <1>3, ComposerHearsTyped DEF NotSent, WriteOutcomes
  <2> QED
    BY <1>0, <1>3, <2>1, Unchanged DEF NotSent, Typed
<1>4. CASE Send(c)
  <2>1. ComposerTyped'
    BY <1>0, <1>4, ComposerGoesTyped DEF Send, ComposerAts
  <2>2. RemoteTyped'
    <3>1. /\ e \in Effects /\ remote[e].fired + 1 \in Nat
          /\ remote' = [remote EXCEPT ![e] = [@ EXCEPT !.wire = TRUE,
                                              !.fired = remote[e].fired + 1]]
      BY <1>0, <1>4, VersionsTyped DEF Send
    <3> HIDE DEF e
    <3>2. ASSUME NEW n \in Nat
          PROVE  [remote EXCEPT ![e] = [@ EXCEPT !.wire = TRUE, !.fired = n]]
                     \in [Effects -> RemoteState]
      BY <1>0, <3>1 DEF RemoteTyped, RemoteState
    <3> QED
      BY <3>1, <3>2 DEF RemoteTyped
  <2> QED
    BY <1>0, <1>4, <2>1, <2>2, Unchanged DEF Send, Typed
<1>5. ASSUME NEW outcome \in WriteOutcomes, Hear(c, outcome) PROVE Typed'
  <2>1. ComposerTyped'
    BY <1>0, <1>5, ComposerHearsTyped DEF Hear
  <2>2. RemoteTyped'
    BY <1>0, <1>5 DEF Hear, Reminted, RemoteTyped, RemoteState
  <2> QED
    BY <1>0, <1>5, <2>1, <2>2, Unchanged DEF Hear, Typed
<1>6. CASE CloseNotExecuted(c)
  <2>1. EffectTyped'
    BY <1>0, <1>6, MovesTyped, Unchanged DEF CloseNotExecuted, EffectStates, Claims
  <2>2. ComposerTyped'
    BY <1>0, <1>6, ComposerEndsTyped DEF CloseNotExecuted
  <2> QED
    BY <1>0, <1>6, <2>1, <2>2, Unchanged DEF CloseNotExecuted, Typed
<1>7. CASE CloseUnknown(c)
  <2>1. EffectTyped'
    BY <1>0, <1>7, MovesTyped, Unchanged DEF CloseUnknown, EffectStates, Claims
  <2>2. ComposerTyped'
    BY <1>0, <1>7, ComposerEndsTyped, ComposerGoesTyped DEF CloseUnknown, ComposerAts
  <2> QED
    BY <1>0, <1>7, <2>1, <2>2, Unchanged DEF CloseUnknown, Typed
<1>8. CASE StopFeature(c)
  <2>1. ComposerTyped'
    BY <1>0, <1>8, ComposerEndsTyped DEF StopFeature
  <2>2. OthersTyped'
    BY <1>0, <1>8 DEF StopFeature, OthersTyped
  <2> QED
    BY <1>0, <1>8, <2>1, <2>2, Unchanged DEF StopFeature, Typed
<1>9. CASE Confirm(c)
  <2>0. e \in Effects
    BY <1>0, <1>9 DEF Confirm
  <2>1. EffectTyped'
    <3>1. CASE effect' = [effect EXCEPT ![e].version = @ + 1]
      <4>1. ASSUME NEW n \in Nat
            PROVE  [effect EXCEPT ![e].version = n] \in [Effects -> EffectRow]
        BY <1>0, <2>0 DEF EffectTyped, EffectRow
      <4>2. effect[e].version + 1 \in Nat
        BY <2>0, VersionsTyped
      <4> HIDE DEF e
      <4>3. effect' = [effect EXCEPT ![e].version = effect[e].version + 1]
        BY <3>1
      <4> QED
        BY <4>1, <4>2, <4>3 DEF EffectTyped
    <3>2. CASE UNCHANGED effect
      BY <1>0, <3>2, Unchanged
    <3> QED
      BY <1>9, <3>1, <3>2 DEF Confirm
  <2>2. ComposerTyped'
    BY <1>0, <1>9, ComposerEndsTyped DEF Confirm
  <2>3. OthersTyped'
    BY <1>0, <1>9, <2>0 DEF Confirm, OthersTyped
  <2> QED
    BY <1>0, <1>9, <2>1, <2>2, <2>3, Unchanged DEF Confirm, Typed
<1> QED
  BY <1>1, <1>2, <1>3, <1>4, <1>5, <1>6, <1>7, <1>8, <1>9 DEF ComposerStep

LEMMA TakesTyped ==
    ASSUME Typed, NEW p \in Passes, NEW e \in Effects,
           SeesExpired(p, e) \/ SeesLapsedClaim(p, e) \/ SeesUnknown(p, e)
    PROVE  Typed'
<1>1. effect[e].version \in Nat
  BY VersionsTyped
<1>2. PICK at \in PassAts : Takes(p, e, at)
  BY DEF SeesExpired, SeesLapsedClaim, SeesUnknown, PassAts
<1>3. PassTyped'
  BY <1>1, <1>2, PassTakesTyped DEF Takes, Typed
<1> QED
  BY <1>2, <1>3, Unchanged DEF Takes, rows, Untouched, Typed

LEMMA PassStepTyped ==
    ASSUME Typed, NEW p \in Passes, PassStep(p)
    PROVE  Typed'
<1> USE DEF PassAt, rows, Untouched
<1> DEFINE e == pass[p].effect
<1>0. /\ pass[p].at # "idle" => e \in Effects
      /\ pass[p].version + 1 \in Nat
      /\ ComposerTyped /\ EffectTyped /\ RemoteTyped /\ PassTyped /\ OthersTyped
  BY VersionsTyped DEF Typed, PassTyped
<1>1. CASE Expire(p)
  <2>1. EffectTyped'
    BY <1>0, <1>1, MovesTyped, Unchanged DEF Expire, EffectStates, Claims
  <2>2. PassTyped'
    BY <1>0, <1>1, PassGoesTyped, PassEndsTyped DEF Expire, PassAts
  <2> QED
    BY <1>0, <1>1, <2>1, <2>2, Unchanged DEF Expire, Typed
<1>2. CASE ParkFeature(p)
  <2>1. PassTyped'
    BY <1>0, <1>2, PassEndsTyped DEF ParkFeature
  <2>2. OthersTyped'
    BY <1>0, <1>2 DEF ParkFeature, OthersTyped
  <2> QED
    BY <1>0, <1>2, <2>1, <2>2, Unchanged DEF ParkFeature, Typed
<1>3. CASE ReclaimClaim(p)
  <2>1. EffectTyped'
    BY <1>0, <1>3, MovesTyped, Unchanged DEF ReclaimClaim, EffectStates, Claims
  <2>2. PassTyped'
    BY <1>0, <1>3, PassEndsTyped DEF ReclaimClaim
  <2> QED
    BY <1>0, <1>3, <2>1, <2>2, Unchanged DEF ReclaimClaim, Typed
<1>4. CASE StartReconciliation(p)
  <2>1. EffectTyped'
    BY <1>0, <1>4, MovesTyped, Unchanged DEF StartReconciliation, EffectStates, Claims
  <2>2. PassTyped'
    BY <1>0, <1>4, PassReadsTyped, PassEndsTyped DEF StartReconciliation
  <2> QED
    BY <1>0, <1>4, <2>1, <2>2, Unchanged DEF StartReconciliation, Typed
<1>5. ASSUME NEW judged \in Judgements, ReadBack(p, judged) PROVE Typed'
  <2>1. PassTyped'
    BY <1>0, <1>5, PassJudgesTyped DEF ReadBack
  <2> QED
    BY <1>0, <1>5, <2>1, Unchanged DEF ReadBack, Typed
<1>6. CASE JudgeReadBack(p)
  <2>0. pass[p].judged \in Judgements
    BY <1>0 DEF PassTyped, PassState
  <2>1. PassTyped'
    BY <1>0, <1>6, PassGoesTyped, PassEndsTyped DEF JudgeReadBack, PassAts
  <2>2. OthersTyped'
    BY <1>0, <1>6, <2>0 DEF JudgeReadBack, OthersTyped
  <2> QED
    BY <1>0, <1>6, <2>1, <2>2, Unchanged DEF JudgeReadBack, Typed
<1>7. CASE StillUnknown(p)
  <2>1. EffectTyped'
    BY <1>0, <1>7, MovesTyped, Unchanged DEF StillUnknown, EffectStates, Claims
  <2>2. PassTyped'
    BY <1>0, <1>7, PassEndsTyped DEF StillUnknown
  <2> QED
    BY <1>0, <1>7, <2>1, <2>2, Unchanged DEF StillUnknown, Typed
<1> QED
  BY <1>1, <1>2, <1>3, <1>4, <1>5, <1>6, <1>7 DEF PassStep

\* People, time, GitHub and death.
Surroundings ==
    \/ \E c \in Composers : ComposerDies(c)
    \/ \E p \in Passes : PassDies(p)
    \/ \E e \in Effects :
           \/ Answered(e) \/ ObjectChanges(e) \/ ClaimLapses(e)
           \/ \E judged \in {"absent", "confirmed_completed"} : ResumeEffect(e, judged)

LEMMA SurroundingsTyped == ASSUME Typed, Surroundings PROVE Typed'
<1> USE DEF rows, Untouched
<1>0. ComposerTyped /\ EffectTyped /\ RemoteTyped /\ PassTyped /\ OthersTyped
  BY DEF Typed
<1>1. ASSUME NEW c \in Composers, ComposerDies(c) PROVE Typed'
  <2>1. ComposerTyped'
    BY <1>0, <1>1, ComposerEndsTyped DEF ComposerDies
  <2>2. OthersTyped'
    BY <1>0, <1>1 DEF ComposerDies, OthersTyped
  <2> QED
    BY <1>0, <1>1, <2>1, <2>2, Unchanged DEF ComposerDies, Typed
<1>2. ASSUME NEW p \in Passes, PassDies(p) PROVE Typed'
  <2>1. PassTyped'
    BY <1>0, <1>2, PassEndsTyped DEF PassDies
  <2>2. OthersTyped'
    BY <1>0, <1>2 DEF PassDies, OthersTyped
  <2> QED
    BY <1>0, <1>2, <2>1, <2>2, Unchanged DEF PassDies, Typed
<1>3. ASSUME NEW e \in Effects, Answered(e) PROVE Typed'
  <2>1. PICK answer \in {"none", "done", "refused"} : Arrives(e, answer)
    BY <1>3 DEF Answered
  <2> DEFINE object == IF answer = "done" THEN "there" ELSE remote[e].object
  <2>2. object \in Objects
    BY <1>0 DEF Objects, RemoteTyped, RemoteState
  <2>3. remote' = [remote EXCEPT ![e] =
            [remote[e] EXCEPT !.wire = FALSE, !.answer = answer, !.object = object]]
    BY <2>1 DEF Arrives
  <2> HIDE DEF object
  <2>4. RemoteTyped'
    BY <1>0, <2>2, <2>3 DEF RemoteTyped, RemoteState
  <2> QED
    BY <1>0, <2>1, <2>4, Unchanged DEF Arrives, Typed
<1>4. ASSUME NEW e \in Effects, ObjectChanges(e) PROVE Typed'
  <2>1. RemoteTyped'
    BY <1>0, <1>4 DEF ObjectChanges, RemoteTyped, RemoteState, Objects
  <2> QED
    BY <1>0, <1>4, <2>1, Unchanged DEF ObjectChanges, Typed
<1>5. ASSUME NEW e \in Effects, ClaimLapses(e) PROVE Typed'
  <2>1. EffectTyped'
    BY <1>0, <1>5 DEF ClaimLapses, EffectTyped, EffectRow
  <2> QED
    BY <1>0, <1>5, <2>1, Unchanged DEF ClaimLapses, Typed
<1>6. ASSUME NEW e \in Effects, NEW judged, ResumeEffect(e, judged) PROVE Typed'
  <2>1. EffectTyped'
    BY <1>6, MovesTyped DEF ResumeEffect, EffectStates, Claims
  <2>2. OthersTyped'
    BY <1>0, <1>6 DEF ResumeEffect, OthersTyped
  <2> QED
    BY <1>0, <1>6, <2>1, <2>2, Unchanged DEF ResumeEffect, Typed
<1> QED
  BY <1>1, <1>2, <1>3, <1>4, <1>5, <1>6 DEF Surroundings

LEMMA NextCases ==
    ASSUME EffectNext
    PROVE  \/ \E c \in Composers : ComposerStep(c) \/ \E e \in Effects : Wake(c, e)
           \/ \E p \in Passes :
                  \/ PassStep(p)
                  \/ \E e \in Effects : \/ SeesExpired(p, e)
                                        \/ SeesLapsedClaim(p, e)
                                        \/ SeesUnknown(p, e)
           \/ Surroundings
  BY DEF EffectNext, Surroundings

LEMMA NextTyped == Typed /\ [EffectNext]_effectVars => Typed'
<1> SUFFICES ASSUME Typed, [EffectNext]_effectVars PROVE Typed'
  OBVIOUS
<1>1. CASE EffectNext
  BY <1>1, NextCases, WakeTyped, ComposerStepTyped, TakesTyped, PassStepTyped,
     SurroundingsTyped
<1>2. CASE UNCHANGED effectVars
  BY <1>2, Unchanged DEF effectVars, rows, Typed
<1> QED
  BY <1>1, <1>2

\* The rows, and what composers and passes carry between two of their steps,
\* keep their types.
THEOREM TypeCorrect == EffectSpec => []EffectTypeOK
<1>1. Typed => EffectTypeOK
  BY DEF Typed, EffectTypeOK, EffectTyped, RemoteTyped, ComposerTyped, PassTyped,
         OthersTyped
<1> QED
  BY <1>1, InitTyped, NextTyped, PTL DEF EffectSpec

-----------------------------------------------------------------------------
(* One outward call for each effect.                                       *)

Fresh == {"intent_recorded", "claimed"}

\* An effect that nobody marked as dispatched was not fired and nobody is
\* about to fire it; whoever is about to fire one is the only one and the first.
FireInv ==
    /\ \A e \in Effects : effect[e].state \in Fresh =>
          /\ remote[e].fired = 0
          /\ \A c \in Composers :
                composer[c].at = "calling" => composer[c].effect # e
    /\ \A c \in Composers : composer[c].at = "calling" =>
          /\ remote[composer[c].effect].fired = 0
          /\ \A d \in Composers \ {c} :
                composer[d].at = "calling" => composer[d].effect # composer[c].effect
    /\ FiredOnce

LEMMA InitFire == EffectInit => FireInv
  BY DEF EffectInit, FireInv, FiredOnce, Idle

\* What every step but Dispatch and Send leaves as it was.
Calm ==
    /\ \A e \in Effects : remote'[e].fired = remote[e].fired
    /\ \A c \in Composers : composer'[c].at = "calling" => composer'[c] = composer[c]
    /\ \A e \in Effects : effect'[e].state \in Fresh => effect[e].state \in Fresh

LEMMA CalmFire == ASSUME Typed, FireInv, Calm PROVE FireInv'
  BY DEF Typed, ComposerTyped, FireInv, FiredOnce, Calm

\* The kinds of change an action makes to one variable.
LEMMA MovesCalm ==
    ASSUME Typed, NEW e \in Effects, NEW target, NEW claim, EffectMoves(e, target, claim),
           target \in Fresh => effect[e].state \in Fresh
    PROVE  \A f \in Effects : effect'[f].state \in Fresh => effect[f].state \in Fresh
  BY DEF Typed, EffectTyped, EffectRow, EffectMoves

LEMMA MovesChanges ==
    ASSUME Typed, NEW e \in Effects, NEW target, NEW claim, EffectMoves(e, target, claim)
    PROVE  /\ effect'[e].state = target
           /\ effect'[e].version = effect[e].version + 1
           /\ \A f \in Effects \ {e} : effect'[f] = effect[f]
  BY DEF Typed, EffectTyped, EffectRow, EffectMoves

LEMMA EndsCalm ==
    ASSUME Typed, NEW c \in Composers, ComposerEnds(c)
    PROVE  \A d \in Composers : composer'[d].at = "calling" => composer'[d] = composer[d]
  BY DEF Typed, ComposerTyped, ComposerState, ComposerEnds, Idle

LEMMA WakeCalm ==
    ASSUME Typed, NEW c \in Composers, NEW e \in Effects, Wake(c, e)
    PROVE  Calm
  BY DEF Typed, ComposerTyped, Wake, rows, Untouched, Calm

LEMMA ComposerStepFire ==
    ASSUME Typed, FireInv, NEW c \in Composers, ComposerStep(c)
    PROVE  FireInv'
<1> USE DEF ComposerAt, rows, Untouched
<1> DEFINE e == composer[c].effect
<1>0. /\ composer[c].at # "idle" => e \in Effects
      /\ composer \in [Composers -> ComposerState]
      /\ effect \in [Effects -> EffectRow]
      /\ remote \in [Effects -> RemoteState]
  BY DEF Typed, ComposerTyped, EffectTyped, RemoteTyped
<1>1. CASE ClaimEffect(c)
  <2>1. \A f \in Effects : effect'[f].state \in Fresh => effect[f].state \in Fresh
    BY <1>0, <1>1, MovesCalm DEF ClaimEffect, Current, Fresh
  <2>2. \A d \in Composers : composer'[d].at = "calling" => composer'[d] = composer[d]
    BY <1>0, <1>1, EndsCalm DEF ClaimEffect, ComposerState
  <2> QED
    BY <1>1, <2>1, <2>2, CalmFire DEF ClaimEffect, Calm
<1>2. CASE DispatchEffect(c)
  <2>1. CASE EffectMoves(e, "dispatch_started", "live")
    <3>1. /\ e \in Effects /\ effect[e].state = "claimed" /\ remote' = remote
          /\ effect[e].version + 1 # effect[e].version
      BY <1>0, <1>2, <2>1, VersionsTyped, MovesChanges DEF DispatchEffect, Current
    <3>2. /\ effect'[e].state = "dispatch_started"
          /\ \A f \in Effects \ {e} : effect'[f] = effect[f]
      BY <2>1, <3>1, MovesChanges
    <3>3. composer' = [composer EXCEPT ![c] =
              [composer[c] EXCEPT !.at = "calling",
                                  !.version = composer[c].version + 1]]
      <4>1. ~UNCHANGED effect
        BY <3>1, <3>2
      <4> QED
        BY <1>2, <4>1 DEF DispatchEffect
    <3>4. /\ composer'[c].effect = e
          /\ \A d \in Composers \ {c} : composer'[d] = composer[d]
      BY <1>0, <3>3 DEF ComposerState
    <3> QED
      BY <1>0, <3>1, <3>2, <3>4 DEF FireInv, FiredOnce, Fresh
  <2>2. CASE ComposerEnds(c) /\ UNCHANGED effect
    BY <1>2, <2>2, EndsCalm, CalmFire DEF DispatchEffect, Calm
  <2> QED
    BY <1>2, <2>1, <2>2 DEF DispatchEffect
<1>3. CASE NotSent(c)
  BY <1>0, <1>3, CalmFire DEF NotSent, Calm, ComposerState
<1>4. CASE Send(c)
  <2>1. /\ e \in Effects /\ remote'[e].fired = remote[e].fired + 1
        /\ \A f \in Effects \ {e} : remote'[f] = remote[f]
        /\ composer'[c].at = "awaiting" /\ composer[c].at = "calling"
        /\ \A d \in Composers \ {c} : composer'[d] = composer[d]
        /\ effect' = effect
    BY <1>0, <1>4 DEF Send, ComposerGoes, ComposerState, RemoteState
  <2>2. remote[e].fired = 0 /\ effect[e].state \notin Fresh
    BY <2>1 DEF FireInv
  <2>3. remote'[e].fired = 1
    BY <2>1, <2>2
  <2>4. \A d \in Composers : composer'[d].at = "calling" =>
            d # c /\ composer[d].at = "calling" /\ composer'[d] = composer[d]
                  /\ composer[d].effect # e
    BY <2>1 DEF FireInv
  <2> HIDE DEF e
  <2>5. \A f \in Effects \ {e} : remote'[f].fired = remote[f].fired
    BY <2>1
  <2>6. FiredOnce'
    BY <2>3, <2>5 DEF FireInv, FiredOnce
  <2>7. \A f \in Effects : effect'[f].state \in Fresh => f # e
    BY <2>1, <2>2
  <2>8. \A d \in Composers : composer'[d].at = "calling" =>
            remote'[composer'[d].effect].fired = 0
    BY <2>4, <2>5 DEF FireInv, Typed, ComposerTyped
  <2> QED
    BY <2>1, <2>4, <2>5, <2>6, <2>7, <2>8 DEF FireInv
<1>5. ASSUME NEW outcome \in WriteOutcomes, Hear(c, outcome) PROVE FireInv'
  BY <1>0, <1>5, CalmFire DEF Hear, Calm, ComposerState, RemoteState
<1>6. CASE CloseNotExecuted(c)
  <2>1. \A f \in Effects : effect'[f].state \in Fresh => effect[f].state \in Fresh
    BY <1>0, <1>6, MovesCalm DEF CloseNotExecuted, Fresh
  <2> QED
    BY <1>6, <2>1, EndsCalm, CalmFire DEF CloseNotExecuted, Calm
<1>7. CASE CloseUnknown(c)
  <2>1. \A f \in Effects : effect'[f].state \in Fresh => effect[f].state \in Fresh
    BY <1>0, <1>7, MovesCalm DEF CloseUnknown, Fresh
  <2>2. \A d \in Composers : composer'[d].at = "calling" => composer'[d] = composer[d]
    BY <1>0, <1>7, EndsCalm DEF CloseUnknown, ComposerGoes, ComposerState
  <2> QED
    BY <1>7, <2>1, <2>2, CalmFire DEF CloseUnknown, Calm
<1>8. CASE StopFeature(c)
  BY <1>0, <1>8, EndsCalm, CalmFire DEF StopFeature, Calm
<1>9. CASE Confirm(c)
  <2>1. \A f \in Effects : effect'[f].state \in Fresh => effect[f].state \in Fresh
    BY <1>0, <1>9 DEF Confirm, EffectRow
  <2> QED
    BY <1>9, <2>1, EndsCalm, CalmFire DEF Confirm, Calm
<1> QED
  BY <1>1, <1>2, <1>3, <1>4, <1>5, <1>6, <1>7, <1>8, <1>9 DEF ComposerStep

LEMMA PassCalm ==
    ASSUME Typed, NEW p \in Passes,
           \/ PassStep(p)
           \/ \E e \in Effects :
                 SeesExpired(p, e) \/ SeesLapsedClaim(p, e) \/ SeesUnknown(p, e)
    PROVE  Calm
<1> USE DEF PassAt, rows, Untouched
<1>0. /\ pass[p].at # "idle" => pass[p].effect \in Effects
  BY DEF Typed, PassTyped
<1>1. CASE UNCHANGED <<effect, composer, remote>>
  BY <1>1 DEF Calm
<1>2. ASSUME NEW e \in Effects, NEW target \in {"unknown", "reconciling"},
             NEW claim, EffectMoves(e, target, claim), UNCHANGED <<composer, remote>>
      PROVE  Calm
  BY <1>2, MovesCalm DEF Calm, Fresh
<1>3. CASE Expire(p)
  BY <1>0, <1>1, <1>2, <1>3 DEF Expire
<1>4. CASE ReclaimClaim(p)
  BY <1>0, <1>1, <1>2, <1>4 DEF ReclaimClaim
<1>5. CASE StartReconciliation(p)
  BY <1>0, <1>1, <1>2, <1>5 DEF StartReconciliation
<1>6. CASE StillUnknown(p)
  BY <1>0, <1>1, <1>2, <1>6 DEF StillUnknown
<1> QED
  BY <1>1, <1>3, <1>4, <1>5, <1>6
  DEF PassStep, ParkFeature, ReadBack, JudgeReadBack, SeesExpired,
      SeesLapsedClaim, SeesUnknown, Takes

LEMMA SurroundingsCalm == ASSUME Typed, Surroundings PROVE Calm
<1> USE DEF rows, Untouched
<1>0. /\ effect \in [Effects -> EffectRow]
      /\ remote \in [Effects -> RemoteState]
  BY DEF Typed, EffectTyped, RemoteTyped
<1>1. ASSUME NEW c \in Composers, ComposerDies(c) PROVE Calm
  BY <1>1, EndsCalm DEF ComposerDies, Calm
<1>2. ASSUME NEW p \in Passes, PassDies(p) PROVE Calm
  BY <1>2 DEF PassDies, Calm
<1>3. ASSUME NEW e \in Effects, Answered(e) PROVE Calm
  BY <1>0, <1>3 DEF Answered, Arrives, Calm, RemoteState
<1>4. ASSUME NEW e \in Effects, ObjectChanges(e) PROVE Calm
  BY <1>0, <1>4 DEF ObjectChanges, Calm, RemoteState
<1>5. ASSUME NEW e \in Effects, ClaimLapses(e) PROVE Calm
  BY <1>0, <1>5 DEF ClaimLapses, Calm, EffectRow
<1>6. ASSUME NEW e \in Effects, NEW judged, ResumeEffect(e, judged) PROVE Calm
  <2>1. \A f \in Effects : effect'[f].state \in Fresh => effect[f].state \in Fresh
    BY <1>6, MovesCalm DEF ResumeEffect, Fresh
  <2> QED
    BY <1>6, <2>1 DEF ResumeEffect, Calm
<1> QED
  BY <1>1, <1>2, <1>3, <1>4, <1>5, <1>6 DEF Surroundings

LEMMA NextFire == Typed /\ FireInv /\ [EffectNext]_effectVars => FireInv'
<1> SUFFICES ASSUME Typed, FireInv, [EffectNext]_effectVars PROVE FireInv'
  OBVIOUS
<1>1. CASE EffectNext
  BY <1>1, NextCases, WakeCalm, ComposerStepFire, PassCalm, SurroundingsCalm,
     CalmFire
<1>2. CASE UNCHANGED effectVars
  BY <1>2, CalmFire DEF effectVars, rows, Calm
<1> QED
  BY <1>1, <1>2

\* However many composers are woken for an effect, again or at once, and
\* whoever of them dies, its outward call is made at most once.
THEOREM FiredAtMostOnce == EffectSpec => []FiredOnce
<1>1. FireInv => FiredOnce
  BY DEF FireInv
<1> QED
  BY <1>1, InitTyped, NextTyped, InitFire, NextFire, PTL DEF EffectSpec

-----------------------------------------------------------------------------
(* A confirmed park is never swept.                                        *)

Dispatched == {"calling", "awaiting", "judged"}

\* Nobody carries a version that the row has not reached, and once there is
\* a receipt, whoever could still close or expire the dispatch carries one
\* that the row has left behind.
ParkInv ==
    /\ \A c \in Composers : composer[c].at # "idle" =>
          composer[c].version <= effect[composer[c].effect].version
    /\ \A p \in Passes : pass[p].at # "idle" =>
          pass[p].version <= effect[pass[p].effect].version
    /\ \A e \in Effects : receipt[e] =>
          /\ effect[e].state = "dispatch_started"
          /\ \A c \in Composers :
                composer[c].effect = e /\ composer[c].at \in Dispatched =>
                    composer[c].version < effect[e].version
          /\ \A p \in Passes :
                pass[p].effect = e /\ pass[p].at = "expiring" =>
                    pass[p].version < effect[e].version

LEMMA InitPark == EffectInit => ParkInv
  BY DEF EffectInit, ParkInv, Idle, Waiting

\* What a step may do to rows, composers and passes without disturbing it.
RowsSteady ==
    \A e \in Effects :
        /\ effect'[e].version >= effect[e].version
        /\ receipt'[e] => receipt[e] /\ effect'[e].state = "dispatch_started"

ComposerKeeps(c) ==
    \/ composer'[c].at = "idle"
    \/ /\ composer[c].at # "idle"
       /\ composer'[c].effect = composer[c].effect
       /\ composer'[c].version = composer[c].version
       /\ composer'[c].at \in Dispatched => composer[c].at \in Dispatched

ComposerReads(c) ==
    /\ composer'[c].version <= effect'[composer'[c].effect].version
    /\ composer'[c].at \in Dispatched => ~receipt'[composer'[c].effect]

PassKeeps(p) ==
    \/ pass'[p].at = "idle"
    \/ /\ pass[p].at # "idle"
       /\ pass'[p].effect = pass[p].effect
       /\ pass'[p].version = pass[p].version
       /\ pass'[p].at = "expiring" => pass[p].at = "expiring"

PassReads(p) ==
    /\ pass'[p].version <= effect'[pass'[p].effect].version
    /\ pass'[p].at = "expiring" => ~receipt'[pass'[p].effect]

Steady ==
    /\ RowsSteady
    /\ \A c \in Composers : ComposerKeeps(c) \/ ComposerReads(c)
    /\ \A p \in Passes : PassKeeps(p) \/ PassReads(p)

LEMMA SteadyPark ==
    ASSUME Typed, Typed', ParkInv, Steady
    PROVE  ParkInv'
<1>0. /\ \A e \in Effects : effect[e].version \in Nat /\ effect'[e].version \in Nat
      /\ \A c \in Composers : composer[c].version \in Nat /\ composer'[c].version \in Nat
      /\ \A p \in Passes : pass[p].version \in Nat /\ pass'[p].version \in Nat
  BY DEF Typed, EffectTyped, EffectRow, ComposerTyped, ComposerState, PassTyped, PassState
<1>1. ASSUME NEW c \in Composers, composer'[c].at # "idle"
      PROVE  composer'[c].version <= effect'[composer'[c].effect].version
  <2>1. CASE ComposerKeeps(c)
    <3>1. composer[c].effect \in Effects
      BY <1>1, <2>1 DEF ComposerKeeps, Typed, ComposerTyped
    <3> QED
      BY <1>0, <1>1, <2>1, <3>1 DEF ComposerKeeps, ParkInv, Steady, RowsSteady
  <2>2. CASE ComposerReads(c)
    BY <2>2 DEF ComposerReads
  <2> QED
    BY <2>1, <2>2 DEF Steady
<1>2. ASSUME NEW p \in Passes, pass'[p].at # "idle"
      PROVE  pass'[p].version <= effect'[pass'[p].effect].version
  <2>1. CASE PassKeeps(p)
    <3>1. pass[p].effect \in Effects
      BY <1>2, <2>1 DEF PassKeeps, Typed, PassTyped
    <3> QED
      BY <1>0, <1>2, <2>1, <3>1 DEF PassKeeps, ParkInv, Steady, RowsSteady
  <2>2. CASE PassReads(p)
    BY <2>2 DEF PassReads
  <2> QED
    BY <2>1, <2>2 DEF Steady
<1>3. ASSUME NEW e \in Effects, receipt'[e], NEW c \in Composers,
             composer'[c].effect = e, composer'[c].at \in Dispatched
      PROVE  composer'[c].version < effect'[e].version
  <2>1. ComposerKeeps(c) /\ composer'[c].at # "idle"
    BY <1>3 DEF Steady, ComposerReads, Dispatched
  <2>2. composer[c].version < effect[e].version
    BY <1>3, <2>1 DEF ComposerKeeps, ParkInv, Steady, RowsSteady
  <2> QED
    BY <1>0, <2>1, <2>2 DEF ComposerKeeps, Steady, RowsSteady
<1>4. ASSUME NEW e \in Effects, receipt'[e], NEW p \in Passes,
             pass'[p].effect = e, pass'[p].at = "expiring"
      PROVE  pass'[p].version < effect'[e].version
  <2>1. PassKeeps(p)
    BY <1>4 DEF Steady, PassReads
  <2>2. pass[p].version < effect[e].version
    BY <1>4, <2>1 DEF PassKeeps, ParkInv, Steady, RowsSteady
  <2> QED
    BY <1>0, <1>4, <2>1, <2>2 DEF PassKeeps, Steady, RowsSteady
<1>5. \A e \in Effects : receipt'[e] => effect'[e].state = "dispatch_started"
  BY DEF Steady, RowsSteady
<1> QED
  BY <1>1, <1>2, <1>3, <1>4, <1>5 DEF ParkInv

\* Steps that leave the rows, all composers or all passes alone.
LEMMA UntouchedSteady ==
    ASSUME Typed, ParkInv
    PROVE  /\ UNCHANGED <<effect, receipt>> => RowsSteady
           /\ UNCHANGED composer => \A c \in Composers : ComposerKeeps(c)
           /\ UNCHANGED pass => \A p \in Passes : PassKeeps(p)
<1>1. UNCHANGED <<effect, receipt>> => RowsSteady
  BY VersionsTyped DEF RowsSteady, ParkInv
<1>2. UNCHANGED composer => \A c \in Composers : ComposerKeeps(c)
  BY DEF ComposerKeeps
<1>3. UNCHANGED pass => \A p \in Passes : PassKeeps(p)
  BY DEF PassKeeps
<1> QED
  BY <1>1, <1>2, <1>3

\* An edge of an effect whose dispatch is not confirmed.
LEMMA MovesSteady ==
    ASSUME Typed, ParkInv, NEW e \in Effects, NEW target, NEW claim,
           EffectMoves(e, target, claim), UNCHANGED receipt, ~receipt[e]
    PROVE  RowsSteady
<1>1. ASSUME NEW f \in Effects
      PROVE  /\ effect'[f].version >= effect[f].version
             /\ receipt'[f] => receipt[f] /\ effect'[f].state = "dispatch_started"
  <2>1. effect[f].version \in Nat
    BY VersionsTyped
  <2>2. CASE f = e
    BY <2>1, <2>2, MovesChanges
  <2>3. CASE f # e
    BY <2>1, <2>3, MovesChanges DEF ParkInv
  <2> QED
    BY <2>2, <2>3
<1> QED
  BY <1>1 DEF RowsSteady

LEMMA ComposerEndsSteady ==
    ASSUME Typed, NEW c \in Composers, ComposerEnds(c)
    PROVE  \A d \in Composers : ComposerKeeps(d)
  BY DEF Typed, ComposerTyped, ComposerEnds, Idle, ComposerKeeps

LEMMA PassEndsSteady ==
    ASSUME Typed, NEW p \in Passes, PassEnds(p)
    PROVE  \A q \in Passes : PassKeeps(q)
  BY DEF Typed, PassTyped, PassEnds, Waiting, PassKeeps

LEMMA PassGoesSteady ==
    ASSUME Typed, NEW p \in Passes, pass[p].at # "idle",
           NEW at \in PassAts \ {"expiring"}, PassGoes(p, at)
    PROVE  \A q \in Passes : PassKeeps(q)
  BY DEF Typed, PassTyped, PassState, PassGoes, PassAts, PassKeeps

LEMMA WakePark ==
    ASSUME Typed, Typed', ParkInv, NEW c \in Composers, NEW e \in Effects, Wake(c, e)
    PROVE  ParkInv'
<1>1. RowsSteady /\ \A p \in Passes : PassKeeps(p)
  BY UntouchedSteady DEF Wake, rows
<1>2. ASSUME NEW d \in Composers PROVE ComposerKeeps(d) \/ ComposerReads(d)
  <2>1. CASE d = c
    BY <2>1, VersionsTyped
    DEF Wake, rows, Typed, ComposerTyped, ComposerReads, Dispatched
  <2>2. CASE d # c
    BY <2>2 DEF Wake, Typed, ComposerTyped, ComposerKeeps
  <2> QED
    BY <2>1, <2>2
<1> QED
  BY <1>1, <1>2, SteadyPark DEF Steady

\* Whoever finds the row at another state, or at its own version, finds no
\* receipt.
LEMMA NoReceiptYet ==
    ASSUME Typed, ParkInv
    PROVE  /\ \A e \in Effects :
                 effect[e].state # "dispatch_started" => ~receipt[e]
           /\ \A c \in Composers :
                 LET e == composer[c].effect
                 IN  composer[c].at \in Dispatched
                     /\ effect[e].version = composer[c].version => ~receipt[e]
           /\ \A p \in Passes :
                 LET e == pass[p].effect
                 IN  pass[p].at = "expiring"
                     /\ effect[e].version = pass[p].version => ~receipt[e]
<1>1. \A e \in Effects : effect[e].state # "dispatch_started" => ~receipt[e]
  BY DEF ParkInv
<1>2. ASSUME NEW c \in Composers, composer[c].at \in Dispatched,
             effect[composer[c].effect].version = composer[c].version
      PROVE  ~receipt[composer[c].effect]
  BY <1>2, VersionsTyped DEF ParkInv, Typed, ComposerTyped, Dispatched
<1>3. ASSUME NEW p \in Passes, pass[p].at = "expiring",
             effect[pass[p].effect].version = pass[p].version
      PROVE  ~receipt[pass[p].effect]
  BY <1>3, VersionsTyped DEF ParkInv, Typed, PassTyped
<1> QED
  BY <1>1, <1>2, <1>3

LEMMA ComposerStepPark ==
    ASSUME Typed, Typed', ParkInv, NEW c \in Composers, ComposerStep(c)
    PROVE  ParkInv'
<1> USE DEF ComposerAt, rows, Untouched
<1> DEFINE e == composer[c].effect
<1>0. /\ composer[c].at # "idle" => e \in Effects
      /\ composer \in [Composers -> ComposerState]
      /\ effect \in [Effects -> EffectRow]
      /\ composer[c].version \in Nat
  BY VersionsTyped DEF Typed, ComposerTyped, EffectTyped
<1>1. CASE ClaimEffect(c)
  <2>1. RowsSteady /\ \A p \in Passes : PassKeeps(p)
    BY <1>0, <1>1, MovesSteady, UntouchedSteady, NoReceiptYet DEF ClaimEffect, Current
  <2>2. CASE ComposerEnds(c)
    BY <2>1, <2>2, ComposerEndsSteady, SteadyPark DEF Steady
  <2>3. CASE /\ Current(e, "intent_recorded", composer[c].version)
             /\ EffectMoves(e, "claimed", "live")
             /\ composer' = [composer EXCEPT ![c] =
                     [composer[c] EXCEPT !.saw = "claimed",
                                         !.version = composer[c].version + 1]]
    <3>1. /\ composer'[c].effect = e /\ composer'[c].at = "woken"
          /\ composer'[c].version = composer[c].version + 1
          /\ \A d \in Composers \ {c} : composer'[d] = composer[d]
      BY <1>0, <1>1, <2>3 DEF ClaimEffect, ComposerState
    <3>2. effect'[e].version = composer[c].version + 1
      BY <1>0, <1>1, <2>3, MovesChanges DEF ClaimEffect, Current
    <3>3. ComposerReads(c)
      BY <1>0, <3>1, <3>2 DEF ComposerReads, Dispatched
    <3>4. \A d \in Composers \ {c} : ComposerKeeps(d)
      BY <3>1 DEF ComposerKeeps
    <3> QED
      BY <2>1, <3>3, <3>4, SteadyPark DEF Steady
  <2> QED
    BY <1>1, <2>2, <2>3 DEF ClaimEffect
<1>2. CASE DispatchEffect(c)
  <2>1. RowsSteady /\ \A p \in Passes : PassKeeps(p)
    BY <1>0, <1>2, MovesSteady, UntouchedSteady, NoReceiptYet DEF DispatchEffect, Current
  <2>2. CASE ComposerEnds(c)
    BY <2>1, <2>2, ComposerEndsSteady, SteadyPark DEF Steady
  <2>3. CASE /\ Current(e, "claimed", composer[c].version)
             /\ EffectMoves(e, "dispatch_started", "live")
             /\ composer' = [composer EXCEPT ![c] =
                     [composer[c] EXCEPT !.at = "calling",
                                         !.version = composer[c].version + 1]]
    <3>1. /\ composer'[c].effect = e
          /\ composer'[c].version = composer[c].version + 1
          /\ \A d \in Composers \ {c} : composer'[d] = composer[d]
      BY <1>0, <1>2, <2>3 DEF DispatchEffect, ComposerState
    <3>2. effect'[e].version = composer[c].version + 1
      BY <1>0, <1>2, <2>3, MovesChanges DEF DispatchEffect, Current
    <3>3. e \in Effects /\ ~receipt[e] /\ receipt' = receipt
      BY <1>0, <1>2, <2>3, NoReceiptYet DEF DispatchEffect, Current
    <3>4. ComposerReads(c)
      BY <1>0, <3>1, <3>2, <3>3 DEF ComposerReads
    <3>5. \A d \in Composers \ {c} : ComposerKeeps(d)
      BY <3>1 DEF ComposerKeeps
    <3> QED
      BY <2>1, <3>4, <3>5, SteadyPark DEF Steady
  <2> QED
    BY <1>2, <2>2, <2>3 DEF DispatchEffect
<1>3. CASE NotSent(c)
  <2>1. \A d \in Composers : ComposerKeeps(d)
    BY <1>0, <1>3 DEF NotSent, ComposerKeeps, ComposerState, Dispatched
  <2> QED
    BY <1>3, <2>1, UntouchedSteady, SteadyPark DEF NotSent, Steady
<1>4. CASE Send(c)
  <2>1. \A d \in Composers : ComposerKeeps(d)
    BY <1>0, <1>4 DEF Send, ComposerGoes, ComposerKeeps, ComposerState, Dispatched
  <2> QED
    BY <1>4, <2>1, UntouchedSteady, SteadyPark DEF Send, Steady
<1>5. ASSUME NEW outcome \in WriteOutcomes, Hear(c, outcome) PROVE ParkInv'
  <2>1. \A d \in Composers : ComposerKeeps(d)
    BY <1>0, <1>5 DEF Hear, ComposerKeeps, ComposerState, Dispatched
  <2> QED
    BY <1>5, <2>1, UntouchedSteady, SteadyPark DEF Hear, Steady
<1>6. CASE CloseNotExecuted(c)
  <2>1. RowsSteady
    BY <1>0, <1>6, MovesSteady, UntouchedSteady, NoReceiptYet
    DEF CloseNotExecuted, Current, Dispatched
  <2> QED
    BY <1>6, <2>1, UntouchedSteady, ComposerEndsSteady, SteadyPark
    DEF CloseNotExecuted, Steady
<1>7. CASE CloseUnknown(c)
  <2>1. RowsSteady
    BY <1>0, <1>7, MovesSteady, UntouchedSteady, NoReceiptYet
    DEF CloseUnknown, Current, Dispatched
  <2>2. CASE ComposerGoes(c, "stopping")
    <3>1. \A d \in Composers : ComposerKeeps(d)
      BY <1>0, <1>7, <2>2
      DEF CloseUnknown, ComposerGoes, ComposerKeeps, ComposerState, Dispatched
    <3> QED
      BY <1>7, <2>1, <3>1, UntouchedSteady, SteadyPark DEF CloseUnknown, Steady
  <2>3. CASE ComposerEnds(c)
    BY <1>7, <2>1, <2>3, UntouchedSteady, ComposerEndsSteady, SteadyPark
    DEF CloseUnknown, Steady
  <2> QED
    BY <1>7, <2>2, <2>3 DEF CloseUnknown
<1>8. CASE StopFeature(c)
  BY <1>8, UntouchedSteady, ComposerEndsSteady, SteadyPark DEF StopFeature, Steady
<1>9. CASE Confirm(c)
  <2>1. CASE UNCHANGED <<effect, receipt>>
    BY <1>9, <2>1, UntouchedSteady, ComposerEndsSteady, SteadyPark
    DEF Confirm, Steady
  <2>2. CASE /\ effect[e].state = "dispatch_started"
             /\ receipt' = [receipt EXCEPT ![e] = TRUE]
             /\ effect' = [effect EXCEPT ![e].version = @ + 1]
    <3>1. /\ e \in Effects /\ effect[e].version \in Nat
          /\ pass' = pass /\ composer' = [composer EXCEPT ![c] = Idle]
      BY <1>0, <1>9, VersionsTyped DEF Confirm, ComposerEnds
    <3>2. /\ effect'[e].version = effect[e].version + 1
          /\ effect'[e].state = "dispatch_started"
          /\ \A f \in Effects \ {e} : effect'[f] = effect[f]
      BY <1>0, <2>2, <3>1 DEF EffectRow
    <3>3. \A f \in Effects \ {e} : receipt'[f] = receipt[f]
      BY <2>2, <3>1 DEF Typed, OthersTyped
    <3>4. \A d \in Composers : composer'[d].at # "idle" => composer'[d] = composer[d]
      BY <1>0, <3>1 DEF Idle
    <3> HIDE DEF e
    <3>5. ASSUME NEW d \in Composers, composer'[d].at # "idle"
          PROVE  /\ composer'[d].version <= effect'[composer'[d].effect].version
                 /\ composer'[d].effect = e =>
                        composer'[d].version < effect'[e].version
      <4>1. /\ composer'[d] = composer[d] /\ composer[d].effect \in Effects
            /\ composer[d].version <= effect[composer[d].effect].version
            /\ composer[d].version \in Nat
            /\ effect[composer[d].effect].version \in Nat
        BY <3>4, <3>5, VersionsTyped DEF ParkInv, Typed, ComposerTyped
      <4> QED
        BY <3>1, <3>2, <4>1
    <3>6. ASSUME NEW q \in Passes, pass[q].at # "idle"
          PROVE  /\ pass[q].version <= effect'[pass[q].effect].version
                 /\ pass[q].effect = e => pass[q].version < effect'[e].version
      <4>1. /\ pass[q].effect \in Effects
            /\ pass[q].version <= effect[pass[q].effect].version
            /\ pass[q].version \in Nat
            /\ effect[pass[q].effect].version \in Nat
        BY <3>6, VersionsTyped DEF ParkInv, Typed, PassTyped
      <4> QED
        BY <3>1, <3>2, <4>1
    <3>7. ASSUME NEW f \in Effects, receipt'[f]
          PROVE  /\ effect'[f].state = "dispatch_started"
                 /\ \A d \in Composers :
                       composer'[d].effect = f /\ composer'[d].at \in Dispatched =>
                           composer'[d].version < effect'[f].version
                 /\ \A q \in Passes :
                       pass'[q].effect = f /\ pass'[q].at = "expiring" =>
                           pass'[q].version < effect'[f].version
      <4>1. CASE f = e
        BY <3>1, <3>2, <3>5, <3>6, <4>1 DEF Dispatched
      <4>2. CASE f # e
        BY <3>1, <3>2, <3>3, <3>4, <3>7, <4>2 DEF ParkInv, Dispatched
      <4> QED
        BY <4>1, <4>2
    <3> QED
      BY <3>1, <3>5, <3>6, <3>7 DEF ParkInv
  <2> QED
    BY <1>9, <2>1, <2>2 DEF Confirm
<1> QED
  BY <1>1, <1>2, <1>3, <1>4, <1>5, <1>6, <1>7, <1>8, <1>9 DEF ComposerStep

LEMMA TakesPark ==
    ASSUME Typed, Typed', ParkInv, NEW p \in Passes, NEW e \in Effects,
           SeesExpired(p, e) \/ SeesLapsedClaim(p, e) \/ SeesUnknown(p, e)
    PROVE  ParkInv'
<1>1. PICK at \in PassAts : /\ Takes(p, e, at)
                            /\ at = "expiring" => ~receipt[e]
  BY DEF SeesExpired, SeesLapsedClaim, SeesUnknown, PassAts
<1>2. RowsSteady /\ \A c \in Composers : ComposerKeeps(c)
  BY <1>1, UntouchedSteady DEF Takes, rows
<1>3. /\ pass'[p].effect = e /\ pass'[p].at = at
      /\ pass'[p].version = effect[e].version
      /\ \A q \in Passes \ {p} : pass'[q] = pass[q]
      /\ effect' = effect /\ receipt' = receipt
  BY <1>1 DEF Takes, rows, Typed, PassTyped, PassState
<1>4. PassReads(p)
  BY <1>1, <1>3, VersionsTyped DEF PassReads
<1>5. \A q \in Passes \ {p} : PassKeeps(q)
  BY <1>3 DEF PassKeeps
<1> QED
  BY <1>2, <1>4, <1>5, SteadyPark DEF Steady

LEMMA PassStepPark ==
    ASSUME Typed, Typed', ParkInv, NEW p \in Passes, PassStep(p)
    PROVE  ParkInv'
<1> USE DEF PassAt, rows, Untouched
<1> DEFINE e == pass[p].effect
<1>0. /\ pass[p].at # "idle" => e \in Effects
      /\ pass \in [Passes -> PassState]
      /\ pass[p].version \in Nat
  BY VersionsTyped DEF Typed, PassTyped
<1>1. CASE Expire(p)
  <2>1. RowsSteady
    BY <1>0, <1>1, MovesSteady, UntouchedSteady, NoReceiptYet DEF Expire, Current
  <2>2. \A q \in Passes : PassKeeps(q)
    BY <1>1, PassEndsSteady, PassGoesSteady DEF Expire, PassAts
  <2> QED
    BY <1>1, <2>1, <2>2, UntouchedSteady, SteadyPark DEF Expire, Steady
<1>2. CASE ParkFeature(p)
  BY <1>2, PassEndsSteady, UntouchedSteady, SteadyPark DEF ParkFeature, Steady
<1>3. CASE ReclaimClaim(p)
  <2>1. RowsSteady
    BY <1>0, <1>3, MovesSteady, UntouchedSteady, NoReceiptYet DEF ReclaimClaim, Current
  <2> QED
    BY <1>3, <2>1, PassEndsSteady, UntouchedSteady, SteadyPark DEF ReclaimClaim, Steady
<1>4. CASE StartReconciliation(p)
  <2>1. RowsSteady
    BY <1>0, <1>4, MovesSteady, UntouchedSteady, NoReceiptYet
    DEF StartReconciliation, Current
  <2>2. CASE PassEnds(p)
    BY <1>4, <2>1, <2>2, PassEndsSteady, UntouchedSteady, SteadyPark
    DEF StartReconciliation, Steady
  <2>3. CASE /\ Current(e, "unknown", pass[p].version)
             /\ EffectMoves(e, "reconciling", "live")
             /\ pass' = [pass EXCEPT ![p] =
                     [pass[p] EXCEPT !.at = "reading",
                                     !.version = pass[p].version + 1]]
    <3>1. /\ pass'[p].effect = e /\ pass'[p].at = "reading"
          /\ pass'[p].version = pass[p].version + 1
          /\ \A q \in Passes \ {p} : pass'[q] = pass[q]
      BY <1>0, <2>3 DEF PassState
    <3>2. effect'[e].version = pass[p].version + 1
      BY <1>0, <1>4, <2>3, MovesChanges DEF StartReconciliation, Current
    <3>3. PassReads(p)
      BY <1>0, <3>1, <3>2 DEF PassReads
    <3>4. \A q \in Passes \ {p} : PassKeeps(q)
      BY <3>1 DEF PassKeeps
    <3> QED
      BY <1>4, <2>1, <3>3, <3>4, UntouchedSteady, SteadyPark
      DEF StartReconciliation, Steady
  <2> QED
    BY <1>4, <2>2, <2>3 DEF StartReconciliation
<1>5. ASSUME NEW judged \in Judgements, ReadBack(p, judged) PROVE ParkInv'
  <2>1. \A q \in Passes : PassKeeps(q)
    BY <1>0, <1>5 DEF ReadBack, PassKeeps, PassState
  <2> QED
    BY <1>5, <2>1, UntouchedSteady, SteadyPark DEF ReadBack, Steady
<1>6. CASE JudgeReadBack(p)
  <2>1. \A q \in Passes : PassKeeps(q)
    BY <1>6, PassEndsSteady, PassGoesSteady DEF JudgeReadBack, PassAts
  <2> QED
    BY <1>6, <2>1, UntouchedSteady, SteadyPark DEF JudgeReadBack, Steady
<1>7. CASE StillUnknown(p)
  <2>1. RowsSteady
    BY <1>0, <1>7, MovesSteady, UntouchedSteady, NoReceiptYet DEF StillUnknown, Current
  <2> QED
    BY <1>7, <2>1, PassEndsSteady, UntouchedSteady, SteadyPark DEF StillUnknown, Steady
<1> QED
  BY <1>1, <1>2, <1>3, <1>4, <1>5, <1>6, <1>7 DEF PassStep

LEMMA SurroundingsPark ==
    ASSUME Typed, Typed', ParkInv, Surroundings
    PROVE  ParkInv'
<1> USE DEF rows, Untouched
<1>1. ASSUME NEW c \in Composers, ComposerDies(c) PROVE ParkInv'
  BY <1>1, ComposerEndsSteady, UntouchedSteady, SteadyPark DEF ComposerDies, Steady
<1>2. ASSUME NEW p \in Passes, PassDies(p) PROVE ParkInv'
  BY <1>2, PassEndsSteady, UntouchedSteady, SteadyPark DEF PassDies, Steady
<1>3. ASSUME NEW e \in Effects, Answered(e) \/ ObjectChanges(e) PROVE ParkInv'
  BY <1>3, UntouchedSteady, SteadyPark DEF Answered, Arrives, ObjectChanges, Steady
<1>4. ASSUME NEW e \in Effects, ClaimLapses(e) PROVE ParkInv'
  <2>1. \A f \in Effects : /\ effect'[f].version = effect[f].version
                            /\ effect'[f].state = effect[f].state
    BY <1>4 DEF ClaimLapses, Typed, EffectTyped, EffectRow
  <2>2. RowsSteady
    BY <1>4, <2>1, VersionsTyped DEF ClaimLapses, RowsSteady, ParkInv
  <2> QED
    BY <1>4, <2>2, UntouchedSteady, SteadyPark DEF ClaimLapses, Steady
<1>5. ASSUME NEW e \in Effects, NEW judged, ResumeEffect(e, judged) PROVE ParkInv'
  <2>1. RowsSteady
    BY <1>5, MovesSteady, NoReceiptYet DEF ResumeEffect
  <2> QED
    BY <1>5, <2>1, UntouchedSteady, SteadyPark DEF ResumeEffect, Steady
<1> QED
  BY <1>1, <1>2, <1>3, <1>4, <1>5 DEF Surroundings

LEMMA NextPark == Typed /\ ParkInv /\ [EffectNext]_effectVars => ParkInv'
<1> SUFFICES ASSUME Typed, ParkInv, [EffectNext]_effectVars PROVE ParkInv'
  OBVIOUS
<1>0. Typed'
  BY NextTyped
<1>1. CASE EffectNext
  BY <1>0, <1>1, NextCases, WakePark, ComposerStepPark, TakesPark, PassStepPark,
     SurroundingsPark
<1>2. CASE UNCHANGED effectVars
  BY <1>0, <1>2, UntouchedSteady, SteadyPark DEF effectVars, rows, Steady
<1> QED
  BY <1>1, <1>2

\* A receipt and the expiry of the dispatch it confirms cannot both win: a
\* confirmed effect stays at dispatch_started, whatever a composer or a
\* sweep read of it before.
THEOREM ConfirmedParkKept == EffectSpec => []ReceiptKeepsThePark
<1>1. ParkInv => ReceiptKeepsThePark
  BY DEF ParkInv, ReceiptKeepsThePark
<1> QED
  BY <1>1, InitTyped, NextTyped, InitPark, NextPark, PTL DEF EffectSpec

-----------------------------------------------------------------------------
(* What is said not to have been executed left nothing.                    *)

Handled == {"unknown", "reconciling", "confirmed_completed",
            "confirmed_not_executed"}
AfterCall == {"starting", "reading", "judging", "returning", "reclaiming"}
Calling == {"calling", "awaiting"}

On(c, e, ats) == composer[c].effect = e /\ composer[c].at \in ats
Gone(e) == remote[e].object \in {"never", "deleted"}

\* Nothing is at GitHub before the dispatch; a request under way keeps the
\* dispatch and its claim; what was judged absent is so for good.
RemoteInv(e) ==
    /\ effect[e].state \in Fresh =>
          /\ ~remote[e].wire /\ remote[e].object = "never"
          /\ \A c \in Composers : ~On(c, e, Dispatched)
    /\ remote[e].wire =>
          /\ remote[e].object = "never"
          /\ effect[e].state = "dispatch_started" /\ effect[e].claim = "live"
    /\ remote[e].object # "never" => remote[e].answer = "done"
    /\ effect[e].state = "confirmed_not_executed" => remote[e].reminted \/ Gone(e)
    /\ <<e, "absent">> \in verdicts => Gone(e) /\ effect[e].state \in Handled

\* One composer makes the call, under a live claim, and knows what it heard.
CallInv(c, e) ==
    /\ On(c, e, Calling) =>
          effect[e].state = "dispatch_started" /\ effect[e].claim = "live"
    /\ On(c, e, {"calling"}) => remote[e].object = "never" /\ ~remote[e].wire
    /\ On(c, e, {"judged"}) =>
          /\ ~remote[e].wire
          /\ composer[c].outcome = "not_executed" =>
                remote[e].reminted \/ remote[e].object = "never"
    /\ On(c, e, Dispatched) =>
          \A d \in Composers \ {c} : ~On(d, e, Dispatched)

\* A pass reads an effect back only after its call is over.
SweepInv(p) ==
    LET e == pass[p].effect IN
    /\ pass[p].at \in AfterCall => effect[e].state \in Handled
    /\ pass[p].at = "judging" /\ pass[p].judged = "absent" => Gone(e)
    /\ pass[p].at = "expiring" /\ pass[p].version = effect[e].version =>
          effect[e].claim = "lapsed"

TrueInv ==
    /\ \A e \in Effects : RemoteInv(e) /\ \A c \in Composers : CallInv(c, e)
    /\ \A p \in Passes : SweepInv(p)

LEMMA InitTrue == EffectInit => TrueInv
  BY DEF EffectInit, TrueInv, RemoteInv, CallInv, SweepInv, On, Gone, Idle, Waiting,
         Fresh, Dispatched, Calling, AfterCall

\* Composers and passes that a step leaves where they are, as far as it matters.
ComposersCalm ==
    \A c \in Composers : composer'[c].at \in Dispatched => composer'[c] = composer[c]
PassStays(p) ==
    pass'[p].at \in AfterCall \cup {"expiring"} => pass'[p] = pass[p]

\* Rows that a step leaves where they are, as far as passes see them.
RowsCalm ==
    \A e \in Effects :
        /\ effect[e].state \in Handled => effect'[e].state \in Handled
        /\ \/ effect'[e].version > effect[e].version
           \/ /\ effect'[e].version = effect[e].version
              /\ effect[e].claim = "lapsed" => effect'[e].claim = "lapsed"

GoneStays == \A e \in Effects : Gone(e) /\ effect[e].state \in Handled => Gone(e)'

LEMMA CalmSweep ==
    ASSUME Typed, Typed', ParkInv, TrueInv, RowsCalm, GoneStays,
           NEW p \in Passes, PassStays(p)
    PROVE  SweepInv(p)'
<1> USE DEF PassStays
<1>1. CASE pass'[p].at \in AfterCall
  <2>1. pass'[p] = pass[p] /\ pass[p].effect \in Effects /\ pass[p].at \in AfterCall
    BY <1>1 DEF Typed, PassTyped, AfterCall
  <2>2. effect[pass[p].effect].state \in Handled
    BY <2>1 DEF TrueInv, SweepInv
  <2> QED
    BY <1>1, <2>1, <2>2 DEF TrueInv, SweepInv, RowsCalm, GoneStays, AfterCall
<1>2. CASE pass'[p].at = "expiring"
  <2>1. pass'[p] = pass[p] /\ pass[p].effect \in Effects /\ pass[p].at = "expiring"
    BY <1>2 DEF Typed, PassTyped
  <2>2. /\ pass[p].version <= effect[pass[p].effect].version
        /\ pass[p].version \in Nat /\ effect[pass[p].effect].version \in Nat
        /\ effect'[pass[p].effect].version \in Nat
    BY <2>1, VersionsTyped DEF ParkInv, Typed, EffectTyped, EffectRow
  <2>3. pass[p].version = effect'[pass[p].effect].version =>
            effect'[pass[p].effect].claim = "lapsed"
    BY <2>1, <2>2 DEF TrueInv, SweepInv, RowsCalm
  <2> QED
    BY <1>2, <2>1, <2>3 DEF SweepInv, AfterCall
<1>3. CASE pass'[p].at \notin AfterCall \cup {"expiring"}
  BY <1>3 DEF SweepInv, AfterCall
<1> QED
  BY <1>1, <1>2, <1>3

LEMMA CalmCall ==
    ASSUME TrueInv, ComposersCalm, NEW c \in Composers, NEW e \in Effects,
           On(c, e, Calling) =>
               effect'[e].state = effect[e].state /\ effect'[e].claim = effect[e].claim,
           remote'[e].wire => remote[e].wire,
           remote[e].reminted => remote'[e].reminted,
           remote[e].object = "never" /\ ~remote[e].wire => remote'[e].object = "never"
    PROVE  CallInv(c, e)'
<1>1. ASSUME NEW d \in Composers, On(d, e, Dispatched)'
      PROVE  composer'[d] = composer[d] /\ On(d, e, Dispatched)
  BY <1>1 DEF ComposersCalm, On
<1>2. ASSUME On(c, e, Calling)'
      PROVE  effect'[e].state = "dispatch_started" /\ effect'[e].claim = "live"
  BY <1>1, <1>2 DEF TrueInv, CallInv, On, Calling, Dispatched
<1>3. ASSUME On(c, e, {"calling"})'
      PROVE  remote'[e].object = "never" /\ ~remote'[e].wire
  BY <1>1, <1>3 DEF TrueInv, CallInv, On, Dispatched
<1>4. ASSUME On(c, e, {"judged"})'
      PROVE  /\ ~remote'[e].wire
             /\ composer'[c].outcome = "not_executed" =>
                   remote'[e].reminted \/ remote'[e].object = "never"
  BY <1>1, <1>4 DEF TrueInv, CallInv, On, Dispatched
<1>5. ASSUME On(c, e, Dispatched)', NEW d \in Composers \ {c}
      PROVE  ~On(d, e, Dispatched)'
  BY <1>1, <1>5 DEF TrueInv, CallInv
<1> QED
  BY <1>2, <1>3, <1>4, <1>5 DEF CallInv

\* An edge out of a dispatch that is over, or between later states.
LEMMA EdgeTrue ==
    ASSUME Typed, Typed', ParkInv, TrueInv, NEW e \in Effects,
           NEW target \in Handled, NEW claim, EffectMoves(e, target, claim),
           UNCHANGED <<remote, verdicts>>, ComposersCalm,
           effect[e].state \notin Fresh, ~remote[e].wire,
           \A c \in Composers : ~On(c, e, Calling),
           target = "confirmed_not_executed" => remote[e].reminted \/ Gone(e),
           \A p \in Passes : PassStays(p) \/ SweepInv(p)'
    PROVE  TrueInv'
<1>1. /\ effect'[e].state = target
      /\ effect'[e].version = effect[e].version + 1
      /\ effect[e].version \in Nat
      /\ \A f \in Effects \ {e} : effect'[f] = effect[f]
  BY MovesChanges, VersionsTyped
<1>2. ASSUME NEW f \in Effects PROVE RemoteInv(f)'
  <2>1. CASE f = e
    BY <1>1, <2>1 DEF TrueInv, RemoteInv, Fresh, Handled, Gone
  <2>2. CASE f # e
    <3>1. ASSUME NEW c \in Composers, On(c, f, Dispatched)'
          PROVE  On(c, f, Dispatched)
      BY <3>1 DEF ComposersCalm, On
    <3> QED
      BY <1>1, <1>2, <2>2, <3>1 DEF TrueInv, RemoteInv, Gone
  <2> QED
    BY <2>1, <2>2
<1>3. ASSUME NEW f \in Effects, NEW c \in Composers PROVE CallInv(c, f)'
  BY <1>1, <1>3, CalmCall
<1>4. RowsCalm /\ GoneStays
  BY <1>1, VersionsTyped DEF RowsCalm, GoneStays, Gone
<1>5. ASSUME NEW p \in Passes PROVE SweepInv(p)'
  BY <1>4, <1>5, CalmSweep
<1> QED
  BY <1>2, <1>3, <1>5 DEF TrueInv

\* A step that moves no row's state; what it finds absent is.
LEMMA FoundTrue ==
    ASSUME Typed, Typed', ParkInv, TrueInv,
           \A e \in Effects : effect'[e].state = effect[e].state
                              /\ effect'[e].claim = effect[e].claim
                              /\ effect'[e].version >= effect[e].version,
           UNCHANGED remote, ComposersCalm,
           \A e \in Effects : <<e, "absent">> \in verdicts' =>
               \/ <<e, "absent">> \in verdicts
               \/ Gone(e) /\ effect[e].state \in Handled,
           \A p \in Passes : PassStays(p) \/ SweepInv(p)'
    PROVE  TrueInv'
<1>1. ASSUME NEW f \in Effects PROVE RemoteInv(f)'
  <2>1. ASSUME NEW c \in Composers, On(c, f, Dispatched)' PROVE On(c, f, Dispatched)
    BY <2>1 DEF ComposersCalm, On
  <2> QED
    BY <1>1, <2>1 DEF TrueInv, RemoteInv, Gone
<1>2. ASSUME NEW f \in Effects, NEW c \in Composers PROVE CallInv(c, f)'
  BY <1>2, CalmCall
<1>3. RowsCalm /\ GoneStays
  <2>1. ASSUME NEW f \in Effects
        PROVE  effect[f].version \in Nat /\ effect'[f].version \in Nat
    BY DEF Typed, EffectTyped, EffectRow
  <2> QED
    BY <2>1 DEF RowsCalm, GoneStays, Gone
<1>4. ASSUME NEW p \in Passes PROVE SweepInv(p)'
  BY <1>3, <1>4, CalmSweep
<1> QED
  BY <1>1, <1>2, <1>4 DEF TrueInv

\* A step that moves no row's state.
LEMMA SameTrue ==
    ASSUME Typed, Typed', ParkInv, TrueInv,
           \A e \in Effects : effect'[e].state = effect[e].state
                              /\ effect'[e].claim = effect[e].claim
                              /\ effect'[e].version >= effect[e].version,
           UNCHANGED <<remote, verdicts>>, ComposersCalm,
           \A p \in Passes : PassStays(p) \/ SweepInv(p)'
    PROVE  TrueInv'
  BY FoundTrue

LEMMA ComposerEndsCalm ==
    ASSUME Typed, NEW c \in Composers, ComposerEnds(c)
    PROVE  ComposersCalm
  BY DEF Typed, ComposerTyped, ComposerEnds, Idle, ComposersCalm, Dispatched

LEMMA PassEndsCalm ==
    ASSUME Typed, NEW p \in Passes, PassEnds(p)
    PROVE  \A q \in Passes : PassStays(q)
  BY DEF Typed, PassTyped, PassEnds, Waiting, PassStays, AfterCall

LEMMA UnchangedCalm ==
    /\ UNCHANGED composer => ComposersCalm
    /\ UNCHANGED pass => \A p \in Passes : PassStays(p)
    /\ Typed /\ UNCHANGED effect =>
         \A e \in Effects : effect'[e].state = effect[e].state
                            /\ effect'[e].claim = effect[e].claim
                            /\ effect'[e].version >= effect[e].version
<1>1. ASSUME Typed, UNCHANGED effect, NEW e \in Effects
      PROVE  effect'[e].version >= effect[e].version
  BY <1>1, VersionsTyped
<1> QED
  BY <1>1 DEF ComposersCalm, PassStays

LEMMA WakeTrue ==
    ASSUME Typed, Typed', ParkInv, TrueInv,
           NEW c \in Composers, NEW e \in Effects, Wake(c, e)
    PROVE  TrueInv'
<1>1. ComposersCalm
  BY DEF Wake, ComposersCalm, Dispatched, Typed, ComposerTyped
<1> QED
  BY <1>1, UnchangedCalm, SameTrue DEF Wake, rows, Untouched

\* Only a composer that is not yet at its answer can have a request under way
\* to wait for; one that was dispatched finds the row handled by nobody else.
LEMMA JudgedAlone ==
    ASSUME Typed, TrueInv, NEW c \in Composers, composer[c].at = "judged"
    PROVE  LET e == composer[c].effect IN
           /\ ~remote[e].wire
           /\ effect[e].state \notin Fresh
           /\ \A d \in Composers : ~On(d, e, Calling)
           /\ composer[c].outcome = "not_executed" => remote[e].reminted \/ Gone(e)
<1> DEFINE e == composer[c].effect
<1>1. e \in Effects /\ On(c, e, {"judged"}) /\ On(c, e, Dispatched)
  BY DEF Typed, ComposerTyped, On, Dispatched
<1>2. /\ ~remote[e].wire
      /\ composer[c].outcome = "not_executed" => remote[e].reminted \/ Gone(e)
  BY <1>1 DEF TrueInv, CallInv, Gone
<1>3. effect[e].state \notin Fresh
  BY <1>1 DEF TrueInv, RemoteInv
<1>4. ASSUME NEW d \in Composers PROVE ~On(d, e, Calling)
  <2>1. CASE d = c
    BY <2>1 DEF On, Calling
  <2>2. CASE d # c
    BY <1>1, <2>2 DEF TrueInv, CallInv, On, Calling, Dispatched
  <2> QED
    BY <2>1, <2>2
<1> QED
  BY <1>2, <1>3, <1>4

\* A row that is handled, or whose claim has lapsed, has no call under way.
LEMMA OverAlone ==
    ASSUME Typed, TrueInv, NEW e \in Effects,
           effect[e].state \in Handled \/ effect[e].claim = "lapsed"
    PROVE  /\ ~remote[e].wire
           /\ \A d \in Composers : ~On(d, e, Calling)
  BY DEF TrueInv, RemoteInv, CallInv, Handled

\* The one caller of an effect goes on with its call.
LEMMA CallMoves ==
    ASSUME Typed, Typed', ParkInv, TrueInv, NEW c \in Composers, NEW e \in Effects,
           On(c, e, Calling), On(c, e, {"awaiting", "judged"})',
           \A d \in Composers \ {c} : composer'[d] = composer[d],
           UNCHANGED <<effect, pass, verdicts>>,
           \A f \in Effects \ {e} : remote'[f] = remote[f],
           remote'[e].object = remote[e].object,
           remote'[e].answer = remote[e].answer,
           remote'[e].wire => remote[e].object = "never",
           remote[e].reminted => remote'[e].reminted,
           On(c, e, {"judged"})' =>
               /\ ~remote'[e].wire
               /\ composer'[c].outcome = "not_executed" =>
                     remote'[e].reminted \/ remote'[e].object = "never"
    PROVE  TrueInv'
<1>1. /\ effect[e].state = "dispatch_started" /\ effect[e].claim = "live"
      /\ On(c, e, Dispatched)
      /\ \A d \in Composers \ {c} : ~On(d, e, Dispatched)
  BY DEF TrueInv, CallInv, On, Calling, Dispatched
<1>2. ASSUME NEW d \in Composers, NEW f \in Effects, On(d, f, Dispatched)'
      PROVE  \/ d = c /\ f = e
             \/ d # c /\ f # e /\ On(d, f, Dispatched)
  <2>1. CASE d = c
    BY <1>2, <2>1 DEF On
  <2>2. CASE d # c
    <3>1. composer'[d] = composer[d] /\ ~On(d, e, Dispatched)
      BY <1>1, <2>2
    <3> QED
      BY <1>2, <2>2, <3>1 DEF On
  <2> QED
    BY <2>1, <2>2
<1>3. ASSUME NEW f \in Effects PROVE RemoteInv(f)'
  <2>1. CASE f = e
    BY <1>1, <2>1 DEF TrueInv, RemoteInv, Fresh, Handled
  <2>2. CASE f # e
    BY <1>2, <1>3, <2>2 DEF TrueInv, RemoteInv, Gone
  <2> QED
    BY <2>1, <2>2
<1>4. ASSUME NEW f \in Effects, NEW d \in Composers PROVE CallInv(d, f)'
  <2>1. On(d, f, Dispatched)' => \A g \in Composers \ {d} : ~On(g, f, Dispatched)'
    <3>1. ASSUME On(d, f, Dispatched)', NEW g \in Composers \ {d},
                 On(g, f, Dispatched)'
          PROVE  FALSE
      BY <1>2, <1>4, <3>1 DEF TrueInv, CallInv
    <3> QED
      BY <3>1
  <2>2. CASE d = c /\ f = e
    BY <1>1, <2>1, <2>2 DEF CallInv, On, Calling
  <2>3. CASE ~(d = c /\ f = e)
    <3>1. On(d, f, Dispatched)' => /\ remote'[f] = remote[f]
                                   /\ composer'[d] = composer[d]
      BY <1>2, <1>4, <2>3
    <3> QED
      BY <1>2, <1>4, <2>1, <2>3, <3>1
      DEF TrueInv, CallInv, On, Calling, Dispatched
  <2> QED
    BY <2>2, <2>3
<1>5. RowsCalm /\ GoneStays
  BY VersionsTyped DEF RowsCalm, GoneStays, Gone
<1> QED
  BY <1>3, <1>4, <1>5, UnchangedCalm, CalmSweep DEF TrueInv

LEMMA ComposerStepTrue ==
    ASSUME Typed, Typed', ParkInv, TrueInv, NEW c \in Composers, ComposerStep(c)
    PROVE  TrueInv'
<1> USE DEF ComposerAt, rows, Untouched
<1> DEFINE e == composer[c].effect
<1>0. /\ composer[c].at # "idle" => e \in Effects
      /\ composer \in [Composers -> ComposerState]
      /\ effect \in [Effects -> EffectRow]
      /\ remote \in [Effects -> RemoteState]
      /\ composer[c].version \in Nat
      /\ \A f \in Effects : effect[f].version \in Nat
  BY VersionsTyped DEF Typed, ComposerTyped, EffectTyped, RemoteTyped
<1>1. CASE ClaimEffect(c)
  <2>0. ComposersCalm /\ \A p \in Passes : PassStays(p)
    <3>1. CASE ComposerEnds(c)
      BY <1>1, <3>1, ComposerEndsCalm, UnchangedCalm DEF ClaimEffect
    <3>2. CASE composer' = [composer EXCEPT ![c] =
                     [composer[c] EXCEPT !.saw = "claimed",
                                         !.version = composer[c].version + 1]]
      BY <1>0, <1>1, <3>2, UnchangedCalm
      DEF ClaimEffect, ComposersCalm, ComposerState, Dispatched
    <3> QED
      BY <1>1, <3>1, <3>2 DEF ClaimEffect
  <2>1. CASE UNCHANGED effect
    BY <1>1, <2>0, <2>1, UnchangedCalm, SameTrue DEF ClaimEffect
  <2>2. CASE EffectMoves(e, "claimed", "live") /\ effect[e].state = "intent_recorded"
    <3>0. e \in Effects /\ remote' = remote /\ verdicts' = verdicts
      BY <1>0, <1>1 DEF ClaimEffect
    <3>1. /\ effect'[e].state = "claimed"
          /\ effect'[e].version = effect[e].version + 1
          /\ \A f \in Effects \ {e} : effect'[f] = effect[f]
      BY <2>2, <3>0, MovesChanges
    <3>2. /\ ~remote[e].wire /\ remote[e].object = "never"
          /\ \A d \in Composers : ~On(d, e, Dispatched)
          /\ <<e, "absent">> \notin verdicts
      BY <2>2, <3>0 DEF TrueInv, RemoteInv, Fresh, Handled
    <3>3. ASSUME NEW f \in Effects, NEW d \in Composers, On(d, f, Dispatched)'
          PROVE  On(d, f, Dispatched)
      BY <2>0, <3>3 DEF ComposersCalm, On
    <3> HIDE DEF e
    <3>4. ASSUME NEW f \in Effects PROVE RemoteInv(f)'
      BY <3>0, <3>1, <3>2, <3>3, <3>4 DEF TrueInv, RemoteInv, Gone, Fresh
    <3>5. ASSUME NEW f \in Effects, NEW d \in Composers PROVE CallInv(d, f)'
      <4>1. On(d, f, Calling) => f # e
        BY <3>2, <3>5 DEF On, Calling, Dispatched
      <4> QED
        BY <2>0, <3>0, <3>1, <3>5, <4>1, CalmCall
    <3>6. RowsCalm /\ GoneStays
      BY <1>0, <2>2, <3>0, <3>1 DEF RowsCalm, GoneStays, Gone, Handled
    <3> QED
      BY <2>0, <3>4, <3>5, <3>6, CalmSweep DEF TrueInv
  <2> QED
    BY <1>1, <2>1, <2>2 DEF ClaimEffect, Current
<1>2. CASE DispatchEffect(c)
  <2>0. \A p \in Passes : PassStays(p)
    BY <1>2, UnchangedCalm DEF DispatchEffect
  <2>1. CASE UNCHANGED effect /\ ComposerEnds(c)
    BY <1>2, <2>0, <2>1, ComposerEndsCalm, UnchangedCalm, SameTrue DEF DispatchEffect
  <2>2. CASE /\ EffectMoves(e, "dispatch_started", "live") /\ effect[e].state = "claimed"
             /\ composer' = [composer EXCEPT ![c] =
                     [composer[c] EXCEPT !.at = "calling",
                                         !.version = composer[c].version + 1]]
    <3>0. e \in Effects /\ remote' = remote /\ verdicts' = verdicts
      BY <1>0, <1>2 DEF DispatchEffect
    <3>1. /\ effect'[e].state = "dispatch_started"
          /\ effect'[e].version = effect[e].version + 1
          /\ \A f \in Effects \ {e} : effect'[f] = effect[f]
      BY <2>2, <3>0, MovesChanges
    <3>2. effect'[e].claim = "live"
      BY <1>0, <2>2, <3>0 DEF EffectMoves, EffectRow
    <3>3. /\ ~remote[e].wire /\ remote[e].object = "never"
          /\ \A d \in Composers : ~On(d, e, Dispatched)
          /\ <<e, "absent">> \notin verdicts
      BY <2>2, <3>0 DEF TrueInv, RemoteInv, Fresh, Handled
    <3>4. /\ composer'[c].effect = e /\ composer'[c].at = "calling"
          /\ \A d \in Composers \ {c} : composer'[d] = composer[d]
      BY <1>0, <2>2 DEF ComposerState
    <3> HIDE DEF e
    <3>5. ASSUME NEW f \in Effects, NEW d \in Composers, On(d, f, Dispatched)'
          PROVE  \/ d = c /\ f = e
                 \/ d # c /\ f # e /\ On(d, f, Dispatched)
      BY <3>3, <3>4, <3>5 DEF On
    <3>6. ASSUME NEW f \in Effects PROVE RemoteInv(f)'
      BY <3>0, <3>1, <3>2, <3>3, <3>5, <3>6 DEF TrueInv, RemoteInv, Gone, Fresh
    <3>7. ASSUME NEW f \in Effects, NEW d \in Composers PROVE CallInv(d, f)'
      <4>1. CASE d = c
        <5>1. On(d, f, Dispatched)' => f = e
          BY <3>4, <4>1 DEF On
        <5>2. On(d, f, Dispatched)' => \A g \in Composers \ {d} : ~On(g, f, Dispatched)'
          BY <3>5, <3>7, <4>1, <5>1
        <5> QED
          BY <3>0, <3>1, <3>2, <3>3, <3>4, <4>1, <5>1, <5>2
          DEF CallInv, On, Calling, Dispatched
      <4>2. CASE d # c
        <5>1. composer'[d] = composer[d] /\ (On(d, f, Dispatched) => f # e)
          BY <3>3, <3>4, <4>2
        <5>2. On(d, f, Dispatched)' => \A g \in Composers \ {d} : ~On(g, f, Dispatched)'
          BY <3>4, <3>5, <3>7, <4>2, <5>1 DEF TrueInv, CallInv, On
        <5>3. On(d, f, Dispatched)' => effect'[f] = effect[f]
          BY <3>1, <5>1 DEF On
        <5> QED
          BY <3>0, <3>7, <5>1, <5>2, <5>3 DEF TrueInv, CallInv, On, Calling, Dispatched
      <4> QED
        BY <4>1, <4>2
    <3>8. RowsCalm /\ GoneStays
      BY <1>0, <2>2, <3>0, <3>1 DEF RowsCalm, GoneStays, Gone, Handled, e
    <3> QED
      BY <2>0, <3>6, <3>7, <3>8, CalmSweep DEF TrueInv
  <2> QED
    BY <1>2, <2>1, <2>2 DEF DispatchEffect, Current
<1>3. CASE NotSent(c)
  <2>1. /\ composer'[c].effect = e /\ composer'[c].at = "judged"
        /\ \A d \in Composers \ {c} : composer'[d] = composer[d]
    BY <1>0, <1>3 DEF NotSent, ComposerState
  <2>2. On(c, e, Calling) /\ remote[e].object = "never" /\ ~remote[e].wire
    BY <1>0, <1>3 DEF NotSent, TrueInv, CallInv, On, Calling
  <2> QED
    BY <1>0, <1>3, <2>1, <2>2, CallMoves DEF NotSent, On
<1>4. CASE Send(c)
  <2>1. /\ composer'[c].effect = e /\ composer'[c].at = "awaiting"
        /\ \A d \in Composers \ {c} : composer'[d] = composer[d]
    BY <1>0, <1>4 DEF Send, ComposerGoes, ComposerState
  <2>2. On(c, e, Calling) /\ remote[e].object = "never"
    BY <1>0, <1>4 DEF Send, TrueInv, CallInv, On, Calling
  <2>3. /\ \A f \in Effects \ {e} : remote'[f] = remote[f]
        /\ remote'[e].object = remote[e].object
        /\ remote'[e].answer = remote[e].answer
        /\ remote'[e].reminted = remote[e].reminted
    BY <1>0, <1>4 DEF Send, RemoteState
  <2> QED
    BY <1>0, <1>4, <2>1, <2>2, <2>3, CallMoves DEF Send, On
<1>5. ASSUME NEW outcome \in WriteOutcomes, Hear(c, outcome) PROVE TrueInv'
  <2>1. /\ composer'[c].effect = e /\ composer'[c].at = "judged"
        /\ composer'[c].outcome = outcome
        /\ \A d \in Composers \ {c} : composer'[d] = composer[d]
    BY <1>0, <1>5 DEF Hear, ComposerState
  <2>2. On(c, e, Calling) /\ ~remote[e].wire
    BY <1>0, <1>5 DEF Hear, On, Calling
  <2>3. /\ \A f \in Effects \ {e} : remote'[f] = remote[f]
        /\ remote'[e].object = remote[e].object
        /\ remote'[e].answer = remote[e].answer
        /\ remote'[e].wire = remote[e].wire
        /\ remote'[e].reminted = (remote[e].reminted \/ Reminted(e, outcome))
    BY <1>0, <1>5 DEF Hear, RemoteState
  <2>4. outcome = "not_executed" =>
            Reminted(e, outcome) \/ remote[e].object = "never"
    BY <1>0, <1>5 DEF Hear, CanHear, TrueInv, RemoteInv
  <2>5. /\ UNCHANGED <<effect, pass, verdicts>>
        /\ On(c, e, {"awaiting", "judged"})'
        /\ composer[c].effect \in Effects
        /\ ~remote'[e].wire
        /\ remote[e].reminted => remote'[e].reminted
        /\ composer'[c].outcome = "not_executed" =>
              remote'[e].reminted \/ remote'[e].object = "never"
    BY <1>0, <1>5, <2>1, <2>2, <2>3, <2>4 DEF Hear, On
  <2> HIDE DEF e
  <2> QED
    BY <2>1, <2>2, <2>3, <2>5, CallMoves DEF e
<1>6. CASE CloseNotExecuted(c)
  <2>1. ComposersCalm /\ \A p \in Passes : PassStays(p)
    BY <1>6, ComposerEndsCalm, UnchangedCalm DEF CloseNotExecuted
  <2>2. CASE UNCHANGED effect
    BY <1>6, <2>1, <2>2, UnchangedCalm, SameTrue DEF CloseNotExecuted
  <2>3. CASE EffectMoves(e, "confirmed_not_executed", "none")
    BY <1>0, <1>6, <2>1, <2>3, JudgedAlone, EdgeTrue DEF CloseNotExecuted, Handled
  <2> QED
    BY <1>6, <2>2, <2>3 DEF CloseNotExecuted
<1>7. CASE CloseUnknown(c)
  <2>1. ComposersCalm
    <3>1. CASE ComposerGoes(c, "stopping")
      BY <1>0, <3>1 DEF ComposerGoes, ComposersCalm, ComposerState, Dispatched
    <3> QED
      BY <1>7, <3>1, ComposerEndsCalm DEF CloseUnknown
  <2>2. \A p \in Passes : PassStays(p)
    BY <1>7, UnchangedCalm DEF CloseUnknown
  <2>3. CASE UNCHANGED effect
    BY <1>7, <2>1, <2>2, <2>3, UnchangedCalm, SameTrue DEF CloseUnknown
  <2>4. CASE EffectMoves(e, "unknown", "none")
    BY <1>0, <1>7, <2>1, <2>2, <2>4, JudgedAlone, EdgeTrue DEF CloseUnknown, Handled
  <2> QED
    BY <1>7, <2>3, <2>4 DEF CloseUnknown
<1>8. CASE StopFeature(c)
  BY <1>8, ComposerEndsCalm, UnchangedCalm, SameTrue DEF StopFeature
<1>9. CASE Confirm(c)
  <2>1. ComposersCalm /\ \A p \in Passes : PassStays(p)
    BY <1>9, ComposerEndsCalm, UnchangedCalm DEF Confirm
  <2>2. CASE UNCHANGED effect
    BY <1>9, <2>1, <2>2, UnchangedCalm, SameTrue DEF Confirm
  <2>3. CASE effect' = [effect EXCEPT ![e].version = @ + 1]
    <3>1. ASSUME NEW f \in Effects
          PROVE  /\ effect'[f].state = effect[f].state
                 /\ effect'[f].claim = effect[f].claim
                 /\ effect'[f].version >= effect[f].version
      BY <1>0, <2>3 DEF EffectRow
    <3> QED
      BY <1>9, <2>1, <3>1, SameTrue DEF Confirm
  <2> QED
    BY <1>9, <2>2, <2>3 DEF Confirm
<1> QED
  BY <1>1, <1>2, <1>3, <1>4, <1>5, <1>6, <1>7, <1>8, <1>9 DEF ComposerStep

\* What a pass takes up: an expired dispatch, or one that is over.
LEMMA TakesTrue ==
    ASSUME Typed, Typed', ParkInv, TrueInv, NEW p \in Passes, NEW e \in Effects,
           SeesExpired(p, e) \/ SeesLapsedClaim(p, e) \/ SeesUnknown(p, e)
    PROVE  TrueInv'
<1>1. PICK at \in PassAts :
          /\ Takes(p, e, at) /\ at # "judging"
          /\ at = "expiring" => effect[e].claim = "lapsed"
          /\ at \in AfterCall => effect[e].state \in Handled
  BY DEF SeesExpired, SeesLapsedClaim, SeesUnknown, PassAts, AfterCall, Handled
<1>2. /\ pass'[p].effect = e /\ pass'[p].at = at
      /\ \A q \in Passes \ {p} : pass'[q] = pass[q]
      /\ effect' = effect /\ composer' = composer
      /\ remote' = remote /\ verdicts' = verdicts
  BY <1>1 DEF Takes, rows, Untouched, Typed, PassTyped, PassState
<1>3. SweepInv(p)'
  BY <1>1, <1>2 DEF SweepInv
<1>4. \A q \in Passes : PassStays(q) \/ SweepInv(q)'
  BY <1>2, <1>3 DEF PassStays
<1> QED
  BY <1>2, <1>4, UnchangedCalm, SameTrue

LEMMA PassStepTrue ==
    ASSUME Typed, Typed', ParkInv, TrueInv, NEW p \in Passes, PassStep(p)
    PROVE  TrueInv'
<1> USE DEF PassAt, rows, Untouched
<1> DEFINE e == pass[p].effect
<1>0. /\ pass[p].at # "idle" => e \in Effects
      /\ pass \in [Passes -> PassState]
      /\ pass[p].version \in Nat
  BY VersionsTyped DEF Typed, PassTyped
<1>1. CASE Expire(p)
  <2>0. ComposersCalm /\ e \in Effects
    BY <1>0, <1>1, UnchangedCalm DEF Expire
  <2>1. CASE UNCHANGED effect /\ PassEnds(p)
    BY <1>1, <2>0, <2>1, PassEndsCalm, UnchangedCalm, SameTrue DEF Expire
  <2>2. CASE /\ Current(e, "dispatch_started", pass[p].version)
             /\ EffectMoves(e, "unknown", "none") /\ PassGoes(p, "parking")
    <3>1. effect[e].claim = "lapsed"
      BY <1>1, <2>0, <2>2 DEF Expire, Current, TrueInv, SweepInv
    <3>2. \A q \in Passes : PassStays(q)
      BY <1>0, <2>2 DEF PassGoes, PassStays, PassState, AfterCall
    <3>3. effect[e].state \notin Fresh
      BY <2>2 DEF Current, Fresh
    <3> QED
      BY <1>1, <2>0, <2>2, <3>1, <3>2, <3>3, OverAlone, EdgeTrue DEF Expire, Handled
  <2> QED
    BY <1>1, <2>1, <2>2 DEF Expire
<1>2. CASE ParkFeature(p)
  BY <1>2, PassEndsCalm, UnchangedCalm, SameTrue DEF ParkFeature
<1>3. CASE ReclaimClaim(p)
  <2>0. ComposersCalm /\ e \in Effects /\ \A q \in Passes : PassStays(q)
    BY <1>0, <1>3, PassEndsCalm, UnchangedCalm DEF ReclaimClaim
  <2>1. CASE UNCHANGED effect
    BY <1>3, <2>0, <2>1, UnchangedCalm, SameTrue DEF ReclaimClaim
  <2>2. CASE effect[e].state = "reconciling" /\ EffectMoves(e, "unknown", "none")
    BY <1>3, <2>0, <2>2, OverAlone, EdgeTrue DEF ReclaimClaim, Handled, Fresh
  <2> QED
    BY <1>3, <2>1, <2>2 DEF ReclaimClaim, Current
<1>4. CASE StartReconciliation(p)
  <2>0. ComposersCalm /\ e \in Effects
    BY <1>0, <1>4, UnchangedCalm DEF StartReconciliation
  <2>1. CASE UNCHANGED effect /\ PassEnds(p)
    BY <1>4, <2>0, <2>1, PassEndsCalm, UnchangedCalm, SameTrue DEF StartReconciliation
  <2>2. CASE /\ effect[e].state = "unknown" /\ EffectMoves(e, "reconciling", "live")
             /\ pass' = [pass EXCEPT ![p] =
                     [pass[p] EXCEPT !.at = "reading",
                                     !.version = pass[p].version + 1]]
    <3>1. /\ pass'[p].effect = e /\ pass'[p].at = "reading"
          /\ \A q \in Passes \ {p} : pass'[q] = pass[q]
      BY <1>0, <2>2 DEF PassState
    <3>2. effect'[e].state \in Handled
      BY <2>0, <2>2, MovesChanges DEF Handled
    <3>3. \A q \in Passes : PassStays(q) \/ SweepInv(q)'
      BY <3>1, <3>2 DEF PassStays, SweepInv
    <3> QED
      BY <1>4, <2>0, <2>2, <3>3, OverAlone, EdgeTrue
      DEF StartReconciliation, Handled, Fresh
  <2> QED
    BY <1>4, <2>1, <2>2 DEF StartReconciliation, Current
<1>5. ASSUME NEW judged \in Judgements, ReadBack(p, judged) PROVE TrueInv'
  <2>0. ComposersCalm /\ e \in Effects /\ effect[e].state \in Handled
    BY <1>0, <1>5, UnchangedCalm DEF ReadBack, TrueInv, SweepInv, AfterCall
  <2>1. /\ pass'[p].effect = e /\ pass'[p].at = "judging"
        /\ pass'[p].judged = judged
        /\ \A q \in Passes \ {p} : pass'[q] = pass[q]
    BY <1>0, <1>5 DEF ReadBack, PassState
  <2>2. judged = "absent" => Gone(e)
    <3>1. remote[e].object \in Objects
      BY <2>0 DEF Typed, RemoteTyped, RemoteState
    <3> QED
      BY <1>5, <3>1 DEF ReadBack, Judged, Objects, Gone
  <2>3. SweepInv(p)'
    BY <1>5, <2>0, <2>1, <2>2 DEF ReadBack, SweepInv, Gone
  <2>4. \A q \in Passes : PassStays(q) \/ SweepInv(q)'
    BY <2>1, <2>3 DEF PassStays
  <2> QED
    BY <1>5, <2>0, <2>4, UnchangedCalm, SameTrue DEF ReadBack
<1>6. CASE JudgeReadBack(p)
  <2>0. ComposersCalm /\ e \in Effects /\ effect' = effect /\ remote' = remote
        /\ composer' = composer
    BY <1>0, <1>6, UnchangedCalm DEF JudgeReadBack
  <2>1. effect[e].state \in Handled /\ (pass[p].judged = "absent" => Gone(e))
    BY <1>6, <2>0 DEF JudgeReadBack, TrueInv, SweepInv, AfterCall
  <2>2. \A q \in Passes : PassStays(q) \/ SweepInv(q)'
    <3>1. CASE PassGoes(p, "returning")
      <4>1. /\ pass'[p].effect = e /\ pass'[p].at = "returning"
            /\ \A q \in Passes \ {p} : pass'[q] = pass[q]
        BY <1>0, <3>1 DEF PassGoes, PassState
      <4>2. SweepInv(p)'
        BY <2>0, <2>1, <4>1 DEF SweepInv
      <4> QED
        BY <4>1, <4>2 DEF PassStays
    <3> QED
      BY <1>6, <3>1, PassEndsCalm DEF JudgeReadBack
  <2>3. \A f \in Effects : <<f, "absent">> \in verdicts' =>
            \/ <<f, "absent">> \in verdicts
            \/ Gone(f) /\ effect[f].state \in Handled
    <3>1. \/ verdicts' = verdicts
          \/ verdicts' = verdicts \cup {<<e, pass[p].judged>>}
      BY <1>6 DEF JudgeReadBack
    <3> HIDE DEF e
    <3> QED
      BY <2>1, <3>1
  <2> QED
    BY <2>0, <2>2, <2>3, UnchangedCalm, FoundTrue
<1>7. CASE StillUnknown(p)
  <2>0. ComposersCalm /\ e \in Effects /\ \A q \in Passes : PassStays(q)
    BY <1>0, <1>7, PassEndsCalm, UnchangedCalm DEF StillUnknown
  <2>1. CASE UNCHANGED effect
    BY <1>7, <2>0, <2>1, UnchangedCalm, SameTrue DEF StillUnknown
  <2>2. CASE effect[e].state = "reconciling" /\ EffectMoves(e, "unknown", "none")
    BY <1>7, <2>0, <2>2, OverAlone, EdgeTrue DEF StillUnknown, Handled, Fresh
  <2> QED
    BY <1>7, <2>1, <2>2 DEF StillUnknown, Current
<1> QED
  BY <1>1, <1>2, <1>3, <1>4, <1>5, <1>6, <1>7 DEF PassStep

\* What GitHub does to one object: a request under way arrives, or somebody
\* else changes what is there.
LEMMA RemoteChanges ==
    ASSUME Typed, Typed', ParkInv, TrueInv, NEW e \in Effects,
           UNCHANGED <<effect, composer, pass, verdicts>>,
           \A f \in Effects \ {e} : remote'[f] = remote[f],
           ~remote'[e].wire,
           remote[e].wire \/ remote[e].object = "there",
           remote'[e].object # "never" => remote'[e].answer = "done",
           remote'[e].reminted = remote[e].reminted,
           remote[e].object = "there" => remote'[e].object \in {"moved", "deleted"}
    PROVE  TrueInv'
<1>0. ComposersCalm /\ \A p \in Passes : PassStays(p)
  BY UnchangedCalm
<1>1. ASSUME NEW f \in Effects PROVE RemoteInv(f)'
  <2>1. CASE f = e
    BY <2>1 DEF TrueInv, RemoteInv, Fresh, Handled, Gone
  <2>2. CASE f # e
    BY <1>1, <2>2 DEF TrueInv, RemoteInv, Gone, On
  <2> QED
    BY <2>1, <2>2
<1>2. ASSUME NEW f \in Effects, NEW c \in Composers PROVE CallInv(c, f)'
  <2>1. CASE f = e
    BY <1>2, <2>1 DEF TrueInv, RemoteInv, CallInv, On
  <2>2. CASE f # e
    BY <1>2, <2>2 DEF TrueInv, CallInv, On
  <2> QED
    BY <2>1, <2>2
<1>3. RowsCalm /\ GoneStays
  <2>1. Gone(e) => effect[e].state \notin Handled
    BY DEF TrueInv, RemoteInv, Gone, Handled
  <2> QED
    BY <2>1, VersionsTyped DEF RowsCalm, GoneStays, Gone
<1> QED
  BY <1>0, <1>1, <1>2, <1>3, CalmSweep DEF TrueInv

\* A claim lapses only after the call it covers.
LEMMA LapseTrue ==
    ASSUME Typed, Typed', ParkInv, TrueInv, NEW e \in Effects, ClaimLapses(e)
    PROVE  TrueInv'
<1>0. /\ effect \in [Effects -> EffectRow]
      /\ UNCHANGED <<composer, pass, remote, verdicts>>
  BY DEF Typed, EffectTyped, ClaimLapses, Untouched
<1>1. /\ effect'[e].state = effect[e].state /\ effect'[e].claim = "lapsed"
      /\ effect'[e].version = effect[e].version
      /\ \A f \in Effects \ {e} : effect'[f] = effect[f]
  BY <1>0 DEF ClaimLapses, EffectRow
<1>2. ~remote[e].wire /\ \A c \in Composers : ~On(c, e, Calling)
  BY DEF ClaimLapses, CallInProgress, On, Calling
<1>3. ComposersCalm /\ \A p \in Passes : PassStays(p)
  BY <1>0, UnchangedCalm
<1>4. ASSUME NEW f \in Effects PROVE RemoteInv(f)'
  <2>1. effect'[f].state = effect[f].state
    BY <1>1
  <2>2. remote[f].wire => effect'[f] = effect[f]
    BY <1>1, <1>2
  <2> QED
    BY <1>0, <1>4, <2>1, <2>2 DEF TrueInv, RemoteInv, Gone, On
<1>5. ASSUME NEW f \in Effects, NEW c \in Composers PROVE CallInv(c, f)'
  <2>1. On(c, f, Calling) => effect'[f] = effect[f]
    BY <1>1, <1>2
  <2> QED
    BY <1>0, <1>3, <1>5, <2>1, CalmCall
<1>6. RowsCalm /\ GoneStays
  BY <1>0, <1>1, VersionsTyped DEF RowsCalm, GoneStays, Gone
<1> QED
  BY <1>3, <1>4, <1>5, <1>6, CalmSweep DEF TrueInv

LEMMA SurroundingsTrue ==
    ASSUME Typed, Typed', ParkInv, TrueInv, Surroundings
    PROVE  TrueInv'
<1> USE DEF rows, Untouched
<1>0. /\ effect \in [Effects -> EffectRow]
      /\ remote \in [Effects -> RemoteState]
  BY DEF Typed, EffectTyped, RemoteTyped
<1>1. ASSUME NEW c \in Composers, ComposerDies(c) PROVE TrueInv'
  BY <1>1, ComposerEndsCalm, UnchangedCalm, SameTrue DEF ComposerDies
<1>2. ASSUME NEW p \in Passes, PassDies(p) PROVE TrueInv'
  BY <1>2, PassEndsCalm, UnchangedCalm, SameTrue DEF PassDies
<1>3. ASSUME NEW e \in Effects, NEW answer \in {"none", "done", "refused"},
             Arrives(e, answer)
      PROVE  TrueInv'
  <2>1. /\ remote[e].wire /\ ~remote'[e].wire
        /\ remote'[e].answer = answer
        /\ remote'[e].object = IF answer = "done" THEN "there"
                                                  ELSE remote[e].object
        /\ remote'[e].reminted = remote[e].reminted
        /\ \A f \in Effects \ {e} : remote'[f] = remote[f]
    BY <1>0, <1>3 DEF Arrives, RemoteState
  <2>2. effect[e].state = "dispatch_started" /\ remote[e].object = "never"
    BY <2>1 DEF TrueInv, RemoteInv
  <2> QED
    BY <1>3, <2>1, <2>2, RemoteChanges DEF Arrives
<1>4. ASSUME NEW e \in Effects, ObjectChanges(e) PROVE TrueInv'
  <2>1. PICK object \in {"moved", "deleted"} :
            remote' = [remote EXCEPT ![e].object = object]
    BY <1>4 DEF ObjectChanges
  <2>2. /\ remote'[e].object = object
        /\ remote'[e].wire = remote[e].wire
        /\ remote'[e].answer = remote[e].answer
        /\ remote'[e].reminted = remote[e].reminted
        /\ \A f \in Effects \ {e} : remote'[f] = remote[f]
    BY <1>0, <2>1 DEF RemoteState
  <2>3. remote[e].object = "there" /\ remote[e].answer = "done" /\ ~remote[e].wire
    BY <1>4 DEF ObjectChanges, TrueInv, RemoteInv
  <2> QED
    BY <1>4, <2>2, <2>3, RemoteChanges DEF ObjectChanges
<1>5. ASSUME NEW e \in Effects, ClaimLapses(e) PROVE TrueInv'
  BY <1>5, LapseTrue
<1>6. ASSUME NEW e \in Effects, NEW judged \in {"absent", "confirmed_completed"},
             ResumeEffect(e, judged)
      PROVE  TrueInv'
  <2>0. ComposersCalm /\ \A p \in Passes : PassStays(p)
    BY <1>6, UnchangedCalm DEF ResumeEffect
  <2>1. judged = "absent" => Gone(e)
    BY <1>6 DEF ResumeEffect, TrueInv, RemoteInv
  <2>2. PICK target \in Handled :
            /\ EffectMoves(e, target, "none")
            /\ target = "confirmed_not_executed" => judged = "absent"
    BY <1>6 DEF ResumeEffect, Handled
  <2> QED
    BY <1>6, <2>0, <2>1, <2>2, OverAlone, EdgeTrue DEF ResumeEffect, Handled, Fresh
<1> QED
  BY <1>1, <1>2, <1>3, <1>4, <1>5, <1>6 DEF Surroundings, Answered

LEMMA NextTrue == Typed /\ ParkInv /\ TrueInv /\ [EffectNext]_effectVars => TrueInv'
<1> SUFFICES ASSUME Typed, ParkInv, TrueInv, [EffectNext]_effectVars PROVE TrueInv'
  OBVIOUS
<1>0. Typed'
  BY NextTyped
<1>1. CASE EffectNext
  BY <1>0, <1>1, NextCases, WakeTrue, ComposerStepTrue, TakesTrue, PassStepTrue,
     SurroundingsTrue
<1>2. CASE UNCHANGED effectVars
  BY <1>0, <1>2, UnchangedCalm, SameTrue DEF effectVars, rows
<1> QED
  BY <1>1, <1>2

\* What is recorded as not executed is absent from GitHub and not on its way
\* there, unless the composer's push landed and its read-back lacked a token.
THEOREM NotExecutedTrue == EffectSpec => []NotExecutedIsTrue
<1>1. TrueInv => NotExecutedIsTrue
  BY DEF TrueInv, RemoteInv, NotExecutedIsTrue, NotExecutedHolds, Gone
<1> QED
  BY <1>1, InitTyped, NextTyped, InitPark, NextPark, InitTrue, NextTrue, PTL DEF EffectSpec
=============================================================================
