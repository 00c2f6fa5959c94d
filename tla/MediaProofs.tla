---------------------------- MODULE MediaProofs ----------------------------
(***************************************************************************)
(* Proofs about MediaLifecycle for any images, threads, cleaners, quotas   *)
(* and bounds.                                                             *)
(***************************************************************************)
EXTENDS MediaLifecycle, TLAPS

\* The steps at which a caller holds the stripe of its image.
Holding == {"discarding", "claiming", "claimed", "written", "linked",
            "unlinked", "reading", "removing", "unstaged", "removed"}

RowTyped == row \in [Images -> [state : States, number : Nat]]
AttemptTyped ==
    attempt \in [Images ->
        [state : {"none", "claimed", "sealed", "published", "abandoned"},
         seal : {"none"} \cup Bodies]]
FilesTyped ==
    /\ staging \in [Images -> SUBSET (Nat \ {0})]
    /\ final \in [Images -> Nat]
LockTyped == lock \in [Images -> Callers \cup {NoOne}]
CallRow == [at : Steps, image : Images \cup {NoImage}, body : Bodies,
            number : Nat, sees : Versions]

\* Whoever works on something works on an image, and an attempt has a number.
CallTyped ==
    /\ call \in [Callers -> CallRow]
    /\ \A c \in Callers :
          /\ call[c].at # "idle" => call[c].image \in Images
          /\ call[c].at = "claimed" => call[c].number # 0
OthersTyped ==
    /\ entries \subseteq Images /\ due \in [Images -> BOOLEAN]
    /\ calls \in 0..MaxCalls /\ crashes \in 0..MaxCrashes

Typed ==
    /\ RowTyped /\ AttemptTyped /\ FilesTyped
    /\ LockTyped /\ CallTyped /\ OthersTyped

(* A stripe belongs to whoever works under it.                             *)
Locked == \A c \in Callers : call[c].at \in Holding => lock[call[c].image] = c

(* What a row says of the files and of the manifest.                       *)
Removing == Withdrawn \cup {"deleted"}
RowInv(m) ==
    /\ row[m].state \in {"uploading", "uploaded"} \cup Usable =>
           row[m].number # 0
    /\ row[m].state = "uploaded" => row[m].number \in staging[m] \cup {final[m]}
    /\ row[m].state \in Usable =>
           final[m] = row[m].number /\ attempt[m].seal = "declared"
    /\ final[m] # 0 =>
           /\ final[m] = row[m].number /\ attempt[m].seal = "declared"
           /\ row[m].state \notin {"absent", "pending", "uploading"}
    /\ row[m].state = "deleted" => staging[m] = {} /\ final[m] = 0
    /\ m \in entries => row[m].state \in Removing

(* What a caller that has come to a step may rely on, although rows are    *)
(* rejected and marked without the lock.                                   *)
Overtaken == {"uploading", "rejected", "deleting", "reaping"}
CallInv(c) ==
    LET at == call[c].at
        m == call[c].image
    IN /\ at \in {"discarding", "claiming", "claimed", "written"} =>
              row[m].state \in Overtaken
       /\ at \in {"claimed", "written"} => row[m].number = call[c].number
       /\ at = "written" => call[c].number \in staging[m]
       /\ at \in {"linked", "unlinked", "reading"} =>
              /\ final[m] = call[c].number /\ call[c].number # 0
              /\ attempt[m].seal = "declared" /\ row[m].state # "deleted"
       /\ at = "decided" => row[m].state \in Removing
       /\ at \in {"authorised", "removing", "unstaged", "removed"} =>
              row[m].state \in {"reaping", "deleted"}
       /\ at \in {"unstaged", "removed"} => staging[m] = {}
       /\ at = "removed" => final[m] = 0

Rows == \A m \in Images : RowInv(m)
Calls == \A c \in Callers : CallInv(c)
Inv == Typed /\ Locked /\ Rows /\ Calls

-----------------------------------------------------------------------------
(* Types.                                                                  *)

USE DEF Move, SetAttempt, Free, Hold, Release, Go, Done, disk, counters

LEMMA Unchanged ==
    /\ RowTyped /\ UNCHANGED row => RowTyped'
    /\ AttemptTyped /\ UNCHANGED attempt => AttemptTyped'
    /\ FilesTyped /\ UNCHANGED <<staging, final>> => FilesTyped'
    /\ LockTyped /\ UNCHANGED lock => LockTyped'
    /\ CallTyped /\ UNCHANGED call => CallTyped'
    /\ OthersTyped /\ UNCHANGED <<entries, due, calls, crashes>> => OthersTyped'
  BY DEF RowTyped, AttemptTyped, FilesTyped, LockTyped, CallTyped, OthersTyped

LEMMA VersionsTyped ==
    ASSUME RowTyped, NEW m \in Images
    PROVE  Version(m) \in Versions /\ OverdueVersion(m) \in Versions
  BY DEF RowTyped, Version, Versions, OverdueVersion, NoVersion, States

LEMMA TypedStep ==
    ASSUME Typed, MediaNext
    PROVE  Typed'
<1> USE MediaAssumption DEF Typed
<1>1. ASSUME NEW m \in Images, StartUpload(m) PROVE Typed'
  <2>1. RowTyped'
    BY <1>1 DEF StartUpload, RowTyped, States, Unfinished, Usable, Gone,
       Withdrawn, Tombstones
  <2>2. OthersTyped'
    BY <1>1 DEF StartUpload, OthersTyped
  <2> QED
    BY <1>1, <2>1, <2>2, Unchanged DEF StartUpload
<1>2. ASSUME NEW m \in Images, ReceiveOversize(m) PROVE Typed'
  <2>1. RowTyped'
    BY <1>2 DEF ReceiveOversize, Reject, RowTyped, States, Unfinished, Usable,
       Gone, Withdrawn, Tombstones
  <2>2. OthersTyped'
    BY <1>2 DEF ReceiveOversize, Reject, OthersTyped
  <2> QED
    BY <1>2, <2>1, <2>2, Unchanged DEF ReceiveOversize, Reject
<1>3. ASSUME NEW m \in Images, CompleteRejects(m) PROVE Typed'
  <2>1. RowTyped'
    BY <1>3 DEF CompleteRejects, Reject, RowTyped, States, Unfinished, Usable,
       Gone, Withdrawn, Tombstones
  <2>2. OthersTyped'
    BY <1>3 DEF CompleteRejects, Reject, OthersTyped
  <2> QED
    BY <1>3, <2>1, <2>2, Unchanged DEF CompleteRejects, Reject
<1>4. ASSUME NEW m \in Images, AnchorImage(m) PROVE Typed'
  <2>1. RowTyped'
    BY <1>4 DEF AnchorImage, RowTyped, States, Unfinished, Usable, Gone, Withdrawn,
       Tombstones
  <2>2. OthersTyped'
    BY <1>4 DEF AnchorImage, OthersTyped
  <2> QED
    BY <1>4, <2>1, <2>2, Unchanged DEF AnchorImage
<1>5. ASSUME NEW m \in Images, Delete(m) PROVE Typed'
  <2>1. RowTyped'
    BY <1>5 DEF Delete, Mark, RowTyped, States, Unfinished, Usable, Gone,
       Withdrawn, Tombstones
  <2>2. OthersTyped'
    BY <1>5 DEF Delete, Mark, OthersTyped
  <2> QED
    BY <1>5, <2>1, <2>2, Unchanged DEF Delete, Mark
<1>6. ASSUME NEW m \in Images, Lapse(m) PROVE Typed'
  <2>1. OthersTyped'
    BY <1>6 DEF Lapse, OthersTyped
  <2> QED
    BY <1>6, <2>1, Unchanged DEF Lapse
<1>7. ASSUME NEW m \in Images, NEW c \in Requests, NEW body \in Bodies,
             ReceiveArrives(c, m, body)
      PROVE  Typed'
  <2>1. CallTyped'
    BY <1>7, VersionsTyped DEF ReceiveArrives, Takes, CallTyped, CallRow,
       Callers, Steps, Bodies, RowTyped, Versions, States
  <2>2. OthersTyped'
    BY <1>7 DEF ReceiveArrives, Takes, OthersTyped
  <2> QED
    BY <1>7, <2>1, <2>2, Unchanged DEF ReceiveArrives, Takes
<1>8. ASSUME NEW m \in Images, NEW c \in Requests, CompleteLinks(c, m)
      PROVE  Typed'
  <2>1. FilesTyped'
    BY <1>8 DEF CompleteLinks, Takes, FilesTyped, RowTyped, CallTyped, CallRow,
       Callers
  <2>2. CallTyped'
    BY <1>8, VersionsTyped DEF CompleteLinks, Takes, CallTyped, CallRow,
       Callers, Steps, Bodies, RowTyped, Versions, States
  <2>3. OthersTyped'
    BY <1>8 DEF CompleteLinks, Takes, OthersTyped
  <2>4. LockTyped'
    BY <1>8 DEF CompleteLinks, Takes, LockTyped, Callers
  <2> QED
    BY <1>8, <2>1, <2>2, <2>3, <2>4, Unchanged DEF CompleteLinks, Takes
<1>9. ASSUME NEW m \in Images, NEW c \in Requests, CompleteAdopts(c, m)
      PROVE  Typed'
  <2>1. CallTyped'
    BY <1>9, VersionsTyped DEF CompleteAdopts, Takes, CallTyped, CallRow,
       Callers, Steps, Bodies, RowTyped, Versions, States
  <2>2. OthersTyped'
    BY <1>9 DEF CompleteAdopts, Takes, OthersTyped
  <2>3. LockTyped'
    BY <1>9 DEF CompleteAdopts, Takes, LockTyped, Callers
  <2> QED
    BY <1>9, <2>1, <2>2, <2>3, Unchanged DEF CompleteAdopts, Takes
<1>10. ASSUME NEW m \in Images, NEW c \in Requests, ReadChecks(c, m)
       PROVE  Typed'
  <2>1. CallTyped'
    BY <1>10, VersionsTyped DEF ReadChecks, Takes, CallTyped, CallRow, Callers,
       Steps, Bodies, RowTyped, Versions, States
  <2>2. OthersTyped'
    BY <1>10 DEF ReadChecks, Takes, OthersTyped
  <2>3. LockTyped'
    BY <1>10 DEF ReadChecks, Takes, LockTyped, Callers
  <2> QED
    BY <1>10, <2>1, <2>2, <2>3, Unchanged DEF ReadChecks, Takes
<1>11. ASSUME NEW m \in Images, NEW w \in Cleaners, CleanupSelects(w, m)
       PROVE  Typed'
  <2>1. OverdueVersion(m) \in Versions
    BY VersionsTyped
  <2>2. CallTyped'
    <3>1. w \in Callers /\ call[w] \in CallRow
      BY DEF CallTyped, Callers
    <3>2. call' = [call EXCEPT ![w] = [@ EXCEPT !.at = "selected", !.image = m,
                                               !.sees = OverdueVersion(m)]]
      BY <1>11, <3>1 DEF CleanupSelects, CallTyped, CallRow
    <3>3. [call[w] EXCEPT !.at = "selected", !.image = m, !.sees = OverdueVersion(m)]
              \in CallRow
      BY <2>1, <3>1 DEF CallRow, Steps
    <3> QED
      BY <3>1, <3>2, <3>3 DEF CallTyped
  <2> QED
    BY <1>11, <2>2, Unchanged DEF CleanupSelects
<1>12. ASSUME NEW c \in Requests, ReceiveClaims(c) PROVE Typed'
  <2> DEFINE m == call[c].image
  <2>1. m \in Images
    BY <1>12 DEF ReceiveClaims, CallTyped, Callers
  <2>2. RowTyped'
    BY <1>12, <2>1 DEF ReceiveClaims, Claim, RowTyped, States, Unfinished,
       Usable, Gone, Withdrawn, Tombstones
  <2>3. AttemptTyped'
    BY <1>12, <2>1 DEF ReceiveClaims, Claim, AttemptTyped, CallTyped, CallRow,
       Callers
  <2>4. CallTyped'
    BY <1>12, <2>1 DEF ReceiveClaims, Claim, CallTyped, CallRow, Callers,
       Steps, Bodies, RowTyped, Versions, States
  <2>5. LockTyped'
    BY <1>12, <2>1 DEF ReceiveClaims, Claim, LockTyped, Callers
  <2>6. OthersTyped'
    BY <1>12, <2>1 DEF ReceiveClaims, Claim, OthersTyped
  <2> QED
    BY <1>12, <2>2, <2>3, <2>4, <2>5, <2>6, Unchanged DEF ReceiveClaims, Claim
<1>13. ASSUME NEW c \in Requests, ReceiveAbandons(c) PROVE Typed'
  <2> DEFINE m == call[c].image
  <2>1. m \in Images
    BY <1>13 DEF ReceiveAbandons, CallTyped, Callers
  <2>2. AttemptTyped'
    BY <1>13, <2>1 DEF ReceiveAbandons, AttemptTyped, CallTyped, CallRow,
       Callers
  <2>3. CallTyped'
    BY <1>13, <2>1 DEF ReceiveAbandons, CallTyped, CallRow, Callers, Steps,
       Bodies, Versions, States
  <2>4. LockTyped'
    BY <1>13, <2>1 DEF ReceiveAbandons, LockTyped, Callers
  <2> QED
    BY <1>13, <2>2, <2>3, <2>4, Unchanged DEF ReceiveAbandons
<1>14. ASSUME NEW c \in Requests, ReceiveDiscards(c) PROVE Typed'
  <2> DEFINE m == call[c].image
  <2>1. m \in Images
    BY <1>14 DEF ReceiveDiscards, CallTyped, Callers
  <2>2. FilesTyped'
    BY <1>14, <2>1 DEF ReceiveDiscards, FilesTyped, RowTyped, CallTyped,
       CallRow, Callers
  <2>3. CallTyped'
    BY <1>14, <2>1 DEF ReceiveDiscards, CallTyped, CallRow, Callers, Steps,
       Bodies, Versions, States
  <2> QED
    BY <1>14, <2>2, <2>3, Unchanged DEF ReceiveDiscards
<1>15. ASSUME NEW c \in Requests, ReceiveTakesOver(c) PROVE Typed'
  <2> DEFINE m == call[c].image
  <2>1. m \in Images
    BY <1>15 DEF ReceiveTakesOver, CallTyped, Callers
  <2>2. RowTyped'
    BY <1>15, <2>1 DEF ReceiveTakesOver, Claim, RowTyped, States, Unfinished,
       Usable, Gone, Withdrawn, Tombstones
  <2>3. AttemptTyped'
    BY <1>15, <2>1 DEF ReceiveTakesOver, Claim, AttemptTyped, CallTyped,
       CallRow, Callers
  <2>4. CallTyped'
    <3>1. CASE Claim(c, m)
      BY <2>1, <3>1 DEF Claim, CallTyped, CallRow, Steps, RowTyped
    <3>2. CASE Done(c)
      BY <3>2 DEF CallTyped, CallRow, Steps, Bodies, Idle, NoVersion, Versions,
         States
    <3> QED
      BY <1>15, <3>1, <3>2 DEF ReceiveTakesOver
  <2>5. LockTyped'
    BY <1>15, <2>1 DEF ReceiveTakesOver, Claim, LockTyped, Callers
  <2>6. OthersTyped'
    BY <1>15, <2>1 DEF ReceiveTakesOver, Claim, OthersTyped
  <2> QED
    BY <1>15, <2>2, <2>3, <2>4, <2>5, <2>6, Unchanged DEF ReceiveTakesOver,
       Claim
<1>16. ASSUME NEW c \in Requests, ReceiveRefused(c) PROVE Typed'
  <2> DEFINE m == call[c].image
  <2>1. m \in Images
    BY <1>16 DEF ReceiveRefused, CallTyped, Callers
  <2>2. CallTyped'
    BY <1>16, <2>1 DEF ReceiveRefused, CallTyped, CallRow, Callers, Steps,
       Bodies, Idle, NoVersion, Versions, States
  <2> QED
    BY <1>16, <2>2, Unchanged DEF ReceiveRefused
<1>17. ASSUME NEW c \in Requests, ReceiveProbeFails(c) PROVE Typed'
  <2> DEFINE m == call[c].image
  <2>1. m \in Images
    BY <1>17 DEF ReceiveProbeFails, CallTyped, Callers
  <2>2. RowTyped'
    BY <1>17, <2>1 DEF ReceiveProbeFails, Reject, RowTyped, States, Unfinished,
       Usable, Gone, Withdrawn, Tombstones
  <2>3. OthersTyped'
    BY <1>17, <2>1 DEF ReceiveProbeFails, Reject, OthersTyped
  <2>4. CallTyped'
    BY <1>17, <2>1 DEF ReceiveProbeFails, Reject, CallTyped, CallRow, Callers,
       Steps, Bodies, Idle, NoVersion, Versions, States
  <2>5. LockTyped'
    BY <1>17, <2>1 DEF ReceiveProbeFails, Reject, LockTyped, Callers
  <2> QED
    BY <1>17, <2>2, <2>3, <2>4, <2>5, Unchanged DEF ReceiveProbeFails, Reject
<1>18. ASSUME NEW c \in Requests, ReceiveWrites(c) PROVE Typed'
  <2> DEFINE m == call[c].image
  <2>1. m \in Images
    BY <1>18 DEF ReceiveWrites, CallTyped, Callers
  <2>2. FilesTyped'
    BY <1>18, <2>1 DEF ReceiveWrites, FilesTyped, RowTyped, CallTyped, CallRow,
       Callers
  <2>3. CallTyped'
    BY <1>18, <2>1 DEF ReceiveWrites, CallTyped, CallRow, Callers, Steps,
       Bodies, Versions, States
  <2> QED
    BY <1>18, <2>2, <2>3, Unchanged DEF ReceiveWrites
<1>19. ASSUME NEW c \in Requests, ReceiveSeals(c) PROVE Typed'
  <2> DEFINE m == call[c].image
  <2>1. m \in Images
    BY <1>19 DEF ReceiveSeals, CallTyped, Callers
  <2>2. RowTyped'
    BY <1>19, <2>1 DEF ReceiveSeals, RowTyped, States, Unfinished, Usable, Gone,
       Withdrawn, Tombstones
  <2>3. AttemptTyped'
    BY <1>19, <2>1 DEF ReceiveSeals, AttemptTyped, CallTyped, CallRow, Callers
  <2>4. OthersTyped'
    BY <1>19, <2>1 DEF ReceiveSeals, OthersTyped
  <2>5. CallTyped'
    BY <1>19, <2>1 DEF ReceiveSeals, CallTyped, CallRow, Callers, Steps, Bodies,
       Idle, NoVersion, Versions, States
  <2>6. LockTyped'
    BY <1>19, <2>1 DEF ReceiveSeals, LockTyped, Callers
  <2> QED
    BY <1>19, <2>2, <2>3, <2>4, <2>5, <2>6, Unchanged DEF ReceiveSeals
<1>20. ASSUME NEW c \in Requests, CompleteUnlinks(c) PROVE Typed'
  <2> DEFINE m == call[c].image
  <2>1. m \in Images
    BY <1>20 DEF CompleteUnlinks, CallTyped, Callers
  <2>2. FilesTyped'
    BY <1>20, <2>1 DEF CompleteUnlinks, FilesTyped, RowTyped, CallTyped,
       CallRow, Callers
  <2>3. CallTyped'
    BY <1>20, <2>1 DEF CompleteUnlinks, CallTyped, CallRow, Callers, Steps,
       Bodies, Versions, States
  <2> QED
    BY <1>20, <2>2, <2>3, Unchanged DEF CompleteUnlinks
<1>21. ASSUME NEW c \in Requests, CompleteCommits(c) PROVE Typed'
  <2> DEFINE m == call[c].image
  <2>1. m \in Images
    BY <1>21 DEF CompleteCommits, CallTyped, Callers
  <2>2. RowTyped'
    BY <1>21, <2>1 DEF CompleteCommits, RowTyped, States, Unfinished, Usable,
       Gone, Withdrawn, Tombstones
  <2>3. AttemptTyped'
    BY <1>21, <2>1 DEF CompleteCommits, AttemptTyped
  <2>4. OthersTyped'
    BY <1>21, <2>1 DEF CompleteCommits, OthersTyped
  <2>5. CallTyped'
    BY <1>21, <2>1 DEF CompleteCommits, CallTyped, CallRow, Callers, Steps,
       Bodies, Idle, NoVersion, Versions, States
  <2>6. LockTyped'
    BY <1>21, <2>1 DEF CompleteCommits, LockTyped, Callers
  <2> QED
    BY <1>21, <2>2, <2>3, <2>4, <2>5, <2>6, Unchanged DEF CompleteCommits
<1>22. ASSUME NEW c \in Requests, ReadServes(c) PROVE Typed'
  <2> DEFINE m == call[c].image
  <2>1. m \in Images
    BY <1>22 DEF ReadServes, CallTyped, Callers
  <2>2. CallTyped'
    BY <1>22, <2>1 DEF ReadServes, CallTyped, CallRow, Callers, Steps, Bodies,
       Idle, NoVersion, Versions, States
  <2>3. LockTyped'
    BY <1>22, <2>1 DEF ReadServes, LockTyped, Callers
  <2> QED
    BY <1>22, <2>2, <2>3, Unchanged DEF ReadServes
<1>23. ASSUME NEW w \in Cleaners, CleanupDecides(w) PROVE Typed'
  <2> DEFINE m == call[w].image
  <2>1. m \in Images
    BY <1>23 DEF CleanupDecides, CallTyped, Callers
  <2>2. RowTyped'
    BY <1>23, <2>1 DEF CleanupDecides, Mark, RowTyped, States, Unfinished,
       Usable, Gone, Withdrawn, Tombstones
  <2>3. OthersTyped'
    BY <1>23, <2>1 DEF CleanupDecides, Mark, OthersTyped
  <2>4. CallTyped'
    BY <1>23, <2>1 DEF CleanupDecides, Mark, CallTyped, CallRow, Callers,
       Steps, Bodies, Versions, States
  <2> QED
    BY <1>23, <2>2, <2>3, <2>4, Unchanged DEF CleanupDecides, Mark
<1>24. ASSUME NEW w \in Cleaners, CleanupDefers(w) PROVE Typed'
  <2> DEFINE m == call[w].image
  <2>1. m \in Images
    BY <1>24 DEF CleanupDefers, CallTyped, Callers
  <2>2. CallTyped'
    BY <1>24, <2>1 DEF CleanupDefers, CallTyped, CallRow, Callers, Steps,
       Bodies, Idle, NoVersion, Versions, States
  <2> QED
    BY <1>24, <2>2, Unchanged DEF CleanupDefers
<1>25. ASSUME NEW w \in Cleaners, ReapAuthorises(w) PROVE Typed'
  <2> DEFINE m == call[w].image
  <2>1. m \in Images
    BY <1>25 DEF ReapAuthorises, CallTyped, Callers
  <2>2. RowTyped'
    BY <1>25, <2>1 DEF ReapAuthorises, RowTyped, States, Unfinished, Usable,
       Gone, Withdrawn, Tombstones
  <2>3. OthersTyped'
    BY <1>25, <2>1 DEF ReapAuthorises, OthersTyped
  <2>4. CallTyped'
    BY <1>25, <2>1 DEF ReapAuthorises, CallTyped, CallRow, Callers, Steps,
       Bodies, Idle, NoVersion, Versions, States
  <2> QED
    BY <1>25, <2>2, <2>3, <2>4, Unchanged DEF ReapAuthorises
<1>26. ASSUME NEW w \in Cleaners, ReapLocks(w) PROVE Typed'
  <2> DEFINE m == call[w].image
  <2>1. m \in Images
    BY <1>26 DEF ReapLocks, CallTyped, Callers
  <2>2. AttemptTyped'
    BY <1>26, <2>1 DEF ReapLocks, AttemptTyped, CallTyped, CallRow, Callers
  <2>3. CallTyped'
    BY <1>26, <2>1 DEF ReapLocks, CallTyped, CallRow, Callers, Steps, Bodies,
       Versions, States
  <2>4. LockTyped'
    BY <1>26, <2>1 DEF ReapLocks, LockTyped, Callers
  <2> QED
    BY <1>26, <2>2, <2>3, <2>4, Unchanged DEF ReapLocks
<1>27. ASSUME NEW w \in Cleaners, ReapUnstages(w) PROVE Typed'
  <2> DEFINE m == call[w].image
  <2>1. m \in Images
    BY <1>27 DEF ReapUnstages, CallTyped, Callers
  <2>2. FilesTyped'
    BY <1>27, <2>1 DEF ReapUnstages, FilesTyped, RowTyped, CallTyped, CallRow,
       Callers
  <2>3. CallTyped'
    BY <1>27, <2>1 DEF ReapUnstages, CallTyped, CallRow, Callers, Steps,
       Bodies, Versions, States
  <2> QED
    BY <1>27, <2>2, <2>3, Unchanged DEF ReapUnstages
<1>28. ASSUME NEW w \in Cleaners, ReapRemoves(w) PROVE Typed'
  <2> DEFINE m == call[w].image
  <2>1. m \in Images
    BY <1>28 DEF ReapRemoves, CallTyped, Callers
  <2>2. FilesTyped'
    BY <1>28, <2>1 DEF ReapRemoves, FilesTyped, RowTyped, CallTyped, CallRow,
       Callers
  <2>3. CallTyped'
    BY <1>28, <2>1 DEF ReapRemoves, CallTyped, CallRow, Callers, Steps, Bodies,
       Versions, States
  <2> QED
    BY <1>28, <2>2, <2>3, Unchanged DEF ReapRemoves
<1>29. ASSUME NEW w \in Cleaners, ReapCommits(w) PROVE Typed'
  <2> DEFINE m == call[w].image
  <2>1. m \in Images
    BY <1>29 DEF ReapCommits, CallTyped, Callers
  <2>2. RowTyped'
    BY <1>29, <2>1 DEF ReapCommits, RowTyped, States, Unfinished, Usable, Gone,
       Withdrawn, Tombstones
  <2>3. OthersTyped'
    BY <1>29, <2>1 DEF ReapCommits, OthersTyped
  <2>4. CallTyped'
    BY <1>29, <2>1 DEF ReapCommits, CallTyped, CallRow, Callers, Steps, Bodies,
       Idle, NoVersion, Versions, States
  <2>5. LockTyped'
    BY <1>29, <2>1 DEF ReapCommits, LockTyped, Callers
  <2> QED
    BY <1>29, <2>2, <2>3, <2>4, <2>5, Unchanged DEF ReapCommits
<1>30. ASSUME NEW P \in {Requests, Cleaners}, Crash(P) PROVE Typed'
  <2>1. CallTyped'
    BY <1>30 DEF Crash, CallTyped, CallRow, Callers, Steps, Bodies, Idle,
       NoVersion, Versions, States
  <2>2. LockTyped'
    BY <1>30 DEF Crash, LockTyped, Callers
  <2>3. OthersTyped'
    BY <1>30 DEF Crash, OthersTyped
  <2> QED
    BY <1>30, <2>1, <2>2, <2>3, Unchanged DEF Crash
<1> QED
  BY <1>1, <1>2, <1>3, <1>4, <1>5, <1>6, <1>7, <1>8, <1>9, <1>10, <1>11, <1>12,
     <1>13, <1>14, <1>15, <1>16, <1>17, <1>18, <1>19, <1>20, <1>21, <1>22,
     <1>23, <1>24, <1>25, <1>26, <1>27, <1>28, <1>29, <1>30 DEF MediaNext, Proceed,
     Pass

-----------------------------------------------------------------------------
(* What one step may do to a row, and to a row whose stripe another holds. *)

Absorb(m) ==
    /\ row[m].state \in Removing => row'[m].state \in Removing
    /\ row[m].state \in {"reaping", "deleted"} =>
           row'[m].state \in {"reaping", "deleted"}

LEMMA Absorbing ==
    ASSUME Typed, MediaNext, NEW i \in Images
    PROVE  Absorb(i)
<1> USE MediaAssumption DEF Typed, RowTyped, Absorb, Removing
<1>1. ASSUME NEW m \in Images, StartUpload(m) PROVE Absorb(i)
  BY <1>1 DEF StartUpload, Withdrawn
<1>2. ASSUME NEW m \in Images, ReceiveOversize(m) PROVE Absorb(i)
  BY <1>2 DEF ReceiveOversize, Reject, Gone, Withdrawn, Tombstones
<1>3. ASSUME NEW m \in Images, CompleteRejects(m) PROVE Absorb(i)
  BY <1>3 DEF CompleteRejects, Reject, Gone, Withdrawn, Tombstones
<1>4. ASSUME NEW m \in Images, AnchorImage(m) PROVE Absorb(i)
  BY <1>4 DEF AnchorImage, Withdrawn
<1>5. ASSUME NEW m \in Images, Delete(m) PROVE Absorb(i)
  BY <1>5 DEF Delete, Mark, Withdrawn
<1>6. ASSUME NEW c \in Requests, ReceiveClaims(c) PROVE Absorb(i)
  BY <1>6 DEF ReceiveClaims, Claim, CallTyped, Callers, Withdrawn
<1>7. ASSUME NEW c \in Requests, ReceiveTakesOver(c) PROVE Absorb(i)
  BY <1>7 DEF ReceiveTakesOver, Claim, CallTyped, Callers, Withdrawn, Lapsed
<1>8. ASSUME NEW c \in Requests, ReceiveProbeFails(c) PROVE Absorb(i)
  BY <1>8 DEF ReceiveProbeFails, Reject, CallTyped, Callers, Gone, Withdrawn,
     Tombstones
<1>9. ASSUME NEW c \in Requests, ReceiveSeals(c) PROVE Absorb(i)
  BY <1>9 DEF ReceiveSeals, CallTyped, Callers, Withdrawn, Version
<1>10. ASSUME NEW c \in Requests, CompleteCommits(c) PROVE Absorb(i)
  BY <1>10 DEF CompleteCommits, CallTyped, Callers, Withdrawn, Version
<1>11. ASSUME NEW w \in Cleaners, CleanupDecides(w) PROVE Absorb(i)
  BY <1>11 DEF CleanupDecides, Mark, CallTyped, Callers, Withdrawn
<1>12. ASSUME NEW w \in Cleaners, ReapAuthorises(w) PROVE Absorb(i)
  BY <1>12 DEF ReapAuthorises, CallTyped, Callers, Withdrawn
<1>13. ASSUME NEW w \in Cleaners, ReapCommits(w) PROVE Absorb(i)
  BY <1>13 DEF ReapCommits, CallTyped, Callers, Withdrawn
<1>14. CASE UNCHANGED row
  BY <1>14
<1>15. ASSUME NEW m \in Images,
         Lapse(m)
       PROVE  Absorb(i)
  BY <1>15, <1>14 DEF Lapse
<1>16. ASSUME NEW m \in Images, NEW c \in Requests,
         CompleteLinks(c, m) \/ CompleteAdopts(c, m) \/
         ReadChecks(c, m)
       PROVE  Absorb(i)
  BY <1>16, <1>14 DEF CompleteLinks, CompleteAdopts, ReadChecks, Takes
<1>17. ASSUME NEW m \in Images, NEW c \in Requests, NEW body \in Bodies,
         ReceiveArrives(c, m, body)
       PROVE  Absorb(i)
  BY <1>17, <1>14 DEF ReceiveArrives, Takes
<1>18. ASSUME NEW m \in Images, NEW w \in Cleaners,
         CleanupSelects(w, m)
       PROVE  Absorb(i)
  BY <1>18, <1>14 DEF CleanupSelects
<1>19. ASSUME NEW c \in Requests,
         ReceiveAbandons(c) \/ ReceiveDiscards(c) \/
         ReceiveRefused(c) \/ ReceiveWrites(c) \/
         CompleteUnlinks(c) \/ ReadServes(c)
       PROVE  Absorb(i)
  BY <1>19, <1>14 DEF ReceiveAbandons, ReceiveDiscards, ReceiveRefused,
     ReceiveWrites, CompleteUnlinks, ReadServes
<1>20. ASSUME NEW w \in Cleaners,
         CleanupDefers(w) \/ ReapLocks(w) \/ ReapUnstages(w) \/
         ReapRemoves(w)
       PROVE  Absorb(i)
  BY <1>20, <1>14 DEF CleanupDefers, ReapLocks, ReapUnstages, ReapRemoves
<1>21. ASSUME NEW P \in {Requests, Cleaners},
         Crash(P)
       PROVE  Absorb(i)
  BY <1>21, <1>14 DEF Crash
<1> HIDE DEF Typed, RowTyped, Absorb, Removing
<1> QED
  BY <1>1, <1>2, <1>3, <1>4, <1>5, <1>6, <1>7, <1>8, <1>9, <1>10, <1>11,
     <1>12, <1>13, <1>14, <1>15, <1>16, <1>17, <1>18, <1>19, <1>20, <1>21
     DEF MediaNext, Proceed, Pass

Gentle(m) ==
    /\ lock'[m] = lock[m] /\ staging'[m] = staging[m] /\ final'[m] = final[m]
    /\ row'[m].number = row[m].number /\ attempt'[m].seal = attempt[m].seal
    /\ \/ row'[m].state = row[m].state
       \/ row[m].state = "absent" /\ row'[m].state = "pending"
       \/ row[m].state \notin Gone /\ row'[m].state = "rejected"
       \/ row[m].state \notin Removing /\ row'[m].state = "deleting"
       \/ row[m].state = "deleting" /\ row'[m].state = "reaping"

LEMMA Apart ==
    ASSUME Typed, Locked, MediaNext, NEW d \in Callers,
           call[d].at \in Holding, call'[d] = call[d]
    PROVE  Gentle(call[d].image)
<1> DEFINE i == call[d].image
<1> USE MediaAssumption DEF Typed, Gentle, Removing
<1>0. i \in Images /\ lock[i] = d /\ d # NoOne
  BY DEF Locked, CallTyped, Holding, Callers
<1> HIDE DEF i
<1>1. ASSUME NEW m \in Images, StartUpload(m) PROVE Gentle(i)
  BY <1>1, <1>0 DEF StartUpload, RowTyped, AttemptTyped, FilesTyped, LockTyped,
     Gone, Withdrawn, Tombstones
<1>2. ASSUME NEW m \in Images, ReceiveOversize(m) PROVE Gentle(i)
  BY <1>2, <1>0 DEF ReceiveOversize, Reject, RowTyped, AttemptTyped, FilesTyped,
     LockTyped, Gone, Withdrawn, Tombstones
<1>3. ASSUME NEW m \in Images, CompleteRejects(m) PROVE Gentle(i)
  BY <1>3, <1>0 DEF CompleteRejects, Reject, RowTyped, AttemptTyped, FilesTyped,
     LockTyped, Gone, Withdrawn, Tombstones
<1>4. ASSUME NEW m \in Images, AnchorImage(m) PROVE Gentle(i)
  BY <1>4, <1>0 DEF AnchorImage, RowTyped, AttemptTyped, FilesTyped, LockTyped, Gone,
     Withdrawn, Tombstones
<1>5. ASSUME NEW m \in Images, Delete(m) PROVE Gentle(i)
  BY <1>5, <1>0 DEF Delete, Mark, RowTyped, AttemptTyped, FilesTyped, LockTyped,
     Gone, Withdrawn, Tombstones
<1>6. ASSUME NEW m \in Images, Lapse(m) PROVE Gentle(i)
  BY <1>6, <1>0 DEF Lapse, RowTyped, AttemptTyped, FilesTyped, LockTyped, Gone,
     Withdrawn, Tombstones
<1>7. ASSUME NEW m \in Images, NEW c \in Requests, NEW body \in Bodies,
             ReceiveArrives(c, m, body)
      PROVE  Gentle(i)
  BY <1>7, <1>0 DEF ReceiveArrives, Takes, RowTyped, AttemptTyped, FilesTyped,
     LockTyped, Callers, Gone, Withdrawn, Tombstones
<1>8. ASSUME NEW m \in Images, NEW c \in Requests, CompleteLinks(c, m)
      PROVE  Gentle(i)
  BY <1>8, <1>0 DEF CompleteLinks, Takes, RowTyped, AttemptTyped, FilesTyped,
     LockTyped, Callers, Gone, Withdrawn, Tombstones
<1>9. ASSUME NEW m \in Images, NEW c \in Requests, CompleteAdopts(c, m)
      PROVE  Gentle(i)
  BY <1>9, <1>0 DEF CompleteAdopts, Takes, RowTyped, AttemptTyped, FilesTyped,
     LockTyped, Callers, Gone, Withdrawn, Tombstones
<1>10. ASSUME NEW m \in Images, NEW c \in Requests, ReadChecks(c, m)
       PROVE  Gentle(i)
  BY <1>10, <1>0 DEF ReadChecks, Takes, RowTyped, AttemptTyped, FilesTyped,
     LockTyped, Callers, Gone, Withdrawn, Tombstones
<1>11. ASSUME NEW m \in Images, NEW w \in Cleaners, CleanupSelects(w, m)
       PROVE  Gentle(i)
  BY <1>11, <1>0 DEF CleanupSelects, RowTyped, AttemptTyped, FilesTyped,
     LockTyped, Gone, Withdrawn, Tombstones
<1>12. ASSUME NEW c \in Requests, ReceiveClaims(c) PROVE Gentle(i)
  BY <1>12, <1>0 DEF ReceiveClaims, Claim, RowTyped, AttemptTyped, FilesTyped,
     LockTyped, CallTyped, Callers, CallRow, Locked, Holding, Gone, Withdrawn,
     Tombstones
<1>13. ASSUME NEW c \in Requests, ReceiveAbandons(c) PROVE Gentle(i)
  BY <1>13, <1>0 DEF ReceiveAbandons, RowTyped, AttemptTyped, FilesTyped,
     LockTyped, CallTyped, Callers, CallRow, Locked, Holding, Gone, Withdrawn,
     Tombstones
<1>14. ASSUME NEW c \in Requests, ReceiveDiscards(c) PROVE Gentle(i)
  BY <1>14, <1>0 DEF ReceiveDiscards, RowTyped, AttemptTyped, FilesTyped,
     LockTyped, CallTyped, Callers, CallRow, Locked, Holding, Gone, Withdrawn,
     Tombstones
<1>15. ASSUME NEW c \in Requests, ReceiveTakesOver(c) PROVE Gentle(i)
  BY <1>15, <1>0 DEF ReceiveTakesOver, Claim, RowTyped, AttemptTyped,
     FilesTyped, LockTyped, CallTyped, Callers, CallRow, Locked, Holding, Idle,
     Gone, Withdrawn, Tombstones
<1>16. ASSUME NEW c \in Requests, ReceiveRefused(c) PROVE Gentle(i)
  BY <1>16, <1>0 DEF ReceiveRefused, RowTyped, AttemptTyped, FilesTyped,
     LockTyped, CallTyped, Callers, CallRow, Locked, Holding, Idle, Gone,
     Withdrawn, Tombstones
<1>17. ASSUME NEW c \in Requests, ReceiveProbeFails(c) PROVE Gentle(i)
  <2>1. c \in Callers /\ call[c].image \in Images
    BY <1>17 DEF ReceiveProbeFails, CallTyped, Callers
  <2>2. c # d
    BY <1>17, <2>1 DEF ReceiveProbeFails, CallTyped, CallRow, Idle
  <2>3. call[c].image # i
    BY <1>17, <1>0, <2>1, <2>2 DEF ReceiveProbeFails, Locked, Holding
  <2> QED
    BY <1>17, <1>0, <2>1, <2>2, <2>3 DEF ReceiveProbeFails, Reject, RowTyped,
       LockTyped
<1>18. ASSUME NEW c \in Requests, ReceiveWrites(c) PROVE Gentle(i)
  BY <1>18, <1>0 DEF ReceiveWrites, RowTyped, AttemptTyped, FilesTyped,
     LockTyped, CallTyped, Callers, CallRow, Locked, Holding, Gone, Withdrawn,
     Tombstones
<1>19. ASSUME NEW c \in Requests, ReceiveSeals(c) PROVE Gentle(i)
  BY <1>19, <1>0 DEF ReceiveSeals, RowTyped, AttemptTyped, FilesTyped,
     LockTyped, CallTyped, Callers, CallRow, Locked, Holding, Idle, Gone,
     Withdrawn, Tombstones
<1>20. ASSUME NEW c \in Requests, CompleteUnlinks(c) PROVE Gentle(i)
  BY <1>20, <1>0 DEF CompleteUnlinks, RowTyped, AttemptTyped, FilesTyped,
     LockTyped, CallTyped, Callers, CallRow, Locked, Holding, Gone, Withdrawn,
     Tombstones
<1>21. ASSUME NEW c \in Requests, CompleteCommits(c) PROVE Gentle(i)
  BY <1>21, <1>0 DEF CompleteCommits, RowTyped, AttemptTyped, FilesTyped,
     LockTyped, CallTyped, Callers, CallRow, Locked, Holding, Idle, Gone,
     Withdrawn, Tombstones
<1>22. ASSUME NEW c \in Requests, ReadServes(c) PROVE Gentle(i)
  BY <1>22, <1>0 DEF ReadServes, RowTyped, AttemptTyped, FilesTyped, LockTyped,
     CallTyped, Callers, CallRow, Locked, Holding, Idle, Gone, Withdrawn,
     Tombstones
<1>23. ASSUME NEW w \in Cleaners, CleanupDecides(w) PROVE Gentle(i)
  BY <1>23, <1>0 DEF CleanupDecides, Mark, RowTyped, AttemptTyped, FilesTyped,
     LockTyped, CallTyped, Callers, CallRow, Locked, Holding, Gone, Withdrawn,
     Tombstones
<1>24. ASSUME NEW w \in Cleaners, CleanupDefers(w) PROVE Gentle(i)
  BY <1>24, <1>0 DEF CleanupDefers, RowTyped, AttemptTyped, FilesTyped,
     LockTyped, CallTyped, Callers, CallRow, Locked, Holding, Idle, Gone,
     Withdrawn, Tombstones
<1>25. ASSUME NEW w \in Cleaners, ReapAuthorises(w) PROVE Gentle(i)
  <2>1. w \in Callers /\ call[w].image \in Images
    BY <1>25 DEF ReapAuthorises, CallTyped, Callers
  <2>2. CASE row[call[w].image].state = "deleting"
    BY <1>25, <1>0, <2>1, <2>2 DEF ReapAuthorises, RowTyped
  <2>3. CASE row[call[w].image].state # "deleting"
    BY <1>25, <1>0, <2>1, <2>3 DEF ReapAuthorises, RowTyped
  <2> QED
    BY <2>2, <2>3
<1>26. ASSUME NEW w \in Cleaners, ReapLocks(w) PROVE Gentle(i)
  BY <1>26, <1>0 DEF ReapLocks, RowTyped, AttemptTyped, FilesTyped, LockTyped,
     CallTyped, Callers, CallRow, Locked, Holding, Gone, Withdrawn, Tombstones
<1>27. ASSUME NEW w \in Cleaners, ReapUnstages(w) PROVE Gentle(i)
  BY <1>27, <1>0 DEF ReapUnstages, RowTyped, AttemptTyped, FilesTyped,
     LockTyped, CallTyped, Callers, CallRow, Locked, Holding, Gone, Withdrawn,
     Tombstones
<1>28. ASSUME NEW w \in Cleaners, ReapRemoves(w) PROVE Gentle(i)
  BY <1>28, <1>0 DEF ReapRemoves, RowTyped, AttemptTyped, FilesTyped,
     LockTyped, CallTyped, Callers, CallRow, Locked, Holding, Gone, Withdrawn,
     Tombstones
<1>29. ASSUME NEW w \in Cleaners, ReapCommits(w) PROVE Gentle(i)
  <2>1. w \in Callers /\ call[w].image \in Images
    BY <1>29 DEF ReapCommits, CallTyped, Callers
  <2>2. w # d
    BY <1>29, <2>1 DEF ReapCommits, CallTyped, CallRow, Idle
  <2>3. call[w].image # i
    BY <1>29, <1>0, <2>1, <2>2 DEF ReapCommits, Locked, Holding
  <2> QED
    BY <1>29, <1>0, <2>1, <2>2, <2>3 DEF ReapCommits, RowTyped, LockTyped
<1>30. ASSUME NEW P \in {Requests, Cleaners}, Crash(P) PROVE Gentle(i)
  BY <1>30, <1>0 DEF Crash, LockTyped, CallTyped, Holding, Idle, i
<1> QED
  BY <1>1, <1>2, <1>3, <1>4, <1>5, <1>6, <1>7, <1>8, <1>9, <1>10, <1>11, <1>12,
     <1>13, <1>14, <1>15, <1>16, <1>17, <1>18, <1>19, <1>20, <1>21, <1>22,
     <1>23, <1>24, <1>25, <1>26, <1>27, <1>28, <1>29, <1>30 DEF i, MediaNext,
     Proceed, Pass

-----------------------------------------------------------------------------
(* Rows.                                                                   *)

LEMMA RowsStep ==
    ASSUME Inv, MediaNext, NEW i \in Images
    PROVE  RowInv(i)'
<1> USE MediaAssumption DEF Inv, Typed, RowTyped, AttemptTyped, FilesTyped,
        RowInv, Removing
<1> RowInv(i)
  BY DEF Rows
<1>1. ASSUME NEW m \in Images, StartUpload(m) PROVE RowInv(i)'
  BY <1>1 DEF StartUpload, Withdrawn, Usable
<1>2. ASSUME NEW m \in Images, ReceiveOversize(m) PROVE RowInv(i)'
  BY <1>2 DEF ReceiveOversize, Reject, Gone, Withdrawn, Tombstones, Usable
<1>3. ASSUME NEW m \in Images, CompleteRejects(m) PROVE RowInv(i)'
  BY <1>3 DEF CompleteRejects, Reject, Gone, Withdrawn, Tombstones, Usable
<1>4. ASSUME NEW m \in Images, AnchorImage(m) PROVE RowInv(i)'
  BY <1>4 DEF AnchorImage, Withdrawn, Usable
<1>5. ASSUME NEW m \in Images, Delete(m) PROVE RowInv(i)'
  BY <1>5 DEF Delete, Mark, Withdrawn, Usable
<1>6. ASSUME NEW m \in Images, NEW c \in Requests, CompleteLinks(c, m)
      PROVE  RowInv(i)'
  BY <1>6 DEF CompleteLinks, Takes, Withdrawn, Usable
<1>7. ASSUME NEW c \in Requests, ReceiveClaims(c) PROVE RowInv(i)'
  <2>1. c \in Callers /\ call[c].image \in Images
    BY <1>7 DEF ReceiveClaims, CallTyped, Callers
  <2>2. CASE i = call[c].image
    <3>1. final[i] = 0 /\ i \notin entries
      BY <1>7, <2>2 DEF ReceiveClaims, Withdrawn
    <3>2. /\ row' = [row EXCEPT ![i].state = "uploading", ![i].number = @ + 1]
          /\ UNCHANGED <<staging, final, entries>>
      BY <1>7, <2>1, <2>2 DEF ReceiveClaims, Claim
    <3> QED
      BY <2>1, <2>2, <3>1, <3>2 DEF Usable
  <2>3. CASE i # call[c].image
    BY <1>7, <2>1, <2>3 DEF ReceiveClaims, Claim
  <2> QED
    BY <2>2, <2>3
<1>8. ASSUME NEW c \in Requests, ReceiveAbandons(c) PROVE RowInv(i)'
  BY <1>8 DEF ReceiveAbandons, CallTyped, Callers, CallRow, Calls, CallInv,
     Overtaken, Lapsed, Withdrawn, Usable
<1>9. ASSUME NEW c \in Requests, ReceiveDiscards(c) PROVE RowInv(i)'
  BY <1>9 DEF ReceiveDiscards, CallTyped, Callers, CallRow, Calls, CallInv,
     Overtaken, Withdrawn, Usable
<1>10. ASSUME NEW c \in Requests, ReceiveTakesOver(c) PROVE RowInv(i)'
  <2>1. c \in Callers /\ call[c].image \in Images
    BY <1>10 DEF ReceiveTakesOver, CallTyped, Callers
  <2> QED
    BY <1>10, <2>1 DEF ReceiveTakesOver, Claim, Lapsed, Withdrawn
<1>11. ASSUME NEW c \in Requests, ReceiveProbeFails(c) PROVE RowInv(i)'
  <2>1. call[c].image \in Images
    BY <1>11 DEF ReceiveProbeFails, CallTyped, Callers
  <2>2. Reject(call[c].image) /\ UNCHANGED <<attempt, staging, final, entries>>
    BY <1>11 DEF ReceiveProbeFails
  <2>3. CASE row[call[c].image].state \in Gone
    BY <2>2, <2>3 DEF Reject
  <2>4. CASE row[call[c].image].state \notin Gone
    BY <2>1, <2>2, <2>4 DEF Reject, Gone, Withdrawn, Tombstones, Usable
  <2> QED
    BY <2>3, <2>4
<1>12. ASSUME NEW c \in Requests, ReceiveWrites(c) PROVE RowInv(i)'
  BY <1>12 DEF ReceiveWrites, CallTyped, Callers, CallRow, Calls, CallInv,
     Overtaken, Withdrawn, Usable
<1>13. ASSUME NEW c \in Requests, ReceiveSeals(c) PROVE RowInv(i)'
  <2> DEFINE m == call[c].image
             s == /\ Version(m) = <<"uploading", call[c].number>>
                  /\ attempt[m].state = "claimed"
  <2>1. c \in Callers /\ m \in Images
    BY <1>13 DEF ReceiveSeals, CallTyped, Callers
  <2>2. row[m].number = call[c].number /\ row[m].number \in staging[m]
    BY <1>13, <2>1 DEF ReceiveSeals, Calls, CallInv
  <2>3. CASE s
    <3>1. /\ row[m].state = "uploading" /\ final[m] = 0
          /\ row[m].number # 0 /\ m \notin entries
      BY <2>1, <2>3 DEF Version, Rows, Withdrawn
    <3>2. /\ row' = [row EXCEPT ![m].state = "uploaded"]
          /\ attempt' = [attempt EXCEPT ![m] = [state |-> "sealed",
                                               seal |-> call[c].body]]
          /\ UNCHANGED <<staging, final, entries>>
      BY <1>13, <2>3 DEF ReceiveSeals
    <3> QED
      BY <2>1, <2>2, <3>1, <3>2 DEF Usable, Withdrawn
  <2>4. CASE ~s
    BY <1>13, <2>4 DEF ReceiveSeals
  <2> QED
    BY <2>3, <2>4
<1>14. ASSUME NEW c \in Requests, CompleteUnlinks(c) PROVE RowInv(i)'
  BY <1>14 DEF CompleteUnlinks, CallTyped, Callers, CallRow, Calls, CallInv,
     Overtaken, Withdrawn, Usable
<1>15. ASSUME NEW c \in Requests, CompleteCommits(c) PROVE RowInv(i)'
  BY <1>15 DEF CompleteCommits, CallTyped, Callers, CallRow, Calls, CallInv,
     Overtaken, Version, Withdrawn, Usable
<1>16. ASSUME NEW w \in Cleaners, CleanupDecides(w) PROVE RowInv(i)'
  <2>1. w \in Callers /\ call[w].image \in Images
    BY <1>16 DEF CleanupDecides, CallTyped, Callers
  <2> QED
    BY <1>16, <2>1 DEF CleanupDecides, Mark, Usable, Withdrawn
<1>17. ASSUME NEW w \in Cleaners, ReapAuthorises(w) PROVE RowInv(i)'
  BY <1>17 DEF ReapAuthorises, CallTyped, Callers, CallRow, Calls, CallInv,
     Overtaken, Withdrawn, Usable
<1>18. ASSUME NEW w \in Cleaners, ReapLocks(w) PROVE RowInv(i)'
  <2>1. w \in Callers /\ call[w].image \in Images
    BY <1>18 DEF ReapLocks, CallTyped, Callers
  <2> QED
    BY <1>18, <2>1 DEF ReapLocks
<1>19. ASSUME NEW w \in Cleaners, ReapUnstages(w) PROVE RowInv(i)'
  BY <1>19 DEF ReapUnstages, CallTyped, Callers, CallRow, Calls, CallInv,
     Overtaken, Withdrawn, Usable
<1>20. ASSUME NEW w \in Cleaners, ReapRemoves(w) PROVE RowInv(i)'
  BY <1>20 DEF ReapRemoves, CallTyped, Callers, CallRow, Calls, CallInv,
     Overtaken, Withdrawn, Usable
<1>21. ASSUME NEW w \in Cleaners, ReapCommits(w) PROVE RowInv(i)'
  <2> DEFINE m == call[w].image
  <2>1. w \in Callers /\ m \in Images
    BY <1>21 DEF ReapCommits, CallTyped, Callers
  <2>2. /\ staging[m] = {} /\ final[m] = 0
        /\ row[m].state \in {"reaping", "deleted"}
    BY <1>21, <2>1 DEF ReapCommits, Calls, CallInv
  <2>3. CASE row[m].state = "reaping"
    BY <1>21, <2>1, <2>2, <2>3 DEF ReapCommits, Withdrawn, Usable
  <2>4. CASE row[m].state # "reaping"
    BY <1>21, <2>4 DEF ReapCommits
  <2> QED
    BY <2>3, <2>4
<1>22. CASE UNCHANGED <<row, attempt, staging, final, entries>>
  BY <1>22
<1>23. ASSUME NEW m \in Images,
         Lapse(m)
       PROVE  RowInv(i)'
  BY <1>23, <1>22 DEF Lapse
<1>24. ASSUME NEW m \in Images, NEW c \in Requests,
         CompleteAdopts(c, m) \/ ReadChecks(c, m)
       PROVE  RowInv(i)'
  BY <1>24, <1>22 DEF CompleteAdopts, ReadChecks, Takes
<1>25. ASSUME NEW m \in Images, NEW c \in Requests, NEW body \in Bodies,
         ReceiveArrives(c, m, body)
       PROVE  RowInv(i)'
  BY <1>25, <1>22 DEF ReceiveArrives, Takes
<1>26. ASSUME NEW m \in Images, NEW w \in Cleaners,
         CleanupSelects(w, m)
       PROVE  RowInv(i)'
  BY <1>26, <1>22 DEF CleanupSelects
<1>27. ASSUME NEW c \in Requests,
         ReceiveRefused(c) \/ ReadServes(c)
       PROVE  RowInv(i)'
  BY <1>27, <1>22 DEF ReceiveRefused, ReadServes
<1>28. ASSUME NEW w \in Cleaners,
         CleanupDefers(w)
       PROVE  RowInv(i)'
  BY <1>28, <1>22 DEF CleanupDefers
<1>29. ASSUME NEW P \in {Requests, Cleaners},
         Crash(P)
       PROVE  RowInv(i)'
  BY <1>29, <1>22 DEF Crash
<1> HIDE DEF Inv, Typed, RowTyped, AttemptTyped, FilesTyped, RowInv, Removing
<1> QED
  BY <1>1, <1>2, <1>3, <1>4, <1>5, <1>6, <1>7, <1>8, <1>9, <1>10, <1>11,
     <1>12, <1>13, <1>14, <1>15, <1>16, <1>17, <1>18, <1>19, <1>20, <1>21,
     <1>22, <1>23, <1>24, <1>25, <1>26, <1>27, <1>28, <1>29
     DEF MediaNext, Proceed, Pass

-----------------------------------------------------------------------------
(* Callers.                                                                *)

Stands(d) ==
    /\ CallInv(d)'
    /\ call'[d].at \in Holding => lock'[call'[d].image] = d

\* A step of another, or of nobody in particular.
LEMMA OthersStep ==
    ASSUME Inv, MediaNext, Typed', NEW d \in Callers, call'[d] = call[d]
    PROVE  Stands(d)
<1> DEFINE i == call[d].image
<1>1. CASE call[d].at = "idle"
  BY <1>1 DEF Stands, CallInv, Holding
<1>2. CASE call[d].at \in Holding
  <2>1. i \in Images /\ Gentle(i)
    BY <1>2, Apart DEF Inv, Typed, CallTyped, Holding
  <2>2. RowInv(i) /\ CallInv(d) /\ lock[i] = d
    BY <1>2, <2>1 DEF Inv, Rows, Calls, Locked
  <2>3. call'[d].at \in Holding => lock'[call'[d].image] = d
    BY <2>1, <2>2 DEF Gentle
  <2>4. CASE call[d].at \in {"discarding", "claiming", "claimed", "written"}
    BY <2>1, <2>2, <2>3, <2>4 DEF Stands, CallInv, Gentle, Overtaken
  <2>5. CASE call[d].at \in {"linked", "unlinked", "reading"}
    BY <2>1, <2>2, <2>3, <2>5 DEF Stands, CallInv, Gentle
  <2>6. CASE call[d].at \in {"removing", "unstaged", "removed"}
    <3>1. row'[i].state = row[i].state
      BY <2>1, <2>2, <2>6 DEF CallInv, Gentle, Removing, Gone, Withdrawn,
         Tombstones
    <3> QED
      BY <2>1, <2>2, <2>3, <2>6, <3>1 DEF Stands, CallInv, Gentle
  <2> QED
    BY <1>2, <2>4, <2>5, <2>6 DEF Holding
<1>3. CASE call[d].at \notin Holding \cup {"idle"}
  <2>1. i \in Images /\ Absorb(i)
    BY <1>3, Absorbing DEF Inv, Typed, CallTyped
  <2> QED
    BY <1>3, <2>1 DEF Inv, Calls, Stands, CallInv, Absorb, Holding
<1> QED
  BY <1>1, <1>2, <1>3

\* A step of its own.
LEMMA OwnStep ==
    ASSUME Inv, MediaNext, NEW d \in Callers, call'[d] # call[d]
    PROVE  Stands(d)
<1> DEFINE i == call[d].image
<1>0. /\ call[d] \in CallRow /\ CallInv(d)
      /\ call[d].at # "idle" => i \in Images /\ RowInv(i)
      /\ call[d].at \in Holding => lock[i] = d
  BY DEF Inv, Typed, CallTyped, Rows, Calls, Locked
<1> USE MediaAssumption DEF Inv, Typed, RowTyped, AttemptTyped, FilesTyped,
        LockTyped, CallTyped, CallRow, Callers, Holding, CallInv, Stands
<1>1. ASSUME NEW m \in Images, NEW c \in Requests, NEW body \in Bodies,
             ReceiveArrives(c, m, body)
         PROVE  Stands(d)
  <2>1. c = d
    BY <1>1 DEF ReceiveArrives, Takes
  <2> QED
    BY <1>1, <1>0, <2>1 DEF ReceiveArrives, Takes, Rows, RowInv, Gone,
       Withdrawn, Tombstones, Usable
<1>2. ASSUME NEW m \in Images, NEW c \in Requests, CompleteLinks(c, m)
         PROVE  Stands(d)
  <2>1. c = d
    BY <1>2 DEF CompleteLinks, Takes
  <2> QED
    BY <1>2, <1>0, <2>1 DEF CompleteLinks, Takes, Rows, RowInv, Usable
<1>3. ASSUME NEW m \in Images, NEW c \in Requests, CompleteAdopts(c, m)
         PROVE  Stands(d)
  <2>1. c = d
    BY <1>3 DEF CompleteAdopts, Takes
  <2> QED
    BY <1>3, <1>0, <2>1 DEF CompleteAdopts, Takes, Rows, RowInv, Usable
<1>4. ASSUME NEW m \in Images, NEW c \in Requests, ReadChecks(c, m)
         PROVE  Stands(d)
  <2>1. c = d
    BY <1>4 DEF ReadChecks, Takes
  <2> QED
    BY <1>4, <1>0, <2>1 DEF ReadChecks, Takes, Rows, RowInv, Usable
<1>5. ASSUME NEW m \in Images, NEW w \in Cleaners, CleanupSelects(w, m)
         PROVE  Stands(d)
  <2>1. w = d
    BY <1>5 DEF CleanupSelects
  <2> QED
    BY <1>5, <1>0, <2>1 DEF CleanupSelects
<1>6. ASSUME NEW c \in Requests, ReceiveClaims(c)
      PROVE  Stands(d)
  <2>1. c = d /\ call[d].image \in Images
    BY <1>6 DEF ReceiveClaims, Claim
  <2>2. /\ call'[d] = [call[d] EXCEPT !.at = "claimed",
                     !.number = row[call[d].image].number + 1]
        /\ row'[call[d].image].state = "uploading"
        /\ row'[call[d].image].number = row[call[d].image].number + 1
        /\ lock'[call[d].image] = d
    BY <1>6, <2>1 DEF ReceiveClaims, Claim
  <2> QED
    BY <2>1, <2>2 DEF Overtaken
<1>7. ASSUME NEW c \in Requests, ReceiveAbandons(c)
         PROVE  Stands(d)
  <2>1. c = d
    BY <1>7 DEF ReceiveAbandons
  <2> QED
    BY <1>7, <1>0, <2>1 DEF ReceiveAbandons, Overtaken, RowInv, Lapsed, Usable
<1>8. ASSUME NEW c \in Requests, ReceiveDiscards(c)
         PROVE  Stands(d)
  <2>1. c = d
    BY <1>8 DEF ReceiveDiscards
  <2> QED
    BY <1>8, <1>0, <2>1 DEF ReceiveDiscards, Overtaken, RowInv, Usable
<1>9. ASSUME NEW c \in Requests, ReceiveTakesOver(c)
         PROVE  Stands(d)
  <2>1. c = d
    BY <1>9 DEF ReceiveTakesOver, Claim
  <2> QED
    BY <1>9, <1>0, <2>1 DEF ReceiveTakesOver, Claim, Idle, Overtaken, RowInv,
       Lapsed, Usable
<1>10. ASSUME NEW c \in Requests, ReceiveRefused(c)
         PROVE  Stands(d)
  <2>1. c = d
    BY <1>10 DEF ReceiveRefused
  <2> QED
    BY <1>10, <1>0, <2>1 DEF ReceiveRefused, Idle, Overtaken, RowInv, Usable
<1>11. ASSUME NEW c \in Requests, ReceiveProbeFails(c)
         PROVE  Stands(d)
  <2>1. c = d
    BY <1>11 DEF ReceiveProbeFails
  <2> QED
    BY <1>11, <1>0, <2>1 DEF ReceiveProbeFails, Reject, Idle, Overtaken,
       RowInv, Gone, Withdrawn, Tombstones, Usable
<1>12. ASSUME NEW c \in Requests, ReceiveWrites(c)
         PROVE  Stands(d)
  <2>1. c = d
    BY <1>12 DEF ReceiveWrites
  <2> QED
    BY <1>12, <1>0, <2>1 DEF ReceiveWrites, Overtaken, RowInv, Usable
<1>13. ASSUME NEW c \in Requests, ReceiveSeals(c)
         PROVE  Stands(d)
  <2>1. c = d
    BY <1>13 DEF ReceiveSeals
  <2> QED
    BY <1>13, <1>0, <2>1 DEF ReceiveSeals, Idle, Overtaken, RowInv, Version,
       Usable
<1>14. ASSUME NEW c \in Requests, CompleteUnlinks(c)
         PROVE  Stands(d)
  <2>1. c = d
    BY <1>14 DEF CompleteUnlinks
  <2> QED
    BY <1>14, <1>0, <2>1 DEF CompleteUnlinks, Overtaken, RowInv, Usable
<1>15. ASSUME NEW c \in Requests, CompleteCommits(c)
         PROVE  Stands(d)
  <2>1. c = d
    BY <1>15 DEF CompleteCommits
  <2> QED
    BY <1>15, <1>0, <2>1 DEF CompleteCommits, Idle, Overtaken, RowInv,
       Version, Usable
<1>16. ASSUME NEW c \in Requests, ReadServes(c)
         PROVE  Stands(d)
  <2>1. c = d
    BY <1>16 DEF ReadServes
  <2> QED
    BY <1>16, <1>0, <2>1 DEF ReadServes, Idle, Overtaken, RowInv, Usable
<1>17. ASSUME NEW w \in Cleaners, CleanupDecides(w)
         PROVE  Stands(d)
  <2>1. w = d
    BY <1>17 DEF CleanupDecides
  <2> QED
    BY <1>17, <1>0, <2>1 DEF CleanupDecides, Mark, Overtaken, RowInv,
       Removing, Withdrawn, Usable
<1>18. ASSUME NEW w \in Cleaners, CleanupDefers(w)
         PROVE  Stands(d)
  <2>1. w = d
    BY <1>18 DEF CleanupDefers
  <2> QED
    BY <1>18, <1>0, <2>1 DEF CleanupDefers, Idle, Overtaken, RowInv, Usable
<1>19. ASSUME NEW w \in Cleaners, ReapAuthorises(w)
         PROVE  Stands(d)
  <2>1. w = d
    BY <1>19 DEF ReapAuthorises
  <2> QED
    <3>1. row[i].state \in Removing /\ i \in Images
      BY <1>19, <1>0, <2>1 DEF ReapAuthorises
    <3>2. CASE row[i].state = "deleted"
      BY <1>19, <2>1, <3>2 DEF ReapAuthorises, Idle
    <3>3. CASE row[i].state \in Withdrawn
      <4>1. row'[i].state = "reaping" /\ call'[d].at = "authorised"
            /\ call'[d].image = i
        BY <1>19, <2>1, <3>1, <3>3 DEF ReapAuthorises, Withdrawn
      <4> QED
        BY <4>1
    <3> QED
      BY <3>1, <3>2, <3>3 DEF Removing
<1>20. ASSUME NEW w \in Cleaners, ReapLocks(w)
         PROVE  Stands(d)
  <2>1. w = d
    BY <1>20 DEF ReapLocks
  <2> QED
    BY <1>20, <1>0, <2>1 DEF ReapLocks, Overtaken, RowInv, Usable
<1>21. ASSUME NEW w \in Cleaners, ReapUnstages(w)
         PROVE  Stands(d)
  <2>1. w = d
    BY <1>21 DEF ReapUnstages
  <2> QED
    BY <1>21, <1>0, <2>1 DEF ReapUnstages, Overtaken, RowInv, Usable
<1>22. ASSUME NEW w \in Cleaners, ReapRemoves(w)
         PROVE  Stands(d)
  <2>1. w = d
    BY <1>22 DEF ReapRemoves
  <2> QED
    BY <1>22, <1>0, <2>1 DEF ReapRemoves, Overtaken, RowInv, Usable
<1>23. ASSUME NEW w \in Cleaners, ReapCommits(w)
         PROVE  Stands(d)
  <2>1. w = d
    BY <1>23 DEF ReapCommits
  <2> QED
    BY <1>23, <1>0, <2>1 DEF ReapCommits, Idle, Overtaken, RowInv, Usable
<1>24. ASSUME NEW P \in {Requests, Cleaners}, Crash(P)
       PROVE  Stands(d)
  BY <1>24 DEF Crash, Idle
<1>25. CASE UNCHANGED call
  BY <1>25
<1> QED
  BY <1>1, <1>2, <1>3, <1>4, <1>5, <1>6, <1>7, <1>8, <1>9, <1>10, <1>11, <1>12,
     <1>13, <1>14, <1>15, <1>16, <1>17, <1>18, <1>19, <1>20, <1>21, <1>22,
     <1>23, <1>24, <1>25
     DEF MediaNext, Proceed, Pass, StartUpload, ReceiveOversize, CompleteRejects,
        AnchorImage, Delete, Lapse

-----------------------------------------------------------------------------
LEMMA InitInv == MediaInit => Inv
<1> SUFFICES ASSUME MediaInit PROVE Inv
  OBVIOUS
<1> USE MediaAssumption DEF MediaInit
<1>1. Typed
  BY DEF Typed, RowTyped, AttemptTyped, FilesTyped, LockTyped, CallTyped,
     CallRow,
     OthersTyped, States, Steps, Versions, NoVersion, Bodies, Idle
<1>2. Locked /\ Calls
  BY DEF Locked, Calls, CallInv, Holding, Idle
<1>3. Rows
  BY DEF Rows, RowInv, Usable
<1> QED
  BY <1>1, <1>2, <1>3 DEF Inv

LEMMA NextInv == Inv /\ [MediaNext]_mediaVars => Inv'
<1> SUFFICES ASSUME Inv, [MediaNext]_mediaVars PROVE Inv'
  OBVIOUS
<1>1. CASE MediaNext
  <2>1. Typed'
    BY <1>1, TypedStep DEF Inv
  <2>2. Rows'
    BY <1>1, RowsStep DEF Rows
  <2>3. \A d \in Callers : Stands(d)
    BY <1>1, <2>1, OthersStep, OwnStep
  <2>4. Calls' /\ Locked'
    BY <2>1, <2>3 DEF Calls, Locked, Stands, Typed, CallTyped
  <2> QED
    BY <2>1, <2>2, <2>4 DEF Inv
<1>2. CASE UNCHANGED mediaVars
  BY <1>2 DEF mediaVars, Inv, Typed, RowTyped, AttemptTyped, FilesTyped, LockTyped,
     CallTyped, CallRow, OthersTyped, Locked, Rows, RowInv, Calls, CallInv
<1> QED
  BY <1>1, <1>2

LEMMA Invariant == MediaSpec => []Inv
  BY InitInv, NextInv, PTL DEF MediaSpec

-----------------------------------------------------------------------------
(* The types of the tables, the files and the calls stay what they are.    *)
THEOREM TypeCorrect == MediaSpec => []MediaTypeOK
<1>1. Inv => MediaTypeOK
  BY DEF Inv, Typed, RowTyped, AttemptTyped, FilesTyped, LockTyped, CallTyped,
     CallRow,
     OthersTyped, MediaTypeOK
<1> QED
  BY <1>1, Invariant, PTL

(* A row that promises bytes has them, also for a reader that looked       *)
(* before a DELETE committed.                                              *)
THEOREM BytesAreThere == MediaSpec => []BytesBehindTheRow
<1>1. Inv => BytesBehindTheRow
  <2> SUFFICES ASSUME Inv PROVE BytesBehindTheRow
    OBVIOUS
  <2>1. ASSUME NEW c \in Requests, call[c].at = "reading"
        PROVE  LET m == call[c].image
               IN call[c].number = final[m] /\ attempt[m].seal = "declared"
    BY <2>1 DEF Inv, Calls, CallInv, Callers
  <2> QED
    BY <2>1 DEF Inv, Rows, RowInv, BytesBehindTheRow
<1> QED
  BY <1>1, Invariant, PTL

(* A deleted image leaves no file and gets none back, and the manifest     *)
(* names no image that is in use.                                          *)
THEOREM NothingIsLeft == MediaSpec => []DeletedHoldsNothing
<1>1. Inv => DeletedHoldsNothing
  BY DEF Inv, Typed, OthersTyped, Rows, RowInv, Removing, DeletedHoldsNothing
<1> QED
  BY <1>1, Invariant, PTL
=============================================================================
