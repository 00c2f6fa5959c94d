--------------------------- MODULE MediaLifecycle ---------------------------
(***************************************************************************)
(* Chat images: the upload state machine (media/lifecycle.py), its five    *)
(* endpoints (media/uploads.py), the anchoring and reading of an image by  *)
(* a message (api/chat_anchor.py, api/media_read.py), and the timer's      *)
(* cleanup (media/cleanup.py, media/deletion.py) over one database and one *)
(* directory of files (media/store.py).  A database transaction is one     *)
(* step, a change of a file is one step, and the stripe lock is a flock:   *)
(* taken without waiting, given up when its process dies.                  *)
(*                                                                         *)
(* An image is named by the idempotency key that creates it.  Its states   *)
(* are left once and for all, except that `uploading' passes to a new      *)
(* attempt, so state and attempt number stand for state_version.  What was *)
(* sealed matters only as far as it is what the client declared; a file is *)
(* known by the attempt that wrote it.  A body that is too short changes   *)
(* nothing and is left out, and the disk is taken to keep what it is given. *)
(***************************************************************************)
EXTENDS Naturals, FiniteSets

CONSTANTS
    Images,         \* media objects, by the request that creates them
    Requests,       \* the threads of the API process
    Cleaners,       \* the cleanup process
    NoOne,          \* a free lock
    NoImage,        \* what an idle caller works on
    MaxStored,      \* max_total_bytes, in reservations of one image
    MaxUnbound,     \* max_unbound_objects
    MaxCalls,       \* bound: locked calls to the API
    MaxCrashes      \* bound: deaths of either process

ASSUME MediaAssumption ==
    /\ Requests \cap Cleaners = {}
    /\ NoOne \notin Requests \cup Cleaners
    /\ NoImage \notin Images
    /\ MaxStored \in Nat /\ MaxUnbound \in Nat
    /\ MaxCalls \in Nat /\ MaxCrashes \in Nat

VARIABLES
    row,        \* media_objects
    attempt,    \* media_attempts, the current attempt of each image
    entries,    \* the deletion manifest: the images that have an entry
    due,        \* the deadline of the image's present state has passed
    staging,    \* the attempts that have a file under staging/
    final,      \* the attempt whose file is the persisted image, 0 for none
    lock,       \* who holds the image's stripe
    call,       \* what each thread and the cleaner are doing
    calls, crashes

mediaVars == <<row, attempt, entries, due, staging, final, lock, call, calls,
               crashes>>
disk == <<staging, final>>
counters == <<calls, crashes>>

-----------------------------------------------------------------------------
Callers == Requests \cup Cleaners

Usable == {"ready", "bound"}
Withdrawn == {"deleting", "reaping"}
Tombstones == {"rejected", "deleted"}
Gone == Withdrawn \cup Tombstones
Unfinished == {"pending", "uploading", "uploaded"}
States == {"absent"} \cup Unfinished \cup Usable \cup Gone

\* What a PUT brings, against the declaration: the same image, one of the
\* declared size and type but another digest, one of another type.
Bodies == {"declared", "altered", "other_type"}

Versions == States \X Nat
NoVersion == <<"absent", 0>>
Version(m) == <<row[m].state, row[m].number>>

\* The version whose deadline a caller's clock has passed.
OverdueVersion(m) == IF due[m] THEN Version(m) ELSE NoVersion

Steps == {"idle", "put", "discarding", "claiming", "claimed", "written",
          "linked", "unlinked", "reading",
          "selected", "decided", "authorised", "removing", "unstaged", "removed"}

Idle == [at |-> "idle", image |-> NoImage, body |-> "declared", number |-> 0,
         sees |-> NoVersion]

(* The types of the tables, the files and the calls. *)
MediaTypeOK ==
    /\ row \in [Images -> [state : States, number : Nat]]
    /\ attempt \in [Images ->
           [state : {"none", "claimed", "sealed", "published", "abandoned"},
            seal : {"none"} \cup Bodies]]
    /\ entries \subseteq Images
    /\ due \in [Images -> BOOLEAN]
    /\ staging \in [Images -> SUBSET (Nat \ {0})]
    /\ final \in [Images -> Nat]
    /\ lock \in [Images -> Callers \cup {NoOne}]
    /\ call \in [Callers -> [at : Steps, image : Images \cup {NoImage},
                             body : Bodies, number : Nat, sees : Versions]]
    /\ calls \in 0..MaxCalls /\ crashes \in 0..MaxCrashes

MediaInit ==
    /\ row = [m \in Images |-> [state |-> "absent", number |-> 0]]
    /\ attempt = [m \in Images |-> [state |-> "none", seal |-> "none"]]
    /\ entries = {}
    /\ due = [m \in Images |-> FALSE]
    /\ staging = [m \in Images |-> {}]
    /\ final = [m \in Images |-> 0]
    /\ lock = [m \in Images |-> NoOne]
    /\ call = [c \in Callers |-> Idle]
    /\ calls = 0 /\ crashes = 0

-----------------------------------------------------------------------------
\* The row moves on, and with it the deadline that counts (_cas_state).
Move(m, state) ==
    /\ row' = [row EXCEPT ![m].state = state]
    /\ due' = [due EXCEPT ![m] = FALSE]

SetAttempt(m, state) == attempt' = [attempt EXCEPT ![m].state = state]

Free(m) == lock[m] = NoOne
Hold(c, m) == lock' = [lock EXCEPT ![m] = c]
Release(c) == lock' = [m \in Images |-> IF lock[m] = c THEN NoOne ELSE lock[m]]

Go(c, step) == call' = [call EXCEPT ![c].at = step]
Done(c) == call' = [call EXCEPT ![c] = Idle]

\* A thread takes a request that will want the lock.
Takes(c, m, body, number, step) ==
    /\ c \in Requests /\ call[c].at = "idle"
    /\ calls < MaxCalls /\ calls' = calls + 1
    /\ call' = [call EXCEPT ![c] =
           [at |-> step, image |-> m, body |-> body, number |-> number,
            sees |-> OverdueVersion(m)]]

\* reject_upload: from any state that is not yet gone, whichever it is.
Reject(m) ==
    IF row[m].state \in Gone THEN UNCHANGED <<row, due>> ELSE Move(m, "rejected")

\* mark_media_deleting: the mark and, if one is owed, the manifest entry.
Mark(m) ==
    /\ row[m].state \notin Withdrawn \cup {"absent", "deleted"}
    /\ Move(m, "deleting")
    /\ entries' = IF row[m].state = "rejected" THEN entries ELSE entries \cup {m}

-----------------------------------------------------------------------------
(* The endpoints.                                                          *)

\* POST uploads.  A repeat of the key finds the object it made.
StartUpload(m) ==
    /\ row[m].state = "absent"
    /\ Cardinality({n \in Images : row[n].state \notin {"absent", "deleted"}})
           < MaxStored
    /\ Cardinality({n \in Images :
                        row[n].state \notin {"absent", "bound", "deleted"}})
           < MaxUnbound
    /\ Move(m, "pending")
    /\ UNCHANGED <<attempt, entries, disk, lock, call, counters>>

\* PUT content, with more bytes than declared: rejected without the lock.
ReceiveOversize(m) ==
    /\ row[m].state \notin Gone \cup {"absent"}
    /\ Reject(m)
    /\ UNCHANGED <<attempt, entries, disk, lock, call, counters>>

ReceiveArrives(c, m, body) ==
    /\ row[m].state \notin Gone \cup {"absent"}
    /\ Takes(c, m, body, 0, "put")
    /\ UNCHANGED <<row, attempt, entries, due, disk, lock, crashes>>

\* A claim: the attempt's row and the image's, in one transaction.
Claim(c, m) ==
    /\ row' = [row EXCEPT ![m].state = "uploading", ![m].number = @ + 1]
    /\ due' = [due EXCEPT ![m] = FALSE]
    /\ attempt' = [attempt EXCEPT ![m] = [state |-> "claimed", seal |-> "none"]]
    /\ call' = [call EXCEPT ![c].at = "claimed", ![c].number = row[m].number + 1]

Lapsed(c, m) == row[m].state = "uploading" /\ call[c].sees = Version(m)

\* Under the lock: claim a target that is still open ...
Mutant_ReceiveClaims(c) ==  \* gives the stripe up once the claim is committed
    LET m == call[c].image
    IN /\ call[c].at = "put" /\ Free(m)
       /\ row[m].state = "pending" /\ call[c].sees # Version(m)
       /\ Claim(c, m) /\ UNCHANGED lock
       /\ UNCHANGED <<entries, disk, counters>>

ReceiveClaims(c) ==
    LET m == call[c].image
    IN /\ call[c].at = "put" /\ Free(m)
       /\ row[m].state = "pending" /\ call[c].sees # Version(m)
       /\ Claim(c, m) /\ Hold(c, m)
       /\ UNCHANGED <<entries, disk, counters>>

\* ... or take over from an attempt whose claim has lapsed ...
ReceiveAbandons(c) ==
    LET m == call[c].image
    IN /\ call[c].at = "put" /\ Free(m) /\ Lapsed(c, m)
       /\ SetAttempt(m, "abandoned")
       /\ Hold(c, m) /\ Go(c, "discarding")
       /\ UNCHANGED <<row, entries, due, disk, counters>>

ReceiveDiscards(c) ==
    LET m == call[c].image
    IN /\ call[c].at = "discarding"
       /\ staging' = [staging EXCEPT ![m] = @ \ {call[c].sees[2]}]
       /\ Go(c, "claiming")
       /\ UNCHANGED <<row, attempt, entries, due, final, lock, counters>>

ReceiveTakesOver(c) ==
    LET m == call[c].image
    IN /\ call[c].at = "claiming"
       /\ \/ Lapsed(c, m) /\ Claim(c, m) /\ UNCHANGED lock
          \/ /\ ~Lapsed(c, m) /\ Done(c) /\ Release(c)
             /\ UNCHANGED <<row, attempt, due>>
       /\ UNCHANGED <<entries, disk, counters>>

\* ... or be refused: busy, expired, claimed by a live attempt, past uploading.
ReceiveRefused(c) ==
    LET m == call[c].image
    IN /\ call[c].at = "put"
       /\ \/ ~Free(m)
          \/ row[m].state = "pending" /\ call[c].sees = Version(m)
          \/ row[m].state # "pending" /\ ~Lapsed(c, m)
       /\ Done(c)
       /\ UNCHANGED <<row, attempt, entries, due, disk, lock, counters>>

ReceiveProbeFails(c) ==
    LET m == call[c].image
    IN /\ call[c].at = "claimed" /\ call[c].body = "other_type"
       /\ Reject(m)
       /\ Done(c) /\ Release(c)
       /\ UNCHANGED <<attempt, entries, disk, counters>>

ReceiveWrites(c) ==
    LET m == call[c].image
    IN /\ call[c].at = "claimed" /\ call[c].body # "other_type"
       /\ staging' = [staging EXCEPT ![m] = @ \cup {call[c].number}]
       /\ Go(c, "written")
       /\ UNCHANGED <<row, attempt, entries, due, final, lock, counters>>

ReceiveSeals(c) ==
    LET m == call[c].image
    IN /\ call[c].at = "written"
       /\ IF /\ Version(m) = <<"uploading", call[c].number>>
             /\ attempt[m].state = "claimed"
          THEN /\ attempt' = [attempt EXCEPT ![m] =
                                 [state |-> "sealed", seal |-> call[c].body]]
               /\ Move(m, "uploaded")
          ELSE UNCHANGED <<row, attempt, due>>
       /\ Done(c) /\ Release(c)
       /\ UNCHANGED <<entries, disk, counters>>

\* POST complete.  The sealed record is not what was declared.
CompleteRejects(m) ==
    /\ Free(m)
    /\ row[m].state = "uploaded" /\ attempt[m].seal # "declared"
    /\ Reject(m)
    /\ UNCHANGED <<attempt, entries, disk, lock, call, counters>>

\* publish: link the staged file to its final name, unlink the staged one.
CompleteLinks(c, m) ==
    /\ Free(m)
    /\ row[m].state = "uploaded" /\ attempt[m].seal = "declared"
    /\ final[m] = 0 /\ row[m].number \in staging[m]
    /\ final' = [final EXCEPT ![m] = row[m].number]
    /\ Takes(c, m, "declared", row[m].number, "linked")
    /\ Hold(c, m)
    /\ UNCHANGED <<row, attempt, entries, due, staging, crashes>>

\* A death came between the link and the commit: the file is adopted.
CompleteAdopts(c, m) ==
    /\ Free(m)
    /\ row[m].state = "uploaded" /\ attempt[m].seal = "declared"
    /\ final[m] = row[m].number
    /\ Takes(c, m, "declared", row[m].number, "linked")
    /\ Hold(c, m)
    /\ UNCHANGED <<row, attempt, entries, due, disk, crashes>>

CompleteUnlinks(c) ==
    LET m == call[c].image
    IN /\ call[c].at = "linked"
       /\ staging' = [staging EXCEPT ![m] = @ \ {call[c].number}]
       /\ Go(c, "unlinked")
       /\ UNCHANGED <<row, attempt, entries, due, final, lock, counters>>

\* The commit fails if the row has moved since this transaction read it.
CompleteCommits(c) ==
    LET m == call[c].image
    IN /\ call[c].at = "unlinked"
       /\ IF Version(m) = <<"uploaded", call[c].number>>
          THEN /\ Move(m, "ready")
               /\ SetAttempt(m, "published")
          ELSE UNCHANGED <<row, attempt, due>>
       /\ Done(c) /\ Release(c)
       /\ UNCHANGED <<entries, disk, counters>>

\* A message's first use of an image: resolve and bind, under the lock.
AnchorImage(m) ==
    /\ Free(m) /\ row[m].state = "ready"
    /\ Move(m, "bound")
    /\ UNCHANGED <<attempt, entries, disk, lock, call, counters>>

\* GET, or a turn that sends the image to the model: the row under the lock,
Mutant_ReadChecks(c, m) ==  \* gives the stripe up before the bytes are read
    /\ Free(m) /\ row[m].state \in Usable
    /\ Takes(c, m, "declared", row[m].number, "reading")
    /\ UNCHANGED <<row, attempt, entries, due, disk, lock, crashes>>

ReadChecks(c, m) ==
    /\ Free(m) /\ row[m].state \in Usable
    /\ Takes(c, m, "declared", row[m].number, "reading")
    /\ Hold(c, m)
    /\ UNCHANGED <<row, attempt, entries, due, disk, crashes>>

\* then the bytes.
ReadServes(c) ==
    /\ call[c].at = "reading"
    /\ Done(c) /\ Release(c)
    /\ UNCHANGED <<row, attempt, entries, due, disk, counters>>

\* DELETE, or the deletion of the message that brought the image: no lock.
Delete(m) ==
    /\ Mark(m)
    /\ UNCHANGED <<attempt, disk, lock, call, counters>>

-----------------------------------------------------------------------------
(* The cleanup pass, one image at a time.                                  *)

Mutant_Eligible(m, sees) ==  \* forgets the rejected
    \/ row[m].state \in Withdrawn
    \/ /\ row[m].state \in Unfinished \cup {"ready"}
       /\ sees = Version(m)

Eligible(m, sees) ==
    \/ row[m].state \in Withdrawn \cup {"rejected"}
    \/ /\ row[m].state \in Unfinished \cup {"ready"}
       /\ sees = Version(m)

CleanupSelects(w, m) ==
    /\ w \in Cleaners /\ call[w].at = "idle"
    /\ Eligible(m, OverdueVersion(m))
    /\ call' = [call EXCEPT ![w].at = "selected", ![w].image = m,
                            ![w].sees = OverdueVersion(m)]
    /\ UNCHANGED <<row, attempt, entries, due, disk, lock, counters>>

\* Eligible still, under the lock and in a transaction of its own: marked.
CleanupDecides(w) ==
    LET m == call[w].image
    IN /\ call[w].at = "selected" /\ Free(m) /\ Eligible(m, call[w].sees)
       /\ \/ Mark(m)
          \/ row[m].state \in Withdrawn /\ UNCHANGED <<row, entries, due>>
       /\ Go(w, "decided")
       /\ UNCHANGED <<attempt, disk, lock, counters>>

CleanupDefers(w) ==
    LET m == call[w].image
    IN /\ \/ /\ call[w].at = "selected"
             /\ ~Free(m) \/ ~Eligible(m, call[w].sees)
          \/ call[w].at = "authorised" /\ ~Free(m)
       /\ Done(w)
       /\ UNCHANGED <<row, attempt, entries, due, disk, lock, counters>>

\* The authority to remove is committed before any file is touched.
ReapAuthorises(w) ==
    LET m == call[w].image
    IN /\ call[w].at = "decided"
       /\ IF row[m].state = "deleting"
          THEN Move(m, "reaping") ELSE UNCHANGED <<row, due>>
       /\ IF row[m].state = "deleted" THEN Done(w) ELSE Go(w, "authorised")
       /\ UNCHANGED <<attempt, entries, disk, lock, counters>>

ReapLocks(w) ==
    LET m == call[w].image
    IN /\ call[w].at = "authorised" /\ Free(m)
       /\ IF attempt[m].state = "none"
          THEN UNCHANGED attempt ELSE SetAttempt(m, "abandoned")
       /\ Hold(w, m) /\ Go(w, "removing")
       /\ UNCHANGED <<row, entries, due, disk, counters>>

ReapUnstages(w) ==
    /\ call[w].at = "removing"
    /\ staging' = [staging EXCEPT ![call[w].image] = {}]
    /\ Go(w, "unstaged")
    /\ UNCHANGED <<row, attempt, entries, due, final, lock, counters>>

ReapRemoves(w) ==
    /\ call[w].at = "unstaged"
    /\ final' = [final EXCEPT ![call[w].image] = 0]
    /\ Go(w, "removed")
    /\ UNCHANGED <<row, attempt, entries, due, staging, lock, counters>>

ReapCommits(w) ==
    LET m == call[w].image
    IN /\ call[w].at = "removed"
       /\ IF row[m].state = "reaping"
          THEN Move(m, "deleted") ELSE UNCHANGED <<row, due>>
       /\ Done(w) /\ Release(w)
       /\ UNCHANGED <<attempt, entries, disk, counters>>

-----------------------------------------------------------------------------
\* A target's expiry, a claim's deadline, or the retention of an unused image.
Lapse(m) ==
    /\ row[m].state \in Unfinished \cup {"ready"} /\ ~due[m]
    /\ due' = [due EXCEPT ![m] = TRUE]
    /\ UNCHANGED <<row, attempt, entries, disk, lock, call, counters>>

\* The API process, or the cleanup process, dies with all its locks.
Crash(P) ==
    /\ \E c \in P : call[c].at # "idle"
    /\ crashes < MaxCrashes /\ crashes' = crashes + 1
    /\ call' = [c \in Callers |-> IF c \in P THEN Idle ELSE call[c]]
    /\ lock' = [m \in Images |-> IF lock[m] \in P THEN NoOne ELSE lock[m]]
    /\ UNCHANGED <<row, attempt, entries, due, disk, calls>>

Proceed(c) ==
    \/ ReceiveClaims(c) \/ ReceiveAbandons(c) \/ ReceiveDiscards(c)
    \/ ReceiveTakesOver(c) \/ ReceiveRefused(c) \/ ReceiveProbeFails(c)
    \/ ReceiveWrites(c) \/ ReceiveSeals(c)
    \/ CompleteUnlinks(c) \/ CompleteCommits(c) \/ ReadServes(c)

Pass(w) ==
    \/ CleanupDecides(w) \/ CleanupDefers(w) \/ ReapAuthorises(w)
    \/ ReapLocks(w) \/ ReapUnstages(w) \/ ReapRemoves(w) \/ ReapCommits(w)

MediaNext ==
    \/ \E m \in Images :
          \/ StartUpload(m) \/ ReceiveOversize(m) \/ CompleteRejects(m)
          \/ AnchorImage(m) \/ Delete(m) \/ Lapse(m)
          \/ \E c \in Requests :
                \/ \E body \in Bodies : ReceiveArrives(c, m, body)
                \/ CompleteLinks(c, m) \/ CompleteAdopts(c, m)
                \/ ReadChecks(c, m)
          \/ \E w \in Cleaners : CleanupSelects(w, m)
    \/ \E c \in Requests : Proceed(c)
    \/ \E w \in Cleaners : Pass(w)
    \/ \E P \in {Requests, Cleaners} : Crash(P)

MediaSpec == MediaInit /\ [][MediaNext]_mediaVars

\* Threads run on, the timer starts a pass every five minutes and a pass
\* runs on, and deadlines come.
MediaFairness ==
    /\ \A c \in Requests : WF_mediaVars(Proceed(c))
    /\ \A w \in Cleaners : WF_mediaVars(Pass(w))
    /\ \A w \in Cleaners, m \in Images : WF_mediaVars(CleanupSelects(w, m))
    /\ \A m \in Images : WF_mediaVars(Lapse(m))

MediaFairSpec == MediaSpec /\ MediaFairness

-----------------------------------------------------------------------------
(* Properties.                                                             *)

(* A row that promises bytes has them: an uploaded image's attempt is      *)
(* still staged or already linked, an image a message may use is the very  *)
(* file its last attempt sealed, as declared, whatever died, lapsed or was *)
(* taken over on the way, and a reader that found it usable under the      *)
(* stripe finds the bytes, even if a DELETE commits between the two        *)
(* (publish_upload, read_authorized_images, reap_media_object).            *)
BytesBehindTheRow ==
    /\ \A m \in Images :
          /\ row[m].state = "uploaded" =>
                 row[m].number \in staging[m] \cup {final[m]}
          /\ row[m].state \in Usable =>
                 final[m] = row[m].number /\ attempt[m].seal = "declared"
    /\ \A c \in Requests :
          call[c].at = "reading" =>
              LET m == call[c].image
              IN call[c].number = final[m] /\ attempt[m].seal = "declared"

(* `deleted' means that no byte of the image is left, and none comes back  *)
(* from a writer that had claimed it before; and the manifest, which a     *)
(* restore replays, names no image that is still or again in use           *)
(* (reap_media_object, mark_media_deleting, publish_upload).               *)
DeletedHoldsNothing ==
    /\ \A m \in Images :
          row[m].state = "deleted" => staging[m] = {} /\ final[m] = 0
    /\ \A m \in entries : row[m].state \in Withdrawn \cup {"deleted"}

(* Every image a client begins ends used by a message or deleted: refused, *)
(* forgotten or half-deleted ones go, although processes die and passes    *)
(* are deferred (cleanup_media).                                           *)
EveryImageSettles ==
    \A m \in Images : <>[](row[m].state \in {"absent", "bound", "deleted"})
=============================================================================
