--------------------------- MODULE DownloadHandoff ---------------------------
(***************************************************************************)
(* One download intent of media-search, from the POST that asks for it to  *)
(* the sweep that forgets its staged file: the row of download_requests    *)
(* (lib/download/store.js), the worker and its materializer                *)
(* (lib/download/worker.js, lib/materialize/materialize.js), the retry     *)
(* budget (lib/lifecycle/job-retry.js), the handoff to an external         *)
(* consumer (lib/download/handoff.js and its routes in server/app.js) and  *)
(* the loop that drives them (server/workers.js).                          *)
(*                                                                         *)
(* Everything in the process runs on one JavaScript thread: an action is   *)
(* the code between two awaits.  The consumer and the clock are outside    *)
(* it.  A file is the sequence of its units, each named by the TorrentFile *)
(* it was read from.                                                       *)
(***************************************************************************)
EXTENDS Naturals, Sequences

CONSTANTS
    TorrentFile,     \* what the intent may resolve to, now or on a retry
    SizeOf,          \* their sizes, in units
    NoFile,          \* torrent_file_id IS NULL
    MaxAttempts,     \* MAX_JOB_ATTEMPTS
    MaxCleanups,     \* STAGED_CLEANUP_MAX_ATTEMPTS
    MaxPosts,        \* bound: times the intent is asked for
    MaxVersions,     \* bound: handoffs made of it
    MaxRestarts      \* bound: restarts of the process

ASSUME SizesArePositive == SizeOf \in [TorrentFile -> Nat \ {0}]
ASSUME NoFileIsNoFile == NoFile \notin TorrentFile
ASSUME BudgetsArePositive ==
    /\ {MaxAttempts, MaxCleanups} \subseteq Nat \ {0}
    /\ {MaxPosts, MaxVersions, MaxRestarts} \subseteq Nat

VARIABLES
    row,         \* the row of download_requests
    partial,     \* .staging/<request id>.partial
    final,       \* the file at the staged path, <<>> when there is none
    manifests,   \* the handoff tree: <<version, directory>>
    at,          \* where the download loop is
    has,         \* the consumer: versions whose bytes it has
    posts,       \* POSTs so far
    restarts,    \* restarts so far
    stagedAt,    \* history: the row's handoff version when it was last staged
    foreign      \* history: what other TorrentFiles the last partial taken over held

vars == <<row, partial, final, manifests, at, has, posts, restarts, stagedAt, foreign>>

Versions == 1..MaxVersions
Dirs == {"outbox", "accepted", "done", "failed"}

Row == [ status : {"none", "requested", "resolving", "materializing", "staged", "failed"},
         tf : TorrentFile \cup {NoFile},
         attempts : 0..MaxAttempts,
         retry : {"none", "waiting", "due"},             \* next_due_at: null, ahead, reached
         version : 0..MaxVersions,                       \* handoff_version and handoff_id
         handoff : {"none", "pending", "accepted", "completed", "failed"},
         cleanup : {"none", "waiting", "due", "done"},   \* cleanup_due_at, cleanup_done_at
         cleanupOf : 0..MaxVersions,                     \* cleanup_handoff_id
         cleanups : 0..MaxCleanups ]                     \* cleanup_attempts

NoRow == [ status |-> "none", tf |-> NoFile, attempts |-> 0, retry |-> "none",
           version |-> 0, handoff |-> "none",
           cleanup |-> "none", cleanupOf |-> 0, cleanups |-> 0 ]

Init ==
    /\ row = NoRow
    /\ partial = <<>> /\ final = <<>>
    /\ manifests = {}
    /\ at = "tick"
    /\ has = {}
    /\ posts = 0 /\ restarts = 0 /\ stagedAt = 0 /\ foreign = {}

----------------------------------------------------------------------------
(* Asking for it *)

\* stagedFilePresent: staged, and a file of the expected size is there.
Present == row.status = "staged" /\ Len(final) = SizeOf[row.tf]

\* request(): a new row, or the reset of a failed one or of a staged one whose
\* file is gone.  The reset leaves the handoff and the cleanup columns alone.
Post ==
    /\ posts < MaxPosts
    /\ posts' = posts + 1
    /\ row' = IF row.status \in {"none", "failed"} \/ (row.status = "staged" /\ ~Present)
                THEN [row EXCEPT !.status = "requested", !.tf = NoFile,
                                 !.attempts = 0, !.retry = "none"]
                ELSE row
    /\ UNCHANGED <<partial, final, manifests, at, has, restarts, stagedAt, foreign>>

----------------------------------------------------------------------------
(* The worker's tick *)

Outside == <<manifests, has, posts, restarts>>

Claimable ==
    \/ row.status = "requested"
    \/ row.status = "failed" /\ row.retry = "due" /\ row.attempts < MaxAttempts

Claim ==
    /\ at = "tick" /\ Claimable
    /\ row' = [row EXCEPT !.status = "resolving"]
    /\ at' = "resolve"
    /\ UNCHANGED <<Outside, partial, final, stagedAt, foreign>>

Idle ==
    /\ at = "tick" /\ ~Claimable
    /\ at' = "poll"
    /\ UNCHANGED <<Outside, row, partial, final, stagedAt, foreign>>

\* resolveFn names a TorrentFile - not always the one it named last time - and
\* markMaterializing writes it.
Resolve ==
    /\ at = "resolve"
    /\ \E tf \in TorrentFile :
          row' = [row EXCEPT !.status = "materializing", !.tf = tf]
    /\ at' = "open"
    /\ UNCHANGED <<Outside, partial, final, stagedAt, foreign>>

\* Mutant: the budget compared one off.
Failed_OffByOne(retryable) ==
    LET n == row.attempts + 1
    IN  [row EXCEPT !.status = "failed", !.attempts = n,
                    !.retry = IF retryable /\ n <= MaxAttempts THEN "waiting" ELSE "none"]

\* recordJobFailure: schedule a retry while the budget lasts.
Failed(retryable) ==
    LET n == row.attempts + 1
    IN  [row EXCEPT !.status = "failed", !.attempts = n,
                    !.retry = IF retryable /\ n < MaxAttempts THEN "waiting" ELSE "none"]

\* The resolve fails, the data plane refuses, the stream breaks or ends early,
\* or the rename does: the partial is kept.
JobFails ==
    /\ at \in {"resolve", "open", "stream"}
    /\ \E retryable \in BOOLEAN : row' = Failed(retryable)
    /\ at' = "poll"
    /\ UNCHANGED <<Outside, partial, final, stagedAt, foreign>>

\* materializeTorrentFile looks at the partial: a longer one is discarded, any
\* other is kept as a prefix of the file.
OpenPartial ==
    /\ at = "open"
    /\ partial' = IF Len(partial) > SizeOf[row.tf] THEN <<>> ELSE partial
    /\ foreign' = {partial'[i] : i \in DOMAIN partial'} \ {row.tf}
    /\ at' = "stream"
    /\ UNCHANGED <<Outside, row, final, stagedAt>>

Append1 ==
    /\ at = "stream" /\ Len(partial) < SizeOf[row.tf]
    /\ partial' = Append(partial, row.tf)
    /\ UNCHANGED <<Outside, row, final, at, stagedAt, foreign>>

\* Mutant: the end of the stream is taken for the end of the file.
Whole_StreamEnded == Len(partial) > 0

\* The exact-count gate and verifyStagedFile.
Whole == Len(partial) = SizeOf[row.tf]

RenameIntoPlace ==
    /\ at = "stream" /\ Whole
    /\ final' = partial /\ partial' = <<>>
    /\ at' = "mark"
    /\ UNCHANGED <<Outside, row, stagedAt, foreign>>

MarkStaged ==
    /\ at = "mark"
    /\ row' = [row EXCEPT !.status = "staged"]
    /\ stagedAt' = row.version
    /\ at' = "poll"
    /\ UNCHANGED <<Outside, partial, final, foreign>>

----------------------------------------------------------------------------
(* The handoff *)

Active(r) == r.handoff \in {"pending", "accepted"}

\* The route: createHandoff, then the manifest, rewritten when one is active.
Handoff ==
    /\ row.status = "staged"
    /\ Active(row) \/ row.version < MaxVersions
    /\ row' = IF Active(row) THEN row
                ELSE [row EXCEPT !.version = @ + 1, !.handoff = "pending",
                                 !.cleanup = "none", !.cleanupOf = 0, !.cleanups = 0]
    /\ manifests' = manifests \cup {<<row'.version, "outbox">>}
    /\ UNCHANGED <<partial, final, at, has, posts, restarts, stagedAt, foreign>>

\* Mutant: any version of the request counts.
Live_AnyVersion(r, v) == v <= r.version

\* A manifest or an answer counts only for the row's current version.
Live(r, v) == v = r.version

\* Mutant: a settled transfer takes late answers.
Applied_Late(r, state) ==
    IF state = "completed"
      THEN [r EXCEPT !.handoff = state, !.cleanup = "waiting",
                     !.cleanupOf = r.version, !.cleanups = 0]
      ELSE [r EXCEPT !.handoff = state]

\* applyHandoffEvent, for a live version.
Applied(r, state) ==
    IF r.handoff \in {"completed", "failed"} THEN r
    ELSE IF state = "completed"
           THEN [r EXCEPT !.handoff = state, !.cleanup = "waiting",
                          !.cleanupOf = r.version, !.cleanups = 0]
           ELSE [r EXCEPT !.handoff = state]

DirOf == [accepted |-> "accepted", completed |-> "done", failed |-> "failed"]
Before == [outbox |-> {}, accepted |-> {"outbox"}, done |-> {"outbox", "accepted"},
           failed |-> {"outbox", "accepted", "done"}]

\* mirrorManifestState: the first copy found in a directory before the target's
\* moves there, whether or not the row moved.
Mirrored(v, dir) ==
    LET found == {d \in Before[dir] : <<v, d>> \in manifests}
        first == CHOOSE d \in found : found \cap Before[d] = {}
    IN  IF found = {} THEN manifests
        ELSE (manifests \ {<<v, first>>}) \cup {<<v, dir>>}

\* The consumer answers over HTTP; it says completed of bytes it has.
Ack(v, state) ==
    /\ row.version > 0 /\ Live(row, v)
    /\ state = "completed" => v \in has
    /\ row' = Applied(row, state)
    /\ manifests' = Mirrored(v, DirOf[state])
    /\ UNCHANGED <<partial, final, at, has, posts, restarts, stagedAt, foreign>>

\* The consumer moves a manifest from one directory to the next.
MoveManifest(v, from, to) ==
    /\ <<v, from>> \in manifests
    /\ \/ from = "outbox" /\ to = "accepted"
       \/ from = "accepted" /\ to \in {"done", "failed"}
    /\ to = "done" => v \in has
    /\ manifests' = (manifests \ {<<v, from>>}) \cup {<<v, to>>}
    /\ UNCHANGED <<row, partial, final, at, has, posts, restarts, stagedAt, foreign>>

\* The consumer copies or moves the file it was handed.
Import(v) ==
    /\ <<v, "outbox">> \in manifests \/ <<v, "accepted">> \in manifests
    /\ v \notin has /\ Present
    /\ has' = has \cup {v}
    /\ final' \in {final, <<>>}
    /\ UNCHANGED <<row, partial, manifests, at, posts, restarts, stagedAt, foreign>>

\* Somebody moves the file away without a handoff.
TakeAway ==
    /\ Present
    /\ final' = <<>>
    /\ UNCHANGED <<Outside, row, partial, at, stagedAt, foreign>>

\* pollHandoffDirs: what the directories say, in this order.
Observed(r, state) ==
    IF \E v \in Versions : <<v, DirOf[state]>> \in manifests /\ Live(r, v)
      THEN Applied(r, state) ELSE r

Polled == Observed(Observed(Observed(row, "accepted"), "completed"), "failed")

\* listCleanupDue: what a sweep may delete.
CleanupDue(r) ==
    /\ r.status = "staged" /\ r.handoff = "completed"
    /\ r.cleanup = "due" /\ r.cleanupOf = r.version

\* Mutant: parked one attempt late.
Deferred_OffByOne(r) ==
    [r EXCEPT !.cleanups = @ + 1,
              !.cleanup = IF r.cleanups >= MaxCleanups THEN "none" ELSE "waiting"]

\* Mutant: a failed unlink is put off for ever.
Deferred_Uncounted(r) == [r EXCEPT !.cleanup = "waiting"]

\* deferCleanup: the unlink failed; try again later, a bounded number of times.
Deferred(r) ==
    LET n == r.cleanups + 1
    IN  [r EXCEPT !.cleanups = n,
                  !.cleanup = IF n >= MaxCleanups THEN "none" ELSE "waiting"]

\* The end of a loop, in one stretch of the thread: the poll, then the sweep,
\* which has nothing to do, or unlinks the file or finds it gone, or fails to.
PollOnly ==
    /\ at = "poll" /\ ~CleanupDue(Polled)
    /\ row' = Polled
    /\ at' = "tick"
    /\ UNCHANGED <<Outside, partial, final, stagedAt, foreign>>

SweepRemoves ==
    /\ at = "poll" /\ CleanupDue(Polled)
    /\ row' = [Polled EXCEPT !.cleanup = "done"]
    /\ final' = <<>>
    /\ at' = "tick"
    /\ UNCHANGED <<Outside, partial, stagedAt, foreign>>

SweepFails ==
    /\ at = "poll" /\ CleanupDue(Polled)
    /\ row' = Deferred(Polled)
    /\ at' = "tick"
    /\ UNCHANGED <<Outside, partial, final, stagedAt, foreign>>

----------------------------------------------------------------------------
(* The clock and the process *)

RetryDue ==
    /\ row.retry = "waiting"
    /\ row' = [row EXCEPT !.retry = "due"]
    /\ UNCHANGED <<Outside, partial, final, at, stagedAt, foreign>>

GraceElapses ==
    /\ row.cleanup = "waiting"
    /\ row' = [row EXCEPT !.cleanup = "due"]
    /\ UNCHANGED <<Outside, partial, final, at, stagedAt, foreign>>

\* resetStale: transient rows are asked for again; files and manifests stay.
Recovered(r) ==
    IF r.status \in {"resolving", "materializing"}
      THEN [r EXCEPT !.status = "requested"] ELSE r

\* The process dies anywhere, perhaps with the sweep's unlink done and not
\* recorded, and comes back.
Restart ==
    /\ restarts < MaxRestarts
    /\ restarts' = restarts + 1
    /\ row' = Recovered(row)
    /\ at' = "tick"
    /\ \/ UNCHANGED final
       \/ at = "poll" /\ CleanupDue(row) /\ final' = <<>>
    /\ UNCHANGED <<partial, manifests, has, posts, stagedAt, foreign>>

----------------------------------------------------------------------------

Loop ==
    \/ Claim \/ Idle \/ Resolve \/ JobFails
    \/ OpenPartial \/ Append1 \/ RenameIntoPlace \/ MarkStaged
    \/ PollOnly \/ SweepRemoves \/ SweepFails

Consumer ==
    \/ TakeAway
    \/ \E v \in Versions : Import(v)
    \/ \E v \in Versions, state \in DOMAIN DirOf : Ack(v, state)
    \/ \E v \in Versions, from, to \in Dirs : MoveManifest(v, from, to)

Next == Post \/ Handoff \/ Loop \/ Consumer \/ RetryDue \/ GraceElapses \/ Restart

Spec == Init /\ [][Next]_vars

\* The loop rearms its timer whatever happens in it, and time passes.  Nothing is
\* asked of the consumer or of whoever posts.
FairSpec == Spec /\ WF_vars(Loop) /\ WF_vars(RetryDue) /\ WF_vars(GraceElapses)

----------------------------------------------------------------------------
(* What the intent promises *)

\* Type invariant of the row, the files and the handoff tree.
DownloadTypeOK ==
    /\ row \in Row
    /\ partial \in Seq(TorrentFile) /\ final \in Seq(TorrentFile)
    /\ manifests \subseteq Versions \X Dirs
    /\ at \in {"tick", "resolve", "open", "stream", "mark", "poll"}
    /\ has \subseteq Versions
    /\ posts \in 0..MaxPosts /\ restarts \in 0..MaxRestarts
    /\ stagedAt \in 0..MaxVersions /\ foreign \subseteq TorrentFile

\* A file at the staged path of a staged row is whole - the length of the row's
\* TorrentFile - and made of that file's units and of those the partial already
\* held when the worker last took it over: crashes, broken streams and repeated
\* attempts neither shorten it nor mix in anything else (materialize.js).
StagedExact ==
    row.status = "staged" /\ final # <<>> =>
        /\ Len(final) = SizeOf[row.tf]
        /\ \A i \in DOMAIN final : final[i] \in {row.tf} \cup foreign

\* The staged bytes are the row's TorrentFile's, whatever was tried before
\* (materialize.js promises a partial per TorrentFile; worker.js names it by the
\* request).
StagedBytesAreTheFiles ==
    row.status = "staged" => \A i \in DOMAIN final : final[i] = row.tf

\* A sweep is only ever authorised by the current handoff, and by then the
\* consumer has the bytes that handoff gave it: late, repeated or reordered
\* manifests and answers of older versions never start the deletion
\* (applyHandoffEvent, pollHandoffDirs, listCleanupDue).
CleanupAuthorized ==
    CleanupDue(row) => row.version \in has

\* What a sweep deletes is the artifact its handoff gave away: the handoff that
\* authorises it was created after the file was staged (store.js, the lifecycle
\* of a staged file).
CleanupMatchesArtifact ==
    CleanupDue(row) /\ Present => row.version > stagedAt

\* A transfer that completed or failed is settled: no answer, no manifest left in
\* a directory and no re-post moves it again; only a newer version replaces it.
TransferSettles ==
    [][row.handoff \in {"completed", "failed"} =>
          \/ row'.handoff = row.handoff /\ row'.version = row.version
          \/ row'.handoff = "pending" /\ row'.version = row.version + 1]_vars

\* Asked for finitely often, an intent comes to rest staged or failed for good:
\* every failure is retried while the budget lasts, and no row is left scheduled,
\* claimed or half recovered where no tick takes it (recordJobFailure,
\* claimResolving, resetStale).
IntentSettles ==
    <>[](\/ row.status \in {"none", "staged"}
         \/ row.status = "failed" /\ row.retry = "none")

\* A scheduled cleanup of a staged row comes to an end: done, parked after its
\* bounded attempts, voided by a newer handoff or by a new request.
CleanupConverges ==
    row.status = "staged" /\ row.cleanup \in {"waiting", "due"}
        ~> row.status # "staged" \/ row.cleanup \in {"none", "done"}
=============================================================================
