----------------------- MODULE DownloadHandoffProofs -----------------------
(***************************************************************************)
(* Proofs about DownloadHandoff, for any TorrentFiles and sizes, any       *)
(* budgets and any number of posts, handoffs and restarts; and what else   *)
(* holds of an intent that was asked for once.                             *)
(***************************************************************************)
EXTENDS DownloadHandoff, TLAPS

----------------------------------------------------------------------------
(* The inductive invariant *)

\* Where the worker is tells what the row says, until the worker leaves it.
Working ==
    /\ at = "resolve" => row.status = "resolving"
    /\ at \in {"open", "stream", "mark"} => row.status = "materializing"
    /\ row.status \in {"materializing", "staged"} => row.tf \in TorrentFile

\* A row that is to be worked on has an attempt left, a cleanup that is to be
\* swept has one left.
BudgetsLeft ==
    /\ row.status \in {"requested", "resolving", "materializing"} => row.attempts < MaxAttempts
    /\ row.cleanup \in {"waiting", "due"} => row.cleanups < MaxCleanups

\* A transfer has a version, and nothing says completed of bytes the consumer does
\* not have.
Consumed ==
    /\ row.handoff # "none" => row.version \in Versions
    /\ row.handoff = "completed" => row.version \in has
    /\ \A v \in Versions : <<v, "done">> \in manifests => v \in has

\* The units of s are f's, or were there when the partial was taken over.
ReadFrom(f, s) == \A i \in DOMAIN s : s[i] \in {f} \cup foreign

Bytes ==
    /\ at = "stream" => ReadFrom(row.tf, partial)
    /\ at = "mark" => Len(final) = SizeOf[row.tf] /\ ReadFrom(row.tf, final)

IInv == DownloadTypeOK /\ Working /\ BudgetsLeft /\ Consumed /\ Bytes /\ StagedExact

\* The initial state satisfies it.
LEMMA InitIInv == Init => IInv
<1> SUFFICES ASSUME Init PROVE IInv
  OBVIOUS
<1>1. MaxAttempts \in Nat /\ MaxCleanups \in Nat /\ 0 < MaxAttempts
      /\ MaxPosts \in Nat /\ MaxVersions \in Nat /\ MaxRestarts \in Nat
  BY BudgetsArePositive
<1>2. row \in Row
  BY <1>1 DEF Init, NoRow, Row
<1>3. DownloadTypeOK
  BY <1>1, <1>2 DEF Init, DownloadTypeOK
<1>4. Working /\ BudgetsLeft /\ Consumed /\ Bytes /\ StagedExact
  BY DEF Init, NoRow, Working, BudgetsLeft, Consumed, Bytes, StagedExact
<1> QED
  BY <1>3, <1>4 DEF IInv

----------------------------------------------------------------------------
(* Types *)

\* The bounds are numbers, the two budgets at least one.
LEMMA Bounds ==
    /\ MaxAttempts \in Nat /\ 0 < MaxAttempts
    /\ MaxCleanups \in Nat /\ 0 < MaxCleanups
    /\ MaxPosts \in Nat /\ MaxVersions \in Nat /\ MaxRestarts \in Nat
BY BudgetsArePositive

Status == {"none", "requested", "resolving", "materializing", "staged", "failed"}
Retry == {"none", "waiting", "due"}
Transfer == {"none", "pending", "accepted", "completed", "failed"}
Cleanup == {"none", "waiting", "due", "done"}

\* A row stays one when the worker or a POST writes values of their types.
LEMMA RowOfJob ==
  ASSUME NEW r \in Row
  PROVE  /\ \A a \in 0..MaxAttempts :
               [r EXCEPT !.status = "requested", !.tf = NoFile,
                         !.attempts = a, !.retry = "none"] \in Row
         /\ \A f \in TorrentFile :
               [r EXCEPT !.status = "materializing", !.tf = f] \in Row
         /\ \A a \in 0..MaxAttempts, t \in Retry :
               [r EXCEPT !.status = "failed", !.attempts = a, !.retry = t] \in Row
         /\ \A s \in Status : [r EXCEPT !.status = s] \in Row
         /\ \A t \in Retry : [r EXCEPT !.retry = t] \in Row
<1> USE DEF Status, Retry, Row
<1>1. \A a \in 0..MaxAttempts :
         [r EXCEPT !.status = "requested", !.tf = NoFile,
                   !.attempts = a, !.retry = "none"] \in Row
  OBVIOUS
<1>2. \A f \in TorrentFile : [r EXCEPT !.status = "materializing", !.tf = f] \in Row
  OBVIOUS
<1>3. \A a \in 0..MaxAttempts, t \in Retry :
         [r EXCEPT !.status = "failed", !.attempts = a, !.retry = t] \in Row
  OBVIOUS
<1>4. \A s \in Status : [r EXCEPT !.status = s] \in Row
  OBVIOUS
<1>5. \A t \in Retry : [r EXCEPT !.retry = t] \in Row
  OBVIOUS
<1> QED
  BY <1>1, <1>2, <1>3, <1>4, <1>5

\* It stays one when the handoff or the sweep writes values of theirs.
LEMMA RowOfTransfer ==
  ASSUME NEW r \in Row
  PROVE  /\ \A v, z \in 0..MaxVersions, n \in 0..MaxCleanups :
               [r EXCEPT !.version = v, !.handoff = "pending", !.cleanup = "none",
                         !.cleanupOf = z, !.cleanups = n] \in Row
         /\ \A v \in 0..MaxVersions, n \in 0..MaxCleanups :
               [r EXCEPT !.handoff = "completed", !.cleanup = "waiting",
                         !.cleanupOf = v, !.cleanups = n] \in Row
         /\ \A h \in Transfer : [r EXCEPT !.handoff = h] \in Row
         /\ \A c \in Cleanup : [r EXCEPT !.cleanup = c] \in Row
         /\ \A n \in 0..MaxCleanups, c \in Cleanup :
               [r EXCEPT !.cleanups = n, !.cleanup = c] \in Row
<1> USE DEF Transfer, Cleanup, Row
<1>1. \A v, z \in 0..MaxVersions, n \in 0..MaxCleanups :
         [r EXCEPT !.version = v, !.handoff = "pending", !.cleanup = "none",
                   !.cleanupOf = z, !.cleanups = n] \in Row
  OBVIOUS
<1>2. \A v \in 0..MaxVersions, n \in 0..MaxCleanups :
         [r EXCEPT !.handoff = "completed", !.cleanup = "waiting",
                   !.cleanupOf = v, !.cleanups = n] \in Row
  OBVIOUS
<1>3. \A h \in Transfer : [r EXCEPT !.handoff = h] \in Row
  OBVIOUS
<1>4. \A c \in Cleanup : [r EXCEPT !.cleanup = c] \in Row
  OBVIOUS
<1>5. \A n \in 0..MaxCleanups, c \in Cleanup :
         [r EXCEPT !.cleanups = n, !.cleanup = c] \in Row
  OBVIOUS
<1> QED
  BY <1>1, <1>2, <1>3, <1>4, <1>5

\* The fields of a row have the types of Row.
LEMMA RowFields ==
  ASSUME NEW r \in Row
  PROVE  /\ r.attempts \in 0..MaxAttempts /\ r.version \in 0..MaxVersions
         /\ r.cleanupOf \in 0..MaxVersions /\ r.cleanups \in 0..MaxCleanups
         /\ r.tf \in TorrentFile \cup {NoFile}
         /\ r.status \in Status /\ r.handoff \in Transfer /\ r.cleanup \in Cleanup
BY DEF Row, Status, Transfer, Cleanup

\* r and q differ at most in the transfer and the cleanup.
SameJob(r, q) ==
    /\ q.status = r.status /\ q.tf = r.tf
    /\ q.attempts = r.attempts /\ q.retry = r.retry /\ q.version = r.version

\* applyHandoffEvent changes the transfer and, when it completes, the cleanup.
LEMMA AppliedRow ==
  ASSUME NEW r \in Row, NEW state \in {"accepted", "completed", "failed"}
  PROVE  /\ Applied(r, state) \in Row
         /\ SameJob(r, Applied(r, state))
         /\ Applied(r, state).handoff \in {r.handoff, state}
         /\ \/ Applied(r, state).cleanup = r.cleanup /\ Applied(r, state).cleanups = r.cleanups
            \/ Applied(r, state).cleanup = "waiting" /\ Applied(r, state).cleanups = 0
<1>1. CASE r.handoff \in {"completed", "failed"}
  BY <1>1 DEF Applied, SameJob
<1>2. CASE r.handoff \notin {"completed", "failed"} /\ state = "completed"
  <2>1. Applied(r, state) = [r EXCEPT !.handoff = state, !.cleanup = "waiting",
                                      !.cleanupOf = r.version, !.cleanups = 0]
    BY <1>2 DEF Applied
  <2>2. r.version \in 0..MaxVersions /\ 0 \in 0..MaxCleanups
    BY RowFields, Bounds
  <2>3. [r EXCEPT !.handoff = "completed", !.cleanup = "waiting",
                  !.cleanupOf = r.version, !.cleanups = 0] \in Row
    BY <2>2, RowOfTransfer
  <2>4. Applied(r, state) \in Row
    BY <1>2, <2>1, <2>3
  <2> QED
    BY <2>1, <2>4 DEF SameJob, Row
<1>3. CASE r.handoff \notin {"completed", "failed"} /\ state # "completed"
  <2>1. Applied(r, state) = [r EXCEPT !.handoff = state]
    BY <1>3 DEF Applied
  <2> QED
    BY <2>1 DEF SameJob, Row
<1> QED
  BY <1>1, <1>2, <1>3

\* So does a directory, and it only says what a manifest of the row's version in
\* it says.
LEMMA ObservedRow ==
  ASSUME NEW r \in Row, NEW state \in {"accepted", "completed", "failed"}
  PROVE  /\ Observed(r, state) \in Row
         /\ SameJob(r, Observed(r, state))
         /\ \/ Observed(r, state).handoff = r.handoff
            \/ /\ Observed(r, state).handoff = state
               /\ r.version \in Versions /\ <<r.version, DirOf[state]>> \in manifests
         /\ \/ Observed(r, state).cleanup = r.cleanup /\ Observed(r, state).cleanups = r.cleanups
            \/ Observed(r, state).cleanup = "waiting" /\ Observed(r, state).cleanups = 0
<1>1. CASE \E v \in Versions : <<v, DirOf[state]>> \in manifests /\ Live(r, v)
  <2>1. r.version \in Versions /\ <<r.version, DirOf[state]>> \in manifests
    BY <1>1 DEF Live
  <2> QED
    BY <1>1, <2>1, AppliedRow DEF Observed
<1>2. CASE ~ \E v \in Versions : <<v, DirOf[state]>> \in manifests /\ Live(r, v)
  BY <1>2 DEF Observed, SameJob
<1> QED
  BY <1>1, <1>2

\* The whole poll.
LEMMA PolledRow ==
  ASSUME row \in Row
  PROVE  /\ Polled \in Row
         /\ SameJob(row, Polled)
         /\ Polled.handoff = row.handoff \/ row.version \in Versions
         /\ Polled.handoff = "completed" =>
               \/ row.handoff = "completed"
               \/ row.version \in Versions /\ <<row.version, "done">> \in manifests
         /\ \/ Polled.cleanup = row.cleanup /\ Polled.cleanups = row.cleanups
            \/ Polled.cleanup = "waiting" /\ Polled.cleanups = 0
<1> DEFINE r1 == Observed(row, "accepted")
           r2 == Observed(r1, "completed")
           r3 == Observed(r2, "failed")
<1>1. r1 \in Row /\ r2 \in Row /\ r3 \in Row
  BY ObservedRow
<1>2. SameJob(row, r1) /\ SameJob(r1, r2) /\ SameJob(r2, r3)
  BY <1>1, ObservedRow
<1>3. r1.version = row.version /\ r2.version = row.version
  BY <1>2 DEF SameJob
<1>4. /\ \/ r1.handoff = row.handoff
         \/ r1.handoff = "accepted" /\ row.version \in Versions
      /\ \/ r2.handoff = r1.handoff
         \/ row.version \in Versions /\ <<row.version, "done">> \in manifests
      /\ \/ r3.handoff = r2.handoff
         \/ r3.handoff = "failed" /\ row.version \in Versions
  BY <1>1, <1>3, ObservedRow DEF DirOf
<1>5. /\ \/ r1.cleanup = row.cleanup /\ r1.cleanups = row.cleanups
         \/ r1.cleanup = "waiting" /\ r1.cleanups = 0
      /\ \/ r2.cleanup = r1.cleanup /\ r2.cleanups = r1.cleanups
         \/ r2.cleanup = "waiting" /\ r2.cleanups = 0
      /\ \/ r3.cleanup = r2.cleanup /\ r3.cleanups = r2.cleanups
         \/ r3.cleanup = "waiting" /\ r3.cleanups = 0
  BY <1>1, ObservedRow
<1>6. Polled = r3
  BY DEF Polled
<1> HIDE DEF r1, r2, r3
<1> QED
  BY <1>1, <1>2, <1>4, <1>5, <1>6 DEF SameJob

----------------------------------------------------------------------------
(* Every step keeps the invariant *)

\* The worker's steps up to the rename.
LEMMA WorkerKeepsIInv ==
  ASSUME IInv, Claim \/ Idle \/ Resolve \/ JobFails \/ OpenPartial \/ Append1
  PROVE  IInv'
<1> USE DEF IInv, DownloadTypeOK, Outside
<1> USE Bounds, RowFields
<1>1. CASE Claim
  <2>1. row' \in Row
    BY <1>1, RowOfJob DEF Claim, Status
  <2>2. row.attempts < MaxAttempts
    BY <1>1 DEF Claim, Claimable, BudgetsLeft
  <2>3. /\ row'.status = "resolving" /\ row'.attempts = row.attempts
        /\ row'.cleanup = row.cleanup /\ row'.cleanups = row.cleanups
        /\ row'.handoff = row.handoff /\ row'.version = row.version
    BY <1>1 DEF Claim, Row
  <2>4. DownloadTypeOK'
    BY <1>1, <2>1 DEF Claim
  <2>5. Working' /\ BudgetsLeft' /\ Consumed' /\ Bytes' /\ StagedExact'
    BY <1>1, <2>2, <2>3 DEF Claim, Working, BudgetsLeft, Consumed, Bytes, StagedExact
  <2> QED
    BY <2>4, <2>5
<1>2. CASE Idle
  BY <1>2 DEF Idle, Working, BudgetsLeft, Consumed, Bytes, StagedExact, ReadFrom
<1>3. CASE Resolve
  <2>1. PICK f \in TorrentFile : row' = [row EXCEPT !.status = "materializing", !.tf = f]
    BY <1>3 DEF Resolve
  <2>2. row' \in Row
    BY <2>1, RowOfJob
  <2>3. /\ row'.status = "materializing" /\ row'.tf = f /\ row'.attempts = row.attempts
        /\ row'.cleanup = row.cleanup /\ row'.cleanups = row.cleanups
        /\ row'.handoff = row.handoff /\ row'.version = row.version
    BY <2>1 DEF Row
  <2>4. DownloadTypeOK'
    BY <1>3, <2>2 DEF Resolve
  <2>5. row.attempts < MaxAttempts
    BY <1>3 DEF Resolve, Working, BudgetsLeft
  <2>6. Working' /\ BudgetsLeft' /\ Consumed' /\ Bytes' /\ StagedExact'
    BY <1>3, <2>3, <2>5 DEF Resolve, Working, BudgetsLeft, Consumed, Bytes, StagedExact
  <2> QED
    BY <2>4, <2>6
<1>4. CASE JobFails
  <2>1. row.attempts < MaxAttempts
    BY <1>4 DEF JobFails, Working, BudgetsLeft
  <2>2. PICK retryable \in BOOLEAN : row' = Failed(retryable)
    BY <1>4 DEF JobFails
  <2>3. row.attempts + 1 \in 0..MaxAttempts
    BY <2>1
  <2>4. PICK a \in 0..MaxAttempts, t \in Retry :
           row' = [row EXCEPT !.status = "failed", !.attempts = a, !.retry = t]
    BY <2>2, <2>3 DEF Failed, Retry
  <2>5. row' \in Row
    BY <2>4, RowOfJob
  <2>6. /\ row'.status = "failed" /\ row'.handoff = row.handoff /\ row'.version = row.version
        /\ row'.cleanup = row.cleanup /\ row'.cleanups = row.cleanups
    BY <2>4 DEF Row
  <2>7. DownloadTypeOK'
    BY <1>4, <2>5 DEF JobFails
  <2>8. Working' /\ BudgetsLeft' /\ Consumed' /\ Bytes' /\ StagedExact'
    BY <1>4, <2>6 DEF JobFails, Working, BudgetsLeft, Consumed, Bytes, StagedExact
  <2> QED
    BY <2>7, <2>8
<1>5. CASE OpenPartial
  <2>1. partial' \in Seq(TorrentFile)
    BY <1>5 DEF OpenPartial
  <2>2. \A i \in DOMAIN partial' : partial'[i] \in TorrentFile
    BY <2>1
  <2>3. DownloadTypeOK'
    BY <1>5, <2>1, <2>2 DEF OpenPartial
  <2>4. (\A i \in DOMAIN partial : partial[i] \in {row.tf} \cup foreign)'
    BY <1>5 DEF OpenPartial
  <2>5. row'.status = "materializing"
    BY <1>5 DEF OpenPartial, Working
  <2>6. Working' /\ BudgetsLeft' /\ Consumed' /\ Bytes' /\ StagedExact'
    BY <1>5, <2>4, <2>5
       DEF OpenPartial, Working, BudgetsLeft, Consumed, Bytes, StagedExact, ReadFrom
  <2> QED
    BY <2>3, <2>6
<1>6. CASE Append1
  <2>1. row.tf \in TorrentFile /\ row.status = "materializing"
    BY <1>6 DEF Append1, Working
  <2>2. partial' \in Seq(TorrentFile)
    BY <1>6, <2>1 DEF Append1
  <2>3. DownloadTypeOK'
    BY <1>6, <2>2 DEF Append1
  <2>4. ReadFrom(row.tf, partial)'
    <3>1. ReadFrom(row.tf, partial)
      BY <1>6 DEF Append1, Bytes
    <3>2. SUFFICES ASSUME NEW i \in DOMAIN partial'
                   PROVE  partial'[i] \in {row.tf} \cup foreign
      BY <1>6 DEF Append1, ReadFrom
    <3>3. CASE i \in DOMAIN partial
      BY <1>6, <3>1, <3>3 DEF Append1, ReadFrom
    <3>4. CASE i = Len(partial) + 1
      BY <1>6, <3>4 DEF Append1
    <3> QED
      BY <1>6, <3>2, <3>3, <3>4 DEF Append1
  <2>5. Working' /\ BudgetsLeft' /\ Consumed' /\ Bytes' /\ StagedExact'
    BY <1>6, <2>1, <2>4
       DEF Append1, Working, BudgetsLeft, Consumed, Bytes, StagedExact
  <2> QED
    BY <2>3, <2>5
<1> QED
  BY <1>1, <1>2, <1>3, <1>4, <1>5, <1>6

\* The rest of the loop: the rename, the row, the poll and the sweep.
LEMMA LoopKeepsIInv ==
  ASSUME IInv, RenameIntoPlace \/ MarkStaged \/ PollOnly \/ SweepRemoves \/ SweepFails
  PROVE  IInv'
<1> USE DEF IInv, DownloadTypeOK, Outside
<1> USE Bounds, RowFields
<1>1. CASE RenameIntoPlace
  <2>1. row.status = "materializing"
    BY <1>1 DEF RenameIntoPlace, Working
  <2>2. (Len(final) = SizeOf[row.tf] /\ ReadFrom(row.tf, final))'
    BY <1>1 DEF RenameIntoPlace, Whole, Bytes, ReadFrom
  <2>3. DownloadTypeOK'
    BY <1>1 DEF RenameIntoPlace
  <2>4. Working' /\ BudgetsLeft' /\ Consumed' /\ Bytes' /\ StagedExact'
    BY <1>1, <2>1, <2>2
       DEF RenameIntoPlace, Working, BudgetsLeft, Consumed, Bytes, StagedExact
  <2> QED
    BY <2>3, <2>4
<1>2. CASE MarkStaged
  <2>1. row' \in Row
    BY <1>2, RowOfJob DEF MarkStaged, Status
  <2>2. /\ row'.status = "staged" /\ row'.tf = row.tf
        /\ row'.cleanup = row.cleanup /\ row'.cleanups = row.cleanups
        /\ row'.handoff = row.handoff /\ row'.version = row.version
    BY <1>2 DEF MarkStaged, Row
  <2>3. DownloadTypeOK'
    BY <1>2, <2>1 DEF MarkStaged
  <2>4. StagedExact'
    BY <1>2, <2>2 DEF MarkStaged, Bytes, ReadFrom, StagedExact
  <2>5. Working' /\ BudgetsLeft' /\ Consumed' /\ Bytes'
    BY <1>2, <2>2 DEF MarkStaged, Working, BudgetsLeft, Consumed, Bytes
  <2> QED
    BY <2>3, <2>4, <2>5
<1>3. Polled \in Row /\ SameJob(row, Polled)
  BY PolledRow
<1>4. /\ Polled.handoff = "completed" => row.version \in has
      /\ Polled.handoff # "none" => row.version \in Versions
  <2>1. ASSUME Polled.handoff = "completed" PROVE row.version \in has
    BY <2>1, PolledRow DEF Consumed
  <2>2. Polled.handoff # "none" => row.version \in Versions
    BY PolledRow DEF Consumed
  <2> QED
    BY <2>1, <2>2
<1>5. Polled.cleanup \in {"waiting", "due"} => Polled.cleanups < MaxCleanups
  BY PolledRow DEF BudgetsLeft
<1>6. CASE PollOnly
  <2>1. DownloadTypeOK'
    BY <1>3, <1>6 DEF PollOnly
  <2>2. Working' /\ BudgetsLeft' /\ Consumed' /\ Bytes' /\ StagedExact'
    BY <1>3, <1>4, <1>5, <1>6
       DEF PollOnly, SameJob, Working, BudgetsLeft, Consumed, Bytes, StagedExact
  <2> QED
    BY <2>1, <2>2
<1>7. CASE SweepRemoves
  <2>1. row' \in Row
    BY <1>3, <1>7, RowOfTransfer DEF SweepRemoves, Cleanup
  <2>2. SameJob(row, row') /\ row'.handoff = Polled.handoff /\ row'.cleanup = "done"
    BY <1>3, <1>7 DEF SweepRemoves, SameJob, Row
  <2>3. DownloadTypeOK'
    BY <1>7, <2>1 DEF SweepRemoves
  <2>4. Working' /\ BudgetsLeft' /\ Consumed' /\ Bytes' /\ StagedExact'
    BY <1>4, <1>7, <2>2
       DEF SweepRemoves, SameJob, Working, BudgetsLeft, Consumed, Bytes, StagedExact
  <2> QED
    BY <2>3, <2>4
<1>8. CASE SweepFails
  <2>1. Polled.cleanups < MaxCleanups
    BY <1>5, <1>8 DEF SweepFails, CleanupDue
  <2>2. Polled.cleanups \in Nat
    BY <1>3
  <2>3. Polled.cleanups + 1 \in 0..MaxCleanups
    BY <2>1, <2>2
  <2>4. PICK n \in 0..MaxCleanups, c \in Cleanup :
           /\ row' = [Polled EXCEPT !.cleanups = n, !.cleanup = c]
           /\ c = "waiting" => n < MaxCleanups
           /\ c \in {"none", "waiting"}
    <3> DEFINE n == Polled.cleanups + 1
               c == IF n >= MaxCleanups THEN "none" ELSE "waiting"
    <3>1. row' = [Polled EXCEPT !.cleanups = n, !.cleanup = c]
      BY <1>8 DEF SweepFails, Deferred
    <3>2. c = "waiting" => n < MaxCleanups
      BY <2>3
    <3>3. c \in {"none", "waiting"} /\ c \in Cleanup
      BY DEF Cleanup
    <3> HIDE DEF c, n
    <3>4. n \in 0..MaxCleanups
      BY <2>3 DEF n
    <3> QED
      BY <3>1, <3>2, <3>3, <3>4
  <2>5. row' \in Row
    BY <1>3, <2>4, RowOfTransfer
  <2>6. /\ SameJob(row, row') /\ row'.handoff = Polled.handoff
        /\ row'.cleanup = c /\ row'.cleanups = n
    BY <1>3, <2>4 DEF SameJob, Row
  <2>7. DownloadTypeOK'
    BY <1>8, <2>5 DEF SweepFails
  <2>8. BudgetsLeft'
    BY <1>8, <2>4, <2>6 DEF SweepFails, SameJob, BudgetsLeft, Working
  <2>9. Working' /\ Consumed' /\ Bytes' /\ StagedExact'
    BY <1>4, <1>8, <2>6
       DEF SweepFails, SameJob, Working, Consumed, Bytes, StagedExact
  <2> QED
    BY <2>7, <2>8, <2>9
<1> QED
  BY <1>1, <1>2, <1>6, <1>7, <1>8

\* A file that may be gone is a file still.
LEMMA Emptied ==
  ASSUME NEW s \in Seq(TorrentFile), NEW q \in {s, <<>>}
  PROVE  q \in Seq(TorrentFile)
<1>1. <<>> \in Seq(TorrentFile)
  OBVIOUS
<1> QED
  BY <1>1

\* The POST, the clock and the process.
LEMMA OutsideKeepsIInv ==
  ASSUME IInv, Post \/ Handoff \/ RetryDue \/ GraceElapses \/ Restart
  PROVE  IInv'
<1> USE DEF IInv, DownloadTypeOK, Outside
<1> USE Bounds, RowFields
<1>1. CASE Post
  <2>1. CASE row' = row
    <3>1. /\ UNCHANGED <<partial, final, manifests, at, has, restarts, stagedAt, foreign>>
          /\ posts' \in 0..MaxPosts
      BY <1>1 DEF Post
    <3>2. DownloadTypeOK'
      BY <2>1, <3>1
    <3>3. Working' /\ BudgetsLeft'
      BY <2>1, <3>1 DEF Working, BudgetsLeft
    <3>4. Consumed'
      BY <2>1, <3>1 DEF Consumed
    <3>5. Bytes' /\ StagedExact'
      BY <2>1, <3>1 DEF Bytes, StagedExact, ReadFrom
    <3> QED
      BY <3>2, <3>3, <3>4, <3>5
  <2>2. CASE /\ row.status \in {"none", "failed", "staged"}
             /\ row' = [row EXCEPT !.status = "requested", !.tf = NoFile,
                                   !.attempts = 0, !.retry = "none"]
    <3>1. 0 \in 0..MaxAttempts
      OBVIOUS
    <3>2. row' \in Row
      BY <2>2, <3>1, RowOfJob
    <3>3. /\ row'.status = "requested" /\ row'.attempts = 0
          /\ row'.cleanup = row.cleanup /\ row'.cleanups = row.cleanups
          /\ row'.handoff = row.handoff /\ row'.version = row.version
      BY <2>2 DEF Row
    <3>4. DownloadTypeOK'
      BY <1>1, <3>2 DEF Post
    <3>5. Working' /\ BudgetsLeft' /\ Consumed' /\ Bytes' /\ StagedExact'
      BY <1>1, <2>2, <3>3 DEF Post, Working, BudgetsLeft, Consumed, Bytes, StagedExact
    <3> QED
      BY <3>4, <3>5
  <2> QED
    BY <1>1, <2>1, <2>2 DEF Post
<1>2. CASE Handoff
  <2>1. manifests' = manifests \cup {<<row'.version, "outbox">>}
    BY <1>2 DEF Handoff
  <2>2. CASE Active(row)
    <3>1. row' = row /\ row.version \in Versions
      BY <1>2, <2>2 DEF Handoff, Consumed, Active
    <3>2. <<row'.version, "outbox">> \in Versions \X Dirs
      BY <3>1 DEF Dirs
    <3>3. DownloadTypeOK'
      BY <1>2, <2>1, <3>1, <3>2 DEF Handoff
    <3>4. Working' /\ BudgetsLeft' /\ Consumed' /\ Bytes' /\ StagedExact'
      BY <1>2, <2>1, <3>1
         DEF Handoff, Working, BudgetsLeft, Consumed, Bytes, StagedExact, ReadFrom
    <3> QED
      BY <3>3, <3>4
  <2>3. CASE ~Active(row)
    <3>1. row.version + 1 \in Versions /\ row.version + 1 \in 0..MaxVersions
      BY <1>2, <2>3 DEF Handoff, Versions
    <3>2. PICK v \in 0..MaxVersions, z \in 0..MaxVersions, n \in 0..MaxCleanups :
             /\ v \in Versions
             /\ row' = [row EXCEPT !.version = v, !.handoff = "pending", !.cleanup = "none",
                                   !.cleanupOf = z, !.cleanups = n]
      <4> DEFINE v == row.version + 1
      <4>1. row' = [row EXCEPT !.version = v, !.handoff = "pending", !.cleanup = "none",
                               !.cleanupOf = 0, !.cleanups = 0]
        BY <1>2, <2>3 DEF Handoff
      <4>2. v \in Versions /\ v \in 0..MaxVersions
        BY <3>1
      <4> HIDE DEF v
      <4>3. 0 \in 0..MaxVersions /\ 0 \in 0..MaxCleanups
        OBVIOUS
      <4> QED
        BY <4>1, <4>2, <4>3
    <3>3. row' \in Row
      BY <3>2, RowOfTransfer
    <3>4. /\ row'.status = row.status /\ row'.tf = row.tf /\ row'.attempts = row.attempts
          /\ row'.version = v /\ row'.handoff = "pending" /\ row'.cleanup = "none"
      BY <3>2 DEF Row
    <3>5. DownloadTypeOK'
      <4>1. <<row'.version, "outbox">> \in Versions \X Dirs
        BY <3>2, <3>4 DEF Dirs
      <4>2. manifests' \subseteq Versions \X Dirs
        BY <2>1, <4>1
      <4> QED
        BY <1>2, <3>3, <4>2 DEF Handoff
    <3>6. Working' /\ BudgetsLeft' /\ Consumed' /\ Bytes' /\ StagedExact'
      BY <1>2, <2>1, <3>2, <3>4
         DEF Handoff, Working, BudgetsLeft, Consumed, Bytes, StagedExact, ReadFrom
    <3> QED
      BY <3>5, <3>6
  <2> QED
    BY <2>2, <2>3
<1>3. CASE RetryDue
  <2>1. row' \in Row
    BY <1>3, RowOfJob DEF RetryDue, Retry
  <2>2. SameJob([row EXCEPT !.retry = "due"], row')
        /\ row'.status = row.status /\ row'.tf = row.tf /\ row'.attempts = row.attempts
        /\ row'.cleanup = row.cleanup /\ row'.cleanups = row.cleanups
        /\ row'.handoff = row.handoff /\ row'.version = row.version
    BY <1>3 DEF RetryDue, SameJob, Row
  <2>3. DownloadTypeOK'
    BY <1>3, <2>1 DEF RetryDue
  <2>4. Working' /\ BudgetsLeft' /\ Consumed' /\ Bytes' /\ StagedExact'
    BY <1>3, <2>2
       DEF RetryDue, Working, BudgetsLeft, Consumed, Bytes, StagedExact, ReadFrom
  <2> QED
    BY <2>3, <2>4
<1>4. CASE GraceElapses
  <2>1. row' \in Row
    BY <1>4, RowOfTransfer DEF GraceElapses, Cleanup
  <2>2. SameJob(row, row') /\ row'.handoff = row.handoff
        /\ row'.cleanups = row.cleanups /\ row.cleanups < MaxCleanups
    BY <1>4 DEF GraceElapses, SameJob, Row, BudgetsLeft
  <2>3. DownloadTypeOK'
    BY <1>4, <2>1 DEF GraceElapses
  <2>4. Working' /\ BudgetsLeft' /\ Consumed' /\ Bytes' /\ StagedExact'
    BY <1>4, <2>2
       DEF GraceElapses, SameJob, Working, BudgetsLeft, Consumed, Bytes, StagedExact, ReadFrom
  <2> QED
    BY <2>3, <2>4
<1>5. CASE Restart
  <2>1. row' \in Row
    BY <1>5, RowOfJob DEF Restart, Recovered, Status
  <2>2. /\ row'.status = IF row.status \in {"resolving", "materializing"}
                           THEN "requested" ELSE row.status
        /\ row'.tf = row.tf /\ row'.attempts = row.attempts
        /\ row'.cleanup = row.cleanup /\ row'.cleanups = row.cleanups
        /\ row'.handoff = row.handoff /\ row'.version = row.version
    BY <1>5 DEF Restart, Recovered, Row
  <2>3. final' \in {final, <<>>}
    BY <1>5 DEF Restart
  <2>4. DownloadTypeOK'
    <3>1. final' \in Seq(TorrentFile)
      BY <2>3, Emptied
    <3>2. restarts' \in 0..MaxRestarts
      BY <1>5 DEF Restart
    <3> QED
      BY <1>5, <2>1, <3>1, <3>2 DEF Restart
  <2>5. Working' /\ BudgetsLeft' /\ Consumed' /\ Bytes' /\ StagedExact'
    BY <1>5, <2>2, <2>3
       DEF Restart, Working, BudgetsLeft, Consumed, Bytes, StagedExact
  <2> QED
    BY <2>4, <2>5
<1> QED
  BY <1>1, <1>2, <1>3, <1>4, <1>5

\* The consumer: what it does with the file, its answers, its manifests.
LEMMA ConsumerKeepsIInv ==
  ASSUME IInv, Consumer
  PROVE  IInv'
<1> USE DEF IInv, DownloadTypeOK, Outside
<1> USE Bounds, RowFields
<1>1. CASE TakeAway
  <2>1. final' = <<>> /\ at # "mark"
    BY <1>1 DEF TakeAway, Present, Working
  <2> QED
    BY <1>1, <2>1
       DEF TakeAway, Working, BudgetsLeft, Consumed, Bytes, StagedExact, ReadFrom
<1>2. ASSUME NEW v \in Versions, Import(v)
      PROVE  IInv'
  <2>1. final' \in {final, <<>>} /\ at # "mark"
    BY <1>2 DEF Import, Present, Working
  <2>2. DownloadTypeOK'
    <3>1. final' \in Seq(TorrentFile)
      BY <2>1, Emptied
    <3>2. has' \subseteq Versions
      BY <1>2 DEF Import
    <3> QED
      BY <1>2, <3>1, <3>2 DEF Import
  <2>3. Working' /\ BudgetsLeft' /\ Consumed' /\ Bytes' /\ StagedExact'
    BY <1>2, <2>1
       DEF Import, Working, BudgetsLeft, Consumed, Bytes, StagedExact, ReadFrom
  <2> QED
    BY <2>2, <2>3
<1>3. ASSUME NEW v \in Versions, NEW state \in DOMAIN DirOf, Ack(v, state)
      PROVE  IInv'
  <2>1. state \in {"accepted", "completed", "failed"}
    BY DEF DirOf
  <2>2. row' \in Row /\ SameJob(row, row')
    BY <1>3, <2>1, AppliedRow DEF Ack
  <2>3. /\ row'.handoff \in {row.handoff, state}
        /\ \/ row'.cleanup = row.cleanup /\ row'.cleanups = row.cleanups
           \/ row'.cleanup = "waiting" /\ row'.cleanups = 0
    BY <1>3, <2>1, AppliedRow DEF Ack
  <2>4. v = row.version /\ (state = "completed" => v \in has)
    BY <1>3 DEF Ack, Live
  <2>5. /\ DirOf[state] \in Dirs
        /\ DirOf[state] = "done" => state = "completed"
    BY <2>1 DEF DirOf, Dirs
  <2>6. \A m \in manifests' : m \in manifests \/ m = <<v, DirOf[state]>>
    BY <1>3 DEF Ack, Mirrored
  <2>7. DownloadTypeOK'
    BY <1>3, <2>2, <2>5, <2>6 DEF Ack
  <2>8. Consumed'
    BY <1>3, <2>2, <2>3, <2>4, <2>5, <2>6 DEF Ack, Consumed, SameJob
  <2>9. Working' /\ BudgetsLeft' /\ Bytes' /\ StagedExact'
    BY <1>3, <2>2, <2>3
       DEF Ack, SameJob, Working, BudgetsLeft, Bytes, StagedExact, ReadFrom
  <2> QED
    BY <2>7, <2>8, <2>9
<1>4. ASSUME NEW v \in Versions, NEW from \in Dirs, NEW to \in Dirs, MoveManifest(v, from, to)
      PROVE  IInv'
  <2>1. manifests' \subseteq manifests \cup {<<v, to>>} /\ (to = "done" => v \in has)
    BY <1>4 DEF MoveManifest
  <2>2. DownloadTypeOK'
    BY <1>4, <2>1 DEF MoveManifest
  <2>3. Working' /\ BudgetsLeft' /\ Consumed' /\ Bytes' /\ StagedExact'
    BY <1>4, <2>1
       DEF MoveManifest, Working, BudgetsLeft, Consumed, Bytes, StagedExact, ReadFrom
  <2> QED
    BY <2>2, <2>3
<1> QED
  BY <1>1, <1>2, <1>3, <1>4 DEF Consumer

\* So it always holds.
LEMMA AlwaysIInv == Spec => []IInv
<1>1. IInv /\ [Next]_vars => IInv'
  <2> SUFFICES ASSUME IInv, [Next]_vars PROVE IInv'
    OBVIOUS
  <2>1. CASE UNCHANGED vars
    BY <2>1 DEF vars, IInv, DownloadTypeOK, Working, BudgetsLeft, Consumed, Bytes,
                StagedExact, ReadFrom
  <2> QED
    BY <2>1, WorkerKeepsIInv, LoopKeepsIInv, OutsideKeepsIInv, ConsumerKeepsIInv
       DEF Next, Loop
<1> QED
  BY <1>1, InitIInv, PTL DEF Spec

----------------------------------------------------------------------------
(* Theorems *)

\* The row, the files and the handoff tree keep their types: no chain of retries,
\* deferred sweeps, posts and restarts takes a counter past its budget.
THEOREM DownloadTypeCorrect == Spec => []DownloadTypeOK
BY AlwaysIInv, PTL DEF IInv

\* A staged file is whole, and made of its TorrentFile and of what its partial
\* already held when the worker took it over.
THEOREM StagedFilesExact == Spec => []StagedExact
BY AlwaysIInv, PTL DEF IInv

\* A sweep is authorised by the current handoff only, whose bytes the consumer has.
THEOREM CleanupsAuthorized == Spec => []CleanupAuthorized
<1>1. IInv => CleanupAuthorized
  BY DEF IInv, Consumed, CleanupAuthorized, CleanupDue
<1> QED
  BY <1>1, AlwaysIInv, PTL

\* A transfer that completed or failed moves again only by a newer version.
THEOREM TransfersSettle == Spec => TransferSettles
<1> DEFINE Settled == row.handoff \in {"completed", "failed"}
           Kept == row'.handoff = row.handoff /\ row'.version = row.version
           Renewed == row'.handoff = "pending" /\ row'.version = row.version + 1
<1>1. IInv /\ [Next]_vars => [Settled => Kept \/ Renewed]_vars
  <2> SUFFICES ASSUME IInv, Next, Settled PROVE Kept \/ Renewed
    OBVIOUS
  <2> row \in Row
    BY DEF IInv, DownloadTypeOK
  <2>1. CASE Post \/ Claim \/ Resolve \/ MarkStaged \/ RetryDue \/ GraceElapses \/ Restart
    BY <2>1 DEF Post, Claim, Resolve, MarkStaged, RetryDue, GraceElapses, Restart, Recovered, Row
  <2>2. CASE Idle \/ OpenPartial \/ Append1 \/ RenameIntoPlace
    BY <2>2 DEF Idle, OpenPartial, Append1, RenameIntoPlace
  <2>3. CASE JobFails
    BY <2>3 DEF JobFails, Failed, Row
  <2>4. CASE Handoff
    BY <2>4 DEF Handoff, Active, Row
  <2>5. Polled = row
    BY DEF Polled, Observed, Applied
  <2>6. CASE PollOnly \/ SweepRemoves \/ SweepFails
    BY <2>5, <2>6 DEF PollOnly, SweepRemoves, SweepFails, Deferred, Row
  <2>7. CASE Consumer
    BY <2>7 DEF Consumer, TakeAway, Import, Ack, Applied, MoveManifest, Outside
  <2> QED
    BY <2>1, <2>2, <2>3, <2>4, <2>6, <2>7 DEF Next, Loop
<1> QED
  BY <1>1, AlwaysIInv, PTL DEF Spec, TransferSettles

----------------------------------------------------------------------------
(* The first time of asking *)

\* The first attempt of an intent that is asked for once, in a process that lives.
FirstAttempt == posts <= 1 /\ restarts = 0 /\ row.attempts = 0

\* An intent asked for once has no transfer until it is staged, and its first attempt
\* found no partial.
AskedOnce ==
    /\ posts = 0 => row.status = "none" /\ partial = <<>> /\ foreign = {}
    /\ posts <= 1 /\ row.status # "staged" => row.version = 0
    /\ posts <= 1 => stagedAt = 0
    /\ FirstAttempt => foreign = {} /\ (at # "stream" => partial = <<>>)

\* A step that touches neither the partial nor what the worker says of the row.
Aside ==
    /\ UNCHANGED <<posts, restarts, stagedAt, partial, foreign>>
    /\ row'.status = row.status /\ row'.attempts = row.attempts /\ row'.version = row.version
    /\ at' = at \/ at # "stream"

LEMMA AsideKeeps ==
  ASSUME AskedOnce, Aside
  PROVE  AskedOnce'
BY DEF AskedOnce, Aside, FirstAttempt

\* The worker's steps.
LEMMA WorkerKeepsAskedOnce ==
  ASSUME IInv, AskedOnce, Loop
  PROVE  AskedOnce'
<1> row \in Row
  BY DEF IInv, DownloadTypeOK
<1> USE DEF Outside
<1>1. CASE Claim
  <2>1. /\ row.status \notin {"none", "staged"} /\ row'.status = "resolving"
        /\ row'.attempts = row.attempts /\ row'.version = row.version
    BY <1>1 DEF Claim, Claimable, Row
  <2> QED
    BY <1>1, <2>1 DEF Claim, AskedOnce, FirstAttempt
<1>2. CASE Idle
  <2>1. Aside
    BY <1>2 DEF Idle, Aside
  <2> QED
    BY <2>1, AsideKeeps
<1>3. CASE Resolve
  <2>1. /\ row.status = "resolving" /\ row'.status = "materializing"
        /\ row'.attempts = row.attempts /\ row'.version = row.version
    BY <1>3 DEF Resolve, IInv, Working, Row
  <2> QED
    BY <1>3, <2>1 DEF Resolve, AskedOnce, FirstAttempt
<1>4. CASE JobFails
  <2>1. /\ row.status \in {"resolving", "materializing"} /\ row'.status = "failed"
        /\ row'.attempts = row.attempts + 1 /\ row'.version = row.version
    BY <1>4 DEF JobFails, Failed, IInv, Working, Row
  <2>2. row'.attempts # 0
    BY <2>1, RowFields, Bounds
  <2> QED
    BY <1>4, <2>1, <2>2 DEF JobFails, AskedOnce, FirstAttempt
<1>5. CASE OpenPartial
  <2>1. row.status = "materializing" /\ row.tf \in TorrentFile /\ posts # 0
    BY <1>5 DEF OpenPartial, IInv, Working, AskedOnce
  <2>2. FirstAttempt => partial' = <<>> /\ foreign' = {}
    BY <1>5 DEF OpenPartial, AskedOnce
  <2> QED
    BY <1>5, <2>1, <2>2 DEF OpenPartial, AskedOnce, FirstAttempt
<1>6. CASE Append1 \/ RenameIntoPlace
  <2>1. row.status = "materializing" /\ posts # 0
    BY <1>6 DEF Append1, RenameIntoPlace, IInv, Working, AskedOnce
  <2> QED
    BY <1>6, <2>1 DEF Append1, RenameIntoPlace, AskedOnce, FirstAttempt
<1>7. CASE MarkStaged
  <2>1. /\ row.status = "materializing" /\ row'.status = "staged"
        /\ row'.attempts = row.attempts /\ row'.version = row.version
    BY <1>7 DEF MarkStaged, IInv, Working, Row
  <2> QED
    BY <1>7, <2>1 DEF MarkStaged, AskedOnce, FirstAttempt
<1>8. CASE PollOnly \/ SweepRemoves \/ SweepFails
  <2>1. Polled \in Row /\ SameJob(row, Polled)
    BY PolledRow
  <2>2. SameJob(row, row')
    <3>1. \A q \in Row : \A c, n :
            SameJob(row, q) => /\ SameJob(row, [q EXCEPT !.cleanup = c])
                               /\ SameJob(row, [q EXCEPT !.cleanups = n, !.cleanup = c])
      BY DEF SameJob, Row
    <3>2. CASE PollOnly
      BY <2>1, <3>2 DEF PollOnly
    <3>3. CASE SweepRemoves
      BY <2>1, <3>1, <3>3 DEF SweepRemoves
    <3>4. CASE SweepFails
      BY <2>1, <3>1, <3>4 DEF SweepFails, Deferred
    <3> QED
      BY <1>8, <3>2, <3>3, <3>4
  <2>3. Aside
    BY <1>8, <2>2 DEF PollOnly, SweepRemoves, SweepFails, SameJob, Aside
  <2> QED
    BY <2>3, AsideKeeps
<1> QED
  BY <1>1, <1>2, <1>3, <1>4, <1>5, <1>6, <1>7, <1>8 DEF Loop

\* Everybody else's.
LEMMA OthersKeepAskedOnce ==
  ASSUME IInv, AskedOnce, Post \/ Handoff \/ Consumer \/ RetryDue \/ GraceElapses \/ Restart
  PROVE  AskedOnce'
<1> row \in Row /\ posts \in Nat /\ restarts \in Nat
  BY Bounds DEF IInv, DownloadTypeOK
<1> USE DEF Outside
<1>1. CASE Post
  <2>1. CASE posts = 0
    <3>1. row'.status = "requested" /\ row'.version = row.version /\ row.status = "none"
      BY <1>1, <2>1 DEF Post, AskedOnce, Row
    <3> QED
      BY <1>1, <2>1, <3>1 DEF Post, AskedOnce, FirstAttempt
  <2>2. CASE posts # 0
    <3>1. posts' = posts + 1
      BY <1>1 DEF Post
    <3>2. ~(posts' <= 1) /\ posts' # 0
      BY <2>2, <3>1
    <3> QED
      BY <3>2 DEF AskedOnce, FirstAttempt
  <2> QED
    BY <2>1, <2>2
<1>2. CASE Handoff
  <2>1. row.status = "staged" /\ row'.status = "staged" /\ row'.attempts = row.attempts
    BY <1>2 DEF Handoff, Row
  <2> QED
    BY <1>2, <2>1 DEF Handoff, AskedOnce, FirstAttempt
<1>3. CASE TakeAway \/ \E v \in Versions : Import(v)
  <2>1. Aside
    BY <1>3 DEF TakeAway, Import, Aside
  <2> QED
    BY <2>1, AsideKeeps
<1>4. CASE \E v \in Versions, from, to \in Dirs : MoveManifest(v, from, to)
  <2>1. Aside
    BY <1>4 DEF MoveManifest, Aside
  <2> QED
    BY <2>1, AsideKeeps
<1>5. ASSUME NEW v \in Versions, NEW state \in DOMAIN DirOf, Ack(v, state)
      PROVE  AskedOnce'
  <2>1. state \in {"accepted", "completed", "failed"}
    BY DEF DirOf
  <2>2. SameJob(row, row')
    BY <1>5, <2>1, AppliedRow DEF Ack
  <2>3. Aside
    BY <1>5, <2>2 DEF Ack, SameJob, Aside
  <2> QED
    BY <2>3, AsideKeeps
<1>6. CASE RetryDue \/ GraceElapses
  <2>1. Aside
    BY <1>6 DEF RetryDue, GraceElapses, Aside, Row
  <2> QED
    BY <2>1, AsideKeeps
<1>7. CASE Restart
  <2>1. /\ row'.status \in {row.status, "requested"} /\ row'.version = row.version
        /\ row'.status # row.status => row.status \in {"resolving", "materializing"}
    BY <1>7 DEF Restart, Recovered, Row
  <2>2. restarts' # 0
    BY <1>7 DEF Restart
  <2> QED
    BY <1>7, <2>1, <2>2 DEF Restart, AskedOnce, FirstAttempt
<1> QED
  BY <1>1, <1>2, <1>3, <1>4, <1>5, <1>6, <1>7 DEF Consumer

LEMMA AlwaysAskedOnce == Spec => []AskedOnce
<1>1. Init => AskedOnce
  BY DEF Init, NoRow, AskedOnce, FirstAttempt
<1>2. IInv /\ AskedOnce /\ [Next]_vars => AskedOnce'
  <2> SUFFICES ASSUME IInv, AskedOnce, [Next]_vars PROVE AskedOnce'
    OBVIOUS
  <2>1. CASE UNCHANGED vars
    BY <2>1 DEF vars, AskedOnce, FirstAttempt
  <2> QED
    BY <2>1, WorkerKeepsAskedOnce, OthersKeepAskedOnce DEF Next
<1> QED
  BY <1>1, <1>2, AlwaysIInv, PTL DEF Spec

\* That a sweep deletes an artifact its handoff did not give away takes a second POST:
\* as long as the intent is asked for once, whatever fails, dies or answers late, the
\* handoff that authorises a sweep was created after the file was staged (store.js).
THEOREM SweptOnceAskedOnce == Spec => [](posts <= 1 => CleanupMatchesArtifact)
<1>1. IInv /\ AskedOnce => (posts <= 1 => CleanupMatchesArtifact)
  <2> SUFFICES ASSUME IInv, AskedOnce, posts <= 1, CleanupDue(row) PROVE row.version > stagedAt
    BY DEF CleanupMatchesArtifact
  <2>1. row.version \in Versions /\ stagedAt = 0
    BY DEF CleanupDue, IInv, Consumed, AskedOnce
  <2> QED
    BY <2>1, Bounds DEF Versions
<1> QED
  BY <1>1, AlwaysIInv, AlwaysAskedOnce, PTL

\* That staged bytes are of another TorrentFile takes a second attempt, a second POST or
\* a restart: what the first attempt of a new intent stages is the TorrentFile's alone
\* (materialize.js, worker.js).
THEOREM FirstAttemptIsPure == Spec => [](FirstAttempt => StagedBytesAreTheFiles)
<1>1. IInv /\ AskedOnce => (FirstAttempt => StagedBytesAreTheFiles)
  <2> SUFFICES ASSUME IInv, AskedOnce, FirstAttempt, row.status = "staged",
                      NEW i \in DOMAIN final
               PROVE  final[i] = row.tf
    BY DEF StagedBytesAreTheFiles
  <2>1. final # <<>>
    OBVIOUS
  <2>2. foreign = {} /\ final[i] \in {row.tf} \cup foreign
    BY <2>1 DEF IInv, StagedExact, AskedOnce
  <2> QED
    BY <2>2
<1> QED
  BY <1>1, AlwaysIInv, AlwaysAskedOnce, PTL
=============================================================================
