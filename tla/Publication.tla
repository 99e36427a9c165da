----------------------------- MODULE Publication -----------------------------
(***************************************************************************)
(* The publication of one media unit of media-search: the handoff row      *)
(* (discovery/cache.js), the library item and its Bindings                 *)
(* (control-plane/store.js), the VFS row that serves it, its .strm         *)
(* artifact, and everything that moves them: requests (api/media-request,  *)
(* requests/publication.js), catalog sweeps (vfs/*-webdav.js), the         *)
(* delivery fallback and unpublish (library/unpublish.js), all through     *)
(* vfs/materialize.js.                                                     *)
(*                                                                         *)
(* One JavaScript thread: an action is the code between two awaits.        *)
(* A job is one run of one of these operations.  Left out: rows from       *)
(* before TorrentFiles, provider routes of one TorrentFile, consumers'     *)
(* notification, and a handoff's missing placement coordinates.            *)
(***************************************************************************)
EXTENDS Naturals, FiniteSets, Sequences

CONSTANTS
    Release, Path,          \* a TorrentFile is a path in a release (info hash)
    Job,                    \* bound: runs of an operation, each of one job
    None                    \* no TorrentFile

TF == [release : Release, path : Path]

ASSUME NoneIsNoFile == None \notin TF

VARIABLES
    kind,          \* the unit: a movie or an episode
    handoff,       \* its playback_handoffs row: TorrentFile, explicit decision
    desired,       \* its library item: none, or its desired_state
    committed,     \* the item's presentation identity is committed
    bindings,      \* the item's Bindings
    row,           \* the TorrentFile its VFS row names
    throttled,     \* bindingActivationRetryAt: activations not to be retried yet
    strm,          \* a .strm artifact carries its resolver URL
    overlap,       \* history: an unpublish and a publication have overlapped
    job

vars == <<kind, handoff, desired, committed, bindings, row, throttled, strm, overlap, job>>

History == INSTANCE BindingHistory

Operations == {"publish", "materialize", "prepare", "sweep", "promote", "unpublish"}
Places == {"new", "naming", "read", "look", "write", "verify", "repair", "commit",
           "listed", "scan", "unlink", "done", "failed"}

JobState ==
    [op : {"none"} \cup Operations, at : Places, tf : TF \cup {None}, explicit : BOOLEAN]

NoHandoff == [tf |-> None, explicit |-> FALSE]
NewJob == [op |-> "none", at |-> "new", tf |-> None, explicit |-> FALSE]

Init ==
    /\ kind \in {"movie", "episode"}
    /\ handoff = NoHandoff
    /\ desired = "none"
    /\ committed = FALSE
    /\ bindings = <<>>
    /\ row = None
    /\ throttled = {}
    /\ strm = FALSE
    /\ overlap = FALSE
    /\ job = [j \in Job |-> NewJob]

-----------------------------------------------------------------------------

ActiveTF ==
    IF \E v \in DOMAIN bindings : bindings[v].status = "active"
    THEN (CHOOSE b \in {bindings[v] : v \in DOMAIN bindings} : b.status = "active").tf
    ELSE None

InProgress(ops) == \E j \in Job : job[j].op \in ops /\ job[j].at \notin {"done", "failed"}

Goes(j, at) == job' = [job EXCEPT ![j].at = at]

(* The unique slot of the unit: another TorrentFile replaces the row, the
   same one leaves it alone. *)
Upsert(t, explicit) ==
    handoff' = IF handoff.tf = t THEN handoff ELSE [tf |-> t, explicit |-> explicit]

-----------------------------------------------------------------------------
(* materializeVfsEntry *)

Target_Unprojected(t, explicit) == t
(* The handoff's TorrentFile, or the active Binding's when that names the
   same release and no validated alternate is being promoted. *)
Target(t, explicit) ==
    IF ActiveTF # None /\ ActiveTF.release = t.release /\ ~explicit THEN ActiveTF ELSE t

(* assertExistingIdentity: only another release may take the row over. *)
Clashes(t) == row # None /\ row.release = t.release /\ row # t

(* activateBinding refuses a change of TorrentFile only when it is given no
   reason, and only the fast path gives none. *)
Activates(t, observed) ==
    \/ observed = "fresh"
    \/ observed = "extended" /\ ActiveTF = None

OrphanRemoved_AnyKind(observed) == observed # "fresh" /\ ActiveTF = None
(* A failed activation takes the episode's row away when no Binding is active,
   before the fast path extends a stale inventory and tries again. *)
OrphanRemoved(observed) == observed # "fresh" /\ kind = "episode" /\ ActiveTF = None

ActivationKey_Release(t) == t.release
(* activationKey: a route of a TorrentFile is throttled, not its release. *)
ActivationKey(t) == t

(* ensureLibraryItem *)
Wanted == "present"

Activated_Unretired(t) == bindings' = Append(bindings, [tf |-> t, status |-> "active"])
(* activateBinding *)
Activated(t) == History!Activate(t)

(* Creates, converges or replaces the row, then tryActivateAuthoritativeBinding:
   the item is wanted again whatever becomes of the activation. *)
Converged(t, observed) ==
    /\ desired' = Wanted
    /\ IF ActiveTF = t \/ ActivationKey(t) \in throttled
       THEN /\ row' = t
            /\ UNCHANGED <<bindings, throttled>>
       ELSE /\ row' = IF OrphanRemoved(observed) THEN None ELSE t
            /\ IF Activates(t, observed)
               THEN /\ Activated(t)
                    /\ throttled' = throttled \ {ActivationKey(t)}
               ELSE /\ throttled' = IF observed = "refused" THEN throttled
                                    ELSE throttled \cup {ActivationKey(t)}
                    /\ UNCHANGED bindings

(* What becomes of a job that has materialized its handoff. *)
After(op) == IF op = "publish" THEN "look" ELSE "done"

Materialize(j, op, t) ==
    IF Clashes(t)
    THEN /\ job' = [job EXCEPT ![j] = [op |-> op, at |-> "failed", tf |-> t, explicit |-> FALSE]]
         /\ UNCHANGED <<desired, bindings, row, throttled>>
    ELSE /\ \E observed \in {"fresh", "extended", "stale", "refused"} : Converged(t, observed)
         /\ job' = [job EXCEPT ![j] = [op |-> op, at |-> After(op), tf |-> t, explicit |-> FALSE]]

(* A unit without a row or a committed name awaits its title, unless the
   request named it; the TorrentFile is settled before the await. *)
Enter(j, op, t, explicit, named) ==
    IF row = None /\ ~committed /\ ~named
    THEN /\ job' = [job EXCEPT ![j] = [op |-> op, at |-> "naming",
                                       tf |-> Target(t, explicit), explicit |-> explicit]]
         /\ UNCHANGED <<desired, bindings, row, throttled>>
    ELSE Materialize(j, op, Target(t, explicit))

(* The title is there.  The row may be too by now: the race is recovered by
   the same rule. *)
Named(j) ==
    /\ job[j].at = "naming"
    /\ Materialize(j, job[j].op, job[j].tf)
    /\ UNCHANGED <<kind, handoff, committed, strm, overlap>>

-----------------------------------------------------------------------------
(* Requests. *)

StartsPublication == overlap' = (overlap \/ InProgress({"unpublish"}))

(* A request selects a TorrentFile, persists the handoff and publishes it, or
   stops at the VFS row (the corpus pipeline). *)
Select(j, t, op, named) ==
    /\ job[j].at = "new"
    /\ Upsert(t, FALSE)
    /\ Enter(j, op, t, FALSE, named)
    /\ StartsPublication
    /\ UNCHANGED <<kind, committed, strm>>

(* A request that only prepares leaves the handoff for later. *)
Prepare(j, t) ==
    /\ job[j].at = "new"
    /\ Upsert(t, FALSE)
    /\ job' = [job EXCEPT ![j] = [op |-> "prepare", at |-> "done", tf |-> t, explicit |-> FALSE]]
    /\ UNCHANGED <<kind, desired, committed, bindings, row, throttled, strm, overlap>>

(* A request finds the handoff of an earlier one, and looks at its artifact
   and its inventory before it publishes that again. *)
Reuse(j) ==
    /\ job[j].at = "new" /\ handoff.tf # None
    /\ job' = [job EXCEPT ![j] = [op |-> "publish", at |-> "read",
                                  tf |-> handoff.tf, explicit |-> handoff.explicit]]
    /\ StartsPublication
    /\ UNCHANGED <<kind, handoff, desired, committed, bindings, row, throttled, strm>>

Republish(j) ==
    /\ job[j].op = "publish" /\ job[j].at = "read"
    /\ \E named \in BOOLEAN : Enter(j, "publish", job[j].tf, job[j].explicit, named)
    /\ UNCHANGED <<kind, handoff, committed, strm, overlap>>

(* publishStrmConverged: an artifact that carries the URL is adopted. *)
Look(j) ==
    /\ job[j].at = "look"
    /\ Goes(j, IF ~strm THEN "write" ELSE IF committed THEN "done" ELSE "commit")
    /\ UNCHANGED <<kind, handoff, desired, committed, bindings, row, throttled, strm, overlap>>

(* The artifact is written at its committed path, or verified and repaired
   once before its path is committed. *)
Write(j) ==
    /\ job[j].at \in {"write", "repair"}
    /\ strm' = TRUE
    /\ Goes(j, IF job[j].at = "repair" THEN "commit" ELSE IF committed THEN "done" ELSE "verify")
    /\ UNCHANGED <<kind, handoff, desired, committed, bindings, row, throttled, overlap>>

Verify(j) ==
    /\ job[j].at = "verify"
    /\ Goes(j, IF strm THEN "commit" ELSE "repair")
    /\ UNCHANGED <<kind, handoff, desired, committed, bindings, row, throttled, strm, overlap>>

Commit(j) ==
    /\ job[j].at = "commit"
    /\ committed' = TRUE
    /\ Goes(j, "done")
    /\ UNCHANGED <<kind, handoff, desired, bindings, row, throttled, strm, overlap>>

-----------------------------------------------------------------------------
(* Catalog sweeps, the delivery fallback, unpublish. *)

(* A PROPFIND lists the handoffs, and visits this one after others. *)
List(j) ==
    /\ job[j].at = "new" /\ handoff.tf # None
    /\ job' = [job EXCEPT ![j] = [op |-> "sweep", at |-> "listed",
                                  tf |-> handoff.tf, explicit |-> handoff.explicit]]
    /\ UNCHANGED <<kind, handoff, desired, committed, bindings, row, throttled, strm, overlap>>

Visit_Anyway(j) ==
    /\ job[j].at = "listed"
    /\ Enter(j, "sweep", job[j].tf, job[j].explicit, FALSE)
    /\ UNCHANGED <<kind, handoff, committed, strm, overlap>>
(* An unpublished unit is skipped; the sweep does not ask again once it has
   awaited a title. *)
Visit(j) ==
    /\ job[j].at = "listed"
    /\ IF desired = "absent"
       THEN Goes(j, "done") /\ UNCHANGED <<desired, bindings, row, throttled>>
       ELSE Enter(j, "sweep", job[j].tf, job[j].explicit, FALSE)
    /\ UNCHANGED <<kind, handoff, committed, strm, overlap>>

(* A read found the unit's delivery exhausted: a validated alternate becomes
   its handoff and its representation. *)
Promote(j, t) ==
    /\ job[j].at = "new" /\ handoff.tf \notin {None, t}
    /\ Upsert(t, TRUE)
    /\ Enter(j, "promote", t, TRUE, FALSE)
    /\ UNCHANGED <<kind, committed, strm, overlap>>

Unpublishes_Row == row # None
(* An unpublish scans for the artifact whatever it found to remove. *)
Unpublishes == TRUE

Withdraw(j) ==
    /\ job[j].at = "new"
    /\ IF desired = "none" THEN UNCHANGED <<desired, bindings>>
       ELSE desired' = "absent" /\ History!Withdraw
    /\ row' = None
    /\ job' = [job EXCEPT ![j] = [op |-> "unpublish", tf |-> None, explicit |-> FALSE,
                                  at |-> IF Unpublishes THEN "scan" ELSE "done"]]
    /\ overlap' = (overlap \/ InProgress({"publish"}))
    /\ UNCHANGED <<kind, handoff, committed, throttled, strm>>

(* The artifact is found by its content, and removed two awaits later. *)
Scan(j) ==
    /\ job[j].at = "scan"
    /\ Goes(j, IF strm THEN "unlink" ELSE "done")
    /\ UNCHANGED <<kind, handoff, desired, committed, bindings, row, throttled, strm, overlap>>

Unlink(j) ==
    /\ job[j].at = "unlink"
    /\ strm' = FALSE
    /\ Goes(j, "done")
    /\ UNCHANGED <<kind, handoff, desired, committed, bindings, row, throttled, overlap>>

(* BINDING_ACTIVATION_RETRY_MS have passed. *)
RetryTime(t) ==
    /\ t \in throttled
    /\ throttled' = throttled \ {t}
    /\ UNCHANGED <<kind, handoff, desired, committed, bindings, row, strm, overlap, job>>

Step(j) ==
    \/ \E t \in TF, op \in {"publish", "materialize"}, named \in BOOLEAN : Select(j, t, op, named)
    \/ \E t \in TF : Prepare(j, t) \/ Promote(j, t)
    \/ Reuse(j) \/ Republish(j) \/ Named(j)
    \/ Look(j) \/ Write(j) \/ Verify(j) \/ Commit(j)
    \/ List(j) \/ Visit(j)
    \/ Withdraw(j) \/ Scan(j) \/ Unlink(j)

Next == (\E j \in Job : Step(j)) \/ (\E t \in TF : RetryTime(t))

Spec == Init /\ [][Next]_vars

-----------------------------------------------------------------------------
(* Properties. *)

(* Every variable has its type. *)
PublicationTypeOK ==
    /\ kind \in {"movie", "episode"}
    /\ handoff \in [tf : TF \cup {None}, explicit : BOOLEAN]
    /\ desired \in {"none", "present", "absent"}
    /\ bindings \in Seq(History!Binding)
    /\ row \in TF \cup {None}
    /\ throttled \subseteq TF
    /\ committed \in BOOLEAN /\ strm \in BOOLEAN /\ overlap \in BOOLEAN
    /\ job \in [Job -> JobState]

(* What is unpublished has neither a row nor an active Binding. *)
AbsentIsNotServed == desired # "present" => row = None /\ ActiveTF = None

(* materialize.js: catalog builds "must skip such handoffs so routine
   PROPFIND/hydration traffic never resurrects removed publication".  What the
   code keeps of it: an unpublished unit stays out of the catalog, its row and
   its Binding with it, until a request or a promotion brings all of it back,
   or a sweep that was already awaiting its title.  A sweep that had listed the
   handoff before the unpublish and comes to it after does not. *)
ReturnAsked ==
    /\ AbsentIsNotServed'
    /\ desired = "absent" /\ desired' # "absent"
       => \E j \in Job : /\ job'[j] # job[j]
                        /\ \/ job'[j].op \in {"publish", "materialize", "promote"}
                           \/ job[j].op = "sweep" /\ job[j].at = "naming"

ReturnIsAsked == [][ReturnAsked]_vars

(* movie-webdav.js: "Unpublished items stay unpublished: catalog traffic must
   not resurrect removed VFS rows (re-request reactivates explicitly)." *)
CatalogNeverResurrects ==
    [][desired = "absent" /\ desired' = "present"
       => ~ \E j \in Job : job'[j] # job[j] /\ job'[j].op = "sweep"]_vars

(* A movie whose Binding is active is in the catalog. *)
MovieBoundIsServed ==
    kind = "movie" /\ ActiveTF # None => row # None /\ desired = "present"

(* materialize.js: "the VFS row is the source of truth for playback, and a
   binding-write failure must not regress that path".  An episode whose
   Binding is active is in the catalog too. *)
EpisodeBoundIsServed == kind = "episode" /\ ActiveTF # None => row # None

(* The Bindings implement the history the control plane promises. *)
ImplementsHistory == History!Spec

(* Once no job is at work on it, an unpublished unit has left no artifact,
   unless a publication was under way while it was unpublished. *)
AbsentLeavesNothing ==
    ~overlap /\ ~InProgress({"publish", "unpublish"}) /\ desired = "absent" => ~strm

(* Within a release, the active Binding leaves a file only for one a promotion
   has validated, or one settled before its job awaited a title: no sweep,
   request or republication of a stale handoff moves an episode of a pack to
   another file of it, failed activations in between or not. *)
RemapDecided ==
    ActiveTF # None /\ ActiveTF' # None /\ ActiveTF' # ActiveTF
        /\ ActiveTF'.release = ActiveTF.release
    => \E j \in Job : /\ job'[j] # job[j] /\ job'[j].tf = ActiveTF'
                      /\ \/ job[j].explicit
                         \/ job[j].at = "naming"
                         \/ job'[j].op = "promote"

RemapIsDecided == [][RemapDecided]_vars

(* materialize.js: "a stale handoff is projected onto the active Binding before
   VFS publication rather than being allowed to rewrite it".  The Binding a
   materialization finds when it activates its own is what its handoff was
   projected onto. *)
NamingKeepsBinding ==
    [][ActiveTF # None /\ ActiveTF' # ActiveTF /\ ActiveTF' # None
           /\ ActiveTF'.release = ActiveTF.release
       => \A j \in Job : job[j].at = "naming" /\ ~job[j].explicit => job'[j] = job[j]]_vars
=============================================================================
