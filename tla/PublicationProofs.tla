-------------------------- MODULE PublicationProofs --------------------------
(***************************************************************************)
(* Theorems of Publication, for any releases, files and number of jobs.    *)
(* The Bindings implement BindingHistory, so one at most is active; what   *)
(* is unpublished is not served; a movie with a Binding is; a file is      *)
(* remapped within its release only by a decision; and operations that do  *)
(* not overlap leave no artifact of what is unpublished.                   *)
(***************************************************************************)
EXTENDS Publication, TLAPS

-----------------------------------------------------------------------------
(* The history of Bindings. *)

(* A retired history has as many versions and none of them active. *)
LEMMA RetiredVersions ==
    ASSUME bindings \in Seq(History!Binding)
    PROVE  /\ History!Retired \in Seq(History!Binding)
           /\ Len(History!Retired) = Len(bindings)
           /\ \A v \in 1..Len(bindings) : History!Retired[v].status = "superseded"
<1>1. DOMAIN bindings = 1..Len(bindings) /\ Len(bindings) \in Nat
  OBVIOUS
<1>2. \A v \in 1..Len(bindings) : bindings[v] \in History!Binding
  OBVIOUS
<1>3. \A v \in 1..Len(bindings) :
         History!Superseded(bindings[v]) = [tf |-> bindings[v].tf, status |-> "superseded"]
  BY <1>2 DEF History!Superseded, History!Binding
<1>4. History!Retired =
         [v \in 1..Len(bindings) |-> [tf |-> bindings[v].tf, status |-> "superseded"]]
  BY <1>1, <1>3 DEF History!Retired
<1>5. \A v \in 1..Len(bindings) :
         [tf |-> bindings[v].tf, status |-> "superseded"] \in History!Binding
  BY <1>2 DEF History!Binding
<1> QED
  BY <1>1, <1>4, <1>5

(* What an activation does to the active Binding: it becomes the new one. *)
LEMMA ActivateSets ==
    ASSUME bindings \in Seq(History!Binding), NEW t \in TF, History!Activate(t)
    PROVE  bindings' \in Seq(History!Binding) /\ ActiveTF' = t
<1> DEFINE new == [tf |-> t, status |-> "active"]
           n == Len(bindings)
<1>1. new \in History!Binding
  BY DEF History!Binding
<1>2. bindings' = Append(History!Retired, new)
  BY DEF History!Activate
<1>3. /\ bindings' \in Seq(History!Binding)
      /\ DOMAIN bindings' = 1..(n + 1)
      /\ bindings'[n + 1] = new
      /\ \A v \in 1..n : bindings'[v].status = "superseded"
  BY <1>1, <1>2, RetiredVersions
<1>4. n + 1 \in 1..(n + 1) /\ new.status = "active" /\ new.tf = t
  OBVIOUS
<1>5. \E v \in DOMAIN bindings' : bindings'[v].status = "active"
  BY <1>3, <1>4
<1>6. \A v \in DOMAIN bindings' : bindings'[v].status = "active" => bindings'[v] = new
  BY <1>3
<1>7. (CHOOSE b \in {bindings'[v] : v \in DOMAIN bindings'} : b.status = "active") = new
  <2> HIDE DEF new
  <2> QED
    BY <1>5, <1>6
<1> QED
  BY <1>3, <1>4, <1>5, <1>7 DEF ActiveTF

(* A withdrawal leaves no Binding active. *)
LEMMA WithdrawClears ==
    ASSUME bindings \in Seq(History!Binding), History!Withdraw
    PROVE  bindings' \in Seq(History!Binding) /\ ActiveTF' = None
<1>1. /\ bindings' \in Seq(History!Binding)
      /\ \A v \in DOMAIN bindings' : bindings'[v].status = "superseded"
  BY RetiredVersions DEF History!Withdraw
<1> QED
  BY <1>1 DEF ActiveTF

(* The active Binding names a TorrentFile, or there is none. *)
LEMMA ActiveTFType ==
    ASSUME bindings \in Seq(History!Binding)
    PROVE  ActiveTF \in TF \cup {None}
<1>1. CASE \E v \in DOMAIN bindings : bindings[v].status = "active"
  <2>1. PICK v \in DOMAIN bindings : bindings[v].status = "active"
    BY <1>1
  <2> DEFINE S == {bindings[w] : w \in DOMAIN bindings}
             b == CHOOSE c \in S : c.status = "active"
  <2>2. bindings[v] \in S
    OBVIOUS
  <2>3. b \in S
    BY <2>1, <2>2
  <2>4. S \subseteq History!Binding
    OBVIOUS
  <2>5. b.tf \in TF
    BY <2>3, <2>4 DEF History!Binding
  <2> QED
    BY <1>1, <2>5 DEF ActiveTF
<1>2. CASE ~ \E v \in DOMAIN bindings : bindings[v].status = "active"
  BY <1>2 DEF ActiveTF
<1> QED
  BY <1>1, <1>2

-----------------------------------------------------------------------------
(* The inductive invariant. *)

(* The operations that materialize. *)
Materializing == {"publish", "materialize", "sweep", "promote"}

(* A job that is going to materialize a TorrentFile holds one. *)
JobsHold ==
    \A j \in Job : job[j].at \in {"naming", "read", "listed"} =>
        job[j].tf \in TF /\ job[j].op \in Materializing

PubInv == PublicationTypeOK /\ JobsHold /\ AbsentIsNotServed /\ MovieBoundIsServed

(* What a job's own record may become. *)
JobTo(j, op, at, t, explicit) ==
    job' = [job EXCEPT ![j] = [op |-> op, at |-> at, tf |-> t, explicit |-> explicit]]

(* A job's record keeps its type, and a file where it needs one. *)
LEMMA JobToStep ==
    ASSUME PubInv, NEW j \in Job, NEW op \in Operations, NEW at \in Places,
           NEW t \in TF \cup {None}, NEW explicit \in BOOLEAN,
           JobTo(j, op, at, t, explicit),
           at \in {"naming", "read", "listed"} => t \in TF /\ op \in Materializing
    PROVE  /\ job' \in [Job -> JobState] /\ JobsHold'
           /\ job'[j] = [op |-> op, at |-> at, tf |-> t, explicit |-> explicit]
<1> DEFINE r == [op |-> op, at |-> at, tf |-> t, explicit |-> explicit]
<1>1. r \in JobState
  BY DEF JobState
<1>2. job \in [Job -> JobState] /\ JobsHold
  BY DEF PubInv, PublicationTypeOK
<1>3. job' = [job EXCEPT ![j] = r]
  BY DEF JobTo
<1>4. r.at = at /\ r.tf = t /\ r.op = op
  OBVIOUS
<1>5. job'[j] = r /\ \A k \in Job \ {j} : job'[k] = job[k]
  BY <1>2, <1>3
<1>6. job' \in [Job -> JobState]
  <2> HIDE DEF r
  <2> QED  BY <1>1, <1>2, <1>3
<1>7. JobsHold'
  <2> HIDE DEF r
  <2> QED  BY <1>2, <1>4, <1>5 DEF JobsHold
<1> QED
  BY <1>5, <1>6, <1>7

(* A job that only goes on to its next place. *)
LEMMA GoesStep ==
    ASSUME PubInv, NEW j \in Job, NEW at \in Places \ {"naming", "read", "listed"}, Goes(j, at)
    PROVE  job' \in [Job -> JobState] /\ JobsHold'
<1>1. job \in [Job -> JobState] /\ JobsHold
  BY DEF PubInv, PublicationTypeOK
<1>2. \A k \in Job : job'[k] = IF k = j THEN [job[k] EXCEPT !.at = at] ELSE job[k]
  BY <1>1 DEF Goes
<1>3. [job[j] EXCEPT !.at = at] \in JobState /\ [job[j] EXCEPT !.at = at].at = at
  BY <1>1 DEF JobState
<1>4. job' \in [Job -> JobState]
  BY <1>1, <1>3 DEF Goes
<1>5. JobsHold'
  BY <1>1, <1>2, <1>3 DEF JobsHold
<1> QED
  BY <1>4, <1>5

-----------------------------------------------------------------------------
(* Materialization. *)

(* What converging the row to t leaves: the item is wanted, the row names t or
   was taken away, and the active Binding is the old one or names t. *)
LEMMA ConvergedStep ==
    ASSUME PubInv, NEW t \in TF, NEW observed \in {"fresh", "extended", "stale", "refused"},
           Converged(t, observed)
    PROVE  /\ desired' = "present" /\ row' \in {t, None} /\ throttled' \subseteq TF
           /\ kind = "movie" => row' = t
           /\ bindings' \in Seq(History!Binding)
           /\ [History!Next]_bindings
           /\ ActiveTF' # ActiveTF => ActiveTF' = t
<1>1. bindings \in Seq(History!Binding) /\ throttled \subseteq TF
  BY DEF PubInv, PublicationTypeOK
<1>2. desired' = "present"
  BY DEF Converged, Wanted
<1>3. CASE ActiveTF = t \/ ActivationKey(t) \in throttled
  <2>1. row' = t /\ UNCHANGED <<bindings, throttled>>
    BY <1>3 DEF Converged
  <2>2. ActiveTF' = ActiveTF
    BY <2>1 DEF ActiveTF
  <2> QED
    BY <1>1, <1>2, <2>1, <2>2
<1>4. CASE ~(ActiveTF = t \/ ActivationKey(t) \in throttled)
  <2>1. row' = IF OrphanRemoved(observed) THEN None ELSE t
    BY <1>4 DEF Converged
  <2>2. kind = "movie" => row' = t
    BY <2>1 DEF OrphanRemoved
  <2>3. CASE Activates(t, observed)
    <3>1. History!Activate(t) /\ throttled' = throttled \ {t}
      BY <1>4, <2>3 DEF Converged, Activated, ActivationKey
    <3>2. bindings' \in Seq(History!Binding) /\ ActiveTF' = t
      BY <1>1, <3>1, ActivateSets
    <3> QED
      BY <1>1, <1>2, <2>1, <2>2, <3>1, <3>2 DEF History!Next
  <2>4. CASE ~Activates(t, observed)
    <3>1. UNCHANGED bindings /\ throttled' \subseteq TF
      BY <1>1, <1>4, <2>4 DEF Converged, ActivationKey
    <3>2. ActiveTF' = ActiveTF
      BY <3>1 DEF ActiveTF
    <3> QED
      BY <1>1, <1>2, <2>1, <2>2, <3>1, <3>2
  <2> QED
    BY <2>3, <2>4
<1> QED
  BY <1>3, <1>4

(* Served: what materialization, and everything else, preserves of the item. *)
Served ==
    /\ desired \in {"none", "present", "absent"} /\ bindings \in Seq(History!Binding)
    /\ row \in TF \cup {None} /\ throttled \subseteq TF
    /\ AbsentIsNotServed /\ MovieBoundIsServed

(* The active Binding is a function of the Bindings, so a step that leaves the
   item alone preserves all that is said of it. *)
LEMMA ServedStutters ==
    ASSUME Served, UNCHANGED <<kind, desired, bindings, row, throttled>>
    PROVE  Served' /\ ActiveTF' = ActiveTF /\ [History!Next]_bindings
<1>1. ActiveTF' = ActiveTF
  BY DEF ActiveTF
<1> QED
  BY <1>1 DEF Served, AbsentIsNotServed, MovieBoundIsServed

LEMMA InvServed == PubInv => Served
BY DEF PubInv, PublicationTypeOK, Served

(* A job that materializes t: the item is served, and what its Bindings have
   moved to, if anything, is t. *)
LEMMA MaterializeStep ==
    ASSUME PubInv, NEW j \in Job, NEW op \in Operations, NEW t \in TF,
           Materialize(j, op, t), UNCHANGED kind
    PROVE  /\ Served' /\ job' \in [Job -> JobState] /\ JobsHold'
           /\ [History!Next]_bindings
           /\ ActiveTF' # ActiveTF => ActiveTF' = t
           /\ job'[j].op = op /\ job'[j].tf = t
           /\ job'[j].at \in {"look", "done", "failed"}
<1> DEFINE J(at) == /\ job' \in [Job -> JobState] /\ JobsHold'
                    /\ job'[j].op = op /\ job'[j].tf = t
                    /\ job'[j].at = at
<1>1. \A at \in {"look", "done", "failed"} : JobTo(j, op, at, t, FALSE) => J(at)
  <2> SUFFICES ASSUME NEW at \in {"look", "done", "failed"}, JobTo(j, op, at, t, FALSE)
               PROVE  J(at)
    OBVIOUS
  <2>1. at \in Places /\ t \in TF \cup {None} /\ FALSE \in BOOLEAN
    BY DEF Places
  <2>2. at \notin {"naming", "read", "listed"}
    OBVIOUS
  <2>3. /\ job' \in [Job -> JobState] /\ JobsHold'
        /\ job'[j] = [op |-> op, at |-> at, tf |-> t, explicit |-> FALSE]
    BY <2>1, <2>2, JobToStep
  <2> QED
    BY <2>3
<1>2. CASE Clashes(t)
  <2>1. JobTo(j, op, "failed", t, FALSE) /\ UNCHANGED <<desired, bindings, row, throttled>>
    BY <1>2 DEF Materialize, JobTo
  <2> QED
    BY <1>1, <2>1, InvServed, ServedStutters
<1>3. CASE ~Clashes(t)
  <2>1. JobTo(j, op, After(op), t, FALSE)
    BY <1>3 DEF Materialize, JobTo
  <2>2. PICK observed \in {"fresh", "extended", "stale", "refused"} : Converged(t, observed)
    BY <1>3 DEF Materialize
  <2>3. After(op) \in {"look", "done", "failed"}
    BY DEF After
  <2>4. /\ desired' = "present" /\ row' \in {t, None} /\ throttled' \subseteq TF
        /\ kind = "movie" => row' = t
        /\ bindings' \in Seq(History!Binding)
        /\ [History!Next]_bindings
        /\ ActiveTF' # ActiveTF => ActiveTF' = t
    BY <2>2, ConvergedStep
  <2>5. t # None
    BY NoneIsNoFile
  <2>6. Served'
    BY <2>4, <2>5 DEF Served, AbsentIsNotServed, MovieBoundIsServed
  <2> QED
    BY <1>1, <2>1, <2>3, <2>4, <2>6
<1> QED
  BY <1>2, <1>3

(* What a handoff is projected onto: a TorrentFile, and unless it was decided
   never another file of the release that is bound. *)
LEMMA TargetProjects ==
    ASSUME bindings \in Seq(History!Binding), NEW t \in TF, NEW explicit \in BOOLEAN
    PROVE  /\ Target(t, explicit) \in TF
           /\ ~explicit /\ ActiveTF # None =>
                 \/ Target(t, explicit) = ActiveTF
                 \/ Target(t, explicit).release # ActiveTF.release
BY ActiveTFType DEF Target

(* A job that enters materialization, at once or after a title. *)
LEMMA EnterStep ==
    ASSUME PubInv, NEW j \in Job, NEW op \in Materializing, NEW t \in TF,
           NEW explicit \in BOOLEAN, NEW named \in BOOLEAN,
           Enter(j, op, t, explicit, named), UNCHANGED kind
    PROVE  /\ Served' /\ job' \in [Job -> JobState] /\ JobsHold'
           /\ [History!Next]_bindings
           /\ ActiveTF' # ActiveTF =>
                 /\ ActiveTF' = Target(t, explicit) /\ job'[j].tf = ActiveTF'
                 /\ job'[j].op = op /\ job'[j].at \in {"look", "done", "failed"}
           /\ desired' # desired =>
                 job'[j].op = op /\ job'[j].at \in {"look", "done", "failed"}
<1>1. Target(t, explicit) \in TF
  BY TargetProjects DEF PubInv, PublicationTypeOK
<1> op \in Operations
  BY DEF Materializing, Operations
<1>2. CASE row = None /\ ~committed /\ ~named
  <2>1. /\ JobTo(j, op, "naming", Target(t, explicit), explicit)
        /\ UNCHANGED <<desired, bindings, row, throttled>>
    BY <1>2 DEF Enter, JobTo
  <2>2. job' \in [Job -> JobState] /\ JobsHold'
    <3>1. "naming" \in Places /\ Target(t, explicit) \in TF \cup {None}
      BY <1>1 DEF Places
    <3> QED
      BY <1>1, <2>1, <3>1, JobToStep
  <2> QED
    BY <2>1, <2>2, InvServed, ServedStutters
<1>3. CASE ~(row = None /\ ~committed /\ ~named)
  <2>1. Materialize(j, op, Target(t, explicit))
    BY <1>3 DEF Enter
  <2> QED
    BY <1>1, <2>1, MaterializeStep
<1> QED
  BY <1>2, <1>3

-----------------------------------------------------------------------------
(* The steps. *)

Frame ==
    /\ kind \in {"movie", "episode"} /\ handoff \in [tf : TF \cup {None}, explicit : BOOLEAN]
    /\ committed \in BOOLEAN /\ strm \in BOOLEAN /\ overlap \in BOOLEAN

(* The invariant, taken apart and put together again. *)
LEMMA InvParts ==
    PubInv => Frame /\ Served /\ job \in [Job -> JobState] /\ JobsHold
BY DEF PubInv, PublicationTypeOK, Frame, Served

LEMMA InvWhole ==
    Frame' /\ Served' /\ job' \in [Job -> JobState]' /\ JobsHold' => PubInv'
BY DEF PubInv, PublicationTypeOK, Frame, Served

(* What every step is to have: the invariant again, a step of the history, and
   neither an undecided remap nor an unasked return. *)
Good == PubInv' /\ [History!Next]_bindings /\ RemapDecided /\ ReturnAsked

(* A step that leaves the item and its row alone. *)
LEMMA QuietStep ==
    ASSUME PubInv, Frame', job' \in [Job -> JobState], JobsHold',
           UNCHANGED <<kind, desired, bindings, row, throttled>>
    PROVE  Good
<1>1. Served' /\ ActiveTF' = ActiveTF /\ [History!Next]_bindings
  BY InvServed, ServedStutters
<1>2. PubInv'
  BY <1>1, InvWhole
<1>3. ReturnAsked
  BY <1>2 DEF ReturnAsked, PubInv
<1> QED
  BY <1>1, <1>2, <1>3 DEF Good, RemapDecided

(* The handoff a request leaves. *)
LEMMA UpsertType ==
    ASSUME PubInv, NEW t \in TF, NEW explicit \in BOOLEAN, Upsert(t, explicit)
    PROVE  handoff' \in [tf : TF \cup {None}, explicit : BOOLEAN]
BY DEF PubInv, PublicationTypeOK, Upsert

(* A job that enters materialization and was not there before. *)
LEMMA EnterGood ==
    ASSUME PubInv, Frame', NEW j \in Job, NEW op \in Materializing, NEW t \in TF,
           NEW explicit \in BOOLEAN, NEW named \in BOOLEAN,
           Enter(j, op, t, explicit, named), UNCHANGED kind,
           job[j].at \notin {"look", "done", "failed"},
           explicit => job[j].explicit \/ op = "promote",
           op = "sweep" => desired # "absent"
    PROVE  Good
<1>1. /\ Served' /\ job' \in [Job -> JobState] /\ JobsHold'
      /\ [History!Next]_bindings
      /\ ActiveTF' # ActiveTF =>
            /\ ActiveTF' = Target(t, explicit) /\ job'[j].tf = ActiveTF'
            /\ job'[j].op = op /\ job'[j].at \in {"look", "done", "failed"}
      /\ desired' # desired =>
            job'[j].op = op /\ job'[j].at \in {"look", "done", "failed"}
  BY EnterStep
<1>2. PubInv'
  BY <1>1, InvWhole
<1>3. ~explicit /\ ActiveTF # None =>
         \/ Target(t, explicit) = ActiveTF
         \/ Target(t, explicit).release # ActiveTF.release
  BY TargetProjects DEF PubInv, PublicationTypeOK
<1>4. RemapDecided
  <2> SUFFICES ASSUME ActiveTF # None, ActiveTF' # ActiveTF,
                      ActiveTF'.release = ActiveTF.release
               PROVE  /\ job'[j] # job[j] /\ job'[j].tf = ActiveTF'
                      /\ job[j].explicit \/ job'[j].op = "promote"
    BY DEF RemapDecided
  <2>1. explicit
    BY <1>1, <1>3
  <2> QED
    BY <1>1, <2>1
<1>5. ReturnAsked
  <2>1. AbsentIsNotServed'
    BY <1>2 DEF PubInv
  <2>2. ASSUME desired = "absent", desired' # "absent"
        PROVE  job'[j] # job[j] /\ job'[j].op \in {"publish", "materialize", "promote"}
    BY <1>1, <2>2 DEF Materializing
  <2> QED
    BY <2>1, <2>2 DEF ReturnAsked
<1> QED
  BY <1>1, <1>2, <1>4, <1>5 DEF Good

(* A job that awaited its title. *)
LEMMA NamedGood == ASSUME PubInv, NEW j \in Job, Named(j) PROVE Good
<1>1. /\ job[j].at = "naming" /\ Materialize(j, job[j].op, job[j].tf)
      /\ UNCHANGED <<kind, handoff, committed, strm, overlap>>
  BY DEF Named
<1>2. job[j].tf \in TF /\ job[j].op \in Materializing /\ job[j].op \in Operations
  BY <1>1 DEF PubInv, JobsHold, Materializing, Operations
<1>3. /\ Served' /\ job' \in [Job -> JobState] /\ JobsHold'
      /\ [History!Next]_bindings
      /\ ActiveTF' # ActiveTF => ActiveTF' = job[j].tf
      /\ job'[j].op = job[j].op /\ job'[j].tf = job[j].tf
      /\ job'[j].at \in {"look", "done", "failed"}
  BY <1>1, <1>2, MaterializeStep
<1>4. Frame'
  BY <1>1, InvParts DEF Frame
<1>5. PubInv'
  BY <1>3, <1>4, InvWhole
<1>6. RemapDecided
  BY <1>1, <1>3 DEF RemapDecided
<1>7. ReturnAsked
  <2>1. AbsentIsNotServed'
    BY <1>5 DEF PubInv
  <2>2. job'[j] # job[j]
    BY <1>1, <1>3
  <2>3. job'[j].op \in {"publish", "materialize", "promote"} \/ job[j].op = "sweep"
    BY <1>2, <1>3 DEF Materializing
  <2> QED
    BY <1>1, <2>1, <2>2, <2>3 DEF ReturnAsked
<1> QED
  BY <1>3, <1>5, <1>6, <1>7 DEF Good

(* The jobs that only move on, and those that touch the artifact. *)
LEMMA ArtifactGood ==
    ASSUME PubInv, NEW j \in Job,
           Look(j) \/ Write(j) \/ Verify(j) \/ Commit(j) \/ Scan(j) \/ Unlink(j)
    PROVE  Good
<1> DEFINE Next1 == {"write", "done", "commit", "verify", "repair", "unlink"}
<1>1. PICK at \in Next1 : Goes(j, at)
  BY DEF Look, Write, Verify, Commit, Scan, Unlink
<1>2. at \in Places \ {"naming", "read", "listed"}
  BY DEF Places
<1>3. job' \in [Job -> JobState] /\ JobsHold'
  BY <1>1, <1>2, GoesStep
<1>4. Frame' /\ UNCHANGED <<kind, desired, bindings, row, throttled>>
  BY InvParts DEF Frame, Look, Write, Verify, Commit, Scan, Unlink
<1> QED
  BY <1>3, <1>4, QuietStep

(* A job that only notes the handoff it will work from. *)
LEMMA NotedGood ==
    ASSUME PubInv, NEW j \in Job,
           Reuse(j) \/ List(j) \/ \E t \in TF : Prepare(j, t)
    PROVE  Good
<1>1. UNCHANGED <<kind, desired, bindings, row, throttled>>
  BY DEF Reuse, List, Prepare
<1>2. handoff \in [tf : TF \cup {None}, explicit : BOOLEAN]
  BY DEF PubInv, PublicationTypeOK
<1>3. CASE Reuse(j)
  <2>1. JobTo(j, "publish", "read", handoff.tf, handoff.explicit) /\ handoff.tf \in TF
    BY <1>2, <1>3 DEF Reuse, JobTo
  <2>2. /\ "publish" \in Operations /\ "publish" \in Materializing /\ "read" \in Places
        /\ handoff.explicit \in BOOLEAN
    BY <1>2 DEF Operations, Materializing, Places
  <2>3. job' \in [Job -> JobState] /\ JobsHold'
    BY <2>1, <2>2, JobToStep
  <2>4. Frame'
    BY <1>3, InvParts DEF Frame, Reuse, StartsPublication
  <2> QED
    BY <1>1, <2>3, <2>4, QuietStep
<1>4. CASE List(j)
  <2>1. JobTo(j, "sweep", "listed", handoff.tf, handoff.explicit) /\ handoff.tf \in TF
    BY <1>2, <1>4 DEF List, JobTo
  <2>2. /\ "sweep" \in Operations /\ "sweep" \in Materializing /\ "listed" \in Places
        /\ handoff.explicit \in BOOLEAN
    BY <1>2 DEF Operations, Materializing, Places
  <2>3. job' \in [Job -> JobState] /\ JobsHold'
    BY <2>1, <2>2, JobToStep
  <2>4. Frame'
    BY <1>4, InvParts DEF Frame, List
  <2> QED
    BY <1>1, <2>3, <2>4, QuietStep
<1>5. ASSUME NEW t \in TF, Prepare(j, t) PROVE Good
  <2>1. JobTo(j, "prepare", "done", t, FALSE) /\ Upsert(t, FALSE)
    BY <1>5 DEF Prepare, JobTo
  <2>2. "prepare" \in Operations /\ "done" \in Places
    BY DEF Operations, Places
  <2>3. job' \in [Job -> JobState] /\ JobsHold'
    BY <2>1, <2>2, JobToStep
  <2>4. Frame'
    BY <1>5, <2>1, UpsertType, InvParts DEF Frame, Prepare
  <2> QED
    BY <1>1, <2>3, <2>4, QuietStep
<1> QED
  BY <1>3, <1>4, <1>5

(* An unpublish. *)
LEMMA WithdrawGood == ASSUME PubInv, NEW j \in Job, Withdraw(j) PROVE Good
<1> DEFINE at == IF Unpublishes THEN "scan" ELSE "done"
<1>1. JobTo(j, "unpublish", at, None, FALSE)
  BY DEF Withdraw, JobTo
<1>2. /\ "unpublish" \in Operations /\ at \in Places
      /\ at \notin {"naming", "read", "listed"} /\ None \in TF \cup {None}
  BY DEF Operations, Places
<1>3. job' \in [Job -> JobState] /\ JobsHold'
  <2> HIDE DEF at
  <2> QED  BY <1>1, <1>2, JobToStep
<1>4. Frame'
  BY InvParts DEF Frame, Withdraw
<1>5. row' = None /\ UNCHANGED <<kind, throttled>>
  BY DEF Withdraw
<1>6. /\ desired' \in {"none", "present", "absent"} /\ bindings' \in Seq(History!Binding)
      /\ ActiveTF' = None /\ [History!Next]_bindings
  <2>1. bindings \in Seq(History!Binding)
    BY DEF PubInv, PublicationTypeOK
  <2>2. CASE desired = "none"
    <3>1. UNCHANGED <<desired, bindings>>
      BY <2>2 DEF Withdraw
    <3>2. ActiveTF' = ActiveTF
      BY <3>1 DEF ActiveTF
    <3> QED
      BY <2>1, <2>2, <3>1, <3>2 DEF PubInv, AbsentIsNotServed
  <2>3. CASE desired # "none"
    <3>1. desired' = "absent" /\ History!Withdraw
      BY <2>3 DEF Withdraw
    <3> QED
      BY <2>1, <3>1, WithdrawClears DEF History!Next
  <2> QED
    BY <2>2, <2>3
<1>7. Served'
  BY <1>5, <1>6, InvServed DEF Served, AbsentIsNotServed, MovieBoundIsServed
<1>8. PubInv'
  BY <1>3, <1>4, <1>7, InvWhole
<1>9. desired = "absent" => desired' = "absent"
  BY DEF Withdraw
<1>10. ReturnAsked
  BY <1>8, <1>9 DEF ReturnAsked, PubInv
<1> QED
  BY <1>6, <1>8, <1>10 DEF Good, RemapDecided

(* Time passes for a throttled activation. *)
LEMMA RetryTimeGood == ASSUME PubInv, NEW t \in TF, RetryTime(t) PROVE Good
<1>1. /\ UNCHANGED <<kind, handoff, desired, committed, bindings, row, strm, overlap, job>>
      /\ throttled' \subseteq TF
  BY DEF PubInv, PublicationTypeOK, RetryTime
<1>2. ActiveTF' = ActiveTF
  BY <1>1 DEF ActiveTF
<1>3. PubInv'
  BY <1>1, <1>2 DEF PubInv, PublicationTypeOK, JobsHold, AbsentIsNotServed, MovieBoundIsServed
<1>4. ReturnAsked
  BY <1>1, <1>3 DEF ReturnAsked, PubInv
<1> QED
  BY <1>1, <1>2, <1>3, <1>4 DEF Good, RemapDecided

(* The steps that may enter materialization. *)
LEMMA SelectGood ==
    ASSUME PubInv, NEW j \in Job, NEW t \in TF, NEW op \in {"publish", "materialize"},
           NEW named \in BOOLEAN, Select(j, t, op, named)
    PROVE  Good
<1>1. Enter(j, op, t, FALSE, named) /\ UNCHANGED kind /\ job[j].at = "new"
  BY DEF Select
<1>2. Frame'
  BY UpsertType, InvParts DEF Frame, Select, StartsPublication
<1>3. op \in Materializing /\ op # "sweep"
  BY DEF Materializing
<1> QED
  BY <1>1, <1>2, <1>3, EnterGood

LEMMA RepublishGood == ASSUME PubInv, NEW j \in Job, Republish(j) PROVE Good
<1>1. PICK named \in BOOLEAN : Enter(j, "publish", job[j].tf, job[j].explicit, named)
  BY DEF Republish
<1>2. UNCHANGED kind /\ job[j].at = "read" /\ Frame'
  BY InvParts DEF Frame, Republish
<1>3. job[j].tf \in TF /\ job[j].explicit \in BOOLEAN /\ "publish" \in Materializing
  BY <1>2 DEF PubInv, PublicationTypeOK, JobsHold, JobState, Materializing
<1> QED
  BY <1>1, <1>2, <1>3, EnterGood

LEMMA VisitGood == ASSUME PubInv, NEW j \in Job, Visit(j) PROVE Good
<1>1. UNCHANGED kind /\ job[j].at = "listed" /\ Frame'
  BY InvParts DEF Frame, Visit
<1>2. CASE desired = "absent"
  <2>1. Goes(j, "done") /\ UNCHANGED <<kind, desired, bindings, row, throttled>>
    BY <1>1, <1>2 DEF Visit
  <2>2. "done" \in Places \ {"naming", "read", "listed"}
    BY DEF Places
  <2>3. job' \in [Job -> JobState] /\ JobsHold'
    BY <2>1, <2>2, GoesStep
  <2> QED
    BY <1>1, <2>1, <2>3, QuietStep
<1>3. CASE desired # "absent"
  <2>1. Enter(j, "sweep", job[j].tf, job[j].explicit, FALSE)
    BY <1>3 DEF Visit
  <2>2. job[j].tf \in TF /\ job[j].explicit \in BOOLEAN /\ "sweep" \in Materializing
    BY <1>1 DEF PubInv, PublicationTypeOK, JobsHold, JobState, Materializing
  <2> QED
    BY <1>1, <1>3, <2>1, <2>2, EnterGood
<1> QED
  BY <1>2, <1>3

LEMMA PromoteGood == ASSUME PubInv, NEW j \in Job, NEW t \in TF, Promote(j, t) PROVE Good
<1>1. Enter(j, "promote", t, TRUE, FALSE) /\ UNCHANGED kind /\ job[j].at = "new"
  BY DEF Promote
<1>2. Frame'
  BY UpsertType, InvParts DEF Frame, Promote
<1>3. "promote" \in Materializing
  BY DEF Materializing
<1> QED
  BY <1>1, <1>2, <1>3, EnterGood

-----------------------------------------------------------------------------
(* The theorems. *)

LEMMA PubInit == Init => PubInv /\ History!Init
<1> SUFFICES ASSUME Init PROVE PubInv /\ History!Init
  OBVIOUS
<1>1. ActiveTF = None /\ bindings \in Seq(History!Binding) /\ History!Init
  BY DEF Init, ActiveTF, History!Init
<1>2. /\ \A j \in Job : job[j].at = "new"
      /\ job \in [Job -> JobState]
  BY DEF Init, NewJob, JobState, Operations, Places
<1> QED
  BY <1>1, <1>2 DEF Init, NoHandoff, PubInv, PublicationTypeOK, JobsHold,
                    AbsentIsNotServed, MovieBoundIsServed

LEMMA PubStep == PubInv /\ [Next]_vars => Good
<1> SUFFICES ASSUME PubInv, [Next]_vars PROVE Good
  OBVIOUS
<1>1. ASSUME NEW j \in Job, Step(j) PROVE Good
  BY <1>1, SelectGood, NotedGood, PromoteGood, RepublishGood, NamedGood, ArtifactGood,
     VisitGood, WithdrawGood DEF Step
<1>2. ASSUME NEW t \in TF, RetryTime(t) PROVE Good
  BY <1>2, RetryTimeGood
<1>3. CASE UNCHANGED vars
  <2>1. Frame' /\ job' \in [Job -> JobState] /\ JobsHold'
        /\ UNCHANGED <<kind, desired, bindings, row, throttled>>
    BY <1>3, InvParts DEF vars, Frame, JobsHold
  <2> QED
    BY <2>1, QuietStep
<1> QED
  BY <1>1, <1>2, <1>3 DEF Next

LEMMA PubInvariant == Spec => []PubInv
<1>1. Init => PubInv
  BY PubInit
<1>2. PubInv /\ [Next]_vars => PubInv'
  BY PubStep DEF Good
<1> QED
  BY <1>1, <1>2, PTL DEF Spec

(* Every variable keeps its type. *)
THEOREM PublicationTypeCorrect == Spec => []PublicationTypeOK
BY PubInvariant, PTL DEF PubInv

(* What is unpublished has no row and no active Binding. *)
THEOREM AbsentNotServed == Spec => []AbsentIsNotServed
BY PubInvariant, PTL DEF PubInv

(* A movie with an active Binding is in the catalog. *)
THEOREM MovieServed == Spec => []MovieBoundIsServed
BY PubInvariant, PTL DEF PubInv

(* The Bindings implement the history the control plane promises. *)
THEOREM PublicationImplementsHistory == Spec => ImplementsHistory
<1>1. PubInv /\ [Next]_vars => [History!Next]_bindings
  BY PubStep DEF Good
<1>2. Init => History!Init
  BY PubInit
<1> QED
  BY <1>1, <1>2, PubInvariant, PTL DEF Spec, ImplementsHistory, History!Spec

(* Only a decision, or a file settled before a title was awaited, moves the
   active Binding to another file of its release. *)
THEOREM RemapsAreDecided == Spec => RemapIsDecided
<1>1. PubInv /\ [Next]_vars => [RemapDecided]_vars
  BY PubStep DEF Good
<1> QED
  BY <1>1, PubInvariant, PTL DEF Spec, RemapIsDecided

(* Only a request, a promotion, or a sweep that awaited its title when the unit
   was unpublished, brings it back, and never by halves. *)
THEOREM ReturnsAreAsked == Spec => ReturnIsAsked
<1>1. PubInv /\ [Next]_vars => [ReturnAsked]_vars
  BY PubStep DEF Good
<1> QED
  BY <1>1, PubInvariant, PTL DEF Spec, ReturnIsAsked

(* However the item is published, at most one of its Bindings is active. *)
THEOREM OneBindingActive == Spec => []History!OneActive
<1> DEFINE Inv == bindings \in Seq(History!Binding) /\ History!OneActive
<1>1. Init => Inv
  BY PubInit DEF Init, History!OneActive, PubInv, PublicationTypeOK
<1>2. PubInv /\ Inv /\ [Next]_vars => Inv'
  <2> SUFFICES ASSUME PubInv, Inv, [Next]_vars PROVE Inv'
    OBVIOUS
  <2>1. Good
    BY PubStep
  <2>2. bindings' \in Seq(History!Binding)
    BY <2>1 DEF Good, PubInv, PublicationTypeOK
  <2>3. ASSUME NEW t \in TF, History!Activate(t) PROVE History!OneActive'
    <3> DEFINE new == [tf |-> t, status |-> "active"]
    <3>1. bindings' = Append(History!Retired, new)
      BY <2>3 DEF History!Activate
    <3>2. /\ DOMAIN bindings' = 1..(Len(bindings) + 1)
          /\ \A v \in 1..Len(bindings) : bindings'[v].status = "superseded"
      <4> HIDE DEF new
      <4> QED  BY <3>1, RetiredVersions
    <3> QED
      BY <3>2 DEF History!OneActive
  <2>4. ASSUME History!Withdraw PROVE History!OneActive'
    BY <2>4, RetiredVersions DEF History!Withdraw, History!OneActive
  <2>5. ASSUME UNCHANGED bindings PROVE History!OneActive'
    BY <2>5 DEF History!OneActive
  <2> QED
    BY <2>1, <2>2, <2>3, <2>4, <2>5 DEF Good, History!Next
<1> QED
  BY <1>1, <1>2, PubInvariant, PTL DEF Spec

-----------------------------------------------------------------------------
(* What an unpublish leaves.  A job's place tells its operation apart; while *)
(* the item is absent and nothing has overlapped, a publication has not yet  *)
(* materialized (or it would be present again), and an artifact that is      *)
(* still there is one that an unpublish is yet to find.                      *)

PlaceOK(r) ==
    /\ r.at \in {"read", "look", "write", "verify", "repair", "commit"} => r.op = "publish"
    /\ r.at \in {"scan", "unlink"} => r.op = "unpublish"
    /\ r.op = "unpublish" => r.at \in {"scan", "unlink", "done"}
    /\ r.op = "publish" => r.at # "new"

JobPlaces == \A j \in Job : PlaceOK(job[j])

Undisturbed == ~overlap /\ desired = "absent"

Late == Undisturbed => \A j \in Job :
            job[j].op = "publish" => job[j].at \in {"read", "naming", "done", "failed"}

Found == Undisturbed /\ strm => InProgress({"unpublish"})

LeftInv == JobPlaces /\ Late /\ Found

(* One job moves and the others stay. *)
LEMMA PlacesStep ==
    ASSUME JobPlaces, job \in [Job -> JobState], NEW j \in Job, NEW r \in JobState,
           PlaceOK(r), job' = [job EXCEPT ![j] = r]
    PROVE  JobPlaces' /\ job'[j] = r /\ \A k \in Job \ {j} : job'[k] = job[k]
<1>1. job'[j] = r /\ \A k \in Job \ {j} : job'[k] = job[k]
  OBVIOUS
<1> QED
  BY <1>1 DEF JobPlaces

(* An unpublish that is not of the job that moves stays in progress. *)
LEMMA StaysInProgress ==
    ASSUME NEW j \in Job, job[j].op # "unpublish" \/ job[j].at = "done",
           \A k \in Job \ {j} : job'[k] = job[k], InProgress({"unpublish"})
    PROVE  InProgress({"unpublish"})'
<1>1. PICK k \in Job : job[k].op \in {"unpublish"} /\ job[k].at \notin {"done", "failed"}
  BY DEF InProgress
<1>2. job'[k] = job[k]
  BY <1>1
<1> QED
  BY <1>1, <1>2 DEF InProgress

(* A materialization wants the item again: an absent one has no row that could
   refuse it. *)
LEMMA MaterializeWants ==
    ASSUME PubInv, NEW j \in Job, NEW op \in Operations, NEW t \in TF, Materialize(j, op, t)
    PROVE  desired' = "present"
<1>1. CASE Clashes(t)
  BY <1>1 DEF Clashes, Materialize, PubInv, AbsentIsNotServed
<1>2. CASE ~Clashes(t)
  BY <1>2 DEF Materialize, Converged, Wanted
<1> QED
  BY <1>1, <1>2

LEMMA MaterializeLeft ==
    ASSUME PubInv, LeftInv, NEW j \in Job, NEW op \in Operations \ {"unpublish"}, NEW t \in TF,
           Materialize(j, op, t)
    PROVE  LeftInv'
<1>1. desired' = "present"
  BY MaterializeWants
<1>2. PICK at \in {"look", "done", "failed"} :
         /\ job' = [job EXCEPT ![j] = [op |-> op, at |-> at, tf |-> t, explicit |-> FALSE]]
         /\ at = "look" => op = "publish"
  BY DEF Materialize, After
<1> DEFINE r == [op |-> op, at |-> at, tf |-> t, explicit |-> FALSE]
<1>3. r \in JobState /\ PlaceOK(r)
  BY <1>2 DEF JobState, Operations, Places, PlaceOK
<1>4. JobPlaces'
  <2> HIDE DEF r
  <2>1. job \in [Job -> JobState] /\ JobPlaces
    BY DEF PubInv, PublicationTypeOK, LeftInv
  <2>2. job' = [job EXCEPT ![j] = r]
    BY <1>2 DEF r
  <2> QED
    BY <1>3, <2>1, <2>2, PlacesStep
<1> QED
  BY <1>1, <1>4 DEF LeftInv, Late, Found, Undisturbed

(* A job that takes a record of its own, of no unpublish, and leaves the
   artifact and the item as they were. *)
LEMMA NotedLeft ==
    ASSUME PubInv, LeftInv, NEW j \in Job, NEW r \in JobState,
           PlaceOK(r), job' = [job EXCEPT ![j] = r],
           job[j].op # "unpublish",
           r.op = "publish" => r.at \in {"read", "naming", "done", "failed"},
           desired' = desired, strm' = strm, overlap => overlap'
    PROVE  LeftInv'
<1>1. job \in [Job -> JobState] /\ JobPlaces /\ Late /\ Found /\ overlap \in BOOLEAN
  BY DEF PubInv, PublicationTypeOK, LeftInv
<1>2. JobPlaces' /\ job'[j] = r /\ \A k \in Job \ {j} : job'[k] = job[k]
  BY <1>1, PlacesStep
<1>3. Undisturbed' => Undisturbed
  BY DEF Undisturbed
<1>4. Late'
  BY <1>1, <1>2, <1>3 DEF Late
<1>5. InProgress({"unpublish"}) => InProgress({"unpublish"})'
  BY <1>2, StaysInProgress
<1>6. Found'
  BY <1>1, <1>3, <1>5 DEF Found
<1> QED
  BY <1>2, <1>4, <1>6 DEF LeftInv

(* A job that enters materialization has its title, or awaits it. *)
LEMMA EnterLeft ==
    ASSUME PubInv, LeftInv, NEW j \in Job, NEW op \in Operations \ {"unpublish"}, NEW t \in TF,
           NEW explicit \in BOOLEAN, NEW named \in BOOLEAN, Enter(j, op, t, explicit, named),
           job[j].op # "unpublish", strm' = strm, overlap => overlap'
    PROVE  LeftInv'
<1>1. Target(t, explicit) \in TF
  BY TargetProjects DEF PubInv, PublicationTypeOK
<1>2. CASE row = None /\ ~committed /\ ~named
  <2> DEFINE r == [op |-> op, at |-> "naming", tf |-> Target(t, explicit), explicit |-> explicit]
  <2>1. job' = [job EXCEPT ![j] = r] /\ desired' = desired
    BY <1>2 DEF Enter
  <2>2. r \in JobState /\ PlaceOK(r) /\ r.at = "naming"
    BY <1>1 DEF JobState, Operations, Places, PlaceOK
  <2> HIDE DEF r
  <2> QED
    BY <2>1, <2>2, NotedLeft
<1>3. CASE ~(row = None /\ ~committed /\ ~named)
  BY <1>1, <1>3, MaterializeLeft DEF Enter
<1> QED
  BY <1>2, <1>3

(* Only a publication handles the artifact on its way, and not while the item
   is absent and undisturbed. *)
LEMMA ArtifactLeft ==
    ASSUME PubInv, LeftInv, NEW j \in Job, Look(j) \/ Write(j) \/ Verify(j) \/ Commit(j)
    PROVE  LeftInv'
<1>1. job[j].at \in {"look", "write", "verify", "repair", "commit"}
  BY DEF Look, Write, Verify, Commit
<1>2. PICK at \in {"write", "done", "commit", "verify", "repair"} : Goes(j, at)
  BY DEF Look, Write, Verify, Commit
<1>3. job \in [Job -> JobState] /\ JobPlaces /\ Late
  BY DEF PubInv, PublicationTypeOK, LeftInv
<1>4. job[j].op = "publish"
  BY <1>1, <1>3 DEF JobPlaces, PlaceOK
<1>5. ~Undisturbed /\ UNCHANGED <<desired, overlap>>
  BY <1>1, <1>3, <1>4 DEF Late, Look, Write, Verify, Commit
<1>6. ~Undisturbed'
  BY <1>5 DEF Undisturbed
<1>7. JobPlaces'
  <2> DEFINE r == [job[j] EXCEPT !.at = at]
  <2>1. r \in JobState /\ r.at = at /\ r.op = "publish"
    BY <1>2, <1>3, <1>4 DEF JobState, Places
  <2>2. job' = [job EXCEPT ![j] = r]
    BY <1>2, <1>3 DEF Goes
  <2> HIDE DEF r
  <2>3. PlaceOK(r)
    BY <2>1 DEF PlaceOK
  <2> QED
    BY <1>3, <2>1, <2>2, <2>3, PlacesStep
<1> QED
  BY <1>6, <1>7 DEF LeftInv, Late, Found

(* An unpublish is done when it has found no artifact, or removed it. *)
LEMMA ScanLeft ==
    ASSUME PubInv, LeftInv, NEW j \in Job, Scan(j) \/ Unlink(j)
    PROVE  LeftInv'
<1>1. job[j].at \in {"scan", "unlink"} /\ UNCHANGED <<desired, overlap>>
  BY DEF Scan, Unlink
<1>2. job \in [Job -> JobState] /\ JobPlaces /\ Late /\ Found
  BY DEF PubInv, PublicationTypeOK, LeftInv
<1>3. job[j].op = "unpublish"
  BY <1>1, <1>2 DEF JobPlaces, PlaceOK
<1>4. PICK at \in {"unlink", "done"} : Goes(j, at) /\ (strm' => at = "unlink")
  BY DEF Scan, Unlink
<1> DEFINE r == [job[j] EXCEPT !.at = at]
<1>5. r \in JobState /\ r.at = at /\ r.op = "unpublish"
  BY <1>2, <1>3, <1>4 DEF JobState, Places
<1>6. job' = [job EXCEPT ![j] = r]
  BY <1>2, <1>4 DEF Goes
<1> HIDE DEF r
<1>7. PlaceOK(r)
  BY <1>5 DEF PlaceOK
<1>8. JobPlaces' /\ job'[j] = r /\ \A k \in Job \ {j} : job'[k] = job[k]
  BY <1>2, <1>5, <1>6, <1>7, PlacesStep
<1>9. Late'
  BY <1>1, <1>2, <1>5, <1>8 DEF Late, Undisturbed
<1>10. strm' => InProgress({"unpublish"})'
  BY <1>4, <1>5, <1>8 DEF InProgress
<1> QED
  BY <1>8, <1>9, <1>10 DEF LeftInv, Found

(* An unpublish that meets a publication says so; otherwise it is the one that
   will find the artifact. *)
LEMMA WithdrawLeft == ASSUME PubInv, LeftInv, NEW j \in Job, Withdraw(j) PROVE LeftInv'
<1> DEFINE r == [op |-> "unpublish", at |-> "scan", tf |-> None, explicit |-> FALSE]
<1>1. job' = [job EXCEPT ![j] = r] /\ overlap' = (overlap \/ InProgress({"publish"}))
  BY DEF Withdraw, Unpublishes
<1>2. r \in JobState /\ PlaceOK(r) /\ r.op = "unpublish" /\ r.at = "scan"
  BY DEF JobState, Operations, Places, PlaceOK
<1> HIDE DEF r
<1>3. job \in [Job -> JobState] /\ JobPlaces
  BY DEF PubInv, PublicationTypeOK, LeftInv
<1>4. JobPlaces' /\ job'[j] = r /\ \A k \in Job \ {j} : job'[k] = job[k]
  BY <1>1, <1>2, <1>3, PlacesStep
<1>5. InProgress({"unpublish"})'
  BY <1>2, <1>4 DEF InProgress
<1>6. ~overlap' => \A k \in Job : job[k].op = "publish" => job[k].at \in {"done", "failed"}
  BY <1>1 DEF InProgress
<1>7. Late'
  BY <1>2, <1>4, <1>6 DEF Late, Undisturbed
<1> QED
  BY <1>4, <1>5, <1>7 DEF LeftInv, Found

(* The steps by which a job begins, or goes on to materialize. *)
LEMMA BeginsLeft ==
    ASSUME PubInv, LeftInv, NEW j \in Job,
           \/ \E t \in TF, op \in {"publish", "materialize"}, named \in BOOLEAN :
                 Select(j, t, op, named)
           \/ \E t \in TF : Prepare(j, t) \/ Promote(j, t)
           \/ Reuse(j) \/ List(j)
    PROVE  LeftInv'
<1>1. job[j].at = "new" /\ strm' = strm /\ (overlap => overlap')
  <2>1. \/ StartsPublication /\ job[j].at = "new" /\ strm' = strm
        \/ job[j].at = "new" /\ UNCHANGED <<strm, overlap>>
    BY Zenon DEF Select, Prepare, Promote, Reuse, List
  <2>2. StartsPublication => (overlap => overlap')
    BY DEF StartsPublication
  <2> QED
    BY <2>1, <2>2
<1>2. job[j].op # "unpublish"
  BY <1>1 DEF LeftInv, JobPlaces, PlaceOK
<1>3. handoff \in [tf : TF \cup {None}, explicit : BOOLEAN]
  BY DEF PubInv, PublicationTypeOK
<1>4. ASSUME NEW t \in TF, NEW op \in {"publish", "materialize"}, NEW named \in BOOLEAN,
             Select(j, t, op, named)
      PROVE  LeftInv'
  <2>1. Enter(j, op, t, FALSE, named) /\ op \in Operations \ {"unpublish"}
    BY <1>4 DEF Select, Operations
  <2> QED
    BY <1>1, <1>2, <2>1, EnterLeft
<1>5. ASSUME NEW t \in TF, Promote(j, t) PROVE LeftInv'
  <2>1. Enter(j, "promote", t, TRUE, FALSE) /\ "promote" \in Operations \ {"unpublish"}
    BY <1>5 DEF Promote, Operations
  <2> QED
    BY <1>1, <1>2, <2>1, EnterLeft
<1>6. ASSUME NEW r \in JobState, PlaceOK(r), job' = [job EXCEPT ![j] = r],
             r.op = "publish" => r.at = "read", desired' = desired
      PROVE  LeftInv'
  BY <1>1, <1>2, <1>6, NotedLeft
<1>7. ASSUME NEW t \in TF, Prepare(j, t) PROVE LeftInv'
  <2> DEFINE r == [op |-> "prepare", at |-> "done", tf |-> t, explicit |-> FALSE]
  <2>1. job' = [job EXCEPT ![j] = r] /\ desired' = desired
    BY <1>7 DEF Prepare
  <2>2. r \in JobState /\ PlaceOK(r) /\ r.op # "publish"
    BY DEF JobState, Operations, Places, PlaceOK
  <2> HIDE DEF r
  <2> QED
    BY <1>6, <2>1, <2>2
<1>8. CASE Reuse(j)
  <2> DEFINE r == [op |-> "publish", at |-> "read",
                   tf |-> handoff.tf, explicit |-> handoff.explicit]
  <2>1. job' = [job EXCEPT ![j] = r] /\ desired' = desired
    BY <1>8 DEF Reuse
  <2>2. r \in JobState /\ PlaceOK(r) /\ r.at = "read"
    BY <1>3 DEF JobState, Operations, Places, PlaceOK
  <2> HIDE DEF r
  <2> QED
    BY <1>6, <2>1, <2>2
<1>9. CASE List(j)
  <2> DEFINE r == [op |-> "sweep", at |-> "listed",
                   tf |-> handoff.tf, explicit |-> handoff.explicit]
  <2>1. job' = [job EXCEPT ![j] = r] /\ desired' = desired
    BY <1>9 DEF List
  <2>2. r \in JobState /\ PlaceOK(r) /\ r.op # "publish"
    BY <1>3 DEF JobState, Operations, Places, PlaceOK
  <2> HIDE DEF r
  <2> QED
    BY <1>6, <2>1, <2>2
<1> QED
  BY <1>4, <1>5, <1>7, <1>8, <1>9

LEMMA ContinuesLeft ==
    ASSUME PubInv, LeftInv, NEW j \in Job, Republish(j) \/ Named(j) \/ Visit(j)
    PROVE  LeftInv'
<1>1. /\ job[j].at \in {"read", "naming", "listed"}
      /\ strm' = strm /\ overlap' = overlap
  BY DEF Republish, Named, Visit
<1>2. /\ job[j].op \in Operations \ {"unpublish"} /\ job[j].tf \in TF
      /\ job[j] \in JobState /\ job[j].explicit \in BOOLEAN
  BY <1>1 DEF LeftInv, JobPlaces, PlaceOK, PubInv, PublicationTypeOK, JobsHold,
              JobState, Operations, Materializing
<1>3. CASE Republish(j)
  <2>1. PICK named \in BOOLEAN : Enter(j, "publish", job[j].tf, job[j].explicit, named)
    BY <1>3 DEF Republish
  <2>2. "publish" \in Operations \ {"unpublish"}
    BY DEF Operations
  <2> QED
    BY <1>1, <1>2, <2>1, <2>2, EnterLeft
<1>4. CASE Named(j)
  BY <1>2, <1>4, MaterializeLeft DEF Named
<1>5. CASE Visit(j) /\ desired # "absent"
  <2>1. Enter(j, "sweep", job[j].tf, job[j].explicit, FALSE)
    BY <1>5 DEF Visit
  <2>2. "sweep" \in Operations \ {"unpublish"}
    BY DEF Operations
  <2> QED
    BY <1>1, <1>2, <2>1, <2>2, EnterLeft
<1>6. CASE Visit(j) /\ desired = "absent"
  <2> DEFINE r == [job[j] EXCEPT !.at = "done"]
  <2>1. job' = [job EXCEPT ![j] = r] /\ desired' = desired
    BY <1>6 DEF Visit, Goes, PubInv, PublicationTypeOK
  <2>2. r \in JobState /\ r.at = "done" /\ r.op = job[j].op
    BY <1>2 DEF JobState, Places
  <2> HIDE DEF r
  <2>3. PlaceOK(r)
    BY <2>2 DEF PlaceOK
  <2> QED
    BY <1>1, <1>2, <2>1, <2>2, <2>3, NotedLeft
<1> QED
  BY <1>3, <1>4, <1>5, <1>6

LEMMA LeftInit == Init => LeftInv
BY DEF Init, NewJob, LeftInv, JobPlaces, PlaceOK, Late, Found, Undisturbed

LEMMA LeftStep == PubInv /\ LeftInv /\ [Next]_vars => LeftInv'
<1> SUFFICES ASSUME PubInv, LeftInv, [Next]_vars PROVE LeftInv'
  OBVIOUS
<1>1. ASSUME NEW j \in Job, Step(j) PROVE LeftInv'
  BY <1>1, BeginsLeft, ContinuesLeft, ArtifactLeft, ScanLeft, WithdrawLeft DEF Step
<1>2. CASE UNCHANGED <<job, desired, strm, overlap>>
  BY <1>2 DEF LeftInv, JobPlaces, Late, Found, Undisturbed, InProgress
<1>3. ASSUME NEW t \in TF, RetryTime(t) PROVE LeftInv'
  BY <1>2, <1>3 DEF RetryTime
<1>4. CASE UNCHANGED vars
  BY <1>2, <1>4 DEF vars
<1> QED
  BY <1>1, <1>3, <1>4 DEF Next

(* Once no job is at work on it, an unpublished unit has left no artifact,
   unless a publication was under way while it was unpublished. *)
THEOREM AbsentLeft == Spec => []AbsentLeavesNothing
<1>1. PubInv /\ LeftInv => AbsentLeavesNothing
  BY DEF LeftInv, Found, Undisturbed, AbsentLeavesNothing, InProgress
<1> QED
  BY <1>1, LeftInit, LeftStep, PubInvariant, PTL DEF Spec
=============================================================================
