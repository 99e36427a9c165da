----------------------------- MODULE Preparation -----------------------------
(***************************************************************************)
(* Preparations of media-search: the rows of lib/prepare/store.js, the     *)
(* driver that advances them (lib/prepare/driver.js), what its two         *)
(* provider adapters may answer (torbox-acquire.js, rd-acquire.js), the    *)
(* Play that starts one (server/app.js, playback/orchestrate.js) and the   *)
(* ticker that runs the driver (server/workers.js).                        *)
(*                                                                         *)
(* One JavaScript thread: an action is the code between two awaits, split  *)
(* once more between two durable writes when a crash between them leaves   *)
(* something behind.  Play comes from the API's own driver object, the     *)
(* ticks from the worker's: they share the table and nothing else, so the  *)
(* refusal memory the ticks write is one no Play reads, and is left out.   *)
(* The rows' markCancelled and pruneTerminal have no caller under src/.    *)
(***************************************************************************)
EXTENDS Naturals, FiniteSets, Sequences

CONSTANTS
    Hash,                      \* releases (info_hash)
    TorBox, RealDebrid,        \* the two providers that have an adapter
    Undefined,                 \* the string 'undefined', a resource id like another
    MaxConcurrentTotal, MaxConcurrentPerProvider,
    MaxAttempts,               \* attempts after which a failure is final
    MaxRows,                   \* bound: rows ever created
    MaxCrashes                 \* bound: crashes of the process

ASSUME ProvidersDiffer == TorBox # RealDebrid
ASSUME UndefinedNamesNothing == Undefined \notin Hash
ASSUME PrepareLimits ==
    /\ {MaxConcurrentTotal, MaxConcurrentPerProvider, MaxAttempts} \subseteq Nat \ {0}
    /\ {MaxRows, MaxCrashes} \subseteq Nat

VARIABLES
    rows,          \* the table: a sequence, the id of a row is its index
    placements,    \* provider_placements the driver recorded
    tick,          \* the tick: where it is, the due rows left, the row in hand
    crashes        \* crashes so far

vars == <<rows, placements, tick, crashes>>

Provider == {TorBox, RealDebrid}
(* The provider a plan starts with: PREPARE_PROVIDER_ORDER. *)
First(plan) == IF TorBox \in plan THEN TorBox ELSE RealDebrid
Id == 1..MaxRows

StateOf == [i \in Id |-> IF i \in DOMAIN rows THEN rows[i].state ELSE "none"]

Contract == INSTANCE PrepareContract WITH Id <- Id, state <- StateOf

(* A resource at a provider is named by the torrent it holds. *)
Row == [ hash : Hash, provider : Provider, state : Contract!States,
         plan : SUBSET Provider,
         attempts : 0..MaxAttempts,        \* further ones change nothing
         resource : BOOLEAN,               \* provider_resource_id is set
         due : BOOLEAN,                    \* next_poll_at has passed
         overdue : BOOLEAN ]               \* expires_at has passed

Placement == [provider : Provider, resource : Hash \cup {Undefined}, hash : Hash]

Idle == [at |-> "idle", todo |-> {}, row |-> 0]

NewRow(h, p, plan) ==
    [hash |-> h, provider |-> p, state |-> "queued", plan |-> plan, attempts |-> 0,
     resource |-> FALSE, due |-> TRUE, overdue |-> FALSE]

Init ==
    /\ rows = <<>>
    /\ placements = {}
    /\ tick = Idle
    /\ crashes = 0

-----------------------------------------------------------------------------
(* The store. *)

Ids == DOMAIN rows
Active(i) == rows[i].state \in Contract!ActiveStates
FindActive_Unclaimed(h, p) ==
    {i \in Ids : rows[i].hash = h /\ rows[i].provider = p
                 /\ rows[i].state \in {"queued", "waiting"}}
FindActive(h, p) == {i \in Ids : rows[i].hash = h /\ rows[i].provider = p /\ Active(i)}

CountActive == Cardinality({i \in Ids : Active(i)})
CountActiveForProvider(p) == Cardinality({i \in Ids : Active(i) /\ rows[i].provider = p})

(* The row of (h, p) joined, or created when there is none. *)
StartOrJoin(table, h, p, plan) ==
    IF FindActive(h, p) # {} THEN table ELSE Append(table, NewRow(h, p, plan))

(* The columns a mark sets in row i; its WHERE is the states the row is in. *)
Mark(i, s, due) == [rows EXCEPT ![i].state = s, ![i].due = due]

ExpiredRows_Unclaimed ==
    [i \in Ids |-> IF rows[i].state \in {"queued", "waiting"} /\ rows[i].overdue
                   THEN [rows[i] EXCEPT !.state = "expired"] ELSE rows[i]]
ExpiredRows_Finished ==
    [i \in Ids |-> IF rows[i].overdue
                   THEN [rows[i] EXCEPT !.state = "expired"] ELSE rows[i]]
ExpiredRows ==
    [i \in Ids |-> IF rows[i].state \in {"queued", "acquiring", "waiting"} /\ rows[i].overdue
                   THEN [rows[i] EXCEPT !.state = "expired"] ELSE rows[i]]

Due(table) == {i \in DOMAIN table : /\ table[i].state \in {"queued", "waiting"}
                                    /\ table[i].due /\ ~table[i].overdue}

Claimable(i) == rows[i].state \in {"queued", "waiting"} /\ rows[i].due

Limited_OffByOne(p) ==
    \/ CountActive > MaxConcurrentTotal
    \/ CountActiveForProvider(p) > MaxConcurrentPerProvider
(* The limit counts every active row, the one it is asked for included. *)
Limited(p) ==
    \/ CountActive >= MaxConcurrentTotal
    \/ CountActiveForProvider(p) >= MaxConcurrentPerProvider

-----------------------------------------------------------------------------
(* The adapters: what an await may come back with. *)

Answer(outcome, id, inventory) == [outcome |-> outcome, id |-> id, inventory |-> inventory]
Plain(outcomes) == {Answer(o, FALSE, FALSE) : o \in outcomes}

(* Only Real-Debrid can refuse at the gate: TorBox's gate imports a module
   that is not there and takes the failure for an unverified credential. *)
GateRefuses == {RealDebrid}

AcquireAnswers(p) ==
    IF p = TorBox
    THEN Plain({"account_ineligible", "rate_limited", "temporary_failure", "failed"})
         \cup {Answer("accepted", TRUE, FALSE), Answer("ready", TRUE, TRUE)}
    ELSE Plain({"account_ineligible", "content_blocked", "rate_limited",
                "temporary_failure", "failed"})
         \cup {Answer(o, TRUE, FALSE) : o \in {"already_present", "accepted", "ready"}}

(* A poll names no resource, and Real-Debrid's brings no inventory. *)
PollAnswers(p) ==
    IF p = TorBox
    THEN Plain({"account_ineligible", "temporary_failure", "failed", "accepted"})
         \cup {Answer("ready", FALSE, TRUE)}
    ELSE Plain({"account_ineligible", "content_blocked", "rate_limited",
                "temporary_failure", "failed", "accepted", "ready"})

Answers(i) == IF rows[i].resource THEN PollAnswers(rows[i].provider)
              ELSE AcquireAnswers(rows[i].provider)

-----------------------------------------------------------------------------
(* Play: the API's driver, whose own refusal memory is always empty. *)

Play(h) ==
    /\ Len(rows) < MaxRows
    /\ rows' = StartOrJoin(rows, h, First(Provider), Provider)
    /\ UNCHANGED <<placements, tick, crashes>>

PollTime(i) ==
    /\ rows[i].state \in {"queued", "waiting"} /\ ~rows[i].due
    /\ rows' = [rows EXCEPT ![i].due = TRUE]
    /\ UNCHANGED <<placements, tick, crashes>>

Deadline(i) ==
    /\ Active(i) /\ ~rows[i].overdue
    /\ rows' = [rows EXCEPT ![i].overdue = TRUE]
    /\ UNCHANGED <<placements, tick, crashes>>

-----------------------------------------------------------------------------
(* The tick. *)

Loop(todo) == IF todo = {} THEN Idle ELSE [at |-> "loop", todo |-> todo, row |-> 0]
InHand(at, i) == tick.at = at /\ tick.row = i
EndRow == tick' = Loop(tick.todo)

TickStart ==
    /\ tick.at = "idle"
    /\ rows' = ExpiredRows
    /\ tick' = Loop(Due(ExpiredRows))
    /\ UNCHANGED <<placements, crashes>>

(* A capacity park comes before the claim and costs no attempt. *)
Park(i) ==
    /\ tick.at = "loop" /\ i \in tick.todo
    /\ Limited(rows[i].provider)
    /\ rows' = Mark(i, "waiting", FALSE)
    /\ tick' = Loop(tick.todo \ {i})
    /\ UNCHANGED <<placements, crashes>>

Claimed_Uncapped(i) ==
    [rows EXCEPT ![i].state = "acquiring", ![i].attempts = @ + 1]
Claimed(i) ==
    [rows EXCEPT ![i].state = "acquiring",
                 ![i].attempts = IF @ < MaxAttempts THEN @ + 1 ELSE @]

Claim(i) ==
    /\ tick.at = "loop" /\ i \in tick.todo
    /\ ~Limited(rows[i].provider)
    /\ Claimable(i)
    /\ rows' = Claimed(i)
    /\ tick' = [at |-> "step", todo |-> tick.todo \ {i}, row |-> i]
    /\ UNCHANGED <<placements, crashes>>

(* A refused account fails the row at once, without a provider write and
   without the rest of its plan. *)
GateRefused(i) ==
    /\ InHand("step", i) /\ ~rows[i].resource
    /\ rows[i].provider \in GateRefuses
    /\ rows' = Mark(i, "failed_terminal", FALSE)
    /\ EndRow
    /\ UNCHANGED <<placements, crashes>>

(* The state advanceRow moves the row in hand to; a claimed row is never
   queued, so an accepted one waits. *)
NextState(a) == Contract!NextPreparationState("waiting", a.outcome)

Accepted(i, a) ==
    /\ NextState(a) = "waiting"
    /\ rows' = [Mark(i, "waiting", FALSE) EXCEPT ![i].resource = @ \/ a.id]
    /\ EndRow
    /\ UNCHANGED <<placements, crashes>>

(* recordPlacement: a resource keeps the torrent it was first recorded for. *)
PlacementOf(i, a) ==
    [provider |-> rows[i].provider, hash |-> rows[i].hash,
     resource |-> IF a.id THEN rows[i].hash ELSE Undefined]

Conflicts(p) == \E q \in placements : /\ q.provider = p.provider
                                      /\ q.resource = p.resource
                                      /\ q.hash # p.hash

Persists(i, a) == a.inventory /\ ~Conflicts(PlacementOf(i, a))

Persist_Swallows(i, a) ==
    /\ NextState(a) = "ready"
    /\ placements' = IF Persists(i, a) THEN placements \cup {PlacementOf(i, a)} ELSE placements
    /\ tick' = [tick EXCEPT !.at = "placed"]
    /\ UNCHANGED <<rows, crashes>>
(* persistPreparedPlacement *)
Persist(i, a) ==
    /\ NextState(a) = "ready" /\ Persists(i, a)
    /\ placements' = placements \cup {PlacementOf(i, a)}
    /\ tick' = [tick EXCEPT !.at = "placed"]
    /\ UNCHANGED <<rows, crashes>>

(* markReady, then the hooks of the tick: the worker gives none. *)
MarkReady(i) ==
    /\ InHand("placed", i)
    /\ rows' = [Mark(i, "ready", FALSE) EXCEPT ![i].resource = TRUE]
    /\ EndRow
    /\ UNCHANGED <<placements, crashes>>

Remaining(i) == rows[i].plan \ {rows[i].provider}

(* A refusal or a final failure; the provider's own refusals pass the plan on
   to its next provider first.  A resource of the row is cancelled best-effort. *)
Refused(i, a) ==
    /\ NextState(a) \in {"failed_policy", "failed_terminal"}
    /\ LET failed == Mark(i, NextState(a), FALSE) IN
       IF a.outcome \in {"content_blocked", "account_ineligible"} /\ Remaining(i) # {}
       THEN /\ Len(rows) < MaxRows
            /\ rows' = StartOrJoin(failed, rows[i].hash, First(Remaining(i)), Remaining(i))
       ELSE rows' = failed
    /\ EndRow
    /\ UNCHANGED <<placements, crashes>>

(* A step to be tried again, because of the provider or because closing the
   ready one threw: bounded by the attempts, and two writes. *)
Retried(i, a) ==
    /\ \/ NextState(a) = "failed_temporary"
       \/ NextState(a) = "ready" /\ ~Persists(i, a)
    /\ IF rows[i].attempts >= MaxAttempts
       THEN rows' = Mark(i, "failed_terminal", FALSE) /\ EndRow
       ELSE rows' = Mark(i, "failed_temporary", FALSE) /\ tick' = [tick EXCEPT !.at = "requeue"]
    /\ UNCHANGED <<placements, crashes>>

Requeue(i) ==
    /\ InHand("requeue", i)
    /\ rows' = Mark(i, "queued", FALSE)
    /\ EndRow
    /\ UNCHANGED <<placements, crashes>>

(* The await of adapter.acquire or adapter.poll comes back. *)
Step(i) ==
    /\ InHand("step", i)
    /\ \E a \in Answers(i) :
           Accepted(i, a) \/ Persist(i, a) \/ Refused(i, a) \/ Retried(i, a)

(* The process dies: the tick is gone, the tables stay. *)
Crash ==
    /\ crashes < MaxCrashes
    /\ crashes' = crashes + 1
    /\ tick' = Idle
    /\ UNCHANGED <<rows, placements>>

TickStep ==
    \/ TickStart
    \/ \E i \in Ids : Park(i) \/ Claim(i) \/ GateRefused(i) \/ Step(i) \/ MarkReady(i) \/ Requeue(i)

Next ==
    \/ \E h \in Hash : Play(h)
    \/ \E i \in Ids : PollTime(i) \/ Deadline(i)
    \/ TickStep
    \/ Crash

(* The ticker re-arms itself whatever a tick did, every await ends, and time
   passes for every row. *)
Fairness ==
    /\ WF_vars(TickStep)
    /\ \A i \in Id : WF_vars(i \in Ids /\ PollTime(i)) /\ WF_vars(i \in Ids /\ Deadline(i))

Spec == Init /\ [][Next]_vars /\ Fairness

-----------------------------------------------------------------------------
(* Properties. *)

(* Every variable has its type. *)
PreparationTypeOK ==
    /\ rows \in Seq(Row) /\ Len(rows) <= MaxRows
    /\ placements \subseteq Placement
    /\ tick \in [ at : {"idle", "loop", "step", "placed", "requeue"},
                 todo : SUBSET Ids, row : {0} \cup Ids ]
    /\ IF tick.at \in {"idle", "loop"} THEN tick.row = 0 ELSE tick.row \in Ids \ tick.todo
    /\ crashes \in 0..MaxCrashes

(* Single flight: a release has one preparation at work at a provider, however
   Plays, ticks, chains and restarts interleave. *)
SingleFlight ==
    \A i, j \in Ids :
        Active(i) /\ Active(j) /\ rows[i].hash = rows[j].hash
            /\ rows[i].provider = rows[j].provider => i = j

(* The limit holds however rows are created, chained and taken up between the
   awaits of others: fewer preparations than it have a resource of a provider.
   One fewer, because checkLimits counts the row it is asked for: two rows that
   wait under a limit of two park each other until their deadlines. *)
ConcurrencyBounded ==
    Cardinality({i \in Ids : Active(i) /\ rows[i].resource}) < MaxConcurrentTotal

(* A row the client is told is ready has its placement on record. *)
ReadyMeansPlaced ==
    \A i \in Ids : rows[i].state = "ready" =>
        \E p \in placements : p.provider = rows[i].provider /\ p.hash = rows[i].hash

(* A row a crash left between markFailed and requeue: nothing lists it, nothing
   claims it, and expireOverdue passes it by. *)
Stranded(i) == rows[i].state = "failed_temporary" /\ ~InHand("requeue", i)

(* The row's life is the contract's: in particular history is never redone. *)
ImplementsContract == Contract!Spec

(* Every preparation ends, through any crash, unless one hit exactly between
   the two writes of a retry. *)
EveryPreparationEnds ==
    \A i \in Id : (i \in Ids /\ Active(i)) ~>
        (i \in Ids /\ (rows[i].state \in Contract!TerminalStates \/ Stranded(i)))

(* rd-acquire.js and torbox-acquire.js: a placement is recorded under the
   resource that holds its torrent. *)
PlacementNamesResource == \A p \in placements : p.resource = p.hash

(* A row whose step a crash cut short. *)
Interrupted(i) == i \in Ids /\ rows[i].state = "acquiring" /\ tick.row # i

(* store.js:6-7: "Survives restart: a restarted process re-reads due rows and
   resumes polling".  An interrupted row is taken up again. *)
ResumesPolling == \A i \in Id : Interrupted(i) ~> InHand("step", i)
=============================================================================
