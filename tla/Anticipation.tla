---------------------------- MODULE Anticipation ----------------------------
(***************************************************************************)
(* The anticipation scheduler of media-search: durable intents             *)
(* (lib/anticipation/future-intents.js), the serial tick that drives them  *)
(* through prepare and publish (lib/anticipation/scheduler.js), the        *)
(* requested seasons it reconciles (season-reconciliation.js) and the      *)
(* writers that change the same rows while the tick is waiting: Seerr's    *)
(* webhook, the follow-ups of failed requests and the Arr sync.            *)
(*                                                                         *)
(* One JavaScript thread: the others run while the tick awaits an answer.  *)
(* A row keeps the columns that decide something; a date is the stage of   *)
(* its release and a poll time says what it waits for. Every tick starts   *)
(* all of its actionable rows, in any order: the instances stay below      *)
(* MIN_ACTIONS_PER_TICK and DUE_SCAN_LIMIT.                                *)
(***************************************************************************)
EXTENDS Naturals, FiniteSets

CONSTANTS
  Intents,      \* the media identities intents exist for
  Episodes,     \* those that are episodes of the requested season
  Requested,    \* those requests name, Seerr's and others'
  ArrRows,      \* those an Arr reports
  Dates,        \* the stages at which outside writers find a release
  MaxAttempts,  \* MAX_ATTEMPTS
  MaxEvents,    \* bound: failures, crashes and outside writes of a behaviour
  None          \* no row in hand

\* expected_at, as what has been reached of it: nothing, the prepare window,
\* the publish window, the release; or no date at all.
Released == 3
Undated  == 4
Stages   == 0..4

ASSUME AnticipationAssumption ==
  /\ Episodes \subseteq Intents
  /\ Requested \subseteq Intents
  /\ ArrRows \subseteq Intents
  /\ Dates \subseteq Stages
  /\ MaxAttempts \in Nat \ {0}
  /\ MaxEvents \in Nat
  /\ None \notin Intents

\* next_check_at: passed, the beginning of a stage, or some other later time.
Due   == 0
Later == 4
Waits == 0..4

States == {"absent", "anticipated", "preparing", "prepared",
           "published_preparing", "playable", "failed", "withdrawn"}
Reasons == {"none", "future", "market", "other"}
Sources == {"none", "seerr", "arr", "follow-up"}
Phases  == {"none", "prepare", "judge", "probe", "publish", "kept", "refresh",
            "confirm", "bytes"}

Row == [state : States, attempts : 0..MaxAttempts, stage : Stages,
        wait : Waits, defer : Reasons, owned : BOOLEAN,
        satisfied : BOOLEAN, source : Sources]

NoRow == [state |-> "absent", attempts |-> 0, stage |-> Undated,
          wait |-> Later, defer |-> "none", owned |-> FALSE,
          satisfied |-> FALSE, source |-> "none"]

VARIABLES
  rows,       \* future_intents
  season,     \* the requested_seasons row: "none", "due" or "later"
  seasonLast, \* seasonReconciledLastTick
  pc,         \* the tick: "idle", "season" or "drain"
  todo,       \* the rows of its snapshot it has not finished
  snap,       \* those rows as the snapshot holds them
  hand,       \* the row it is processing
  phase,      \* the answer it awaits for that row
  lost,       \* playable rows whose VFS entry and Binding are gone
  rested,     \* history: since work on the row last began it was interrupted
              \* or moved the row on, its wait ended, or somebody woke it
  orphans,    \* history: rows a crash left in 'preparing'
  events      \* the number of bounded events so far

store == <<rows, season, lost>>
tick  == <<seasonLast, pc, todo, snap, hand, phase>>
vars  == <<rows, season, seasonLast, pc, todo, snap, hand, phase, lost,
           rested, orphans, events>>

TypeOK ==
  /\ rows \in [Intents -> Row]
  /\ season \in {"none", "due", "later"}
  /\ seasonLast \in BOOLEAN
  /\ pc \in {"idle", "season", "drain"}
  /\ todo \in SUBSET Intents
  /\ snap \in [Intents -> Row]
  /\ hand \in todo \cup {None}
  /\ phase \in Phases
  /\ lost \in SUBSET Intents
  /\ rested \in [Intents -> BOOLEAN]
  /\ orphans \in SUBSET Intents
  /\ events \in 0..MaxEvents

Init ==
  /\ rows = [i \in Intents |-> NoRow]
  /\ season = "none"
  /\ seasonLast = FALSE
  /\ pc = "idle"
  /\ todo = {}
  /\ snap = [i \in Intents |-> NoRow]
  /\ hand = None
  /\ phase = "none"
  /\ lost = {}
  /\ rested = [i \in Intents |-> FALSE]
  /\ orphans = {}
  /\ events = 0

-----------------------------------------------------------------------------
(* The statements of the store.                                            *)

\* attempts + 1. Only comparisons with MAX_ATTEMPTS read it: it stops there.
OneMore(n) == IF n < MaxAttempts THEN n + 1 ELSE n

\* seed: insert, or fill in what the row lacks.
Seeded(r, source, stage, why) ==
  IF r.state = "absent"
  THEN [NoRow EXCEPT !.state = "anticipated", !.stage = stage, !.wait = Due,
                     !.defer = why, !.source = source]
  ELSE [r EXCEPT !.stage = IF @ = Undated THEN stage ELSE @,
                 !.defer = IF @ = "none" THEN why ELSE @]

\* revive: fresh demand for a row that was given up.
Revived(r, stage, why) ==
  IF r.state \in {"withdrawn", "failed"}
  THEN [r EXCEPT !.state = "anticipated", !.attempts = 0, !.wait = Due,
                 !.stage = IF stage = Undated THEN @ ELSE stage,
                 !.defer = why]
  ELSE r

\* retry: failed to anticipated, one attempt more.
Retried(r, wait, why) ==
  IF r.state = "failed"
  THEN [r EXCEPT !.state = "anticipated", !.attempts = OneMore(@),
                 !.wait = wait, !.defer = IF why = "none" THEN @ ELSE why]
  ELSE r

\* Mutant: every reconciliation wakes the row, as it once did.
Ensured_Wakes(r, stage) ==
  LET date == IF stage = Undated THEN r.stage ELSE stage
      why  == IF date < Released THEN "future" ELSE "market" IN
  IF r.state = "absent"
  THEN [Seeded(r, "seerr", stage, why) EXCEPT !.owned = TRUE]
  ELSE [r EXCEPT !.owned = TRUE, !.stage = date,
                 !.wait = IF date < Released THEN Released ELSE Due,
                 !.defer = IF /\ date < Released
                              /\ r.state \notin {"playable", "withdrawn"}
                           THEN "future" ELSE @]

\* ensureSeasonEpisode: a new owner is fresh demand, an old one leaves the
\* poll where the scheduler put it, a coming release moves it there. The
\* season carries the Seerr request it came with.
Ensured(r, stage) ==
  IF r.state = "absent"
  THEN [Seeded(r, "seerr", stage,
               IF stage < Released THEN "future" ELSE "market")
          EXCEPT !.owned = TRUE]
  ELSE LET date == IF stage = Undated THEN r.stage ELSE stage IN
       [r EXCEPT !.owned = TRUE, !.stage = date,
                 !.wait = CASE date < Released -> Released
                            [] date >= Released /\ ~r.owned -> Due
                            [] OTHER -> IF @ = Due THEN Due ELSE Later,
                 !.defer = IF /\ date < Released
                              /\ r.state \notin {"playable", "withdrawn"}
                           THEN "future" ELSE @]

\* withdrawSeasonEpisodes, for an episode the season does not list: the owner
\* goes with the row, and stays with a row that is past 'anticipated'.
Disowned(r) ==
  IF r.owned /\ r.state \in {"anticipated", "failed"}
  THEN [r EXCEPT !.state = "withdrawn", !.owned = FALSE]
  ELSE r

\* due: first the repair of playable rows that still say 'future'.
Reopened(r) ==
  IF r.state = "playable" /\ r.defer = "future"
  THEN [r EXCEPT !.state = "prepared", !.wait = Due]
  ELSE r

IsDue(r) ==
  /\ r.state \in {"anticipated", "failed", "prepared",
                  "published_preparing", "preparing"}
  /\ r.wait = Due \/ (r.defer = "future" /\ r.stage = Released)

-----------------------------------------------------------------------------
(* What the tick does with a row.                                          *)

ReleaseWakes(r) ==
  r.state = "failed" /\ r.defer = "future" /\ r.stage = Released

Exhausted(r) == r.state = "failed" /\ r.attempts >= MaxAttempts

\* Mutant: the continuing owner is not asked for.
IsColdRetryEligible_AnyOwner(r) ==
  Exhausted(r) /\ r.defer = "market" /\ r.wait = Due

\* isColdRetryEligible
IsColdRetryEligible(r) ==
  Exhausted(r) /\ r.owned /\ r.defer = "market" /\ r.wait = Due

\* classifyIntentPriority, as far as 'actionable' goes.
IsActionable(r) ==
  \/ ReleaseWakes(r)
  \/ IsColdRetryEligible(r)
  \/ /\ r.state \in {"anticipated", "failed", "prepared", "published_preparing"}
     /\ ~Exhausted(r)
     /\ ~(r.defer = "future" /\ r.stage = 0)

\* qualityGateActive: dated, and upcoming or fresh; a release may be older
\* than the horizon.
QualityGates(r) ==
  IF r.stage = Undated THEN {FALSE}
  ELSE IF r.stage < Released THEN {TRUE} ELSE BOOLEAN

-----------------------------------------------------------------------------
(* The tick begins.                                                        *)

Counted == events < MaxEvents /\ events' = events + 1

Reopening == [i \in Intents |-> Reopened(rows[i])]

StaleRows == {i \in lost : Reopened(rows[i]).state = "playable"}

\* The tick finds a playable row that nothing serves: it demotes one and ends.
TickDemotes(i) ==
  /\ pc = "idle"
  /\ i \in StaleRows
  /\ rows' = [Reopening EXCEPT ![i].state = "anticipated", ![i].wait = Due]
  /\ lost' = lost \ {i}
  /\ UNCHANGED <<season, tick, rested, orphans, events>>

\* A season is due and the tick before did not reconcile one: this one does,
\* and nothing else.
TickSeason ==
  /\ pc = "idle"
  /\ StaleRows = {}
  /\ season = "due"
  /\ ~seasonLast
  /\ rows' = Reopening
  /\ pc' = "season"
  /\ UNCHANGED <<season, seasonLast, todo, snap, hand, phase, lost, rested,
                 orphans, events>>

\* The tick takes its snapshot of the due rows, parks those whose prepare
\* window is to come and keeps the actionable ones.
TickDrains ==
  LET scan == {i \in Intents : IsDue(Reopening[i])}
      work == {i \in scan : IsActionable(Reopening[i])}
      early(r) == r.state = "anticipated" /\ r.defer = "future" /\ r.stage = 0
  IN
  /\ pc = "idle"
  /\ StaleRows = {}
  /\ season # "due" \/ seasonLast
  /\ rows' = [i \in Intents |->
                IF i \in scan /\ early(Reopening[i])
                THEN [Reopening[i] EXCEPT !.wait = 1]
                ELSE Reopening[i]]
  /\ seasonLast' = FALSE
  /\ todo' = work
  /\ snap' = [i \in Intents |-> IF i \in work THEN Reopening[i] ELSE NoRow]
  /\ pc' = IF work = {} THEN "idle" ELSE "drain"
  /\ UNCHANGED <<season, hand, phase, lost, rested, orphans, events>>

\* Mutant: reconciliations need not alternate with the intents' ticks.
SeasonListed_Again(listing) ==
  LET after == [i \in Intents |->
                  IF i \in DOMAIN listing THEN Ensured(rows[i], listing[i])
                  ELSE IF i \in Episodes THEN Disowned(rows[i]) ELSE rows[i]]
  IN
  /\ pc = "season"
  /\ rows' = after
  /\ rested' = [i \in Intents |-> rested[i] \/ (after[i].owned /\ ~rows[i].owned)]
  /\ season' = "later"
  /\ pc' = "idle"
  /\ IF \A i \in Episodes : after[i].state = rows[i].state
     THEN UNCHANGED events ELSE Counted
  /\ UNCHANGED <<seasonLast, todo, snap, hand, phase, lost, orphans>>

\* The season's episodes arrive: 'listing' gives the stage of each that it has.
\* The rows it names are seeded or owned, the others disowned. A listing that
\* adds or moves nothing is not counted.
SeasonListed(listing) ==
  LET after == [i \in Intents |->
                  IF i \in DOMAIN listing THEN Ensured(rows[i], listing[i])
                  ELSE IF i \in Episodes THEN Disowned(rows[i]) ELSE rows[i]]
      known == \A i \in Episodes : /\ after[i].state = rows[i].state
                                   /\ after[i].stage = rows[i].stage
  IN
  /\ pc = "season"
  /\ rows' = after
  /\ rested' = [i \in Intents |-> rested[i] \/ (after[i].owned /\ ~rows[i].owned)]
  /\ season' = "later"
  /\ seasonLast' = TRUE
  /\ pc' = "idle"
  /\ IF known THEN UNCHANGED events ELSE Counted
  /\ UNCHANGED <<todo, snap, hand, phase, lost, orphans>>

SeasonAnswers ==
  \E have \in SUBSET Episodes : \E listing \in [have -> Stages] :
    /\ \A i \in have : listing[i] \in Dates \cup {rows[i].stage}
    /\ SeasonListed(listing)

SeasonFails ==
  /\ pc = "season"
  /\ season' = "later"
  /\ seasonLast' = TRUE
  /\ pc' = "idle"
  /\ Counted
  /\ UNCHANGED <<rows, todo, snap, hand, phase, lost, rested, orphans>>

-----------------------------------------------------------------------------
(* The tick takes up a row of its snapshot.                                *)

\* The release of an exhausted row re-arms it, and the row is read again.
Woken(i)  == ReleaseWakes(snap[i]) /\ Exhausted(snap[i])
Stored(i) == IF Woken(i) THEN Retried(rows[i], Due, "market") ELSE rows[i]
Read(i)   == IF Woken(i) THEN Stored(i) ELSE snap[i]

\* Nothing is left to do for row i in this tick.
Leave(i) ==
  /\ todo' = todo \ {i}
  /\ pc' = IF todo' = {} THEN "idle" ELSE "drain"
  /\ snap' = [snap EXCEPT ![i] = NoRow]
  /\ hand' = None
  /\ phase' = "none"
  /\ UNCHANGED seasonLast

\* Row i is in hand, as 'row', until its answer arrives.
Begin(i, row, awaited) ==
  /\ hand' = i
  /\ phase' = awaited
  /\ snap' = [snap EXCEPT ![i] = row]
  /\ rested' = [rested EXCEPT ![i] = FALSE]
  /\ UNCHANGED <<seasonLast, pc, todo>>

Takes(i) == hand = None /\ i \in todo

\* The poll of a row that sleeps until 'stage' begins, by the snapshot's date:
\* some later time when the stored date has moved past it.
Sleep(i, stage) ==
  IF Read(i).satisfied \/ rows[i].stage >= stage THEN Later ELSE stage

\* The claim fails: the row was withdrawn after the snapshot.
TakeLoses(i) ==
  /\ Takes(i)
  /\ Read(i).state \in {"anticipated", "withdrawn"}
  /\ Stored(i).state # "anticipated"
  /\ rows' = [rows EXCEPT ![i] = Stored(i)]
  /\ Leave(i)
  /\ UNCHANGED <<season, lost, rested, orphans, events>>

\* Claimed, and put back at once: the Arr has it, or the window is to come.
TakeSleeps(i) ==
  /\ Takes(i)
  /\ Read(i).state = "anticipated"
  /\ Stored(i).state = "anticipated"
  /\ Read(i).satisfied \/ Read(i).stage = 0
  /\ rows' = [rows EXCEPT ![i] =
                [Stored(i) EXCEPT !.attempts = OneMore(@),
                                  !.wait = Sleep(i, 1)]]
  /\ Leave(i)
  /\ UNCHANGED <<season, lost, rested, orphans, events>>

\* Mutant: the claim does not ask for the row's state.
TakePrepares_AnyState(i) ==
  /\ Takes(i)
  /\ Read(i).state = "anticipated"
  /\ ~Read(i).satisfied
  /\ Read(i).stage # 0
  /\ rows' = [rows EXCEPT ![i] =
                [Stored(i) EXCEPT !.state = "preparing", !.attempts = OneMore(@)]]
  /\ Begin(i, Read(i), "prepare")
  /\ UNCHANGED <<season, lost, orphans, events>>

\* Claimed: the tick asks for the preparation.
TakePrepares(i) ==
  /\ Takes(i)
  /\ Read(i).state = "anticipated"
  /\ Stored(i).state = "anticipated"
  /\ ~Read(i).satisfied
  /\ Read(i).stage # 0
  /\ rows' = [rows EXCEPT ![i] =
                [Stored(i) EXCEPT !.state = "preparing", !.attempts = OneMore(@)]]
  /\ Begin(i, Read(i), "prepare")
  /\ UNCHANGED <<season, lost, orphans, events>>

\* A prepared row whose publication waits for the Arr or for its window.
TakeHolds(i) ==
  /\ Takes(i)
  /\ Read(i).state \in {"prepared", "published_preparing"}
  /\ Read(i).satisfied \/ Read(i).stage < 2
  /\ rows' = [rows EXCEPT ![i].state = Read(i).state,
                          ![i].wait = Sleep(i, 2)]
  /\ Leave(i)
  /\ UNCHANGED <<season, lost, rested, orphans, events>>

\* A prepared row is published, behind the quality floor where it applies.
TakePublishes(i) ==
  /\ Takes(i)
  /\ Read(i).state \in {"prepared", "published_preparing"}
  /\ ~Read(i).satisfied
  /\ Read(i).stage >= 2
  /\ \E gated \in QualityGates(Read(i)) :
       Begin(i, Read(i), IF gated THEN "probe" ELSE "publish")
  /\ UNCHANGED <<store, orphans, events>>

\* A failed row is re-armed: due at once when it is exhausted and its miss is
\* the market's, after a backoff when it is not exhausted.
TakeRearms(i) ==
  LET r == Read(i)
      armed == IF ~Exhausted(r) THEN Retried(rows[i], Later, "none")
               ELSE IF r.defer = "market" THEN Retried(rows[i], Due, "none")
               ELSE rows[i]
  IN
  /\ Takes(i)
  /\ r.state = "failed"
  /\ rows' = [rows EXCEPT ![i] = armed]
  /\ Leave(i)
  /\ UNCHANGED <<season, lost, rested, orphans, events>>

-----------------------------------------------------------------------------
(* The answers the tick awaits for the row in hand.                        *)

\* transition, and the end of this row's turn; what moved it counts as a rest.
Write(i, state, wait) ==
  /\ rows' = [rows EXCEPT ![i].state = state, ![i].wait = wait]
  /\ rested' = [rested EXCEPT ![i] = wait = Due]
  /\ Leave(i)
  /\ UNCHANGED <<season, lost, orphans>>

\* Prepared, and no quality floor applies or the winner passes it.
PreparedWell(i) ==
  /\ hand = i
  /\ phase \in {"prepare", "judge"}
  /\ Write(i, "prepared", Due)
  /\ UNCHANGED events

\* Prepared again, without market data: the floor needs a probe.
PreparedAgain(i) ==
  /\ hand = i
  /\ phase = "prepare"
  /\ TRUE \in QualityGates(snap[i])
  /\ phase' = "judge"
  /\ UNCHANGED <<store, seasonLast, pc, todo, snap, hand, rested, orphans, events>>

\* The winner is not good enough: the row waits for a better market.
BelowFloor(i) ==
  /\ hand = i
  /\ \/ phase = "prepare" /\ TRUE \in QualityGates(snap[i])
     \/ phase \in {"judge", "probe"}
  /\ Write(i, IF phase = "probe" THEN snap[i].state ELSE "anticipated", Later)
  /\ Counted

\* The preparation fails, for good or for now; the last attempt parks the row.
PrepareFails(i) ==
  /\ hand = i
  /\ phase = "prepare"
  /\ \E terminal \in BOOLEAN :
       Write(i, IF terminal \/ snap[i].attempts + 1 >= MaxAttempts
                THEN "failed" ELSE "anticipated", Later)
  /\ Counted

\* Mutant: an exception ends the turn and leaves the row as it is.
ActionThrows_Forgets(i) ==
  /\ hand = i
  /\ phase \in {"prepare", "judge", "probe", "publish"}
  /\ Leave(i)
  /\ Counted
  /\ UNCHANGED <<store, rested, orphans>>

\* A call that throws - a lost connection, the action's budget - and a refused
\* publication, whose message is built by a function the module does not
\* import: the row goes back to 'anticipated'.
ActionThrows(i) ==
  /\ hand = i
  /\ phase \in {"prepare", "judge", "probe", "publish"}
  /\ Write(i, "anticipated", Later)
  /\ Counted

ProbePasses(i) ==
  /\ hand = i
  /\ phase = "probe"
  /\ phase' = "publish"
  /\ UNCHANGED <<store, seasonLast, pc, todo, snap, hand, rested, orphans, events>>

\* Whose consumer is notified before it is asked again: episodes published
\* before and not confirmed. (All that are published_preparing count as such.)
Renotifies(i) == i \in Episodes /\ snap[i].state = "published_preparing"

\* Published: fulfilled already, or the consumer is asked, or first notified.
\* The notification waits for the coalescer's timer and its refresh, or in
\* the bucket of a scope that a webhook of the show holds open.
Published(i) ==
  /\ hand = i
  /\ phase = "publish"
  /\ phase' \in {"bytes", "confirm"} \cup
                IF Renotifies(i) THEN {"refresh", "kept"} ELSE {}
  /\ lost' = lost \ {i}
  /\ UNCHANGED <<rows, season, seasonLast, pc, todo, snap, hand, rested,
                 orphans, events>>

\* The refresh has been answered, or has failed: the consumer is asked.
Notified(i) ==
  /\ hand = i
  /\ phase = "refresh"
  /\ phase' = "confirm"
  /\ UNCHANGED <<store, seasonLast, pc, todo, snap, hand, rested, orphans, events>>

Confirmed(i) ==
  /\ hand = i
  /\ phase = "confirm"
  /\ phase' = "bytes"
  /\ UNCHANGED <<store, seasonLast, pc, todo, snap, hand, rested, orphans, events>>

\* The consumer does not show it, or its bytes do not come.
NotYetPlayable(i) ==
  /\ hand = i
  /\ phase \in {"confirm", "bytes"}
  /\ Write(i, "published_preparing", Later)
  /\ Counted

BytesReady(i) ==
  /\ hand = i
  /\ phase = "bytes"
  /\ rows' = [rows EXCEPT ![i].state = "playable", ![i].wait = Later,
                          ![i].defer = "none"]
  /\ Leave(i)
  /\ UNCHANGED <<season, lost, rested, orphans, events>>

-----------------------------------------------------------------------------
(* The other writers of the rows, between the tick's awaits.               *)

\* The tick has the thread from its snapshot to its first await, and from one
\* row's end to the next one's.
ThreadFree == pc = "drain" => hand # None

\* The rows become 'after'; those in 'woken' have been given a reason to run.
Outside(after, woken) ==
  /\ ThreadFree
  /\ after # rows
  /\ Counted
  /\ rows' = after
  /\ rested' = [i \in Intents |-> rested[i] \/ i \in woken]
  /\ UNCHANGED <<season, lost, tick, orphans>>

\* deferSeerrRequest: seed, then revive.
SeerrDefers(i, stage, why) ==
  /\ why = "future" => stage < Released
  /\ Outside([rows EXCEPT ![i] = Revived(Seeded(@, "seerr", stage, why), stage, why)],
             {i})

\* withdrawSeerrRequest: the request was declined or deleted.
SeerrWithdraws ==
  /\ Outside([i \in Intents |->
                IF rows[i].source = "seerr" /\ rows[i].state \in {"anticipated", "failed"}
                THEN [rows[i] EXCEPT !.state = "withdrawn"] ELSE rows[i]],
             {})

\* wakeSeerrRequest, and wakeMedia when no row carries the request.
SeerrWakes(media) ==
  LET waiting == {i \in Intents : rows[i].state \in {"anticipated", "failed"}}
      asked   == {i \in waiting : rows[i].source = "seerr"}
      woken   == IF asked # {} THEN asked ELSE media \cap waiting
  IN Outside([i \in Intents |->
                IF i \in woken THEN [rows[i] EXCEPT !.wait = Due] ELSE rows[i]],
             woken)

\* ensureReleasedFollowUp, of an unfulfilled request or of a title the
\* consumer has missed.
FollowUp(i, why) ==
  Outside([rows EXCEPT ![i] = IF @.state = "absent"
                              THEN Seeded(@, "follow-up", Undated, why)
                              ELSE Revived(@, Undated, why)],
          {i})

\* One title of an Arr sync: seed, then refreshArr, unless nothing changed.
ArrReports(i, stage, has) ==
  LET r == Seeded(rows[i], "arr", stage, "none")
      fresh == [r EXCEPT !.stage = IF stage = Undated THEN @ ELSE stage,
                         !.satisfied = has,
                         !.wait = IF has THEN Later ELSE IF stage = 0 THEN 1 ELSE Due]
  IN
  /\ \/ rows[i].source # "arr"
     \/ rows[i].stage # stage
     \/ rows[i].satisfied # has
  /\ Outside([rows EXCEPT ![i] = fresh], {i})

\* The Arr no longer has it: withdrawUnmonitored.
ArrVanishes(i) ==
  /\ rows[i].source = "arr"
  /\ Outside([rows EXCEPT ![i].state = IF @ = "anticipated" THEN "withdrawn" ELSE @], {})

\* ensureRequestedSeason, from Seerr's webhook.
SeasonRequested ==
  /\ ThreadFree
  /\ Episodes # {}
  /\ season # "due"
  /\ Counted
  /\ season' = "due"
  /\ UNCHANGED <<rows, lost, tick, rested, orphans>>

\* The VFS entry and the Binding of a playable row go.
Unbound(i) ==
  /\ rows[i].state = "playable"
  /\ i \notin lost
  /\ ThreadFree
  /\ Counted
  /\ lost' = lost \cup {i}
  /\ rested' = [rested EXCEPT ![i] = TRUE]
  /\ UNCHANGED <<rows, season, tick, orphans>>

\* The webhook closes its scope, which fires the refresh of each bucket.
ScopeCloses ==
  /\ phase = "kept"
  /\ phase' = "refresh"
  /\ UNCHANGED <<store, seasonLast, pc, todo, snap, hand, rested, orphans, events>>

\* The process dies and starts again: the tick is gone, the rows are not, and
\* the requested season is recovered with the episodes 'asked' of it.
Restart(asked) ==
  LET after == [i \in Intents |->
                  IF season # "none" /\ i \in asked
                  THEN Ensured(rows[i], rows[i].stage) ELSE rows[i]]
  IN
  /\ Counted
  /\ rows' = after
  /\ season' = IF season = "none" THEN "none" ELSE "due"
  /\ rested' = [i \in Intents |-> \/ rested[i] \/ i = hand
                                  \/ after[i].owned /\ ~rows[i].owned]
  /\ orphans' = {i \in Intents : rows[i].state = "preparing"}
  /\ seasonLast' = FALSE
  /\ pc' = "idle"
  /\ todo' = {}
  /\ snap' = [i \in Intents |-> NoRow]
  /\ hand' = None
  /\ phase' = "none"
  /\ UNCHANGED lost

\* A date comes a stage nearer, in the row and in the snapshot alike.
TimePasses(i) ==
  \E s \in 0..2 :
    /\ rows[i].stage = s \/ snap[i].stage = s
    /\ rows' = IF rows[i].stage = s
               THEN [rows EXCEPT ![i].stage = s + 1,
                                 ![i].wait = IF @ = s + 1 THEN Due ELSE @]
               ELSE rows
    /\ snap' = IF snap[i].stage = s THEN [snap EXCEPT ![i].stage = s + 1] ELSE snap
    /\ rested' = [rested EXCEPT ![i] = TRUE]
    /\ UNCHANGED <<season, seasonLast, pc, todo, hand, phase, lost, orphans, events>>

\* A backoff or a park elapses.
WaitElapses(i) ==
  /\ rows[i].state \in {"anticipated", "failed", "prepared", "published_preparing"}
  /\ rows[i].wait = Later
  /\ rows' = [rows EXCEPT ![i].wait = Due]
  /\ rested' = [rested EXCEPT ![i] = TRUE]
  /\ UNCHANGED <<season, lost, tick, orphans, events>>

SeasonElapses ==
  /\ season = "later"
  /\ season' = "due"
  /\ UNCHANGED <<rows, lost, tick, rested, orphans, events>>

-----------------------------------------------------------------------------
TickBegins == TickSeason \/ TickDrains \/ \E i \in Intents : TickDemotes(i)

TakesUp(i) ==
  \/ TakeLoses(i)
  \/ TakeSleeps(i)
  \/ TakePrepares(i)
  \/ TakeHolds(i)
  \/ TakePublishes(i)
  \/ TakeRearms(i)

Answered(i) ==
  \/ PreparedWell(i)
  \/ PreparedAgain(i)
  \/ BelowFloor(i)
  \/ PrepareFails(i)
  \/ ActionThrows(i)
  \/ ProbePasses(i)
  \/ Published(i)
  \/ Notified(i)
  \/ Confirmed(i)
  \/ NotYetPlayable(i)
  \/ BytesReady(i)

Works ==
  \/ TickBegins
  \/ SeasonAnswers
  \/ SeasonFails
  \/ \E i \in Intents : TakesUp(i) \/ Answered(i)

Others ==
  \/ \E i \in Requested, s \in Dates, why \in {"future", "market"} :
       SeerrDefers(i, s, why)
  \/ SeerrWithdraws
  \/ \E media \in SUBSET Intents : SeerrWakes(media)
  \/ \E i \in Requested, why \in {"market", "other"} : FollowUp(i, why)
  \/ \E i \in ArrRows, s \in Dates, has \in BOOLEAN : ArrReports(i, s, has)
  \/ \E i \in ArrRows : ArrVanishes(i)
  \/ SeasonRequested
  \/ \E i \in Intents : Unbound(i)
  \/ ScopeCloses
  \/ \E asked \in SUBSET Episodes : Restart(asked)

Clock ==
  \/ SeasonElapses
  \/ \E i \in Intents : TimePasses(i) \/ WaitElapses(i)

Next == Works \/ Others \/ Clock

\* The timer runs again after every tick, the calls a tick awaits end, and time
\* passes. Requests and probes are aborted by their timeouts, a refresh by the
\* notifier's. Nothing ends a notification that a scope keeps: while it is kept
\* no step of the tick is enabled, the timer, re-armed by the tick's end, does not
\* run, and whether the scope closes is the webhook's affair (SeasonFanOut), of
\* which nothing is assumed.
Fairness ==
  /\ WF_vars(Works)
  /\ \A i \in Intents : WF_vars(TimePasses(i)) /\ WF_vars(WaitElapses(i))

Spec == Init /\ [][Next]_vars /\ Fairness

-----------------------------------------------------------------------------
(* Properties                                                              *)

\* Whatever way the work on a claimed row ends - an answer, a refusal, an
\* exception - the row leaves 'preparing': only a crash can strand it there.
PreparingIsHeld ==
  \A i \in Intents :
    rows[i].state = "preparing" => i = hand \/ i \in orphans

\* No step of the tick brings back a row that was withdrawn, although it works
\* from a snapshot in which the row may still be wanted (the claim's and the
\* retry's WHERE clauses, and the unconditional transitions after an await).
WithdrawnStays ==
  [][\A i \in Intents :
       /\ rows[i].state = "withdrawn"
       /\ rows'[i].state # "withdrawn"
       => UNCHANGED tick]_vars

\* A continuing obligation: a season owns the row, and the market missed it.
Obliged(r) == r.owned /\ r.defer = "market"

\* A continuing obligation that has run out of attempts "is reconsidered only
\* once the cold park (PARKED_MS) has elapsed - never hot" (scheduler.js:71-75):
\* the tick takes an exhausted row up again only if it is one, and after its
\* park has run out or somebody has asked for it. A release the tick has seen,
\* and other writers, wake it anyway.
ExhaustedRests ==
  [][\A i \in Intents :
       /\ Exhausted(rows[i])
       /\ rows'[i].state = "anticipated"
       => \/ UNCHANGED tick
          \/ ReleaseWakes(snap[i])
          \/ Obliged(rows[i]) /\ rested[i]]_vars

\* "a Seerr-deferred row that never fulfilled is still wanted [...] Park it at
\* the low 7-day cadence instead of letting it die" (scheduler.js:630-634): an
\* exhausted row of a request's is tried again, whether a season owns it or not.
DeferredIsReconsidered ==
  \A i \in Intents :
    /\ Exhausted(rows[i])
    /\ rows[i].source = "seerr"
    /\ rows[i].defer = "market"
    ~> ~Exhausted(rows[i])

\* The rows due() selects whatever their poll time says.
Overridden(i) ==
  \/ rows[i].defer = "future" /\ rows[i].stage = Released
  \/ ReleaseWakes(snap[i])

\* Between two turns of a row on the providers its backoff or park has run
\* out, a stage of its release was reached or somebody asked for it again: no
\* reconciliation turns a park into a hot loop (ensureSeasonEpisode). Rows
\* still marked 'future' after their release are excepted: due() ignores
\* their poll time.
NoHotLoop ==
  [][\A i \in Intents :
       hand' = i /\ hand # i => rested[i] \/ Overridden(i)]_vars

\* The same without the exception: the backoff that intentBackoffMs documents.
BackoffHolds ==
  [][\A i \in Intents : hand' = i /\ hand # i => rested[i]]_vars

Settled(i) ==
  \/ rows[i].state \in {"absent", "withdrawn"}
  \/ rows[i].state = "playable" /\ i \notin lost
  \/ Exhausted(rows[i]) /\ ~Obliged(rows[i])
  \/ rows[i].satisfied
  \/ rows[i].state = "preparing" /\ i \in orphans

\* No scope is left open for ever over a notification the tick awaits.
ScopesClose == []<>(phase # "kept")

\* Once nothing fails any more, every intent ends: playable, withdrawn,
\* exhausted with no season to want it still, or in the Arr's hands; the rows
\* a crash strands are excepted. It takes scopes that close.
EveryIntentSettles == ScopesClose => <>[](\A i \in Intents : Settled(i))

\* The turn of a row ends: "abort the action's in-flight HTTP call once the
\* budget expires so one pathological action cannot consume (or multiply across)
\* the tick" (scheduler.js:837-839).
TurnsEnd == \A i \in Intents : (hand = i) ~> (hand # i)

\* "'preparing' rows visible here are orphaned [...]; the scheduler requeues
\* them" (future-intents.js:198).
OrphansAreRequeued ==
  \A i \in Intents : (i \in orphans) ~> (rows[i].state # "preparing")

\* Prepared and published rows are durable truth and stay prepared when their
\* publication fails (scheduler.js:571).
FailedPublicationKeepsPrepared ==
  [][\A i \in Intents :
       /\ rows[i].state \in {"prepared", "published_preparing"}
       /\ hand = i
       => rows'[i].state # "anticipated"]_vars
=============================================================================
