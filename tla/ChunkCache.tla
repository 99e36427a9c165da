----------------------------- MODULE ChunkCache -----------------------------
(***************************************************************************)
(* The durable chunk cache of the data plane (data-plane/src/cache.rs) and *)
(* the fill tasks that populate it (fill_chunk_run_inner in serve.rs), for *)
(* the chunks of one file.                                                 *)
(*                                                                         *)
(* A chunk is PRESENT when the SQLite table has a row for it; its bytes    *)
(* are a file of their own.  Nothing makes the two atomic: a fill renames  *)
(* the staged file, inserts the row and charges the byte budget in three   *)
(* steps, and an eviction deletes the row, unlinks the file and refunds    *)
(* the budget in three more.  The in-flight map is what keeps fills and    *)
(* evictions of one chunk apart; every lock of it is one step here.        *)
(*                                                                         *)
(* A record of the in-flight map is named <<f, c>>: fill f claimed chunk c *)
(* and created it.  All chunks weigh one unit of the budget.               *)
(***************************************************************************)
EXTENDS Integers, FiniteSets

CONSTANTS
  NumChunks,    \* chunks of the file's grid
  Fill,         \* fill tasks: each is spawned at most once
  NoFill,       \* no owner
  MaxChunks,    \* CacheConfig.max_bytes, in chunks
  MaxRestarts   \* bound: process restarts

ASSUME ChunkCacheAssumption ==
  /\ NumChunks \in Nat
  /\ MaxChunks \in Nat
  /\ MaxRestarts \in Nat
  /\ NoFill \notin Fill
  /\ IsFiniteSet(Fill)

Chunk == 0 .. (NumChunks - 1)
Record == Fill \X Chunk

First(S) == CHOOSE c \in S : \A d \in S : c <= d

VARIABLES
  row,        \* chunks with a row in SQLite: PRESENT
  file,       \* chunks whose <idx>.chunk file exists
  budget,     \* current_bytes
  inflight,   \* [Chunk -> fill whose record is in the map, or NoFill]
  created,    \* records handed out by join_or_claim_many
  success,    \* records whose success flag is set
  failed,     \* records whose failed flag is set
  pc,         \* control point of each fill task
  run,        \* chunks the fill was spawned for
  todo,       \* chunks of the run not yet promoted
  held,       \* records the fill's OwnedFillGuard looked up
  unmarked,   \* chunks whose record the guard has not gone through
  split,      \* the fill reads the client window before the prefix
  served,     \* serve_done_ok: the window span of a split fill is done
  ok,         \* the read ended without a terminal failure
  published,  \* chunks the fill reports as published
  cand,       \* rows its eviction sweep still has to look at
  victim,     \* the row the sweep is evicting, as a set
  dropped,    \* chunks whose row the sweep of this fill deleted (history)
  restarts

storeVars == <<row, file, budget>>
mapVars == <<inflight, created, success, failed>>
readVars == <<run, todo, split, served, ok, published>>
sweepVars == <<cand, victim, dropped>>
vars == <<storeVars, mapVars, pc, readVars, held, unmarked, sweepVars, restarts>>

Live == {"claimed", "reading", "renamed", "charge", "tail", "sweep", "evict",
         "unlink", "refund", "mark", "resolve"}

(* A fill past its reads, in the eviction sweep it runs before it resolves. *)
Sweeping == {"tail", "sweep", "evict", "unlink", "refund"}

Init ==
  /\ row = {} /\ file = {} /\ budget = 0
  /\ inflight = [c \in Chunk |-> NoFill]
  /\ created = {} /\ success = {} /\ failed = {}
  /\ pc = [f \in Fill |-> "idle"]
  /\ run = [f \in Fill |-> {}]
  /\ todo = [f \in Fill |-> {}]
  /\ held = [f \in Fill |-> {}]
  /\ unmarked = [f \in Fill |-> {}]
  /\ split = [f \in Fill |-> FALSE]
  /\ served = [f \in Fill |-> FALSE]
  /\ ok = [f \in Fill |-> TRUE]
  /\ published = [f \in Fill |-> {}]
  /\ cand = [f \in Fill |-> {}]
  /\ victim = [f \in Fill |-> {}]
  /\ dropped = [f \in Fill |-> {}]
  /\ restarts = 0

Goto(f, l) == pc' = [pc EXCEPT ![f] = l]

-----------------------------------------------------------------------------
(* Claiming.                                                               *)

(* own sends each maximal run of consecutive owned chunks to one fill task *)
(* and different runs to different tasks.                                  *)
SpawnsRuns(S, own) ==
  \A c, d \in S :
    own[c] = own[d] <=> \A e \in Chunk : (c <= e /\ e <= d) \/ (d <= e /\ e <= c) => e \in S

(* A demand saw the chunks of S absent, some time ago, and takes the ones  *)
(* nobody holds under one lock: join_or_claim_many.  Nothing re-reads the  *)
(* rows under that lock, so a chunk of S may have become PRESENT since.    *)
Claim(S, own) ==
  LET Given(f) == {c \in S : own[c] = f}
      Give(old) == [f \in Fill |-> IF Given(f) = {} THEN old[f] ELSE Given(f)] IN
  /\ S # {}
  /\ \A c \in S : inflight[c] = NoFill /\ pc[own[c]] = "idle"
  /\ SpawnsRuns(S, own)
  /\ inflight' = [c \in Chunk |-> IF c \in S THEN own[c] ELSE inflight[c]]
  /\ created' = created \cup {<<own[c], c>> : c \in S}
  /\ pc' = [f \in Fill |-> IF Given(f) = {} THEN pc[f] ELSE "claimed"]
  /\ run' = Give(run) /\ todo' = Give(todo) /\ unmarked' = Give(unmarked)
  /\ UNCHANGED <<storeVars, success, failed, held, split, served, ok, published,
                 sweepVars, restarts>>

(* A waiter's grace ran out on a record that is still unresolved: it fills *)
(* the chunk itself, without claiming it.                                  *)
TakeOver(f, c) ==
  /\ pc[f] = "idle"
  /\ \E g \in Fill : <<g, c>> \in created \ (success \cup failed)
  /\ Goto(f, "claimed")
  /\ run' = [run EXCEPT ![f] = {c}]
  /\ todo' = [todo EXCEPT ![f] = {c}]
  /\ unmarked' = [unmarked EXCEPT ![f] = {c}]
  /\ UNCHANGED <<storeVars, mapVars, held, split, served, ok, published, sweepVars, restarts>>

-----------------------------------------------------------------------------
(* Reading upstream and publishing, one chunk after the other.             *)

(* Mutant: the guard takes a record of every chunk to be there.            *)
Start_AssumesRecords(f) ==
  /\ pc[f] = "claimed"
  /\ Goto(f, "reading")
  /\ held' = [held EXCEPT ![f] = {<<inflight[c], c>> : c \in run[f]}]
  /\ \E s \in BOOLEAN :
       /\ s => <<f, First(run[f])>> \in created
       /\ split' = [split EXCEPT ![f] = s]
  /\ UNCHANGED <<storeVars, mapVars, run, todo, served, ok, published, unmarked,
                 sweepVars, restarts>>
(* The task starts: its guard looks up the records of its chunks, whoever  *)
(* created them (OwnedFillGuard::new, records_for).  A fill that streams   *)
(* to its demand may read the client window first; a takeover never does.  *)
Start(f) ==
  /\ pc[f] = "claimed"
  /\ Goto(f, "reading")
  /\ held' = [held EXCEPT ![f] = {<<inflight[c], c>> :
                                    c \in {d \in run[f] : inflight[d] # NoFill}}]
  /\ \E s \in BOOLEAN :
       /\ s => <<f, First(run[f])>> \in created
       /\ split' = [split EXCEPT ![f] = s]
  /\ UNCHANGED <<storeVars, mapVars, run, todo, served, ok, published, unmarked,
                 sweepVars, restarts>>

(* A split fill reads [w_start, f_end] first, which completes every chunk  *)
(* but the first one, whose prefix is the second span.                     *)
ServeSpan(f) ==
  IF split[f] /\ ~served[f] THEN todo[f] \ {First(run[f])} ELSE todo[f]

(* The last byte of a chunk is staged: rename over <idx>.chunk.            *)
Rename(f) ==
  /\ pc[f] = "reading" /\ ServeSpan(f) # {}
  /\ Goto(f, "renamed")
  /\ file' = file \cup {First(ServeSpan(f))}
  /\ UNCHANGED <<row, budget, mapVars, readVars, held, unmarked, sweepVars, restarts>>

(* publish_chunk: the row that is already there wins and costs nothing.    *)
InsertRow(f) ==
  LET c == First(ServeSpan(f)) IN
  /\ pc[f] = "renamed"
  /\ row' = row \cup {c}
  /\ IF c \in row
     THEN /\ Goto(f, "reading")
          /\ todo' = [todo EXCEPT ![f] = @ \ {c}]
     ELSE /\ Goto(f, "charge")
          /\ UNCHANGED todo
  /\ UNCHANGED <<file, budget, mapVars, run, split, served, ok,
                 published, held, unmarked, sweepVars, restarts>>

Charge(f) ==
  LET c == First(ServeSpan(f)) IN
  /\ pc[f] = "charge"
  /\ Goto(f, "reading")
  /\ budget' = budget + 1
  /\ published' = [published EXCEPT ![f] = @ \cup {c}]
  /\ todo' = [todo EXCEPT ![f] = @ \ {c}]
  /\ UNCHANGED <<row, file, mapVars, run, split, served, ok, held,
                 unmarked, sweepVars, restarts>>

(* The window span of a split fill is complete; the prefix is next.        *)
ServeDone(f) ==
  /\ pc[f] = "reading" /\ split[f] /\ ~served[f] /\ ServeSpan(f) = {}
  /\ served' = [served EXCEPT ![f] = TRUE]
  /\ UNCHANGED <<storeVars, mapVars, pc, run, todo, split, ok, published, held,
                 unmarked, sweepVars, restarts>>

(* Everything is read, or the prefix is skipped: provider pressure, or the *)
(* client is gone.  finish() discards the incomplete chunk.                *)
ReadDone(f) ==
  /\ pc[f] = "reading"
  /\ todo[f] = {} \/ (served[f] /\ todo[f] = {First(run[f])})
  /\ Goto(f, "tail")
  /\ UNCHANGED <<storeVars, mapVars, readVars, held, unmarked, sweepVars,
                 restarts>>

(* Mutant: abort removes the published chunk instead of the staged file.   *)
ReadFails_AbortsObject(f) ==
  /\ pc[f] = "reading" /\ todo[f] # {}
  /\ Goto(f, "mark")
  /\ file' = file \ ServeSpan(f)
  /\ ok' = [ok EXCEPT ![f] = FALSE]
  /\ published' = [published EXCEPT ![f] = IF served[f] THEN @ ELSE {}]
  /\ UNCHANGED <<row, budget, mapVars, run, todo, split, served, held, unmarked, sweepVars,
                 restarts>>
(* No capability, no response, or a terminal transport failure: abort().   *)
(* Only a split fill that served its window reports what it published.     *)
ReadFails(f) ==
  /\ pc[f] = "reading" /\ todo[f] # {}
  /\ Goto(f, "mark")
  /\ ok' = [ok EXCEPT ![f] = FALSE]
  /\ published' = [published EXCEPT ![f] = IF served[f] THEN @ ELSE {}]
  /\ UNCHANGED <<storeVars, mapVars, run, todo, split, served, held, unmarked,
                 sweepVars, restarts>>

-----------------------------------------------------------------------------
(* maybe_evict, run by a fill that read everything, before it resolves its *)
(* records.  The LRU order of the candidates is left open.                 *)

SweepStart(f) ==
  /\ pc[f] = "tail"
  /\ IF budget <= MaxChunks
     THEN Goto(f, "mark") /\ UNCHANGED cand
     ELSE Goto(f, "sweep") /\ cand' = [cand EXCEPT ![f] = row]
  /\ UNCHANGED <<storeVars, mapVars, readVars, held, unmarked, victim, dropped, restarts>>

SweepEnd(f) ==
  /\ pc[f] = "sweep"
  /\ cand[f] = {} \/ budget <= MaxChunks
  /\ Goto(f, "mark")
  /\ cand' = [cand EXCEPT ![f] = {}]
  /\ UNCHANGED <<storeVars, mapVars, readVars, held, unmarked, victim, dropped, restarts>>

(* A chunk with a live fill is skipped.                                    *)
SweepSkip(f, c) ==
  /\ pc[f] = "sweep" /\ budget > MaxChunks
  /\ c \in cand[f] /\ inflight[c] # NoFill
  /\ cand' = [cand EXCEPT ![f] = @ \ {c}]
  /\ UNCHANGED <<storeVars, mapVars, pc, readVars, held, unmarked, victim, dropped, restarts>>

(* The map lock is released before the row is deleted.                     *)
SweepPick(f, c) ==
  /\ pc[f] = "sweep" /\ budget > MaxChunks
  /\ c \in cand[f] /\ inflight[c] = NoFill
  /\ Goto(f, "evict")
  /\ cand' = [cand EXCEPT ![f] = @ \ {c}]
  /\ victim' = [victim EXCEPT ![f] = {c}]
  /\ UNCHANGED <<storeVars, mapVars, readVars, held, unmarked, dropped, restarts>>

(* Mutant: the count of deleted rows is not looked at.                     *)
EvictRow_Unchecked(f) ==
  /\ pc[f] = "evict"
  /\ Goto(f, "unlink")
  /\ row' = row \ victim[f]
  /\ dropped' = [dropped EXCEPT ![f] = @ \cup victim[f]]
  /\ UNCHANGED <<file, budget, mapVars, readVars, held, unmarked, cand, victim, restarts>>
(* evict_chunk deletes the row; another sweeper may have done it already.  *)
EvictRow(f) ==
  /\ pc[f] = "evict"
  /\ row' = row \ victim[f]
  /\ IF victim[f] \subseteq row
     THEN /\ Goto(f, "unlink")
          /\ dropped' = [dropped EXCEPT ![f] = @ \cup victim[f]]
          /\ UNCHANGED victim
     ELSE /\ Goto(f, "sweep")
          /\ victim' = [victim EXCEPT ![f] = {}]
          /\ UNCHANGED dropped
  /\ UNCHANGED <<file, budget, mapVars, readVars, held, unmarked, cand,
                 restarts>>

(* The file goes, whoever renamed it there (DemandRead adds the cached     *)
(* descriptor).                                                            *)
Unlink(f) ==
  /\ pc[f] = "unlink"
  /\ Goto(f, "refund")
  /\ file' = file \ victim[f]
  /\ UNCHANGED <<row, budget, mapVars, readVars, held, unmarked, sweepVars, restarts>>

(* sub_current_bytes saturates at zero.                                    *)
Refund(f) ==
  /\ pc[f] = "refund"
  /\ Goto(f, "sweep")
  /\ budget' = IF budget = 0 THEN 0 ELSE budget - 1
  /\ victim' = [victim EXCEPT ![f] = {}]
  /\ UNCHANGED <<row, file, mapVars, readVars, held, unmarked, cand,
                 dropped, restarts>>

-----------------------------------------------------------------------------
(* OwnedFillGuard::mark, chunk by chunk.                                   *)

RecordsOf(f, c) == {r \in held[f] : r[2] = c}

(* No record was found, or another fill already reported success on it.    *)
MarkSkip(f) ==
  LET c == First(unmarked[f]) IN
  /\ pc[f] = "mark" /\ unmarked[f] # {}
  /\ RecordsOf(f, c) \subseteq success
  /\ unmarked' = [unmarked EXCEPT ![f] = @ \ {c}]
  /\ UNCHANGED <<storeVars, mapVars, pc, readVars, held, sweepVars, restarts>>

(* The flag is raised first ...                                            *)
MarkFlag(f) ==
  LET c == First(unmarked[f]) IN
  /\ pc[f] = "mark" /\ unmarked[f] # {}
  /\ ~ RecordsOf(f, c) \subseteq success
  /\ Goto(f, "resolve")
  /\ IF c \in published[f]
     THEN success' = success \cup RecordsOf(f, c) /\ UNCHANGED failed
     ELSE failed' = failed \cup RecordsOf(f, c) /\ UNCHANGED success
  /\ UNCHANGED <<storeVars, inflight, created, readVars, held, unmarked, sweepVars,
                 restarts>>

(* Mutant: only a success removes the record.                              *)
Resolve_OnSuccess(f) ==
  LET c == First(unmarked[f]) IN
  /\ pc[f] = "resolve"
  /\ Goto(f, "mark")
  /\ inflight' = [inflight EXCEPT ![c] = IF c \in published[f] THEN NoFill ELSE @]
  /\ unmarked' = [unmarked EXCEPT ![f] = @ \ {c}]
  /\ UNCHANGED <<storeVars, created, success, failed, readVars, held, sweepVars, restarts>>
(* ... then whatever record is in the map for the chunk is removed, and    *)
(* the waiters registered on the guard's record are woken.                 *)
Resolve(f) ==
  LET c == First(unmarked[f]) IN
  /\ pc[f] = "resolve"
  /\ Goto(f, "mark")
  /\ inflight' = [inflight EXCEPT ![c] = NoFill]
  /\ unmarked' = [unmarked EXCEPT ![f] = @ \ {c}]
  /\ UNCHANGED <<storeVars, created, success, failed, readVars, held, sweepVars,
                 restarts>>

(* The task ends and its locals with it; what it streamed to its demand    *)
(* (todo, served, ok) stays visible.                                       *)
FillDone(f) ==
  /\ pc[f] = "mark" /\ unmarked[f] = {}
  /\ Goto(f, "done")
  /\ run' = [run EXCEPT ![f] = {}]
  /\ held' = [held EXCEPT ![f] = {}]
  /\ published' = [published EXCEPT ![f] = {}]
  /\ UNCHANGED <<storeVars, mapVars, todo, split, served, ok, unmarked, sweepVars, restarts>>

-----------------------------------------------------------------------------
(* The process dies and comes back (CacheEngine::open): tasks and records  *)
(* are gone, rows and files stay, unless the stored format or grid         *)
(* differs, and the budget is recomputed from the rows.                    *)
Restart ==
  /\ restarts < MaxRestarts
  /\ restarts' = restarts + 1
  /\ pc' = [f \in Fill |-> IF pc[f] = "idle" THEN "idle" ELSE "done"]
  /\ inflight' = [c \in Chunk |-> NoFill]
  /\ created' = {} /\ success' = {} /\ failed' = {}
  /\ \/ UNCHANGED <<row, file>> /\ budget' = Cardinality(row)
     \/ row' = {} /\ file' = {} /\ budget' = 0
  /\ run' = [f \in Fill |-> {}] /\ todo' = [f \in Fill |-> {}]
  /\ held' = [f \in Fill |-> {}] /\ unmarked' = [f \in Fill |-> {}]
  /\ published' = [f \in Fill |-> {}]
  /\ cand' = [f \in Fill |-> {}] /\ victim' = [f \in Fill |-> {}]
  /\ UNCHANGED <<split, served, ok, dropped>>

FillRead(f) ==
  \/ Start(f) \/ Rename(f) \/ InsertRow(f) \/ Charge(f)
  \/ ServeDone(f) \/ ReadDone(f) \/ ReadFails(f)

Sweep(f) ==
  \/ SweepStart(f) \/ SweepEnd(f)
  \/ \E c \in Chunk : SweepSkip(f, c) \/ SweepPick(f, c)
  \/ EvictRow(f) \/ Unlink(f) \/ Refund(f)

Mark(f) == MarkSkip(f) \/ MarkFlag(f) \/ Resolve(f) \/ FillDone(f)

FillStep(f) == FillRead(f) \/ Sweep(f) \/ Mark(f)

Next ==
  \/ \E f \in Fill : FillStep(f)
  \/ \E f \in Fill, c \in Chunk : TakeOver(f, c)
  \/ \E S \in SUBSET Chunk : \E own \in [S -> Fill] : Claim(S, own)
  \/ Restart

(* Fills are detached tasks whose reads end, by the transport's bounded    *)
(* retries; no fill ever goes back, so it is enough that some fill runs    *)
(* while one can.                                                          *)
Fairness == WF_vars(\E f \in Fill : FillStep(f))

Spec == Init /\ [][Next]_vars
FairSpec == Spec /\ Fairness

-----------------------------------------------------------------------------
(* Properties.                                                             *)

Pc == Live \cup {"idle", "done"}

(* Type invariant of the cache, the in-flight map and the fill tasks.      *)
TypeOK ==
  /\ row \in SUBSET Chunk /\ file \in SUBSET Chunk
  /\ budget \in Nat /\ restarts \in Nat
  /\ inflight \in [Chunk -> Fill \cup {NoFill}]
  /\ created \in SUBSET Record
  /\ success \in SUBSET Record /\ failed \in SUBSET Record
  /\ pc \in [Fill -> Pc]
  /\ run \in [Fill -> SUBSET Chunk] /\ todo \in [Fill -> SUBSET Chunk]
  /\ held \in [Fill -> SUBSET Record] /\ unmarked \in [Fill -> SUBSET Chunk]
  /\ split \in [Fill -> BOOLEAN] /\ served \in [Fill -> BOOLEAN]
  /\ ok \in [Fill -> BOOLEAN] /\ published \in [Fill -> SUBSET Chunk]
  /\ cand \in [Fill -> SUBSET Chunk] /\ victim \in [Fill -> SUBSET Chunk]
  /\ dropped \in [Fill -> SUBSET Chunk]

(* Fill f will still go through the record r of chunk c: either its guard  *)
(* holds r, or it has not looked its records up yet and will find r.       *)
Responsible(f, c, r) ==
  /\ c \in unmarked[f]
  /\ pc[f] = "claimed" \/ (pc[f] \in Live /\ <<r, c>> \in held[f])

(* Fill f is about to remove the record of c from the map.                 *)
Removing(f, c) ==
  pc[f] = "resolve" /\ unmarked[f] # {} /\ c = First(unmarked[f])

(* No record stays in the in-flight map without a live fill that is bound  *)
(* to resolve or remove it, whatever takeovers, failures and late owners   *)
(* share or remove each other's records: the OwnedFillGuard promise that   *)
(* the map leaks no entry and no waiter of a mapped record is abandoned.   *)
NoOrphanRecord ==
  \A c \in Chunk : inflight[c] # NoFill =>
    IF <<inflight[c], c>> \in success
    THEN \E f \in Fill : Removing(f, c)
    ELSE \E f \in Fill : Responsible(f, c, inflight[c])

(* A PRESENT row outlives its bytes only where an eviction sweep took the  *)
(* chunk: publication alone (rename, then insert, by any number of racing  *)
(* fills, with failures and restarts in between) never advertises a chunk  *)
(* whose file is not there.                                                *)
BytesLostOnlyToEviction ==
  \A c \in row \ file : \E f \in Fill : c \in dropped[f]

Charging == {f \in Fill : pc[f] = "charge"}
Refunding == {f \in Fill : pc[f] \in {"unlink", "refund"}}

(* current_bytes never undercounts the rows, but for those a publisher is  *)
(* about to charge: racing publications of a chunk, racing sweepers, the   *)
(* saturating refund and restarts cannot let the store outgrow its count.  *)
(* The saturation can only leave it too high.                              *)
BudgetCoversRows ==
  Cardinality(row) + Cardinality(Refunding) <= budget + Cardinality(Charging)

(* PRESENT means the complete chunk is durably available (cache.rs,        *)
(* ChunkStager): no row without its file.                                  *)
PresentMeansBytes == row \subseteq file

(* The in-flight map empties for good: reads end, guards resolve what they *)
(* hold, and no takeover or late owner can leave an entry behind that bars *)
(* its chunk from being filled or evicted ever again.                      *)
ClaimsResolve == <>[](\A c \in Chunk : inflight[c] = NoFill)

=============================================================================
