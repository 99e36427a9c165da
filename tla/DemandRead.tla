----------------------------- MODULE DemandRead -----------------------------
(***************************************************************************)
(* The demand side of the chunk cache: get_file in data-plane/src/serve.rs *)
(* answering byte ranges of one file over the fills of ChunkCache.         *)
(*                                                                         *)
(* A demand plans its window from the rows present at that moment, then    *)
(* goes through the window run by run, in ascending order.  A run of       *)
(* absent chunks is rechecked, then claimed or joined under one lock; the  *)
(* chunks it owns stream from its own fills over a bounded channel, the    *)
(* others it waits for, at most JOIN_GRACE, before it fetches the chunk    *)
(* itself -- once per run of absent chunks.                                *)
(*                                                                         *)
(* The fill that demand d spawns for the run of chunks starting at c is    *)
(* named <<d, c>>, and its takeover of chunk c <<d, NumChunks + c>>.       *)
(***************************************************************************)
EXTENDS ChunkCache

CONSTANTS
  Demand,   \* client range requests
  Leaving,  \* bound: the demands whose client may hang up or stall
  Windows   \* [demand -> the chunk windows it may ask for, as <<first, last>>]

ASSUME DemandFills == Fill = Demand \X (0 .. (2 * NumChunks - 1))
ASSUME DemandWindows ==
  \A d \in Demand : \A w \in Windows[d] : w \in Chunk \X Chunk /\ w[1] <= w[2]

VARIABLES
  handle,    \* chunks with an open descriptor in chunk_files
  dpc,       \* control point of each demand
  pos,       \* the next chunk it delivers
  last,      \* the last chunk of its window
  miss,      \* chunks absent when the window was planned
  local,     \* chunks of the current run found PRESENT by the recheck
  source,    \* [chunk -> the own fill it streams from, or the fill whose
             \*  record it joined]
  tookOver,  \* a takeover was spent in this run of absent chunks
  outcome    \* "none" until the demand ends

demandVars == <<dpc, pos, last, miss, local, source, tookOver, outcome>>
cacheVars == <<vars, handle>>
allVars == <<vars, handle, demandVars>>

Ended == {"complete", "upstream_failed", "error", "cancelled"}

DemandInit ==
  /\ Init /\ handle = {}
  /\ dpc = [d \in Demand |-> "idle"]
  /\ pos = [d \in Demand |-> 0]
  /\ last = [d \in Demand |-> 0]
  /\ miss = [d \in Demand |-> {}]
  /\ local = [d \in Demand |-> {}]
  /\ source = [d \in Demand |-> [c \in Chunk |-> NoFill]]
  /\ tookOver = [d \in Demand |-> FALSE]
  /\ outcome = [d \in Demand |-> "none"]

(* The absent run the demand is at: plan.runs groups neighbours.           *)
FetchRun(d) ==
  {c \in miss[d] : pos[d] <= c /\ \A e \in pos[d] .. c : e \in miss[d]}

(* The chunk streams from a fill this demand spawned.                      *)
Owns(d, c) == source[d][c] # NoFill /\ source[d][c][1] = d

(* The chunk was joined: another demand created its record.                *)
Waits(d, c) == source[d][c] # NoFill /\ source[d][c][1] # d

(* pread: an open descriptor outlives the file's name.                     *)
Readable(c) == c \in file \cup handle

End(d, o) ==
  /\ dpc' = [dpc EXCEPT ![d] = "ended"]
  /\ outcome' = [outcome EXCEPT ![d] = o]

(* Mutant: the end of a chunk's range is taken for exclusive.              *)
Advance_Skips(d) ==
  /\ pos' = [pos EXCEPT ![d] = @ + 2]
  /\ dpc' = [dpc EXCEPT ![d] = IF dpc[d] # "run" /\ pos[d] + 2 \in miss[d]
                              THEN "consume" ELSE "run"]
(* Deliver the chunk at pos: the next one is an item of the same absent    *)
(* run, or the demand goes back to its plan.                               *)
Advance(d) ==
  /\ pos' = [pos EXCEPT ![d] = @ + 1]
  /\ dpc' = [dpc EXCEPT ![d] = IF dpc[d] # "run" /\ pos[d] + 1 \in miss[d]
                              THEN "consume" ELSE "run"]

-----------------------------------------------------------------------------
(* Planning and joining.                                                   *)

Plan(d, lo, hi) ==
  /\ dpc[d] = "idle"
  /\ dpc' = [dpc EXCEPT ![d] = "run"]
  /\ pos' = [pos EXCEPT ![d] = lo]
  /\ last' = [last EXCEPT ![d] = hi]
  /\ miss' = [miss EXCEPT ![d] = (lo .. hi) \ row]
  /\ UNCHANGED <<cacheVars, local, source, tookOver, outcome>>

(* A chunk the plan found PRESENT is read without looking again.           *)
ReadPlanned(d) ==
  /\ dpc[d] = "run" /\ pos[d] <= last[d] /\ pos[d] \notin miss[d]
  /\ IF Readable(pos[d])
     THEN Advance(d) /\ handle' = handle \cup {pos[d]} /\ UNCHANGED outcome
     ELSE End(d, "error") /\ UNCHANGED <<pos, handle>>
  /\ UNCHANGED <<vars, last, miss, local, source, tookOver>>

(* Entering an absent run: chunks a fill completed meanwhile become local. *)
Recheck(d) ==
  /\ dpc[d] = "run" /\ pos[d] \in miss[d]
  /\ dpc' = [dpc EXCEPT ![d] = "join"]
  /\ local' = [local EXCEPT ![d] = FetchRun(d) \cap row]
  /\ UNCHANGED <<cacheVars, pos, last, miss, source, tookOver, outcome>>

(* join_or_claim_many: claim what nobody holds, join what somebody does.   *)
Join(d) ==
  LET wanted == FetchRun(d) \ local[d]
      free == {c \in wanted : inflight[c] = NoFill}
      head(c) == First({e \in free : e <= c /\ e .. c \subseteq free})
      own == [c \in free |-> <<d, head(c)>>] IN
  /\ dpc[d] = "join"
  /\ dpc' = [dpc EXCEPT ![d] = "consume"]
  /\ source' = [source EXCEPT ![d] = [c \in Chunk |->
                  IF c \in free THEN own[c]
                  ELSE IF c \in wanted THEN inflight[c] ELSE NoFill]]
  /\ tookOver' = [tookOver EXCEPT ![d] = FALSE]
  /\ IF free = {} THEN UNCHANGED vars ELSE Claim(free, own)
  /\ UNCHANGED <<handle, pos, last, miss, local, outcome>>

-----------------------------------------------------------------------------
(* Consuming the items of an absent run in ascending order.                *)

AtItem(d) == dpc[d] = "consume"

PreadItem(d) ==
  /\ IF Readable(pos[d])
     THEN Advance(d) /\ handle' = handle \cup {pos[d]} /\ UNCHANGED outcome
     ELSE End(d, "error") /\ UNCHANGED <<pos, handle>>
  /\ UNCHANGED <<vars, last, miss, local, source, tookOver>>

ReadLocal(d) ==
  /\ AtItem(d) /\ source[d][pos[d]] = NoFill
  /\ PreadItem(d)

(* What fill g has read of chunk c has reached the channel: of the first   *)
(* chunk of a split fill, the window part comes before anything is staged. *)
Streamed(g, c) ==
  \/ c \notin todo[g]
  \/ served[g]
  \/ split[g] /\ pc[g] = "reading" /\ c \in todo[g] /\ c = First(todo[g])

Stream(d) ==
  /\ AtItem(d) /\ Owns(d, pos[d])
  /\ Streamed(source[d][pos[d]], pos[d])
  /\ Advance(d)
  /\ UNCHANGED <<cacheVars, last, miss, local, source, tookOver, outcome>>

(* SpanMsg::Failed, sent after the fill has resolved its records.          *)
StreamFails(d) ==
  LET g == source[d][pos[d]] IN
  /\ AtItem(d) /\ Owns(d, pos[d])
  /\ ~ Streamed(g, pos[d]) /\ pc[g] = "done"
  /\ End(d, "upstream_failed")
  /\ UNCHANGED <<cacheVars, pos, last, miss, local, source, tookOver>>

-----------------------------------------------------------------------------
(* Waiting on a record somebody else created.                              *)

Joined(d) == <<source[d][pos[d]], pos[d]>>
Resolved(d) == Joined(d) \in success \cup failed
Takeover(d) == <<d, NumChunks + pos[d]>>

(* The flags are looked at before the wait.  A demand that has spent its   *)
(* takeover does not wait at all.                                          *)
WaitCheck(d) ==
  /\ AtItem(d) /\ Waits(d, pos[d])
  /\ dpc' = [dpc EXCEPT ![d] = IF Resolved(d) \/ tookOver[d] THEN "serve" ELSE "await"]
  /\ UNCHANGED <<cacheVars, pos, last, miss, local, source, tookOver, outcome>>

(* Mutant: a failed record does not wake its waiters.                      *)
Notified_OnSuccess(d) ==
  /\ dpc[d] = "await" /\ Joined(d) \in success
  /\ dpc' = [dpc EXCEPT ![d] = "serve"]
  /\ UNCHANGED <<cacheVars, pos, last, miss, local, source, tookOver, outcome>>
(* Notified, or out of time with the record resolved meanwhile.            *)
Notified(d) ==
  /\ dpc[d] = "await" /\ Resolved(d)
  /\ dpc' = [dpc EXCEPT ![d] = "serve"]
  /\ UNCHANGED <<cacheVars, pos, last, miss, local, source, tookOver, outcome>>

(* JOIN_GRACE ran out on an unresolved record: fetch the chunk here.       *)
Grace(d) ==
  /\ dpc[d] = "await" /\ ~ Resolved(d)
  /\ dpc' = [dpc EXCEPT ![d] = "filling"]
  /\ tookOver' = [tookOver EXCEPT ![d] = TRUE]
  /\ TakeOver(Takeover(d), pos[d])
  /\ UNCHANGED <<handle, pos, last, miss, local, source, outcome>>

(* The takeover is awaited in place; its outcome is not looked at.         *)
TakenOver(d) ==
  /\ dpc[d] = "filling" /\ pc[Takeover(d)] = "done"
  /\ dpc' = [dpc EXCEPT ![d] = "serve"]
  /\ UNCHANGED <<cacheVars, pos, last, miss, local, source, tookOver, outcome>>

(* Mutant: a failed record is believed, whatever the cache holds.          *)
ServeJoined_TrustsFlag(d) ==
  /\ dpc[d] = "serve"
  /\ IF Joined(d) \in failed
     THEN End(d, "upstream_failed") /\ UNCHANGED <<cacheVars, pos, last, miss, local,
                                                  source, tookOver>>
     ELSE PreadItem(d)
(* "The cache is the authority": a failed record fails the demand only if  *)
(* the chunk is absent; otherwise the chunk is read.                       *)
ServeJoined(d) ==
  /\ dpc[d] = "serve"
  /\ IF Joined(d) \in failed /\ pos[d] \notin row
     THEN End(d, "upstream_failed") /\ UNCHANGED <<cacheVars, pos, last, miss, local,
                                                  source, tookOver>>
     ELSE PreadItem(d)

-----------------------------------------------------------------------------
Complete(d) ==
  /\ dpc[d] = "run" /\ pos[d] > last[d]
  /\ End(d, "complete")
  /\ UNCHANGED <<cacheVars, pos, last, miss, local, source, tookOver>>

(* The client hangs up or stalls past the watchdog, at the next send.      *)
Cancel(d) ==
  /\ d \in Leaving /\ dpc[d] \in {"run", "consume", "serve"}
  /\ End(d, "cancelled")
  /\ UNCHANGED <<cacheVars, pos, last, miss, local, source, tookOver>>

(* A step of a fill; an eviction drops the cached descriptor with the file.*)
CacheStep(g) ==
  /\ FillStep(g)
  /\ handle' = IF pc[g] = "unlink" THEN handle \ victim[g] ELSE handle
  /\ UNCHANGED demandVars

DemandStep(d) ==
  \/ ReadPlanned(d) \/ Recheck(d) \/ Join(d)
  \/ ReadLocal(d) \/ Stream(d) \/ StreamFails(d)
  \/ WaitCheck(d) \/ Notified(d) \/ Grace(d) \/ TakenOver(d) \/ ServeJoined(d)
  \/ Complete(d)

(* Fill g cannot go on reading: its channel is full, and the demand that   *)
(* drains it is still before the chunk the fill is at.                     *)
Backpressured(g) ==
  /\ pc[g] = "reading" /\ ServeSpan(g) # {}
  /\ g[2] < NumChunks
  /\ dpc[g[1]] # "ended" /\ pos[g[1]] < First(ServeSpan(g))

DemandNext ==
  \/ \E d \in Demand : \E w \in Windows[d] : Plan(d, w[1], w[2])
  \/ \E d \in Demand : DemandStep(d) \/ Cancel(d)
  \/ \E g \in Fill : CacheStep(g)

DemandSpec == DemandInit /\ [][DemandNext]_allVars

(* A task that can run: a demand's producer (its client reads, or is cut   *)
(* off by the watchdog), or a fill whose channel is not full.              *)
Progress ==
  \/ \E d \in Demand : DemandStep(d)
  \/ \E g \in Fill : ~ Backpressured(g) /\ CacheStep(g)

(* Nobody does anything twice, so it is enough that the runtime never      *)
(* stops while some task can run.                                          *)
DemandFairSpec == DemandSpec /\ WF_allVars(Progress)

-----------------------------------------------------------------------------
(* Properties.                                                             *)

DemandPc == {"idle", "run", "join", "consume", "await", "filling", "serve", "ended"}

(* Type invariant of the demands.                                          *)
DemandTypeOK ==
  /\ handle \in SUBSET Chunk /\ dpc \in [Demand -> DemandPc]
  /\ pos \in [Demand -> 0 .. NumChunks] /\ last \in [Demand -> 0 .. NumChunks]
  /\ miss \in [Demand -> SUBSET Chunk] /\ local \in [Demand -> SUBSET Chunk]
  /\ source \in [Demand -> [Chunk -> Fill \cup {NoFill}]]
  /\ tookOver \in [Demand -> BOOLEAN]
  /\ outcome \in [Demand -> Ended \cup {"none"}]

UpstreamFailed == \E g \in Fill : ~ ok[g]
Evicted == \E g \in Fill : dropped[g] # {}
PrefixSkipped == \E g \in Fill : served[g] /\ todo[g] # {}

(* While no upstream read has failed, nothing was evicted and no fill left *)
(* the prefix of its first chunk unread, a demand is never told that       *)
(* upstream failed, although a fill that lost the race to publish marks    *)
(* its records failed; and it is truncated by an unreadable chunk only     *)
(* after it has spent its one takeover.                                    *)
CleanFailures ==
  \A d \in Demand :
    /\ outcome[d] = "upstream_failed" => UpstreamFailed \/ Evicted \/ PrefixSkipped
    /\ outcome[d] = "error" => UpstreamFailed \/ Evicted \/ tookOver[d]

(* A joined chunk is PRESENT and durable by the time it is read (serve.rs, *)
(* Waiter arm): with upstream healthy and nothing evicted, no demand is    *)
(* cut short by a chunk it joined.                                         *)
JoinedChunkIsReadable ==
  \A d \in Demand : outcome[d] = "error" => UpstreamFailed \/ Evicted

(* Every demand ends: fills that stream into each other's demands through  *)
(* full channels, joined records, takeovers and failures never leave       *)
(* demands waiting for each other.                                         *)
DemandsEnd == <>[](\A d \in Demand : dpc[d] \in {"idle", "ended"})

=============================================================================
