# Hashsucker, specified

TLA+ models of the parts of hashsucker in which several actors touch the same
shared state: in the data plane (Rust, `src/data-plane`) the chunk cache, the demand
path and the capability pool; in media-search (JavaScript, `src/media-search`) the
download and handoff lifecycle, the publication of a media unit with its Bindings,
provider preparations, repair transactions, the coalescer of Plex refreshes and the
anticipation scheduler. Each
model is translated from the code; TLC checks it on small instances and TLAPS proves
the central safety properties for every value of the constants. `PROJECT.json` maps
every definition to the lines it stands for, lists the runs, the hazards they were
written for, the theorems, and the places where the code and what it says of itself
differ.

## 1. The system

Hashsucker turns a catalogue of cached torrents into a file system a media
server can play from. media-search resolves a title to a *representation*
(infohash + file), binds it into a namespace, and serves that namespace over
WebDAV; a player's reads arrive at the data plane, which fetches byte ranges from
provider CDNs through short-lived *capabilities* and keeps them in a chunk cache.

| component | state it keeps | operations | talks to |
|---|---|---|---|
| chunk cache (`data-plane/src/cache.rs`) | SQLite rows, chunk files, byte count, in-flight map of `ChunkFill` records | open, load bitmap, `join_or_claim_many`, stage / promote / publish, evict, release | fill tasks and demands call it; every lock is short |
| demand serving and fills (`data-plane/src/serve.rs`) | per-request plan and channels, detached fill tasks with `OwnedFillGuard` | `get_file`, `fill_chunk_run_inner`, takeover after `JOIN_GRACE` | cache, capability pool, transport |
| capability pool (`data-plane/src/manager.rs`) | slots, permits, `InFlight` entries, negative cache, breaker, backoff | `acquire_for_read`, `try_slot`, `resolve_internal`, retire, demote | control plane (mint), fills |
| provider transport and recovery (`transport.rs`, `provider.rs`, `retry_after.rs`) | retry state of one read | bounded retries, failover, reacquire | provider CDN |
| lane policies (in `serve.rs`, `throughput.rs`, `manager.rs`) | counters and estimates | choose a lane, shed, hedge | pool, fills |
| leases and route projection (`CapabilityLease` in `manager.rs`, `control.rs`) | cached route, generation | refresh, fall back | control plane |
| downloads (`media-search/src/lib/download`) | `download_requests` rows, `.staging` partials, staged files, handoff tree | `request`, worker tick, `applyHandoffEvent`, poll, sweep | materializer, external consumer over files and HTTP |
| promotion (`lib/promotion`) | `promotion_jobs` rows, library files | same automaton without a handoff | materializer |
| binding authority (`lib/control-plane/store.js`) | bindings, activations, repair transactions and steps | `activateBinding`, `markBindingDegraded`, `authorize`, `startRepairStep`, ... | planner, executor, VFS |
| repair (`lib/control-plane/reconciler.js`, `repair-planner.js`, `repair-executor.js`) | transactions being executed | reconcile, plan, execute, resume | binding authority, providers |
| preparations (`lib/prepare`) | `preparations` rows, placements | `startPreparation`, `tick`, `advanceOne` | Play, worker loop, provider adapters |
| second placement (`lib/control-plane/second-placement.js`, `rd-placement-realizer.js`) | leases, observations | acquire, poll, release | provider APIs |
| call coordinator (`lib/providers/torbox-call-coordinator.js`) | in-flight snapshot, memo, budget | `read`, `write`, `invalidate` | TorBox API |
| refresh coalescer (`lib/plex/refresh-coalescer.js`) | buckets, scopes, timers | `notify`, `fanout`, flush | Plex API |
| publication and consumers (`lib/requests`, `lib/consumers`, `lib/library`, `lib/vfs/materialize.js`) | handoff rows, library items, VFS rows, `.strm` files | publish, materialize, sweep, promote, unpublish | binding authority, VFS, Plex |
| anticipation (`lib/anticipation`) | `future_intents` and `requested_seasons` rows, one tick's snapshot | `tickOnce`, `processIntent`, `reconcileSeason`, `seed`, `revive`, `wakeSeerrRequest`, `refreshArr`, ... | preparations, publication, Seerr's webhook, Arr sync, consumers |
| lifecycle schedulers (`lib/lifecycle`) | timers, retry budgets | upgrade watch, coverage escalation | discovery, downloads |
| discovery and ranking (`lib/discovery`) | corpus snapshots | mostly pure scoring | external catalogues |
| VFS / WebDAV, HTTP API, worker loops, metrics, edge (`lib/vfs`, `server`, `data-plane/src/metrics.rs`, `edge`) | projections, wiring | I/O and formatting | everything |
| importer queue (`src/torbox-importer`) | request directories and rows | claim, process, finalize | file system, SQLite |

What is hard here, component by component:

- **Cache and fills.** A chunk is three things that nothing makes atomic: a
  file, a row and a share of the byte count. Publication and eviction each take
  three steps, in opposite orders, and run in parallel; the in-flight map is what
  keeps them apart, and it is unlocked in between. Correct means: a row has its
  bytes, the count never loses a row, no record outlives its fill.
- **Demands.** A range request waits for fills of other requests, which wait
  for the clients of those requests to drain a bounded channel. Correct means:
  everybody ends, and nobody is told upstream failed when it did not.
- **Staging.** Completeness is a byte *count*; a fill can read its window
  before its prefix and two readers can race. Correct means: counted complete is
  complete, and the client gets each byte of its window once, in order.
- **Downloads.** A row, a partial, a staged file, a directory tree and a
  consumer that moves files, with restarts, late and repeated answers and bounded
  retries. Correct means: a staged file is whole, what the consumer has not got
  is never deleted, a settled transfer stays settled, everything comes to rest.
- **Pool.** Single flight with owners that can be dropped at any await, permits
  held while another capability is sought, pools grown by readers who compared the
  length earlier. Correct means: one provider call a key at a time, nobody waits
  for an answer nobody will give, pools stay bounded, a provider is left only for
  cause, every read ends.
- **Publication.** One unit is a handoff row, a library item, versioned Bindings, a
  VFS row and an artifact on disk, moved by requests, sweeps, promotions and
  unpublishes that all await a title or a file in between, and each of them repairs
  what it finds half done. Correct means: Bindings are history with one active
  version, what was unpublished is not served, what is bound is, and an episode is not
  moved to another file of its pack by something read before an await.
- **Preparations.** A row is created by a Play, worked on by a ticker over awaits of a
  provider, chained to the next provider when refused, gated by limits, expired by a
  clock and interrupted by crashes. Correct means: one preparation of a release and
  provider at a time, ready means placed, the life of a row is the contract's, every
  row comes to an end or to a state its store can name.
- **Repair transactions.** Nothing locks a transaction; a crash leaves a step whose
  effect on the provider nobody knows. Correct means: one call at a time works on it
  and an unknown outcome is never tried again or taken for a success.
- **Refresh coalescer.** Requests wait in timers, in scopes and on HTTP answers, none
  of which survive their owner. Correct means: nobody waits on nothing, an answer
  speaks of a refresh that began after the question, a season costs one refresh.
- **Anticipation.** A serial tick works for minutes through a snapshot of durable rows
  that webhooks, follow-ups, syncs and reconciliations write meanwhile; each of them has
  its own idea of when a row is due, and each state has its own way on. Correct means: a
  claimed row is let go of however its turn ends, what was withdrawn or given up stays so
  until somebody asks again, a park is a park, every intent ends somewhere.
- **Call coordinator, importer queue.** A stale answer memoized after an
  invalidation; directories and rows that disagree. Not modelled (section 6).

`PROJECT.json` names each of these at its line under `hazards`, with the
properties that would catch it, or why none does yet.

## 2. Modules

| module | models | uses |
|---|---|---|
| `ChunkCache` | `cache.rs` and the life of fill tasks, for one file | |
| `DemandRead` | `get_file` over those fills | extends `ChunkCache` |
| `FillStaging` | one fill byte by byte: reader, gates, hedge race, `ChunkStager`, client window | |
| `DownloadHandoff` | one download intent: row, worker, materializer, retry budget, handoff, consumer, poll, sweep, restarts | |
| `CapabilityPool` | the reads of one file: permits, pool growth, single flight, breakers, Retry-After, negative cache, failover, reacquire | |
| `BindingHistory` | what the control plane promises of an item's Bindings | |
| `Publication` | one media unit: handoff, item, Bindings, VFS row, `.strm`, and every operation on them | instance of `BindingHistory` |
| `PrepareContract` | the state machine of `contract.js` and of the store's header | |
| `Preparation` | the rows, the driver's tick, plays, provider answers, deadlines, crashes | instance of `PrepareContract` |
| `RepairTransaction` | durable transactions and steps, calls of `execute()`, crashes | |
| `RefreshCoalescer` | the coalescer alone, with the specification `CoalescerSpec` | |
| `SeasonFanOut` | season webhooks and the other callers over it | extends `RefreshCoalescer` |
| `Anticipation` | the intents' rows, the tick over its snapshot, the requested season, the rows' other writers, restarts, time | |
| `ChunkCacheProofs` | theorems about the cache and the demands | extends `DemandRead` |
| `UpstreamProofs` | theorems about the pool and about a fill's stager | extends `CapabilityPool`, `FillStaging` |
| `DownloadHandoffProofs`, `PublicationProofs`, `PreparationProofs`, `RepairTransactionProofs`, `SeasonFanOutProofs`, `AnticipationProofs` | theorems | each extends its module |
| `MC...` | TLC instances, one per module above that needs model values | |

Three modules implement a more abstract one. `Publication` implements `BindingHistory`
and `Preparation` implements `PrepareContract`, under the refinement mappings at the
`INSTANCE`s, checked as properties of their runs and proved. `SeasonFanOut` implements
`CoalescerSpec`: its steps only ever call the coalescer (proved), so that what is
proved of the coalescer holds of the composition. In the same way every step of
`DemandRead` is one of the cache or leaves it alone.

### ChunkCache

A fill task is a process with a program counter; one action is the code between
two locks or two awaits. `row`, `file` and `budget` are the SQLite table, the
`<idx>.chunk` files and `current_bytes`. `inflight[c]` is the map entry of chunk
c, named by the fill that created it; `success` and `failed` are the flags on the
record, which survive the record's removal from the map because waiters hold an
`Arc` of it. `Claim` is `join_or_claim_many` with the owner's spawn; `TakeOver`
the fill a waiter starts after `JOIN_GRACE`; `Start` is `OwnedFillGuard::new`;
`Rename`, `InsertRow`, `Charge` are the three steps of `publish_chunk`;
`SweepStart` to `Refund` are `maybe_evict` and `evict_chunk`; `MarkFlag`,
`Resolve` are the guard's two steps per chunk. `Restart` is process death followed
by `CacheEngine::open`, with or without a reset of the stored format.

Abstracted: chunks weigh one unit, the LRU order of eviction candidates is any
order, `chunk_files.remove` and `remove_file` are one step, the sweep's budget
test and its look at the map are one step, stripes and lanes within a span are
left out (they change which capability reads, not the order in which a fill
stages), and so is `started`, a flag no code sets. The database error of an
insert is in `FillStaging` only. The refund saturates in the model as in the
code; in the checked instance it never has to.

### DemandRead

A demand is planned from the rows it sees (`Plan`), then visits its window in
order: planned chunks are read without a second look (`ReadPlanned`), an absent
run is rechecked (`Recheck`), then joined or claimed under one lock (`Join`), its
own chunks are streamed (`Stream`), others are waited for (`WaitCheck`, `Notified`,
`Grace`, `TakenOver`) and served (`ServeJoined`). `handle` is the cache of open
descriptors, which keeps an unlinked chunk readable. Channels are bounded: a fill
whose demand has not reached the fill's chunk is blocked (`Backpressured`), the
worst case of a capacity smaller than a chunk. A client leaves at a send.

### FillStaging

The stager's current chunk, count and parked counts, the temporary and published
files as sets of byte offsets, two stage gates, and a reader that yields frames
of any length up to `MaxFrame`, at most a chunk, so that a frame lies in one chunk or
in two: the loop of `stage` is `Put` for the chunk of its first byte and, if it is
another, for the chunk of its last. A frame that a gate lets through is cut so and
counted (`Stage`, `Write`, `Promote`), while `window_slice` cuts the client's part
(`Delivers`). A race (`PrimaryWins`, `HedgeWins`, `HedgeFails`) happens at most
once a span. One staging call may fail, at opening, writing, renaming or
inserting, and is swallowed as in the code.

### DownloadHandoff

One row of `download_requests` with the columns that steer it; `next_due_at` and
`cleanup_due_at` are none, ahead or reached. A file is the sequence of its
units, each named by the TorrentFile it was read from: what a partial contains is
visible, not just its length. Everything in the process runs on one JavaScript
thread, so an action is the code between two awaits; the poll of the handoff
directories and the sweep of staged files run in one synchronous stretch and are one
action. `Ack` and `Handoff` are the routes' calls into the store and
`handoff.js`; `MoveManifest`, `Import` and `TakeAway` are the consumer, who may
act at any time, late or twice. `Restart` covers a crash between any two actions,
including between the sweep's unlink and its `cleanup_done_at`. `stagedAt` and
`foreign` are history variables used by two properties and by the proof.

Left out: progress notes, the quality profile, paths (a request has one staged
path), authorization in the routes, and a crash between `createHandoff` and the
manifest's write.

### CapabilityPool

A read is a process that acquires a capability, holds it, may have it rejected and
recovers. `caps[s]` is the `Vec` of a slot's pool, `target` its `pool_target`;
permits are derived from what readers hold. A provider call and the capability it
mints bear one number, and `inflight` is the set of calls with an entry in the
in-flight map, so an entry taken out of the map still answers those who joined it,
as the `Arc` does. `FastReuse`/`FastNext` are the first pass of
`acquire_for_read`; `SkipOpen` to `Permit` are `try_slot` with its four stages;
`Index` to `ResolveFails` are `resolve_internal` with its negative cache, its map
and its owner's `Minted` and `Remove`; `Rejected`, `Failover*`, `Reacquire*` are
`apply_dead`, `acquire_failover_lane` and `reacquire_for_read`. A reader's `mode`
says which of the three callers of `resolve_internal` it is, because they count a
failure and try the permit differently. `Leave` drops the handler's future where it
stands, before the response has begun; what the handler owned in the in-flight map
stays.

Abstracted: a look at a permit and its taking are one step, and so are the look at
the pool and the look at the map, and the load and store of the target, since no
other step between them changes what follows; the clock read at the start of an
acquisition is the current one; whoever queues for a permit may get it first; a
failed call is remembered in the negative cache or not, which stands for hard and
transient failures. Each slot is of another account. Throttled and degraded
capabilities, leases, prefetch, prewarming, standby reservations, slot refresh and
fault injection by environment variables are left out, and a read acquires once.

### Publication and BindingHistory

One media unit, a movie or an episode, over any TorrentFiles of a few releases. A
`job` is one run of an operation (`publish`, `materialize`, `prepare`, `sweep`,
`promote`, `unpublish`) and an action the code between two of its awaits: a title is
being resolved (`naming`), the artifact is read, looked at, written, verified, repaired
and committed, or directories are scanned and files unlinked. `handoff`, `desired`,
`committed`, `bindings` and `row` are the durable records; `throttled` is the memory
`bindingActivationRetryAt`; `overlap` is history and says that an unpublish and a
publication have overlapped, the one case in which `AbsentLeavesNothing` makes no claim.
An activation ends in one of the store's outcomes: a new version, the active one
extended in place, refused as stale by its expected version, or refused for its placement. The
Bindings are a sequence, the version being the index.

Whether a unit is unpublished is asked in one place, by a sweep about to visit it
(`Visit`); whatever materializes the unit makes it wanted again. `ReturnIsAsked` says who can
therefore bring an unpublished unit back: a request, a promotion by a read that was under way, and
a sweep that was already awaiting the unit's title, which is the defect of section 5, 18; and that
nobody brings back the row or the Binding without the item (`AbsentIsNotServed`).

Left out: rows from before TorrentFiles existed, several provider routes of one
TorrentFile, the notification of consumers, a handoff's missing placement coordinates,
retirement and season-wide unpublish.

### Preparation and PrepareContract

`rows` is the table, the id of a row its index. `tick` is the driver's own place: the due
rows left and the row in hand, across `acquire` and `poll`, between the placement's write
and the row's, and between a failure and its requeue. `due` and `overdue` are the two clocks
of a row. An adapter is the set of answers its code can give (`torbox-acquire.js`,
`rd-acquire.js`). `Play` inserts or joins a row, refusals chain to the next provider of
the plan, the gates count as `checkLimits` does, the row itself included. `Crash` may fall
between any two durable writes.

Left out: the refusal memory (the ticker's driver object writes it, no Play reads it),
`markCancelled` and `pruneTerminal`, which have no caller, the rebind and notification
after readiness, and what the adapters do over HTTP.

### RepairTransaction

`facts` is the newest binding, its version and the epoch of the evidence; `txn` the durable
transaction of each plan key with its three steps; `exec` the calls of `execute()`.
`Turn` is the loop from one await to the next, `Reply` the gateway's answer and what the
loop makes of it, `CompleteStep` the write after it; `LoopIsFree` says that on one
thread no other call moves between two awaits. Other writers degrade, replace and observe the binding at any time. The planner's verdict is reduced to healthy or
not, since that is all `execute()` and the store ask of it.

### RefreshCoalescer and SeasonFanOut

`status` is a request's promise, `pending` the entries behind a timer, `open` and
`buckets` the scopes, `refreshes` the calls to Plex with who waits for each (`members`) and
whose files it can find (`sees`, history). A restart loses all of it, so a run is one life of the process. `SeasonFanOut` adds the
webhooks: `at` is where one is, `todo` its episodes, `handle` the scope it was handed
(its own or one already open), `waits` what it awaits. An episode is announced
without waiting, or, when its publication is repaired, waited for; a write between the
opening and the closing may throw. `Notice` is everybody else.

Left out: counters, the refusal of a request without a section or a path, a disabled
Plex and the computation of the scan path. `flush()` does at once what a timer does later.

### Anticipation

`rows` is `future_intents`, by identity; `season` the one requested season and
`seasonLast` the flag that keeps a reconciliation out of every second tick. `pc`, `todo`,
`snap`, `hand` and `phase` are the tick: the rows of its snapshot that are left, as it read
them, the one it is working on and the answer it awaits for it. `lost` are playable rows
whose VFS entry and Binding are gone, what `auditStalePlayable` looks for.

Time is a stage of each row's release (nothing reached, prepare window, publish window,
released, or no date) and its poll time (passed, the beginning of a stage, or some other
time that is to come); `TimePasses` and `WaitElapses` move them on. A row of the model is
read from the snapshot or from the table exactly where the code does: the snapshot's
date decides a window, the table's state a claim. `TakeLoses` to `TakeRearms` are the
branches of `processIntent` up to its first await, `PreparedWell` to `BytesReady` what
the answers lead to, and the other writers come in between (`ThreadFree`: only while
the tick waits). `rested` and `orphans` are history.

A row that the consumer did not confirm the last time is announced to it again before it
is confirmed (`Renotifies`, `Notified`): the tick awaits `notifyPlex` (`refresh`), and where a webhook
has a scope open for the show the coalescer keeps the announcement until that closes (`kept`,
`ScopeCloses`), as in `SeasonFanOut`. The scope is the environment's here: one may be open whenever
an episode is announced, and nothing says when it closes. An episode that is published and not
confirmed is always announced, although the code asks for the error of the last
attempt to be the missing confirmation; a film's announcement returns at once
(`workers.js:235-239`) and is no step.

Left out: the order in which a tick takes its rows and the caps that end it early (the
instances stay below `MIN_ACTIONS_PER_TICK` and `DUE_SCAN_LIMIT`, so every
actionable row has its turn in every tick), prewarming, the torrent file's identity,
`checkExhaustion` and `withdrawIntent`, which nothing calls.

## 3. What is checked

The registered runs:

| run | instance | states | shows |
|---|---|---|---|
| `cache` | 2 chunks, room for 1, 3 fills, 1 restart | 5.2M | no in-flight record without a fill that will resolve it; a row loses its file only to a sweep; the byte count covers the rows |
| `demand` | 2 demands, 2 chunks, all fills and takeovers, a leaver | 706k | every demand ends, failures have a cause |
| `staging` | file of 8, chunks of 3, frames to 3, hedging, 1 fault | | counted complete is complete, read is published, the window is delivered once, in order |
| `pool` | 2 readers, 2 providers, pools of 2, breaker at 2, 2 failed calls, 1 dead capability, 1 leaver, fair | 920k | one call a key; waiters are answered; pools exceed their targets by less than the readers; providers are left for cause; reads end |
| `download` | 2 files (2 and 1 units), 2 posts, 2 attempts, 1 deferral, 2 versions, 1 restart, fair | 1.2M | staged files are whole, sweeps are authorised by the current handoff whose bytes the consumer has, a settled transfer stays settled, intents come to rest, cleanups end |
| `prepare` | 2 releases, 2 providers, 3 rows, limits of 2, 2 attempts, 1 crash, fair | 710k | single flight, the limits, ready is placed, the contract is implemented, preparations end |
| `publication` | 2 releases of 2 files, 3 jobs | 410k | what is unpublished comes back only by a request, a promotion or a sweep that awaited its title, and leaves no artifact, a bound movie is served, Bindings are versioned history, remaps within a release are decided |
| `repair` | 2 calls, 1 plan, 3 attempts, 4 epochs, 2 crashes, fair | 300k | one call at a time, unknown outcomes hold, executions end |
| `fan_out` | 2 webhooks of one show, 5 requests, 2 directories, fair | 690k | nobody is forgotten, an answer speaks of a later refresh, a season alone is refreshed once, waits end but for those an open scope holds |
| `fan_out_hangs` | same | | a webhook waits for a notification its own scope keeps back |
| `anticipate` | an episode of a season, an Arr's film, 2 attempts, 4 events, fair | 1.1M | a claimed row is let go of, withdrawals stand, exhausted rows rest, parks hold, every intent settles if scopes close |
| `anticipate_orphans` | same, 3 events | | no tick requeues a row that a crash left in `preparing` |

Further configurations, not among the registered runs, state what a comment says and the
code does not do, or look at a run's question from another side. They are run by hand
(`tlc -config X.cfg M`):

| configuration | checks | result |
|---|---|---|
| `MCChunkCachePresent` | `PresentMeansBytes` | violated (5.1) |
| `MCDemandReadJoined` | `JoinedChunkIsReadable` | violated (5.2) |
| `FillStagingHole` | `PresentMeansComplete` | violated (5.3) |
| `MCDownloadMixed` (1 version, no restart) | `StagedBytesAreTheFiles` | violated (5.4) |
| `MCDownloadForgotten` | `CleanupMatchesArtifact` | violated (5.5) |
| `MCDownloadSettles` (1 version, 2 restarts, 2 deferrals) | `IntentSettles`, `CleanupConverges` | holds |
| `MCPoolExhausted` | `HonestExhaustion` | violated (5.6) |
| `MCPreparationPlacement` | `PlacementNamesResource` | violated (5.8) |
| `MCPreparationResumes` | `ResumesPolling` | violated (5.9) |
| `MCPublicationBound` | `EpisodeBoundIsServed` | violated (5.10) |
| `MCPublicationAwaits` (with `-continue`, which shows both) | `CatalogNeverResurrects`, `NamingKeepsBinding` | both violated (5.18, 5.11) |
| `MCRepairResume` | `FinishedRepairSucceeds` | violated (5.12) |
| `MCAnticipationPublish` | `FailedPublicationKeepsPrepared` | violated (5.14) |
| `MCAnticipationBackoff` | `BackoffHolds` | violated (5.15) |
| `MCAnticipationHeld` (3 events) | `TurnsEnd` | violated (5.16) |
| `MCAnticipationExhausted` (3 events) | `DeferredIsReconsidered` | violated (5.17) |

The type invariants, and `ClaimsResolve` of `DemandRead`, are definitions of their modules
that hold in the same instances; they are not listed with the runs, whose time goes to the
properties a reader would doubt. The type invariants are all proved.

**Bounds.** Two chunks are the least with a run, a neighbour and an eviction
victim that is not the chunk being filled; room for one makes every second
publication sweep; three fills are an owner, a takeover of its record and a later
owner of the chunk, which is the longest chain of interference on one record. The
owner/takeover roles are not fixed: any fill may be either. In `demand` one player
reads everything and the other does too or seeks the tail, so each can be owner
and waiter of the other at once, with a takeover available for each chunk. Eight
bytes in chunks of three give a full middle chunk and a short last one; frames of
up to a chunk straddle boundaries everywhere. Two attempts and two cleanups are
the least in which a budget is neither empty nor a single shot (`download` has one
deferral of a sweep, `MCDownloadSettles` two); two versions are the least with an old
manifest; the longer and the shorter file give both
directions of a retry to another file. Two readers, two providers and
pools of two are the least with a call to join, a capability to queue for, a pool to
grow past its target and a provider to fail over to; a breaker that opens at two
(three in the code) opens within the two failed calls allowed. At most six calls
happen, so `MaxCalls` (seven) cuts nothing off. `MaxRestarts`, `MaxPosts`,
`MaxVersions`, `MaxFaults`, `MaxFrame`, `MaxCalls`, `MaxFailed`, `MaxDead` and
`Leaving`, `MaxRows`, `MaxCrashes`, `MaxVersion`, `MaxEpoch`, `MaxPlans`, `Job` and
`Request` are bounds of the models and named so; `MaxAttempts`, `MaxCleanups`,
`MaxChunks`, `ChunkLen` and the limits of the preparations are parameters of the code.

Three rows are a preparation, its chained successor and one of another release or of a
second Play; since a gate counts the row it is asked for, limits of two let one row go on and park
the second, the least with a gate that both opens and closes. One crash may fall at any point of any of them.
Two files in each of two releases give a remap within a pack and one across packs; three
jobs are a stale one, one that overtakes it and one that finds what the two left. In
`repair` the second call finds the first one's running step, a resumption follows each of
two crashes, and the attempts suffice for both; four epochs let the evidence change before, during and after
a mutation. In `fan_out` one webhook has two episodes in one directory and one in another,
the second shares the show and a directory, and somebody else asks for that directory at any
time.

In `anticipate` the episode has a season and a Seerr request, the film an Arr and no
request, so that every writer has a row of its own kind to meet the tick at; dates are
found before everything and at the release, and time makes the stages between. Four events
are a seed, two failures and one thing more: the least in which a row is exhausted and
somebody interferes. Successful steps, reconciliations that bring nothing new and time
are not counted, so a bound on events leaves the tick free to run for ever, and
`EveryIntentSettles` speaks of what comes after the last failure. The proofs have no such bound.

Symmetry is used in `cache` and `publication`, where no liveness is checked.
`CHECK_DEADLOCK FALSE` where the system stops: all fills used, all demands ended, the
fill done, all jobs, calls or requests used up. The download loop, the preparations'
ticker and the scheduler never stop and are checked for deadlock.

**Fairness.** `cache` checks safety only. In `demand`, weak fairness on "some
task that can run does": fills are detached tokio tasks whose reads end by the
transport's bounded retries and stall timeouts, a fill blocked on a full channel
is excluded (that is the circular wait under test), and a client either reads or
is cut off by the watchdog. Since no task ever goes back, this is as strong as
fairness for each task. In `download`, weak fairness of the loop, which
rearms its timer in a `finally`, and of the two clocks. Nothing is assumed of the
consumer or of whoever posts. In `pool`, weak fairness on "some reader that can go
on does": the runtime schedules its tasks, a provider call answers or runs into the
client's timeout, and a read ends. Nothing is assumed of expiry, cooldowns or
rejections. `AcquiresEnd` excepts behaviours in which a handler was dropped in the
middle of its call, because the entry it leaves behind has no owner and its waiters
wait for ever: `resolve_internal` takes no guard against it. In `prepare`, weak
fairness of the ticker, which rearms itself in a `finally` whatever a tick did, and of the two clocks
of each row; nothing is assumed of what a provider answers, and `EveryPreparationEnds`
excepts the row a crash strands between its failure and its requeue (5, below). In `repair`,
weak fairness of the loop and strong fairness of an answer, because `Reply` is enabled only while no other call has
the thread, which may be the case again and again but not for good: the
event loop delivers it in the end. In `fan_out`, weak fairness of timers, of Plex (every
call carries `AbortSignal.timeout`) and of what a webhook does between two waits; nobody has to ask, begin or
throw. In `anticipate`, weak fairness of the tick, whose timer is armed again in a `finally`, and
of time; no webhook, sync or follow-up has to come. The tick's requests and probes are aborted
by `actionSignal` or by timeouts of their own (the body of a season's answer, `seerr.js:444-472`,
only by `fetch`'s). One of its awaits has neither: the announcement of an unconfirmed
publication (5, 16). While a scope keeps it no step of the tick is enabled, so that fairness
promises nothing, and `ScopeCloses` has no fairness. `EveryIntentSettles` therefore has
a premise, `ScopesClose`: no announcement of the tick's is kept for ever. `SeasonFanOut` shows that
the code does not guarantee it (5, 7).

## 4. What is proved

TLAPS checks, for every grid, every finite set of fills, any budget and any
number of restarts (assumption `ChunkCacheAssumption`):

- `TypeCorrect`. `TypeOK` alone is not inductive: a fill that writes has a
  non-empty span, so that its first chunk exists. `TypeInv` adds that.
- `RecordsNeverOrphaned`. The record of a chunk is created by one fill and may be
  adopted, resolved and removed by another, so "its owner is alive" is neither
  true nor inductive. `GuardInv` adds that a record is named after a fill that was
  spawned, in the map, among the success flags and in every guard, so that a claim
  never finds a stale flag on its new record, and that a fill which has not looked
  its records up yet still has its whole run to go through.
- `BytesOnlyEvicted`. `BytesInv` adds what holds between two steps: a fill past its
  rename has its file, or a sweep dropped that chunk, and a sweep about to unlink
  has dropped its victim.
- `BudgetNeverUndercounts`. `BudgetInv` follows charges and refunds under way; the
  argument counts the fills at each program counter with the library's facts on
  cardinality.

And for every set of TorrentFiles and sizes and every budget (assumptions
`SizesArePositive`, `NoFileIsNoFile`, `BudgetsArePositive`), from one inductive
invariant `IInv` of `DownloadHandoff`:

- `DownloadTypeCorrect`, which needs `BudgetsLeft` (a claimed row has an attempt
  left, a scheduled sweep a deferral) because the code compares before it adds in
  one place and after in the other;
- `StagedFilesExact`, which needs `Working` (what the row says at each point of the
  worker, and after a restart) and `Bytes` (what the partial and a file about to
  be marked contain);
- `CleanupsAuthorized`, which needs `Consumed`: a manifest under `done`, a
  completed row and a scheduled cleanup each imply the consumer has that version;
- `TransfersSettle`, an action property, from the same invariant.
- `SweptOnceAskedOnce` and `FirstAttemptIsPure`: where two claims of the code that section
  5 shows to fail (4 and 5) do hold. `AskedOnce` follows an intent that was asked for by
  one POST: its row gets a transfer version only once staged, and the first attempt opens
  an empty partial. So a sweep of the wrong file takes a second POST, and a foreign prefix
  a retry, a second POST or a restart; neither follows from failures alone.

And for any readers, slots, pool sizes and thresholds, and any number of calls,
failures, rejections and dropped handlers, from the invariant `IInv` of
`CapabilityPool`:

- `CallsAreSingle`. That two readers do not call for one key is not inductive: an
  owner removes by *key*, so it must be known that the entry under its key is its
  own. `Owners` and `Entries` say that an owner's call is in the map under its key,
  that the map has one entry a key, and that an entry has one owner; a dropped owner
  only leaves an entry nobody owns.
- `WaitersAreAnswered`, which needs `Waiters`: a call without an answer has its
  owner still calling, or was dropped. What is in the pools plays no part, so the
  invariant does not type them; `Moves` covers all the steps that touch no flight.

And from a second invariant, `PoolInv`, which uses the first where a call is answered:

- `PoolTypeCorrect`. What a pool holds is a capability some call returned, and no target
  exceeds `PoolMax`. Pruning keeps the n-th live capability at place n; the lemmas about
  `Pruned` say that it loses only dead ones, keeps the order and is never longer.
- `PoolOvershoot`. Readers compare a pool's length with its target and push later, some of
  them what others pushed meanwhile. That the pool is at most `target + readers - 1 +
  reacquirers` is not inductive: `RoomOK` also counts the readers which have compared and
  not pushed yet (`Pushing`) and those which reacquire and may still have to (`Pending`).
  A comparison finds the length below the target and so at most `readers - 1` others on their way.
- `MovesHaveCause`, an action property: a demand leaves a provider only after a failed call
  or a dead capability of *that* provider. `CausesOK` says it of breakers, Retry-After
  and the negative cache, `BlockOK` of a reader about to wait at an empty pool, and
  `EntryOK` that the answer a reader waits for is one of the slot it is at.
- `FailsAfterEveryProvider` and `HonestWhileAlive`: where the claim of section 5, 6 holds.
  A cause lasts, so a demand has one for every slot it passed (`TriedOK`), and only a
  demand fails without having reacquired. A read that never reacquired fails with a cause at every
  provider; and while no capability has died all reads are on the demand's way, so
  that none fails without a failed call.

And for any demands and windows over any such cache (`DemandRead`, in `ChunkCacheProofs`):

- `DemandsUseTheCache`: the demands' specification implements that of the cache, so the
  four theorems about the cache hold below any number of demands.
- `DemandTypeCorrect`. The proof found the type of `last` too narrow: it is the end of the
  window before a run is found.
- `FailuresAreClean`, from `CleanInv`: a read ends short or in an error only if upstream failed,
  something was evicted, a prefix was skipped or the demand took a fill over. It rests on what
  each fill knows of the chunks it has passed (`FlagsOK`: marked as success only if
  they were PRESENT, as failure only if unread) and what a demand knows of the chunks
  ahead (`Ahead`); that nothing is unlearnt (`Learnt`) carries both over the steps of others.

For any file, grid, window, frames no longer than a chunk and any number of staging
errors (`StagingAssumption`), from `FillInv` of `FillStaging`:

- `StagingTypeCorrect`.
- `PublishedChunksAreWhole`. The stager counts bytes and publishes when the count is the
  chunk's length. `Honest` says, of the bytes read so far, that none was counted twice or
  without being written, whatever faults there were; then a count that reaches the length means
  all bytes, an argument with cardinalities. It holds as long as each frame is of new bytes,
  which `PlaceInv` and `ReadSoFar` give for both spans, and is staged once, which `GateInv`
  gives: before a race the hedge's gate is closed, unless a hedge won the first of two
  spans (`Excused`). That exception is the defect of section 5, 3.
- `CompleteWithoutHedge`: where hedging is off or a fill reads in one span there is no exception, and
  what the code says of its races, `PresentMeansComplete`, holds.
- `ReadIsPublished`, the other direction: while nothing has failed the count is of *all* the
  bytes read (`Exact`), parked heads included, and `GateInv` keeps one gate open.
- `ClientGetsItsWindow`, from `SentInv`: what was sent is the part of the window the reader has
  passed. In the second span, which is before the window, everything has been sent already.

For any plans, limits and numbers of rows and crashes, from `PrepInv` of `Preparation`:

- `PreparationTypeCorrect`, `PreparationSingleFlight`, `ReadyIsPlaced`. That two rows of
  one release and provider are not both at work needs the tick's place: `TickOwns` says
  in which state the row in hand is while its provider is awaited, and `PlacedFirst` that the
  placement is on record when the row is about to be told so.
- `PreparationsLimited`: fewer preparations than the limit have a resource. The limit is
  compared when a row is claimed, and the resource comes after an await; `LimitInv` therefore
  counts the row in hand as well. All others that weigh on the limit when it is compared are active, so
  none is missed, and the row in hand is the only one that can be added until the next comparison.
- `PreparationImplementsContract`: every step maps to one step of one row of the contract
  or leaves all states alone. The deadline sweep, which may end several rows at once, is
  one step of the contract too.
- `TerminalIsHistory`, an action property, from that refinement: no step of the contract
  takes a row out of a terminal state, so no tick, play, crash or late answer does.

For any releases, paths and jobs, from `PubInv` of `Publication`:

- `PublicationTypeCorrect`, `AbsentNotServed`, `MovieServed`. The two invariants are
  inductive together with the types once `JobsHold` says that a job which waits for a
  title, a file or a listing has a TorrentFile to go on with: what it read of the item, the row and the
  Binding before the await plays no part, because each synchronous stretch moves them
  together.
- `AbsentLeft`, from `LeftInv`: with the item absent, no artifact is left once operations that did not
  overlap are over. `Late` says that a publication under way has not yet materialized, `Found` that an
  artifact still on disk is one that an unpublish has yet to come to.
- `PublicationImplementsHistory`, and with it `OneBindingActive` of `BindingHistory`.
- `RemapsAreDecided` and `ReturnsAreAsked`, action properties. `JobsHold` also says which
  operations can be where they are about to materialize, and a sweep gets there only while the
  unit is wanted, so that one that finds it unpublished had to await its title.

For any number of calls, plans, attempts and crashes, from `IInv` of `RepairTransaction`:

- `RepairTypeCorrect`, `ExecutionsExclude`, `UnknownFailsClosed`. `Held` says what the
  durable rows show while a call is at each of its places, the running step above all;
  `OneTurn` that at most one call is between two awaits. Mutual exclusion follows: a
  second call can only begin where the first waits, and there it finds the running step.

For any requests, scopes, media, directories and fan-outs:

- `NobodyForgotten`, `AnsweredScanned` from `CInv` of the coalescer, which adds `Waiters`:
  who is in an entry, a bucket or a refresh has asked for that directory, and a refresh sees
  the files of all it answers.
- `FanOutIsCoalescer`, the simulation that carries them over to `SeasonFanOut`, and
  `SeasonsRefreshedOnce`, from `SInv`: a fan-out alone in its scope has all its episodes so
  far in the scope's buckets (`Gathers`), apart from everybody else's (`Apart`), or, once
  closed, in one refresh a directory (`Sent`).

For any intents, dates, attempts and events, from `TickInv` of `Anticipation`:

- `AnticipationTypeCorrect`, `PreparingHeld`, `WithdrawnRemains`, `ExhaustedRemains`. The last
  two are action properties about a tick that acts on old data. `SnapAgrees` says what of
  it is still true when it is used: a row the snapshot has as prepared is so still, and a row that is
  failed now was failed then, with the same attempts and owner, since whoever else takes
  it out of `failed` does not put it back. `HandAgrees` says how the row in hand began its
  turn, and so that no transition after an await can hit a withdrawn row. `Kept` is what
  every other writer respects, and the lemmas show it of each statement. That an exhausted row
  has also rested when it is taken up again is from `RestInv`, below.
- `NoRowIsHot`: between two turns of a row it has rested, or `due` ignores its poll time
  because of its release (`Overridden`). `RestInv` says of a row that has not rested since its
  turn that it is calm: its wait is ahead, no repair of playable rows finds it, and the
  snapshot of the tick under way does not hold it for a second turn. It is inductive only
  with what the last phases of a turn know (`ServedIsFound`) and with the freedom of
  a row that does not exist (`AbsentIsFree`).

Every invariant and every action property of the passing runs is proved. Model-checked only is
liveness, which is out of this prover's reach: `DemandsEnd`, `AcquiresEnd`, `IntentSettles`,
`CleanupConverges`, `EveryPreparationEnds`, `ExecutionsEnd`, `WaitsEnd` and `EveryIntentSettles`. Each
rests on a fairness condition over disjunctions of actions, and would need ENABLED and a
well-founded order on the state. The
two registered violations and the configurations run by hand (section 5) are TLC's alone.

## 5. Where the code and its own words differ

1. `cache.rs:1051`: eviction looks at the in-flight map, lets go of it, deletes
   the row, then unlinks. A demand that claims and publishes the chunk between the
   last two loses its file and keeps its row: PRESENT without bytes.
2. `serve.rs:2984`: a demand waits for joined chunks only until its first
   takeover in a run; the next unresolved one is read at once and the response cut
   short, with upstream healthy.
3. `serve.rs:4428`: with hedging on, a hedge that wins both spans of a split fill
   stages a frame twice, and the count of bytes takes a chunk with a hole for a
   complete one.
4. `download/worker.js:117`: the partial is named by the request and not by the
   TorrentFile, so a retry that resolves to another file continues a foreign
   prefix; only lengths are compared.
5. `download/store.js:214`: a re-POST of a moved staged row leaves its handoff and
   cleanup columns, and the old completed handoff then sweeps the new file.
6. `manager.rs:1283`: a reacquire that resolves to a capability another read holds
   fails at once as `AllSameTfFailed`, which `manager.rs:19-20` reserves for every
   viable provider exhausted. The other slot is not asked either: failover looks for
   the dead capability in the pools, where the other read has pruned it.

7. `publication.js:525` and `seerr-ingress.js:494-496`, `728`: an episode repaired
   during a season webhook awaits a notification that the webhook's own open scope keeps
   until the webhook closes it. It waits for itself, and the scope keeps the later
   notifications of the show as well.
8. `prepare/driver.js:194`: a placement can be recorded under the resource
   id `'undefined'`, which stands for no resource.
9. `prepare/store.js:6-7` says that a restart resumes polling: a row that was acquiring
   when the process died is claimed by nobody and only its deadline ends it.
10. `vfs/materialize.js:256`: an episode whose activation failed loses its row, and a
    fast path right behind it activates the Binding all the same: bound and not served,
    although line 92 calls the row the source of truth for playback.
11. `vfs/materialize.js:745-746`: a stale handoff is projected onto the active Binding
    "rather than being allowed to rewrite it", but the projection is made before a title
    is awaited: a Binding another operation activates meanwhile is rewritten to the
    file settled before.
12. `control-plane/store.js:2287`: a transaction that failed at its postconditions resumes
    as authorized with no step left to start, and completing it demands `executing`. The
    executor has no caller outside the tests yet.

13. `anticipation/scheduler.js:828`: the branch that requeues an orphaned `preparing` row
    cannot be reached, because `classifyIntentPriority` has no class for it and the filter
    drops it; `future-intents.js:198-199` says that the scheduler requeues them.
14. `anticipation/scheduler.js:352` (and `lifecycle/upgrade-watch.js:344`) call
    `publishFailure`, which neither module imports: a refused publication throws, and the row goes
    back to `anticipated` and loses the claim on its prepared truth that lines 571-573 keep for it.
15. `anticipation/future-intents.js:204`: a released row still marked `future-not-released` is
    selected whatever its poll time says, not only the failed ones of the comment at lines
    200-201. After a failure its backoff is ignored and it is worked on at every tick, about once a
    minute, until it is playable or exhausted.
16. `anticipation/scheduler.js:577` awaits the announcement of an unconfirmed publication, which
    has no timeout and no `actionSignal`. Lines 837-840 say the action's call is aborted "so one
    pathological action cannot consume (or multiply across) the tick". Under a scope that a
    webhook holds open for the show (7 leaves one open for good) the announcement is
    kept, the tick does not end, and the timer, which the tick's `finally` re-arms
    (`workers.js:292-304`), never runs again; a nudge, which "must NOT be dropped"
    (`workers.js:293`), only sets a flag that nobody reads.
17. `anticipation/scheduler.js:746`: an exhausted row of a Seerr request that no season owns rests
    for ever, because `isColdRetryEligible` (lines 62-90) makes it non-actionable, as its
    own comment says and `test/seerr-defer.test.js` and `test/cold-retry-season-owned.test.js`
    expect. The comment of the handler behind that filter, lines 630-634, says
    of such a row that it "is still wanted — the human decision stands. Park it at the low 7-day
    cadence instead of letting it die". The code is right by its tests and the comment is old;
    `ExhaustedRests` states the former, `DeferredIsReconsidered` the latter.
18. `vfs/movie-webdav.js:375` and `tv-webdav.js:377`: "catalog traffic must not resurrect removed
    VFS rows (re-request reactivates explicitly)" (lines 372-374; so too `materialize.js:636-638`). A sweep
    asks whether the unit is unpublished and then awaits its title in `materializeVfsEntry`,
    which does not ask again: a unit unpublished meanwhile gets its row, its item and its
    Binding back.

`fan_out_hangs` (7) and `anticipate_orphans` (13) are registered; the others are
configurations to run by hand.

Seen while modelling preparations, repair and the coalescer, and not counted as
divergences: `checkLimits` counts the row it is about to admit; a crash between marking a
failure and requeueing it leaves `failed_temporary`, a state nothing takes up and the
deadline does not end; a repair transaction of the next epoch may send a mutation whose
outcome the earlier one does not know; observing a degraded binding moves its version, after
which the transaction that asked for it cannot be completed if it fails later; the header
of `refresh-coalescer.js` (lines 16-22) says a new request resets the timer, and the code
lets the first timer run; webhooks that share a scope split a season into several
refreshes (`SeasonRefreshedOnce` is about a fan-out alone in its scope); a database write
that throws between opening and closing leaves the scope open (`seerr-ingress.js:702`).

Seen while modelling the anticipation scheduler: `due()` reopens a playable row marked
`future` before its release too; a reconciliation re-parks an unreleased episode at its air
date each time, over the prepare window that the tick had set; a row the season takes back
after it was withdrawn stays withdrawn, and nothing deactivates a requested season when its request is
declined; an item of an Arr's that Seerr seeded first counts as new at every sync and is polled
again; a withdrawal while a row is being prepared finds no row to move and is lost; fifty
exhausted rows whose poll has passed fill the scan of every tick.

Seen while modelling the pool, and stated as bounds and not as findings: cold
readers that join one call each push the same `Arc`, so the pool's length counts a
capability twice, the second reader queues behind the first although `POOL_MAX` has
room, and the length exceeds the target that `manager.rs:71` calls its bound; an
owner removes its entry before it pushes, so a third reader in between calls again;
a mint that fails is counted in the breaker by the owner and again by its caller.

The passing properties say what remains true around these: row without file only
after a sweep (`BytesLostOnlyToEviction`), unreadable chunk only after the
takeover (`CleanFailures`), hole only after the hedge won the first span of a
split fill (`PublishedWhole`), foreign bytes only from the partial taken over
(`StagedExact`), a demand leaves a provider only when a call of it failed or a
capability of it died (`MovesOnForCause`), an unpublished unit back by a sweep only if that
awaited its title (`ReturnIsAsked`), an intent unsettled only under a scope that stays open
(`EveryIntentSettles`).

Four theorems say when the claims themselves hold: 4 with a first attempt
(`FirstAttemptIsPure`), 5 with a single POST (`SweptOnceAskedOnce`), 6 while no
capability has died (`HonestWhileAlive`) and for a read that never reacquired
(`FailsAfterEveryProvider`).

## 6. Not modelled, and what is left

Not modelled:

- **Lane policies, metrics.** They choose which capability reads a span and count what
  happened. They change nothing that is served; the one race with a correctness side,
  the hedge, is in `FillStaging`.
- **Leases and the route projection client.** A cached identity that takes no part in the
  choice of a capability (`manager.rs:125-265`), and a parser of the control plane's answer.
- **Promotion.** The job automaton of the downloads without handoff and cleanup; what
  could go wrong in it is in `DownloadHandoff`.
- **Second placement, Real-Debrid placement.** Sequences of provider calls whose outcomes
  become observations, and observations are inputs of `Publication` and `RepairTransaction`.
- **Call coordinator.** One search creates it and drops it; a stale memo decides how often a
  provider is asked.
- **Lifecycle schedulers.** Upgrade watch and coverage escalation start requests, which the
  models take from anybody at any time.
- **Discovery and ranking, VFS serving, HTTP, edge, importer.** Most of the code by lines, and
  little of its state: pure functions over strings, catalogue formats, I/O, shell scripts over
  containers. A model would repeat the program.

This is also why the mapped lines are a small share of the repository: the largest
files (`discovery/cache.js`, `server/app.js`, `ranking.js`, the WebDAV trees) are SQL,
parsing, scoring and formatting; the parts of them that decide something two actors can
disagree on are in `Publication` and `Preparation`.

Left, in this order:

1. `CapabilityPool`: throttled and degraded capabilities and the retries on one
   capability, so that `transport.rs` is whole.
2. `JobLifecycle`: the automaton downloads and promotions share, as an abstract
   specification that `DownloadHandoff` implements.
3. Season-wide unpublish and the consumers' notification in `Publication`, which would
   compose it, and the tick of `Anticipation`, with `SeasonFanOut`.
4. Proofs of the liveness properties, which wait for a prover that handles ENABLED.
