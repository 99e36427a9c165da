-------------------------- MODULE RefreshCoalescer --------------------------
(***************************************************************************)
(* The coalescer of Plex refreshes (lib/plex/refresh-coalescer.js), behind *)
(* which every notification of a published or removed file goes: requests  *)
(* for one directory that arrive within a short window become one refresh, *)
(* and requests for a media id with an open fan-out scope are kept in the  *)
(* scope until it is closed.                                               *)
(*                                                                         *)
(* The coalescer lives in the process: an action is a call of it or a      *)
(* callback, and nothing survives a restart.  Whoever asks has published   *)
(* the file before, so a refresh that begins now lets Plex see the files   *)
(* of all who have asked for its directory so far.                         *)
(***************************************************************************)
EXTENDS Naturals, FiniteSets

CONSTANTS
    Request,     \* calls of schedule(), each made once
    Scope,       \* scope objects, each created once
    Media,       \* media ids
    Key,         \* refreshKey(): collection, section and directory
    MediaOf,     \* the media id of a request or a scope
    KeyOf,       \* the key of a request
    NoScope      \* scopes.get(mediaId) is undefined

ASSUME MediaAndKeys ==
    /\ MediaOf \in [Request \cup Scope -> Media]
    /\ KeyOf \in [Request -> Key]
ASSUME NoScopeIsNoScope == NoScope \notin Scope

VARIABLES
    status,      \* what a request's promise is: unasked, waiting, ok or failed
    pending,     \* pending.get(key): who waits for the window to elapse, {} for no entry
    open,        \* scopes.get(mediaId): the open scope
    buckets,     \* a scope's buckets: who waits for it to close
    refreshes    \* the refreshes sent so far

cvars == <<status, pending, open, buckets, refreshes>>

Refresh == [ key : Key,
             members : SUBSET Request,    \* the resolvers of the entry or bucket
             sees : SUBSET Request,       \* history: whose file Plex finds there
             outcome : {"under way", "ok", "failed"} ]

CoalescerInit ==
    /\ status = [r \in Request |-> "unasked"]
    /\ pending = [k \in Key |-> {}]
    /\ open = [m \in Media |-> NoScope]
    /\ buckets = [s \in Scope |-> [k \in Key |-> {}]]
    /\ refreshes = {}

----------------------------------------------------------------------------

\* Mutant: a request for a key that has a bucket takes the bucket over.
Buffer_Replaces(r) ==
    LET s == open[MediaOf[r]]
    IN  /\ s # NoScope
        /\ buckets' = [buckets EXCEPT ![s][KeyOf[r]] = {r}]
        /\ UNCHANGED pending

\* A scope is open for the media: the request joins the scope's bucket of its key.
Buffer(r) ==
    LET s == open[MediaOf[r]]
    IN  /\ s # NoScope
        /\ buckets' = [buckets EXCEPT ![s][KeyOf[r]] = @ \cup {r}]
        /\ UNCHANGED pending

\* None is: the request starts an entry and its timer, or joins the entry.
Debounce(r) ==
    /\ open[MediaOf[r]] = NoScope
    /\ pending' = [pending EXCEPT ![KeyOf[r]] = @ \cup {r}]
    /\ UNCHANGED buckets

Schedule(r) ==
    /\ status[r] = "unasked"
    /\ status' = [status EXCEPT ![r] = "waiting"]
    /\ Buffer(r) \/ Debounce(r)
    /\ UNCHANGED <<open, refreshes>>

\* The HTTP call goes out; what is published by now, Plex finds.
Begun(k, members) ==
    [ key |-> k, members |-> members,
      sees |-> {r \in Request : KeyOf[r] = k /\ status[r] # "unasked"},
      outcome |-> "under way" ]

\* The window of an entry elapses (or flush() does not wait for it).
Fire(k) ==
    /\ pending[k] # {}
    /\ pending' = [pending EXCEPT ![k] = {}]
    /\ refreshes' = refreshes \cup {Begun(k, pending[k])}
    /\ UNCHANGED <<status, open, buckets>>

\* Mutant: the waiters are looked up by key when the answer arrives.
Settle_ByKey(d, outcome) ==
    /\ d \in refreshes /\ d.outcome = "under way"
    /\ refreshes' = (refreshes \ {d}) \cup {[d EXCEPT !.outcome = outcome]}
    /\ status' = [r \in Request |->
                     IF r \in d.members \cup pending[d.key] THEN outcome ELSE status[r]]
    /\ UNCHANGED <<pending, open, buckets>>

\* Mutant: only a refresh that succeeded resolves its waiters.
Settle_Successes(d, outcome) ==
    /\ d \in refreshes /\ d.outcome = "under way"
    /\ refreshes' = (refreshes \ {d}) \cup {[d EXCEPT !.outcome = outcome]}
    /\ status' = [r \in Request |->
                     IF r \in d.members /\ outcome = "ok" THEN outcome ELSE status[r]]
    /\ UNCHANGED <<pending, open, buckets>>

\* finalize, settle: Plex answers, refuses or times out, and all members hear it.
Settle(d, outcome) ==
    /\ d \in refreshes /\ d.outcome = "under way"
    /\ refreshes' = (refreshes \ {d}) \cup {[d EXCEPT !.outcome = outcome]}
    /\ status' = [r \in Request |-> IF r \in d.members THEN outcome ELSE status[r]]
    /\ UNCHANGED <<pending, open, buckets>>

\* Mutant: every call makes a scope of its own.
OpenScope_Anew(s) ==
    /\ open' = [open EXCEPT ![MediaOf[s]] = s]
    /\ UNCHANGED <<status, pending, buckets, refreshes>>

\* fanOutScope: a media id with an open scope gets the handle of that one.
OpenScope(s) ==
    /\ open' = [open EXCEPT ![MediaOf[s]] = IF @ = NoScope THEN s ELSE @]
    /\ UNCHANGED <<status, pending, buckets, refreshes>>

\* close(): one refresh for each bucket; a closed scope has nothing left to send.
Batches(s) == {Begun(k, buckets[s][k]) : k \in {j \in Key : buckets[s][j] # {}}}

CloseScope(s) ==
    \/ /\ open[MediaOf[s]] = s
       /\ open' = [open EXCEPT ![MediaOf[s]] = NoScope]
       /\ refreshes' = refreshes \cup Batches(s)
       /\ buckets' = [buckets EXCEPT ![s] = [k \in Key |-> {}]]
       /\ UNCHANGED <<status, pending>>
    \/ /\ open[MediaOf[s]] # s
       /\ UNCHANGED cvars

CoalescerNext ==
    \/ \E r \in Request : Schedule(r)
    \/ \E k \in Key : Fire(k)
    \/ \E d \in refreshes, outcome \in {"ok", "failed"} : Settle(d, outcome)
    \/ \E s \in Scope : OpenScope(s) \/ CloseScope(s)

\* Whoever calls it, in any order.
CoalescerSpec == CoalescerInit /\ [][CoalescerNext]_cvars

----------------------------------------------------------------------------
(* What it promises *)

\* Type invariant.
CoalescerTypeOK ==
    /\ status \in [Request -> {"unasked", "waiting", "ok", "failed"}]
    /\ pending \in [Key -> SUBSET Request]
    /\ open \in [Media -> Scope \cup {NoScope}]
    /\ \A m \in Media : open[m] # NoScope => MediaOf[open[m]] = m
    /\ buckets \in [Scope -> [Key -> SUBSET Request]]
    /\ refreshes \subseteq Refresh

\* Where a request waits: a timer is running for it, its media's scope is still
\* to be closed, or a refresh for it is on its way.
WaitsForTimer(r) == r \in pending[KeyOf[r]]

WaitsForScope(r) ==
    /\ open[MediaOf[r]] # NoScope
    /\ r \in buckets[open[MediaOf[r]]][KeyOf[r]]

WaitsForAnswer(r) == \E d \in refreshes : d.outcome = "under way" /\ r \in d.members

\* Nobody is forgotten: however requests, timers, scopes and answers interleave,
\* whoever is still waiting waits for something that is still to happen - never in
\* the bucket of a closed scope, nor on an entry without a timer or a refresh that
\* has ended (schedule, fire, close, fireBucket).
NobodyIsForgotten ==
    \A r \in Request : status[r] = "waiting" =>
        WaitsForTimer(r) \/ WaitsForScope(r) \/ WaitsForAnswer(r)

\* Who is told that Plex was refreshed has been: a refresh of the very directory
\* asked for began after the request and succeeded.  Coalescing never answers a
\* latecomer with a refresh that was already under way (schedule, fire).
AnsweredMeansScanned ==
    \A r \in Request : status[r] = "ok" =>
        \E d \in refreshes : d.outcome = "ok" /\ d.key = KeyOf[r] /\ r \in d.sees
=============================================================================
