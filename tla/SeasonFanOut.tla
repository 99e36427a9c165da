---------------------------- MODULE SeasonFanOut ----------------------------
(***************************************************************************)
(* Who calls the coalescer: season webhooks, which open a scope, publish   *)
(* one episode after the other and close the scope                         *)
(* (api/seerr-ingress.js), and everybody else who notifies Plex of a file  *)
(* (lib/requests/plex-notifier.js).  An episode just selected is announced *)
(* without waiting for the answer; one whose publication is repaired waits *)
(* for it (lib/requests/publication.js).                                   *)
(***************************************************************************)
EXTENDS RefreshCoalescer

CONSTANT ChildrenOf      \* the notifications a fan-out may make, one per episode

\* A fan-out that finds no open scope creates the one of its own name.
FanOut == Scope

ASSUME Families ==
    /\ ChildrenOf \in [FanOut -> SUBSET Request]
    /\ \A f \in FanOut : \A r \in ChildrenOf[f] : MediaOf[r] = MediaOf[f]
    /\ \A f, g \in FanOut : f # g => ChildrenOf[f] \cap ChildrenOf[g] = {}

VARIABLES
    at,        \* where a fan-out is
    todo,      \* episodes it has not come to yet
    handle,    \* the scope it was handed
    waits      \* requests it awaits the answers of

fvars == <<at, todo, handle, waits>>
vars == <<cvars, fvars>>

Init ==
    /\ CoalescerInit
    /\ at = [f \in FanOut |-> "idle"]
    /\ todo = ChildrenOf
    /\ handle = [f \in FanOut |-> NoScope]
    /\ waits = [f \in FanOut |-> {}]

Answered(r) == status[r] \in {"ok", "failed"}

----------------------------------------------------------------------------
(* A season webhook *)

\* openSeasonFanOutScope.
Begin(f) ==
    /\ at[f] = "idle"
    /\ OpenScope(f)
    /\ handle' = [handle EXCEPT ![f] = open'[MediaOf[f]]]
    /\ at' = [at EXCEPT ![f] = "running"]
    /\ UNCHANGED <<todo, waits>>

\* An episode with nothing to announce: it was done before, is not out yet, found
\* nothing, failed, was a no-op, or Plex confirmed it.  A season that cannot be
\* enumerated ends the loop the same way.
Quiet(f) ==
    /\ at[f] = "running"
    /\ \E r \in todo[f] : todo' = [todo EXCEPT ![f] = @ \ {r}]
    /\ UNCHANGED <<cvars, at, handle, waits>>

\* publishSelectedHandoff: notify() is dispatched and not awaited.
Publish(f) ==
    /\ at[f] = "running"
    /\ \E r \in todo[f] :
          /\ Schedule(r)
          /\ todo' = [todo EXCEPT ![f] = @ \ {r}]
    /\ UNCHANGED <<at, handle, waits>>

\* republishHealthyHandoff, not confirmed: await notify().
Republish(f) ==
    /\ at[f] = "running"
    /\ \E r \in todo[f] :
          /\ Schedule(r)
          /\ todo' = [todo EXCEPT ![f] = @ \ {r}]
          /\ waits' = [waits EXCEPT ![f] = {r}]
    /\ at' = [at EXCEPT ![f] = "await"]
    /\ UNCHANGED handle

Resume(f) ==
    /\ at[f] = "await" /\ \A r \in waits[f] : Answered(r)
    /\ at' = [at EXCEPT ![f] = "running"]
    /\ waits' = [waits EXCEPT ![f] = {}]
    /\ UNCHANGED <<cvars, todo, handle>>

\* await seasonScope.close(): the answers of the refreshes it sent, if it did.
Close(f) ==
    /\ at[f] = "running" /\ todo[f] = {}
    /\ CloseScope(handle[f])
    /\ waits' = [waits EXCEPT ![f] = UNION {d.members : d \in refreshes' \ refreshes}]
    /\ at' = [at EXCEPT ![f] = "closing"]
    /\ UNCHANGED <<todo, handle>>

End(f) ==
    /\ at[f] = "closing" /\ \A r \in waits[f] : Answered(r)
    /\ at' = [at EXCEPT ![f] = "done"]
    /\ waits' = [waits EXCEPT ![f] = {}]
    /\ UNCHANGED <<cvars, todo, handle>>

\* A write of an intent's row throws outside the per-episode try: the handler
\* answers with an error and the scope is not closed.
Throw(f) ==
    /\ at[f] = "running"
    /\ at' = [at EXCEPT ![f] = "threw"]
    /\ UNCHANGED <<cvars, todo, handle, waits>>

----------------------------------------------------------------------------
(* Everybody else: the scheduler, projection repair, unpublish, movies *)

Notice(r) ==
    /\ \A f \in FanOut : r \notin ChildrenOf[f]
    /\ Schedule(r)
    /\ UNCHANGED fvars

Timer == \E k \in Key : Fire(k) /\ UNCHANGED fvars

Plex == \E d \in refreshes, outcome \in {"ok", "failed"} :
            Settle(d, outcome) /\ UNCHANGED fvars

Works(f) == Quiet(f) \/ Publish(f) \/ Republish(f) \/ Resume(f) \/ Close(f) \/ End(f)

Webhooks == \E f \in FanOut : Works(f)

Next ==
    \/ Webhooks \/ Timer \/ Plex
    \/ \E f \in FanOut : Begin(f) \/ Throw(f)
    \/ \E r \in Request : Notice(r)

Spec == Init /\ [][Next]_vars

\* Timers fire, an HTTP call ends or is cut off by its timeout, and what a webhook
\* does between two waits for Plex ends.  Nobody has to ask, to begin or to throw.
FairSpec == Spec /\ WF_vars(Timer) /\ WF_vars(Plex) /\ WF_vars(Webhooks)

----------------------------------------------------------------------------
(* What the fan-outs can rely on *)

\* Type invariant of the fan-outs.
FanOutTypeOK ==
    /\ at \in [FanOut -> {"idle", "running", "await", "closing", "done", "threw"}]
    /\ todo \in [FanOut -> SUBSET Request]
    /\ handle \in [FanOut -> Scope \cup {NoScope}]
    /\ waits \in [FanOut -> SUBSET Request]

\* Nobody else was handed the scope of f.
Alone(f) == \A g \in FanOut \ {f} : handle[g] # handle[f]

\* A season is refreshed once: a fan-out that shares its scope with no other sends
\* one refresh for all its episodes of a directory, however long they take, whoever
\* asks for the same show meanwhile, and whether it ends by closing or by throwing.
\* Fan-outs that share a scope split theirs: the first close() ends it for all.
SeasonRefreshedOnce ==
    \A f \in FanOut : at[f] # "idle" /\ Alone(f) =>
        \A d, e \in refreshes :
            /\ d.key = e.key
            /\ d.members \cap ChildrenOf[f] # {}
            /\ e.members \cap ChildrenOf[f] # {}
            => d = e

\* A scope that no step will close: each fan-out that holds it has thrown, or waits
\* for an answer that the scope keeps back.
LeftOpen(s) == \A f \in FanOut : handle[f] = s => at[f] \in {"await", "threw"}

Held(r) == WaitsForScope(r) /\ LeftOpen(open[MediaOf[r]])

\* Waits end: in the end nobody waits for an answer, and no fan-out for its
\* refreshes, but those whom a scope left open holds back - a lost timer, a failed
\* refresh, a scope closed by another or a request that comes while it closes keep
\* nobody waiting (schedule, fire, close; seerr-ingress.js).
WaitsEnd ==
    /\ \A r \in Request : <>[](status[r] = "waiting" => Held(r))
    /\ \A f \in FanOut :
          <>[](at[f] \in {"running", "await", "closing"} =>
                  at[f] = "await" /\ \E r \in waits[f] : Held(r))

\* Whatever its episodes need, a webhook that began closes its scope and answers
\* while no handler throws: the consumer work it awaits is bounded (publication.js,
\* republishHealthyHandoff; seerr-ingress.js).
FanOutsEnd ==
    \A f \in FanOut :
        at[f] = "running" ~> at[f] = "done" \/ \E g \in FanOut : at[g] = "threw"
=============================================================================
