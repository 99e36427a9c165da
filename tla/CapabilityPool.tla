--------------------------- MODULE CapabilityPool ---------------------------
(***************************************************************************)
(* The capability pool of the data plane (data-plane/src/manager.rs): how  *)
(* readers of one file get a capability - a signed provider URL with one   *)
(* permit - and what they do when the provider rejects it mid-read         *)
(* (apply_dead in transport.rs).                                           *)
(*                                                                         *)
(* A slot is one provider's placement of the file.  A call to the          *)
(* provider is named by a number, and so is the capability it mints: entry *)
(* e of the in-flight map is the call e, whose answer outlives the entry   *)
(* with the readers that wait for it.  An action is what a reader does     *)
(* between two awaits, or between two locks where others can come in       *)
(* between.  Two looks nothing comes in between of consequence are one: a  *)
(* permit seen free and taken, the pool and then the in-flight map.        *)
(*                                                                         *)
(* Of a capability only its life counts: throttled ones, leases, prefetch, *)
(* prewarming and standby lanes are left out, and each slot is of another  *)
(* account.                                                                *)
(***************************************************************************)
EXTENDS Integers, FiniteSets, Sequences

CONSTANTS
  Reader,     \* reads of the file, each acquires once
  NumSlots,   \* placements, in preference order, each of a provider of its own
  PoolMax,    \* POOL_MAX
  Threshold,  \* failures that open a breaker
  Leaving,    \* bound: readers whose handler may be dropped while it acquires
  MaxCalls,   \* bound: provider calls
  MaxFailed,  \* bound: failed calls
  MaxDead     \* bound: capabilities revoked or expired

ASSUME PoolAssumption ==
  /\ IsFiniteSet(Reader)
  /\ {NumSlots, PoolMax, Threshold} \subseteq Nat \ {0}
  /\ {MaxCalls, MaxFailed, MaxDead} \subseteq Nat

Slot == 1 .. NumSlots
Key == Slot \X (Nat \ {0})
Failure == {"limited", "failed"}

VARIABLES
  caps,      \* [Slot -> sequence of capabilities]
  target,    \* [Slot -> pool size asked for]
  failures,  \* [Slot -> the breaker's count, up to Threshold]
  open,      \* slots whose breaker is in its cooldown
  backoff,   \* slots whose account is inside a Retry-After
  negative,  \* keys in the negative cache
  calls,     \* provider calls: key and answer
  inflight,  \* calls with an entry in the in-flight map
  dead,      \* capabilities revoked or expired
  reader,    \* [Reader -> where it is and what it has]
  dropped    \* history: calls whose owner was dropped before it removed the entry

poolVars == <<caps, target>>
breakerVars == <<failures, open>>
memoVars == <<backoff, negative>>
flightVars == <<calls, inflight>>
outsideVars == <<dead, dropped>>
vars == <<poolVars, breakerVars, memoVars, flightVars, outsideVars, reader>>

Pc == {"idle", "fast", "try", "grow", "index", "lookup", "mint", "remove", "wait", "push",
       "reserve", "block", "queue", "holding", "rejected", "failover", "reacquire", "again",
       "done", "failed", "refused", "left"}

Init ==
  /\ caps = [s \in Slot |-> <<>>] /\ target = [s \in Slot |-> 1]
  /\ failures = [s \in Slot |-> 0] /\ open = {}
  /\ backoff = {} /\ negative = {}
  /\ calls = <<>> /\ inflight = {}
  /\ dead = {} /\ dropped = {}
  /\ reader = [r \in Reader |-> [pc |-> "idle", mode |-> "demand", at |-> 1, idx |-> 1,
                                 entry |-> 0, holds |-> 0, spent |-> {}]]

At(r, l) == reader[r].pc = l
Demand(r) == reader[r].mode = "demand"
KeyOf(r) == <<reader[r].at, reader[r].idx>>
Goto(r, l) == reader' = [reader EXCEPT ![r].pc = l]

(* To slot s, with no capability or call in mind.                          *)
GoTo(r, l, s) ==
  reader' = [reader EXCEPT ![r].pc = l, ![r].at = s, ![r].idx = 1, ![r].entry = 0]

(* Mutant: the permit is not dropped with the read.                        *)
End_KeepsPermit(r, l) ==
  reader' = [reader EXCEPT ![r] = [pc |-> l, mode |-> "demand", at |-> 1, idx |-> 1,
                                   entry |-> 0, holds |-> @.holds, spent |-> @.spent]]
(* The read is over; what it held is dropped.                              *)
End(r, l) ==
  reader' = [reader EXCEPT ![r] = [pc |-> l, mode |-> "demand", at |-> 1, idx |-> 1,
                                   entry |-> 0, holds |-> 0, spent |-> @.spent]]

-----------------------------------------------------------------------------
(* Permits and breakers.                                                   *)

(* One permit a capability; one that is released goes to whoever queues.   *)
Free(c) == \A r \in Reader : reader[r].holds # c /\ ~(At(r, "queue") /\ reader[r].entry = c)

FreeIn(q) == {i \in DOMAIN q : q[i] \notin dead /\ Free(q[i])}
FirstOf(q, I) == q[CHOOSE i \in I : \A j \in I : i <= j]

(* first_usable_free, then try_reserve.  What the reader held is dropped.  *)
Take(r, c) ==
  reader' = [reader EXCEPT ![r] = [pc |-> "holding", mode |-> "demand", at |-> 1, idx |-> 1,
                                   entry |-> 0, holds |-> c,
                                   spent |-> @.spent \cup ({@.mode} \ {"demand"})]]

(* retain(|c| !c.prunable(now)): those that live, in their order.          *)
Pruned(s) ==
  LET live == {i \in DOMAIN caps[s] : caps[s][i] \notin dead}
      Nth(n) == CHOOSE i \in live : Cardinality({j \in live : j < i}) = n - 1
  IN  [n \in 1 .. Cardinality(live) |-> caps[s][Nth(n)]]

(* is_open: past its cooldown a breaker is reset when it is looked at.     *)
LookAt(s) ==
  /\ failures' = [failures EXCEPT ![s] = IF s \notin open /\ @ = Threshold THEN 0 ELSE @]
  /\ UNCHANGED open

RecordSuccess(s) ==
  /\ failures' = [failures EXCEPT ![s] = 0]
  /\ open' = open \ {s}

RecordFailures(s, n) ==
  /\ failures' = [failures EXCEPT ![s] = IF @ + n >= Threshold THEN Threshold ELSE @ + n]
  /\ open' = IF failures[s] + n >= Threshold THEN open \cup {s} ELSE open

-----------------------------------------------------------------------------
(* acquire_for_read: a capability that is free right now, slot after slot, *)
(* else the slots are tried one by one.                                    *)

Begin(r) ==
  /\ At(r, "idle")
  /\ Goto(r, "fast")
  /\ UNCHANGED <<poolVars, breakerVars, memoVars, flightVars, outsideVars>>

FastReuse(r) ==
  LET s == reader[r].at IN
  /\ At(r, "fast") /\ s \notin open /\ FreeIn(caps[s]) # {}
  /\ Take(r, FirstOf(caps[s], FreeIn(caps[s])))
  /\ RecordSuccess(s)
  /\ UNCHANGED <<poolVars, memoVars, flightVars, outsideVars>>

FastNext(r) ==
  LET s == reader[r].at IN
  /\ At(r, "fast") /\ (s \in open \/ FreeIn(caps[s]) = {})
  /\ IF s < NumSlots THEN GoTo(r, "fast", s + 1) ELSE GoTo(r, "try", 1)
  /\ LookAt(s)
  /\ UNCHANGED <<poolVars, memoVars, flightVars, outsideVars>>

(* This slot is given up: the next one, or AllSameTfFailed.                *)
NextSlot(r) ==
  IF reader[r].at < NumSlots THEN GoTo(r, "try", reader[r].at + 1) ELSE End(r, "failed")

SkipOpen(r) ==
  /\ At(r, "try") /\ reader[r].at \in open
  /\ NextSlot(r)
  /\ UNCHANGED <<poolVars, breakerVars, memoVars, flightVars, outsideVars>>

(* try_slot prunes before it looks at the account's Retry-After.           *)
SkipBackoff(r) ==
  LET s == reader[r].at IN
  /\ At(r, "try") /\ s \in backoff \ open
  /\ NextSlot(r)
  /\ caps' = [caps EXCEPT ![s] = Pruned(s)]
  /\ LookAt(s)
  /\ UNCHANGED <<target, memoVars, flightVars, outsideVars>>

Reuse(r) ==
  LET s == reader[r].at
      live == Pruned(s) IN
  /\ At(r, "try") /\ s \notin open \cup backoff /\ FreeIn(live) # {}
  /\ Take(r, FirstOf(live, FreeIn(live)))
  /\ caps' = [caps EXCEPT ![s] = live]
  /\ RecordSuccess(s)
  /\ UNCHANGED <<target, memoVars, flightVars, outsideVars>>

(* All are busy: one more is asked for, up to PoolMax.                     *)
Press(r) ==
  LET s == reader[r].at
      live == Pruned(s) IN
  /\ At(r, "try") /\ s \notin open \cup backoff /\ FreeIn(live) = {}
  /\ Goto(r, "grow")
  /\ caps' = [caps EXCEPT ![s] = live]
  /\ target' = [target EXCEPT ![s] = IF live # <<>> /\ @ < PoolMax THEN @ + 1 ELSE @]
  /\ LookAt(s)
  /\ UNCHANGED <<memoVars, flightVars, outsideVars>>

(* Mutant: the target is not looked at.                                    *)
Short_NoTarget(s) == s \notin open

(* while caps.len() < target && !breaker.is_open                           *)
Short(s) == Len(caps[s]) < target[s] /\ s \notin open

Grow(r) ==
  LET s == reader[r].at IN
  /\ At(r, "grow")
  /\ Goto(r, IF Short(s) THEN "index" ELSE "block")
  /\ IF Len(caps[s]) < target[s] THEN LookAt(s) ELSE UNCHANGED breakerVars
  /\ UNCHANGED <<poolVars, memoVars, flightVars, outsideVars>>

(* Mutant: a busy capability is not waited for.                            *)
Waitable_Free(s) == FreeIn(caps[s])

(* first_waitable: not dead, busy or not.                                  *)
Waitable(s) == {i \in DOMAIN caps[s] : caps[s][i] \notin dead}

Block(r) ==
  LET s == reader[r].at IN
  /\ At(r, "block") /\ Waitable(s) # {}
  /\ reader' = [reader EXCEPT ![r].pc = "queue", ![r].entry = FirstOf(caps[s], Waitable(s))]
  /\ UNCHANGED <<poolVars, breakerVars, memoVars, flightVars, outsideVars>>

(* "slot has no usable capability"                                         *)
NothingToWaitFor(r) ==
  LET s == reader[r].at IN
  /\ At(r, "block") /\ Waitable(s) = {}
  /\ NextSlot(r)
  /\ RecordFailures(s, 1)
  /\ UNCHANGED <<poolVars, memoVars, flightVars, outsideVars>>

(* The permit comes, even if the capability has died meanwhile.            *)
Permit(r) ==
  /\ At(r, "queue") /\ \A q \in Reader : reader[q].holds # reader[r].entry
  /\ Take(r, reader[r].entry)
  /\ RecordSuccess(reader[r].at)
  /\ UNCHANGED <<poolVars, memoVars, flightVars, outsideVars>>

-----------------------------------------------------------------------------
(* resolve_internal, for a reader with a slot and an index: one flight for *)
(* a key, whose answer everybody who waits for it takes.                   *)

(* A reacquire tries the capability's permit, a demand and a failover add  *)
(* it to the pool first.                                                   *)
Pools(r) == reader[r].mode # "reacquire"

(* The index is the pool's length, read after the length was compared with *)
(* the target; a reacquire asks for the first.                             *)
IndexFor(r) == IF Pools(r) THEN Len(caps[reader[r].at]) + 1 ELSE 1

(* Mutant: the index of the last capability.                               *)
Index_OfLast(r) ==
  LET i == IF Pools(r) THEN Len(caps[reader[r].at]) ELSE 1 IN
  /\ At(r, "index") /\ <<reader[r].at, i>> \notin negative
  /\ reader' = [reader EXCEPT ![r].pc = "lookup", ![r].idx = i]
  /\ UNCHANGED <<poolVars, breakerVars, memoVars, flightVars, outsideVars>>
(* A key that has just failed for good is not called again.                *)
Index(r) ==
  LET i == IndexFor(r) IN
  /\ At(r, "index") /\ <<reader[r].at, i>> \notin negative
  /\ reader' = [reader EXCEPT ![r].pc = "lookup", ![r].idx = i]
  /\ UNCHANGED <<poolVars, breakerVars, memoVars, flightVars, outsideVars>>

EntryOf(k) == {e \in inflight : calls[e].key = k}

(* The capability is already at its index.                                 *)
Present(k) == k[2] <= Len(caps[k[1]]) /\ caps[k[1]][k[2]] \notin dead

LookupPresent(r) ==
  LET k == KeyOf(r) IN
  /\ At(r, "lookup") /\ Present(k)
  /\ reader' = [reader EXCEPT ![r].pc = IF Pools(r) THEN "push" ELSE "reserve",
                              ![r].entry = caps[k[1]][k[2]]]
  /\ UNCHANGED <<poolVars, breakerVars, memoVars, flightVars, outsideVars>>

Join(r) ==
  LET k == KeyOf(r) IN
  /\ At(r, "lookup") /\ ~Present(k)
  /\ \E e \in EntryOf(k) :
        reader' = [reader EXCEPT ![r].pc = "wait", ![r].entry = e]
  /\ UNCHANGED <<poolVars, breakerVars, memoVars, flightVars, outsideVars>>

(* Mutant: an entry is made without a look at the map.                     *)
Call_Always(r) ==
  LET k == KeyOf(r) IN
  /\ At(r, "lookup") /\ ~Present(k)
  /\ Len(calls) < MaxCalls
  /\ calls' = Append(calls, [key |-> k, answer |-> "none"])
  /\ inflight' = inflight \cup {Len(calls) + 1}
  /\ reader' = [reader EXCEPT ![r].pc = "mint", ![r].entry = Len(calls) + 1]
  /\ UNCHANGED <<poolVars, breakerVars, memoVars, outsideVars>>
(* No entry for the key: one is made and owned.                            *)
Call(r) ==
  LET k == KeyOf(r) IN
  /\ At(r, "lookup") /\ ~Present(k) /\ EntryOf(k) = {}
  /\ Len(calls) < MaxCalls
  /\ calls' = Append(calls, [key |-> k, answer |-> "none"])
  /\ inflight' = inflight \cup {Len(calls) + 1}
  /\ reader' = [reader EXCEPT ![r].pc = "mint", ![r].entry = Len(calls) + 1]
  /\ UNCHANGED <<poolVars, breakerVars, memoVars, outsideVars>>

Failed == {e \in DOMAIN calls : calls[e].answer \in Failure}

(* Mutant: only a capability is stored for the waiters.                    *)
Minted_DropsErrors(r, a) ==
  /\ At(r, "mint")
  /\ a = "ok" \/ Cardinality(Failed) < MaxFailed
  /\ calls' = IF a = "ok" THEN [calls EXCEPT ![reader[r].entry].answer = a] ELSE calls
  /\ \/ a = "limited" /\ backoff' = backoff \cup {reader[r].at}
     \/ UNCHANGED backoff
  /\ \/ a = "failed" /\ negative' = negative \cup {KeyOf(r)}
     \/ UNCHANGED negative
  /\ Goto(r, "remove")
  /\ UNCHANGED <<poolVars, breakerVars, inflight, outsideVars>>
(* The provider answers: a capability, a 429 that may say until when, or a *)
(* failure, hard or transient.  Only a hard one is remembered.  The answer *)
(* is there for the waiters before the entry is removed.                   *)
Minted(r, a) ==
  /\ At(r, "mint")
  /\ a = "ok" \/ Cardinality(Failed) < MaxFailed
  /\ calls' = [calls EXCEPT ![reader[r].entry].answer = a]
  /\ \/ a = "limited" /\ backoff' = backoff \cup {reader[r].at}
     \/ UNCHANGED backoff
  /\ \/ a = "failed" /\ negative' = negative \cup {KeyOf(r)}
     \/ UNCHANGED negative
  /\ Goto(r, "remove")
  /\ UNCHANGED <<poolVars, breakerVars, inflight, outsideVars>>

Remove(r) ==
  /\ At(r, "remove")
  /\ inflight' = inflight \ EntryOf(KeyOf(r))
  /\ Goto(r, "wait")
  /\ UNCHANGED <<poolVars, breakerVars, memoVars, calls, outsideVars>>

Answer(r) == calls[reader[r].entry].answer

Resolved(r) ==
  /\ At(r, "wait") /\ Answer(r) = "ok" /\ ~Pools(r)
  /\ Goto(r, "reserve")
  /\ UNCHANGED <<poolVars, breakerVars, memoVars, flightVars, outsideVars>>

(* Pushed again by everybody who waited for it.                            *)
Push(r) ==
  LET s == reader[r].at IN
  /\ At(r, "push") \/ (At(r, "wait") /\ Answer(r) = "ok" /\ Pools(r))
  /\ caps' = [caps EXCEPT ![s] = Append(@, reader[r].entry)]
  /\ Goto(r, "reserve")
  /\ UNCHANGED <<target, breakerVars, memoVars, flightVars, outsideVars>>

Reserve(r) ==
  /\ At(r, "reserve") /\ Free(reader[r].entry)
  /\ Take(r, reader[r].entry)
  /\ IF Demand(r) THEN RecordSuccess(reader[r].at) ELSE UNCHANGED breakerVars
  /\ UNCHANGED <<poolVars, memoVars, flightVars, outsideVars>>

(* Once per read; it goes through resolve_internal too.                    *)
Reacquires(r) ==
  IF "reacquire" \in reader[r].spent
  THEN End(r, "refused")
  ELSE reader' = [reader EXCEPT ![r] = [pc |-> "reacquire", mode |-> "reacquire",
                                        at |-> 1, idx |-> 1, entry |-> 0, holds |-> @.holds,
                                        spent |-> @.spent \cup {"reacquire"}]]

(* The failover has no luck with this slot: the next, or reacquire.        *)
NextAlternate(r) ==
  IF reader[r].at < NumSlots THEN GoTo(r, "failover", reader[r].at + 1) ELSE Reacquires(r)

(* Somebody else has its permit.  A reacquire pushes it and tries again.   *)
ReserveFails(r) ==
  LET s == reader[r].at IN
  /\ At(r, "reserve") /\ ~Free(reader[r].entry)
  /\ CASE reader[r].mode = "demand" -> GoTo(r, "grow", s) /\ UNCHANGED caps
       [] reader[r].mode = "failover" -> NextAlternate(r) /\ UNCHANGED caps
       [] OTHER -> /\ Goto(r, "again")
                   /\ caps' = [caps EXCEPT ![s] = Append(@, reader[r].entry)]
  /\ UNCHANGED <<target, breakerVars, memoVars, flightVars, outsideVars>>

(* A failed mint is counted where it is made and again by the caller,      *)
(* unless it was a 429.                                                    *)
GivesUp(r, a) ==
  LET s == reader[r].at IN
  CASE reader[r].mode = "demand" ->
         NextSlot(r) /\ RecordFailures(s, IF a = "limited" THEN 1 ELSE 2)
    [] reader[r].mode = "failover" -> NextAlternate(r) /\ RecordFailures(s, 1)
    [] OTHER -> End(r, "failed") /\ RecordFailures(s, 1)

ResolveFails(r) ==
  /\ At(r, "wait") /\ Answer(r) \in Failure
  /\ GivesUp(r, Answer(r))
  /\ UNCHANGED <<poolVars, memoVars, flightVars, outsideVars>>

NegativeHit(r) ==
  /\ At(r, "index") /\ <<reader[r].at, IndexFor(r)>> \in negative
  /\ GivesUp(r, "failed")
  /\ UNCHANGED <<poolVars, memoVars, flightVars, outsideVars>>

-----------------------------------------------------------------------------
(* The provider rejects the capability in use (401, 403, 404, 410): a free *)
(* one of another provider, or one it mints; else a fresh one, once.       *)

Rejected(r) ==
  LET c == reader[r].holds IN
  /\ At(r, "holding") /\ (c \in dead \/ Cardinality(dead) < MaxDead)
  /\ dead' = dead \cup {c}
  /\ Goto(r, "rejected")
  /\ UNCHANGED <<poolVars, breakerVars, memoVars, flightVars, dropped>>

(* acquire_failover_lane finds its own slot by the capability, if nobody   *)
(* has pruned it.                                                          *)
Pooled(c) == \E s \in Slot : \E i \in DOMAIN caps[s] : caps[s][i] = c

Failover(r) ==
  /\ At(r, "rejected") /\ "failover" \notin reader[r].spent /\ Pooled(reader[r].holds)
  /\ reader' = [reader EXCEPT ![r].pc = "failover", ![r].mode = "failover", ![r].at = 1]
  /\ UNCHANGED <<poolVars, breakerVars, memoVars, flightVars, outsideVars>>

NoFailover(r) ==
  /\ At(r, "rejected") /\ ("failover" \in reader[r].spent \/ ~Pooled(reader[r].holds))
  /\ Reacquires(r)
  /\ UNCHANGED <<poolVars, breakerVars, memoVars, flightVars, outsideVars>>

Alternate(r, s) == s # calls[reader[r].holds].key[1] /\ s \notin open

FailoverSkip(r) ==
  LET s == reader[r].at IN
  /\ At(r, "failover") /\ ~Alternate(r, s)
  /\ NextAlternate(r)
  /\ UNCHANGED <<poolVars, breakerVars, memoVars, flightVars, outsideVars>>

FailoverWarm(r) ==
  LET s == reader[r].at IN
  /\ At(r, "failover") /\ Alternate(r, s) /\ FreeIn(caps[s]) # {}
  /\ Take(r, FirstOf(caps[s], FreeIn(caps[s])))
  /\ LookAt(s)
  /\ UNCHANGED <<poolVars, memoVars, flightVars, outsideVars>>

FailoverCold(r) ==
  LET s == reader[r].at IN
  /\ At(r, "failover") /\ Alternate(r, s) /\ FreeIn(caps[s]) = {}
  /\ caps' = [caps EXCEPT ![s] = Pruned(s)]
  /\ IF Len(Pruned(s)) < target[s] THEN Goto(r, "index") ELSE NextAlternate(r)
  /\ LookAt(s)
  /\ UNCHANGED <<target, memoVars, flightVars, outsideVars>>

(* reacquire_for_read: the first slot whose breaker is closed, whichever   *)
(* the rejected capability was of, and index 0 of its pool.                *)
Reacquire(r, s) ==
  /\ At(r, "reacquire")
  /\ s \notin open /\ \A t \in Slot \ open : s <= t
  /\ caps' = [caps EXCEPT ![s] = Pruned(s)]
  /\ GoTo(r, "index", s)
  /\ LookAt(s)
  /\ UNCHANGED <<target, memoVars, flightVars, outsideVars>>

ReacquireNowhere(r) ==
  /\ At(r, "reacquire") /\ Slot \subseteq open
  /\ End(r, "failed")
  /\ UNCHANGED <<poolVars, breakerVars, memoVars, flightVars, outsideVars>>

ReserveAgain(r) ==
  /\ At(r, "again")
  /\ IF Free(reader[r].entry) THEN Take(r, reader[r].entry) ELSE End(r, "failed")
  /\ UNCHANGED <<poolVars, breakerVars, memoVars, flightVars, outsideVars>>

Release(r) ==
  /\ At(r, "holding")
  /\ End(r, "done")
  /\ UNCHANGED <<poolVars, breakerVars, memoVars, flightVars, outsideVars>>

(* The client hangs up while the handler awaits its first capability: the  *)
(* future is dropped where it stands, the entry it owns stays.             *)
Leave(r) ==
  /\ r \in Leaving /\ Demand(r)
  /\ reader[r].pc \in {"lookup", "mint", "remove", "wait", "queue"}
  /\ End(r, "left")
  /\ dropped' = IF reader[r].pc \in {"mint", "remove"} THEN dropped \cup {reader[r].entry}
                                                       ELSE dropped
  /\ UNCHANGED <<poolVars, breakerVars, memoVars, flightVars, dead>>

-----------------------------------------------------------------------------
(* Time.                                                                   *)

Expire(c) ==
  /\ Cardinality(dead) < MaxDead /\ calls[c].answer = "ok" /\ c \notin dead
  /\ dead' = dead \cup {c}
  /\ UNCHANGED <<poolVars, breakerVars, memoVars, flightVars, dropped, reader>>

BreakerCools(s) ==
  /\ s \in open
  /\ open' = open \ {s}
  /\ UNCHANGED <<poolVars, failures, memoVars, flightVars, outsideVars, reader>>

BackoffEnds(s) ==
  /\ s \in backoff
  /\ backoff' = backoff \ {s}
  /\ UNCHANGED <<poolVars, breakerVars, negative, flightVars, outsideVars, reader>>

NegativeEnds(k) ==
  /\ negative' = negative \ {k}
  /\ UNCHANGED <<poolVars, breakerVars, backoff, flightVars, outsideVars, reader>>

-----------------------------------------------------------------------------
Try(r) ==
  \/ Begin(r) \/ FastReuse(r) \/ FastNext(r)
  \/ SkipOpen(r) \/ SkipBackoff(r) \/ Reuse(r) \/ Press(r) \/ Grow(r)
  \/ Block(r) \/ NothingToWaitFor(r) \/ Permit(r)

Resolve(r) ==
  \/ Index(r) \/ NegativeHit(r) \/ LookupPresent(r) \/ Join(r) \/ Call(r)
  \/ \E a \in Failure \cup {"ok"} : Minted(r, a)
  \/ Remove(r) \/ Resolved(r) \/ ResolveFails(r)
  \/ Push(r) \/ Reserve(r) \/ ReserveFails(r)

Recover(r) ==
  \/ Failover(r) \/ NoFailover(r)
  \/ FailoverSkip(r) \/ FailoverWarm(r) \/ FailoverCold(r)
  \/ \E s \in Slot : Reacquire(r, s)
  \/ ReacquireNowhere(r) \/ ReserveAgain(r)

Step(r) == Try(r) \/ Resolve(r) \/ Recover(r) \/ Release(r)

Time ==
  \/ \E c \in DOMAIN calls : Expire(c)
  \/ \E s \in Slot : BreakerCools(s) \/ BackoffEnds(s)
  \/ \E k \in negative : NegativeEnds(k)

Next == Time \/ \E r \in Reader : Step(r) \/ Rejected(r) \/ Leave(r)

Spec == Init /\ [][Next]_vars

(* The runtime does not stop while some reader can go on: providers answer *)
(* or time out, reads end.  No reader goes back more often than the pool   *)
(* grows, so that one is enough.                                           *)
FairSpec == Spec /\ WF_vars(\E r \in Reader : Step(r))

-----------------------------------------------------------------------------
(* Properties.                                                             *)

(* Type invariant of the pool, its breakers and its readers.               *)
PoolTypeOK ==
  /\ caps \in [Slot -> Seq(DOMAIN calls)] /\ target \in [Slot -> 1 .. PoolMax]
  /\ failures \in [Slot -> 0 .. Threshold] /\ open \subseteq Slot
  /\ backoff \subseteq Slot /\ negative \subseteq Key
  /\ calls \in Seq([key : Key, answer : Failure \cup {"none", "ok"}])
  /\ inflight \subseteq DOMAIN calls /\ dead \subseteq DOMAIN calls
  /\ dropped \subseteq DOMAIN calls
  /\ reader \in [Reader -> [pc : Pc, mode : {"demand", "failover", "reacquire"},
                            at : Slot, idx : Nat \ {0},
                            entry : {0} \cup DOMAIN calls, holds : {0} \cup DOMAIN calls,
                            spent : SUBSET {"failover", "reacquire"}]]

(* Only one reader at a time calls the provider for a key, whoever comes,  *)
(* fails or is dropped meanwhile (manager.rs, single-flight).              *)
OneCallPerKey ==
  \A q, r \in Reader :
    At(q, "mint") /\ At(r, "mint") /\ KeyOf(q) = KeyOf(r) => q = r

(* A reader that waits for a call waits for somebody: the call's owner is  *)
(* still to answer, or its handler was dropped.  No answer, error or       *)
(* removal of the entry strands a waiter.                                  *)
WaitersHaveOwner ==
  \A r \in Reader : At(r, "wait") /\ Answer(r) = "none" =>
    \/ reader[r].entry \in dropped
    \/ \E q \in Reader : At(q, "mint") /\ reader[q].entry = reader[r].entry

(* A demand leaves a provider for a less preferred one, or fails, only if  *)
(* a call of this provider has failed or a capability of it has died:      *)
(* another read's permit or call, or a race lost for one, is waited out    *)
(* (try_slot, acquire_for_read).                                           *)
MovesOnForCause ==
  [][\A r \in Reader :
       Demand(r) /\ ~At(r, "fast") /\ (reader'[r].at > reader[r].at \/ At(r, "failed")')
         => \/ At(r, "failed")
            \/ \E e \in Failed \cup dead : calls[e].key[1] = reader[r].at]_vars

(* A read ends in AllSameTfDeliveryFailed only if some provider has failed *)
(* a call (manager.rs: ONLY when every viable provider is exhausted AND no *)
(* recovery is in flight).                                                 *)
HonestExhaustion == \A r \in Reader : At(r, "failed") => Failed # {}

Pushing(s) ==
  {r \in Reader : /\ reader[r].at = s /\ reader[r].mode # "reacquire"
                  /\ reader[r].pc \in {"index", "lookup", "mint", "remove", "wait", "push"}}

Reacquirers == {r \in Reader : "reacquire" \in reader[r].spent}

(* Readers compare the length with the target and push later, each of them *)
(* even the same capability: the pool exceeds its target by less than the  *)
(* readers, and once more for each that has reacquired.                    *)
OvershootBounded ==
  \A s \in Slot :
    Len(caps[s]) + Cardinality(Pushing(s))
      <= target[s] + Cardinality(Reader) - 1 + Cardinality(Reacquirers)

(* Every read ends, unless a handler was dropped in the middle of a call:  *)
(* permits held while another capability is waited for, calls joined and   *)
(* answers missed never leave reads waiting for each other.                *)
AcquiresEnd ==
  <>[](dropped # {} \/ \A r \in Reader : reader[r].pc \in {"idle", "done", "failed", "refused", "left"})

=============================================================================
