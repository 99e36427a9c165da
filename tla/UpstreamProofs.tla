---------------------------- MODULE UpstreamProofs ----------------------------
(***************************************************************************)
(* Proofs about what the data plane reads through, CapabilityPool, and     *)
(* what a fill makes of what it reads, FillStaging.                        *)
(*                                                                         *)
(* CapabilityPool, for any readers, slots, pool sizes and thresholds, and  *)
(* any number of calls, failures, dead capabilities and dropped handlers:  *)
(* single-flight, from the invariant of the flights (IInv); how far a pool *)
(* grows past its target and what makes a demand leave a provider, from the *)
(* invariant of the pools (PoolInv), which needs the first where a call is *)
(* answered; and when a read that fails has tried every provider (TriedOK). *)
(*                                                                         *)
(* FillStaging, for any file, grid, window and frames no longer than a     *)
(* chunk, and any number of staging errors: a published chunk is whole, what *)
(* was read is published, and the client has its window, from the invariant *)
(* of the fill (FillInv).                                                  *)
(***************************************************************************)
EXTENDS CapabilityPool, FillStaging, SequenceTheorems, FiniteSetTheorems, TLAPS

----------------------------------------------------------------------------
(* The inductive invariant *)

\* Readers and calls are functions of records.  What the pools hold says nothing
\* about a flight, so their types are not needed.
Shape ==
  /\ DOMAIN reader = Reader
  /\ \A r \in Reader :
       DOMAIN reader[r] = {"pc", "mode", "at", "idx", "entry", "holds", "spent"}
  /\ calls \in Seq({calls[e] : e \in DOMAIN calls})
  /\ \A e \in DOMAIN calls : DOMAIN calls[e] = {"key", "answer"}

Owns(r) == reader[r].pc \in {"mint", "remove"}

\* An entry is a call, and the only one of its key.
Entries ==
  /\ inflight \subseteq DOMAIN calls
  /\ \A e, f \in inflight : calls[e].key = calls[f].key => e = f

\* An owner's call has an entry, which no other reader owns.
Owners ==
  /\ \A r \in Reader : Owns(r) =>
       reader[r].entry \in inflight /\ calls[reader[r].entry].key = KeyOf(r)
  /\ \A q, r \in Reader : Owns(q) /\ Owns(r) /\ reader[q].entry = reader[r].entry => q = r

\* A call without an answer is somebody's, or its owner was dropped.
Waiters ==
  /\ \A r \in Reader : At(r, "wait") => reader[r].entry \in DOMAIN calls
  /\ \A e \in DOMAIN calls : calls[e].answer = "none" =>
       e \in dropped \/ \E q \in Reader : At(q, "mint") /\ reader[q].entry = e

IInv == Shape /\ Entries /\ Owners /\ Waiters

\* The initial state satisfies it.
LEMMA InitIInv == Init => IInv
<1> SUFFICES ASSUME Init PROVE IInv
  OBVIOUS
<1>1. calls \in Seq({calls[e] : e \in DOMAIN calls}) /\ DOMAIN calls = {}
  BY DEF Init
<1>2. Shape
  BY <1>1 DEF Init, Shape
<1>3. Entries /\ Owners /\ Waiters
  BY <1>1 DEF Init, Entries, Owners, Owns, Waiters, At
<1> QED
  BY <1>2, <1>3 DEF IInv

----------------------------------------------------------------------------
(* Sequences of calls *)

\* A function on 1..n is a sequence.
LEMMA FunctionIsSequence ==
  ASSUME NEW T, NEW n \in Nat, NEW s \in [1..n -> T]
  PROVE  s \in Seq(T)
BY SeqDef

\* A sequence is one over its own elements.
LEMMA OverItsElements ==
  ASSUME NEW S, NEW s \in Seq(S)
  PROVE  s \in Seq({s[i] : i \in DOMAIN s})
<1>1. PICK n \in Nat : s \in [1..n -> S]
  OBVIOUS
<1>2. s \in [1..n -> {s[i] : i \in DOMAIN s}]
  BY <1>1
<1> QED
  BY <1>1, <1>2, FunctionIsSequence

\* One more call leaves the others as they are.
LEMMA OneMoreCall ==
  ASSUME NEW s, s \in Seq({s[i] : i \in DOMAIN s}), NEW x
  PROVE  LET t == Append(s, x) IN
           /\ t \in Seq({t[i] : i \in DOMAIN t})
           /\ DOMAIN t = DOMAIN s \cup {Len(s) + 1} /\ Len(s) + 1 \notin DOMAIN s
           /\ t[Len(s) + 1] = x /\ \A i \in DOMAIN s : t[i] = s[i]
<1> DEFINE S == {s[i] : i \in DOMAIN s}
           T == S \cup {x}
           t == Append(s, x)
<1>1. PICK n \in Nat : s \in [1..n -> S]
  OBVIOUS
<1>2. s \in [1..n -> T]
  BY <1>1
<1>3. s \in Seq(T) /\ x \in T
  BY <1>1, <1>2
<1> HIDE DEF S, T
<1>4. t \in Seq(T)
  BY <1>3
<1>5. t \in Seq({t[i] : i \in DOMAIN t})
  BY <1>4, OverItsElements
<1>6. DOMAIN t = DOMAIN s \cup {Len(s) + 1} /\ Len(s) + 1 \notin DOMAIN s
  BY <1>3
<1>7. t[Len(s) + 1] = x /\ \A i \in DOMAIN s : t[i] = s[i]
  BY <1>3
<1> QED
  BY <1>5, <1>6, <1>7

\* A function on the domain of a sequence is a sequence over its own elements.
LEMMA SameDomain ==
  ASSUME NEW s, s \in Seq({s[i] : i \in DOMAIN s}),
         NEW t, t = [i \in DOMAIN s |-> t[i]]
  PROVE  t \in Seq({t[i] : i \in DOMAIN t})
<1> DEFINE S == {s[i] : i \in DOMAIN s}
           T == {t[i] : i \in DOMAIN t}
<1>1. PICK n \in Nat : s \in [1..n -> S]
  OBVIOUS
<1>2. DOMAIN s = 1..n /\ DOMAIN t = DOMAIN s
  BY <1>1
<1>3. t \in [1..n -> T]
  BY <1>2
<1> HIDE DEF T
<1>4. t \in Seq(T)
  BY <1>3, FunctionIsSequence
<1> QED
  BY <1>4 DEF T

----------------------------------------------------------------------------
(* Steps that leave the flights alone *)

\* r goes somewhere that is neither a call nor a wait, and no other reader moves.
Moves(r) ==
  /\ DOMAIN reader' = Reader
  /\ DOMAIN reader'[r] = {"pc", "mode", "at", "idx", "entry", "holds", "spent"}
  /\ \A q \in Reader \ {r} : reader'[q] = reader[q]
  /\ reader'[r].pc \notin {"mint", "remove", "wait"}

\* Such a step keeps the invariant, unless it leaves a call unanswered.
LEMMA MovesKeepsIInv ==
  ASSUME IInv, NEW r \in Reader, Moves(r), ~At(r, "mint"), UNCHANGED flightVars,
         dropped' = dropped
  PROVE  IInv'
<1> USE DEF IInv, Moves, flightVars
<1>1. Shape'
  <2>1. calls' = calls
    BY DEF flightVars
  <2>2. (calls \in Seq({calls[e] : e \in DOMAIN calls}))'
    BY <2>1 DEF Shape
  <2> QED
    BY <2>1, <2>2 DEF Shape
<1>2. Entries'
  BY DEF Entries
<1>3. \A q \in Reader : Owns(q)' => q # r /\ reader'[q] = reader[q] /\ Owns(q)
  BY DEF Owns
<1>4. Owners'
  <2>1. calls' = calls /\ inflight' = inflight
    OBVIOUS
  <2>2. \A q \in Reader : Owns(q)' => KeyOf(q)' = KeyOf(q)
    BY <1>3 DEF KeyOf
  <2>3. (\A q \in Reader : Owns(q) =>
           reader[q].entry \in inflight /\ calls[reader[q].entry].key = KeyOf(q))'
    BY <1>3, <2>1, <2>2 DEF Owners
  <2>4. (\A q, z \in Reader :
           Owns(q) /\ Owns(z) /\ reader[q].entry = reader[z].entry => q = z)'
    BY <1>3 DEF Owners
  <2> QED
    BY <2>3, <2>4 DEF Owners
<1>5. \A q \in Reader : At(q, "wait")' => reader'[q] = reader[q]
  BY DEF At
<1>6. \A q \in Reader : At(q, "mint") => reader'[q] = reader[q]
  BY DEF At
<1>7. Waiters'
  BY <1>5, <1>6 DEF Waiters, At
<1> QED
  BY <1>1, <1>2, <1>4, <1>7

\* The ways to move.
LEMMA WaysToMove ==
  ASSUME IInv, NEW r \in Reader
  PROVE  /\ \A l \in Pc \ {"mint", "remove", "wait"} :
              /\ Goto(r, l) \/ End(r, l) => Moves(r)
              /\ \A s : GoTo(r, l, s) => Moves(r)
              /\ \A e : reader' = [reader EXCEPT ![r].pc = l, ![r].entry = e] => Moves(r)
              /\ \A i : reader' = [reader EXCEPT ![r].pc = l, ![r].idx = i] => Moves(r)
              /\ \A m, s : reader' = [reader EXCEPT ![r].pc = l, ![r].mode = m, ![r].at = s]
                             => Moves(r)
         /\ \A c : Take(r, c) => Moves(r)
         /\ NextSlot(r) \/ NextAlternate(r) \/ Reacquires(r) => Moves(r)
<1> USE DEF IInv, Shape, Moves, Pc
<1>1. ASSUME NEW l \in Pc \ {"mint", "remove", "wait"}, Goto(r, l) PROVE Moves(r)
  BY <1>1 DEF Goto
<1>2. ASSUME NEW l \in Pc \ {"mint", "remove", "wait"}, NEW s, GoTo(r, l, s) PROVE Moves(r)
  BY <1>2 DEF GoTo
<1>3. ASSUME NEW l \in Pc \ {"mint", "remove", "wait"}, End(r, l) PROVE Moves(r)
  BY <1>3 DEF End
<1>4. ASSUME NEW c, Take(r, c) PROVE Moves(r)
  BY <1>4 DEF Take
<1>5. ASSUME NextSlot(r) PROVE Moves(r)
  BY <1>2, <1>3, <1>5 DEF NextSlot
<1>6. ASSUME Reacquires(r) PROVE Moves(r)
  <2>1. CASE "reacquire" \in reader[r].spent
    BY <1>3, <1>6, <2>1 DEF Reacquires
  <2>2. CASE "reacquire" \notin reader[r].spent
    <3>1. reader' = [reader EXCEPT ![r] =
             [pc |-> "reacquire", mode |-> "reacquire", at |-> 1, idx |-> 1, entry |-> 0,
              holds |-> reader[r].holds, spent |-> reader[r].spent \cup {"reacquire"}]]
      BY <1>6, <2>2 DEF Reacquires
    <3> QED
      BY <3>1
  <2> QED
    BY <2>1, <2>2
<1>7. ASSUME NextAlternate(r) PROVE Moves(r)
  BY <1>2, <1>6, <1>7 DEF NextAlternate
<1>8. ASSUME NEW l \in Pc \ {"mint", "remove", "wait"}, NEW e,
             reader' = [reader EXCEPT ![r].pc = l, ![r].entry = e]
      PROVE  Moves(r)
  BY <1>8
<1>9. ASSUME NEW l \in Pc \ {"mint", "remove", "wait"}, NEW i,
             reader' = [reader EXCEPT ![r].pc = l, ![r].idx = i]
      PROVE  Moves(r)
  BY <1>9
<1>10. ASSUME NEW l \in Pc \ {"mint", "remove", "wait"}, NEW m, NEW s,
              reader' = [reader EXCEPT ![r].pc = l, ![r].mode = m, ![r].at = s]
       PROVE  Moves(r)
  BY <1>10
<1> HIDE DEF IInv, Shape, Moves, Pc
<1>11. ASSUME NEW l \in Pc \ {"mint", "remove", "wait"}
       PROVE  /\ Goto(r, l) \/ End(r, l) => Moves(r)
              /\ \A s : GoTo(r, l, s) => Moves(r)
              /\ \A e : reader' = [reader EXCEPT ![r].pc = l, ![r].entry = e] => Moves(r)
              /\ \A i : reader' = [reader EXCEPT ![r].pc = l, ![r].idx = i] => Moves(r)
              /\ \A m, s : reader' = [reader EXCEPT ![r].pc = l, ![r].mode = m, ![r].at = s]
                             => Moves(r)
  BY <1>1, <1>2, <1>3, <1>8, <1>9, <1>10
<1> QED
  BY <1>4, <1>5, <1>6, <1>7, <1>11

\* A reader that is not calling moves: the steps of acquire_for_read.
LEMMA TryKeepsIInv ==
  ASSUME IInv, NEW r \in Reader, Try(r)
  PROVE  IInv'
<1> DEFINE Quiet == Moves(r) /\ ~At(r, "mint") /\ UNCHANGED flightVars /\ dropped' = dropped
<1> SUFFICES Quiet
  BY MovesKeepsIInv
<1> USE WaysToMove
<1> USE DEF outsideVars, At, Pc
<1>1. CASE Begin(r)
  BY <1>1 DEF Begin
<1>2. CASE FastReuse(r)
  BY <1>2 DEF FastReuse
<1>3. CASE FastNext(r)
  BY <1>3 DEF FastNext
<1>4. CASE SkipOpen(r)
  BY <1>4 DEF SkipOpen
<1>5. CASE SkipBackoff(r)
  BY <1>5 DEF SkipBackoff
<1>6. CASE Reuse(r)
  BY <1>6 DEF Reuse
<1>7. CASE Press(r)
  BY <1>7 DEF Press
<1>8. CASE Grow(r)
  BY <1>8 DEF Grow
<1>9. CASE Block(r)
  BY <1>9 DEF Block
<1>10. CASE NothingToWaitFor(r)
  BY <1>10 DEF NothingToWaitFor
<1>11. CASE Permit(r)
  BY <1>11 DEF Permit
<1> QED
  BY <1>1, <1>2, <1>3, <1>4, <1>5, <1>6, <1>7, <1>8, <1>9, <1>10, <1>11 DEF Try

\* The steps of the recovery, and the rejection and the release before it.
LEMMA RecoverKeepsIInv ==
  ASSUME IInv, NEW r \in Reader, Recover(r) \/ Rejected(r) \/ Release(r)
  PROVE  IInv'
<1> DEFINE Quiet == Moves(r) /\ ~At(r, "mint") /\ UNCHANGED flightVars /\ dropped' = dropped
<1> SUFFICES Quiet
  BY MovesKeepsIInv
<1> USE WaysToMove
<1> USE DEF outsideVars, At, Pc
<1>1. CASE Failover(r)
  BY <1>1 DEF Failover
<1>2. CASE NoFailover(r)
  BY <1>2 DEF NoFailover
<1>3. CASE FailoverSkip(r)
  BY <1>3 DEF FailoverSkip
<1>4. CASE FailoverWarm(r)
  BY <1>4 DEF FailoverWarm
<1>5. CASE FailoverCold(r)
  BY <1>5 DEF FailoverCold
<1>6. CASE \E s \in Slot : Reacquire(r, s)
  BY <1>6 DEF Reacquire
<1>7. CASE ReacquireNowhere(r)
  BY <1>7 DEF ReacquireNowhere
<1>8. CASE ReserveAgain(r)
  BY <1>8 DEF ReserveAgain
<1>9. CASE Rejected(r)
  BY <1>9 DEF Rejected
<1>10. CASE Release(r)
  BY <1>10 DEF Release
<1> QED
  BY <1>1, <1>2, <1>3, <1>4, <1>5, <1>6, <1>7, <1>8, <1>9, <1>10 DEF Recover

\* The steps of resolve_internal and its callers that begin and end no call.
LEMMA ResolvedKeepsIInv ==
  ASSUME IInv, NEW r \in Reader,
         \/ Index(r) \/ NegativeHit(r) \/ LookupPresent(r) \/ Resolved(r) \/ ResolveFails(r)
         \/ Push(r) \/ Reserve(r) \/ ReserveFails(r)
  PROVE  IInv'
<1> DEFINE Quiet == Moves(r) /\ ~At(r, "mint") /\ UNCHANGED flightVars /\ dropped' = dropped
<1> SUFFICES Quiet
  BY MovesKeepsIInv
<1> USE WaysToMove
<1> USE DEF outsideVars, At, Pc
<1>1. \A a : GivesUp(r, a) => Moves(r)
  BY DEF GivesUp
<1>2. CASE Index(r)
  BY <1>2 DEF Index
<1>3. CASE NegativeHit(r)
  BY <1>1, <1>3 DEF NegativeHit
<1>4. CASE LookupPresent(r)
  BY <1>4 DEF LookupPresent
<1>5. CASE Resolved(r)
  BY <1>5 DEF Resolved
<1>6. CASE ResolveFails(r)
  BY <1>1, <1>6 DEF ResolveFails
<1>7. CASE Push(r)
  BY <1>7 DEF Push
<1>8. CASE Reserve(r)
  BY <1>8 DEF Reserve
<1>9. CASE ReserveFails(r)
  BY <1>9 DEF ReserveFails
<1> QED
  BY <1>2, <1>3, <1>4, <1>5, <1>6, <1>7, <1>8, <1>9

----------------------------------------------------------------------------
(* Steps of a flight *)

\* A reader that finds an entry waits for its call.
LEMMA JoinKeepsIInv ==
  ASSUME IInv, NEW r \in Reader, Join(r)
  PROVE  IInv'
<1> USE DEF IInv, Join, flightVars, outsideVars
<1>1. PICK e \in EntryOf(KeyOf(r)) :
         reader' = [reader EXCEPT ![r].pc = "wait", ![r].entry = e]
  OBVIOUS
<1>2. /\ reader'[r].pc = "wait" /\ reader'[r].entry = e
      /\ \A q \in Reader \ {r} : reader'[q] = reader[q]
      /\ DOMAIN reader' = Reader
      /\ DOMAIN reader'[r] = {"pc", "mode", "at", "idx", "entry", "holds", "spent"}
  BY <1>1 DEF Shape
<1>3. calls' = calls /\ inflight' = inflight /\ dropped' = dropped /\ ~At(r, "mint")
  BY DEF At
<1>4. Shape'
  <2>1. (calls \in Seq({calls[c] : c \in DOMAIN calls}))'
    BY <1>3 DEF Shape
  <2> QED
    BY <1>2, <1>3, <2>1 DEF Shape
<1>5. Entries'
  BY <1>3 DEF Entries
<1>6. \A q \in Reader : Owns(q)' => q # r /\ reader'[q] = reader[q] /\ Owns(q)
  BY <1>2 DEF Owns
<1>7. Owners'
  <2>1. \A q \in Reader : Owns(q)' => KeyOf(q)' = KeyOf(q)
    BY <1>6 DEF KeyOf
  <2>2. (\A q \in Reader : Owns(q) =>
           reader[q].entry \in inflight /\ calls[reader[q].entry].key = KeyOf(q))'
    BY <1>3, <1>6, <2>1 DEF Owners
  <2>3. (\A q, z \in Reader :
           Owns(q) /\ Owns(z) /\ reader[q].entry = reader[z].entry => q = z)'
    BY <1>6 DEF Owners
  <2> QED
    BY <2>2, <2>3 DEF Owners
<1>8. Waiters'
  <2>1. e \in DOMAIN calls
    BY <1>1 DEF EntryOf, Entries
  <2>2. (\A q \in Reader : At(q, "wait") => reader[q].entry \in DOMAIN calls)'
    BY <1>2, <1>3, <2>1 DEF Waiters, At
  <2>3. \A q \in Reader : At(q, "mint") => reader'[q] = reader[q]
    BY <1>2, <1>3 DEF At
  <2>4. ASSUME NEW c \in DOMAIN calls, calls[c].answer = "none", c \notin dropped
        PROVE  \E q \in Reader : At(q, "mint")' /\ reader'[q].entry = c
    <3> HIDE DEF Join, At
    <3>1. PICK q \in Reader : At(q, "mint") /\ reader[q].entry = c
      BY <2>4 DEF Waiters
    <3>2. reader'[q] = reader[q]
      BY <2>3, <3>1
    <3>3. At(q, "mint")'
      BY <3>1, <3>2 DEF At
    <3> QED
      BY <3>1, <3>2, <3>3
  <2> HIDE DEF Join
  <2> QED
    BY <1>3, <2>2, <2>4 DEF Waiters
<1> QED
  BY <1>4, <1>5, <1>7, <1>8

\* A reader that finds none makes one, of a call nobody else has in mind.
LEMMA CallKeepsIInv ==
  ASSUME IInv, NEW r \in Reader, Call(r)
  PROVE  IInv'
<1> USE DEF IInv, Call, flightVars, outsideVars
<1> DEFINE n == Len(calls) + 1
           x == [key |-> KeyOf(r), answer |-> "none"]
<1>1. /\ reader'[r].pc = "mint" /\ reader'[r].entry = n
      /\ reader'[r].at = reader[r].at /\ reader'[r].idx = reader[r].idx
      /\ \A q \in Reader \ {r} : reader'[q] = reader[q]
      /\ DOMAIN reader' = Reader
      /\ DOMAIN reader'[r] = {"pc", "mode", "at", "idx", "entry", "holds", "spent"}
  BY DEF Shape
<1>2. calls' = Append(calls, x) /\ inflight' = inflight \cup {n} /\ dropped' = dropped
  OBVIOUS
<1>3. /\ calls' \in Seq({calls'[c] : c \in DOMAIN calls'})
      /\ DOMAIN calls' = DOMAIN calls \cup {n} /\ n \notin DOMAIN calls
      /\ calls'[n] = x /\ \A c \in DOMAIN calls : calls'[c] = calls[c]
  <2> HIDE DEF x, Join, Call
  <2>1. calls \in Seq({calls[c] : c \in DOMAIN calls})
    BY DEF Shape
  <2>2. /\ Append(calls, x) \in Seq({Append(calls, x)[c] : c \in DOMAIN Append(calls, x)})
        /\ DOMAIN Append(calls, x) = DOMAIN calls \cup {n} /\ n \notin DOMAIN calls
        /\ Append(calls, x)[n] = x /\ \A c \in DOMAIN calls : Append(calls, x)[c] = calls[c]
    BY <2>1, OneMoreCall
  <2> QED
    BY <1>2, <2>2
<1>4. Shape'
  BY <1>1, <1>3 DEF Shape
<1>5. inflight \subseteq DOMAIN calls /\ n \notin inflight
  BY <1>3 DEF Entries
<1> HIDE DEF n
<1>6. \A e \in inflight : calls'[e].key # calls'[n].key
  BY <1>3, <1>5 DEF EntryOf
<1>7. Entries'
  <2>1. (\A e, f \in inflight : calls[e].key = calls[f].key => e = f)'
    BY <1>2, <1>3, <1>5, <1>6 DEF Entries
  <2> QED
    BY <1>2, <1>3, <1>5, <2>1 DEF Entries
<1>8. \A q \in Reader \ {r} : Owns(q)' =>
         /\ Owns(q) /\ KeyOf(q)' = KeyOf(q) /\ reader'[q].entry = reader[q].entry
         /\ reader[q].entry \in inflight
  BY <1>1 DEF Owns, KeyOf, Owners
<1>9. Owners'
  <2>1. KeyOf(r)' = KeyOf(r)
    BY <1>1 DEF KeyOf
  <2>2. \A q \in Reader : Owns(q)' =>
           reader'[q].entry \in inflight' /\ calls'[reader'[q].entry].key = KeyOf(q)'
    BY <1>1, <1>2, <1>3, <1>5, <1>8, <2>1 DEF Owners
  <2>3. \A q, z \in Reader :
           Owns(q)' /\ Owns(z)' /\ reader'[q].entry = reader'[z].entry => q = z
    BY <1>1, <1>5, <1>8 DEF Owners
  <2> QED
    BY <2>2, <2>3 DEF Owners
<1>10. Waiters'
  <2>1. (\A q \in Reader : At(q, "wait") => reader[q].entry \in DOMAIN calls)'
    BY <1>1, <1>3 DEF Waiters, At
  <2>2. \A q \in Reader : At(q, "mint") => reader'[q] = reader[q]
    BY <1>1 DEF At
  <2>3. ASSUME NEW c \in DOMAIN calls', calls'[c].answer = "none"
        PROVE  c \in dropped' \/ \E q \in Reader : At(q, "mint")' /\ reader'[q].entry = c
    <3>1. CASE c = n
      BY <1>1, <3>1 DEF At
    <3>2. CASE c \in DOMAIN calls
      <4>1. calls[c].answer = "none"
        BY <1>3, <2>3, <3>2
      <4>2. CASE c \in dropped
        BY <1>2, <4>2
      <4>3. CASE \E q \in Reader : At(q, "mint") /\ reader[q].entry = c
        BY <2>2, <4>3 DEF At
      <4> QED
        BY <3>2, <4>1, <4>2, <4>3 DEF Waiters
    <3> QED
      BY <1>3, <3>1, <3>2
  <2> QED
    BY <2>1, <2>3 DEF Waiters
<1> QED
  BY <1>4, <1>7, <1>9, <1>10

\* The answer is there for everybody that waits for it.
LEMMA MintedKeepsIInv ==
  ASSUME IInv, NEW r \in Reader, NEW a \in Failure \cup {"ok"}, Minted(r, a)
  PROVE  IInv'
<1> USE DEF IInv, Minted, outsideVars
<1> DEFINE e == reader[r].entry
           x == [calls[e] EXCEPT !.answer = a]
<1>1. /\ reader'[r].pc = "remove" /\ reader'[r].entry = e
      /\ reader'[r].at = reader[r].at /\ reader'[r].idx = reader[r].idx
      /\ \A q \in Reader \ {r} : reader'[q] = reader[q]
      /\ DOMAIN reader' = Reader
      /\ DOMAIN reader'[r] = {"pc", "mode", "at", "idx", "entry", "holds", "spent"}
  BY DEF Goto, Shape
<1>2. Owns(r) /\ At(r, "mint")
  BY DEF Owns, At
<1>3. e \in DOMAIN calls
  BY <1>2 DEF Owners, Entries
<1>4. calls' = [calls EXCEPT ![e] = x] /\ inflight' = inflight /\ dropped' = dropped
  OBVIOUS
<1>5. /\ DOMAIN calls' = DOMAIN calls
      /\ calls'[e].answer = a /\ DOMAIN calls'[e] = {"key", "answer"}
      /\ \A c \in DOMAIN calls : calls'[c].key = calls[c].key
      /\ \A c \in DOMAIN calls \ {e} : calls'[c] = calls[c]
  BY <1>3, <1>4 DEF Shape
<1>6. calls' \in Seq({calls'[c] : c \in DOMAIN calls'})
  <2> HIDE DEF e, x, Minted
  <2>1. calls \in Seq({calls[c] : c \in DOMAIN calls})
    BY DEF Shape
  <2>2. calls' = [calls EXCEPT ![e] = x]
    BY <1>4
  <2>3. calls' = [c \in DOMAIN calls |-> calls'[c]]
    BY ONLY <2>2
  <2> QED
    BY ONLY <2>1, <2>3, SameDomain
<1>7. Shape'
  <2> HIDE DEF e, x, Minted
  <2>1. \A q \in Reader :
          DOMAIN reader'[q] = {"pc", "mode", "at", "idx", "entry", "holds", "spent"}
    BY <1>1 DEF Shape
  <2>2. \A c \in DOMAIN calls' : DOMAIN calls'[c] = {"key", "answer"}
    BY <1>5 DEF Shape
  <2> QED
    BY <1>1, <1>6, <2>1, <2>2 DEF Shape
<1>8. Entries'
  BY <1>4, <1>5 DEF Entries
<1>9. \A q \in Reader :
         /\ Owns(q)' <=> Owns(q)
         /\ KeyOf(q)' = KeyOf(q) /\ reader'[q].entry = reader[q].entry
  BY <1>1, <1>2 DEF Owns, KeyOf
<1> HIDE DEF e, x
<1>10. Owners'
  <2>1. \A q \in Reader : Owns(q)' =>
           reader'[q].entry \in inflight' /\ calls'[reader'[q].entry].key = KeyOf(q)'
    BY <1>4, <1>5, <1>9 DEF Owners, Entries
  <2>2. \A q, z \in Reader :
           Owns(q)' /\ Owns(z)' /\ reader'[q].entry = reader'[z].entry => q = z
    BY <1>9 DEF Owners
  <2> QED
    BY <2>1, <2>2 DEF Owners
<1>11. Waiters'
  <2>1. (\A q \in Reader : At(q, "wait") => reader[q].entry \in DOMAIN calls)'
    BY <1>1, <1>5 DEF Waiters, At
  <2>2. \A c \in DOMAIN calls : calls'[c].answer = "none" =>
           c # e /\ calls[c].answer = "none"
    BY <1>5 DEF Failure
  <2>3. \A q \in Reader : At(q, "mint") /\ reader[q].entry # e => reader'[q] = reader[q]
    BY <1>1 DEF e
  <2>4. (\A c \in DOMAIN calls : calls[c].answer = "none" =>
           c \in dropped \/ \E q \in Reader : At(q, "mint") /\ reader[q].entry = c)'
    BY <1>4, <1>5, <2>2, <2>3 DEF Waiters, At
  <2> QED
    BY <2>1, <2>4 DEF Waiters
<1> QED
  BY <1>7, <1>8, <1>10, <1>11

\* The owner removes its own entry and nobody else's.
LEMMA RemoveKeepsIInv ==
  ASSUME IInv, NEW r \in Reader, Remove(r)
  PROVE  IInv'
<1> USE DEF IInv, Remove, outsideVars
<1>1. /\ reader'[r].pc = "wait" /\ reader'[r].entry = reader[r].entry
      /\ \A q \in Reader \ {r} : reader'[q] = reader[q]
      /\ DOMAIN reader' = Reader
      /\ DOMAIN reader'[r] = {"pc", "mode", "at", "idx", "entry", "holds", "spent"}
  BY DEF Goto, Shape
<1>2. calls' = calls /\ dropped' = dropped /\ inflight' = inflight \ EntryOf(KeyOf(r))
  OBVIOUS
<1>3. Owns(r) /\ ~At(r, "mint") /\ reader[r].entry \in inflight
  BY DEF Owns, At, Owners
<1>4. Shape'
  <2>1. (calls \in Seq({calls[c] : c \in DOMAIN calls}))'
    BY <1>2 DEF Shape
  <2> QED
    BY <1>1, <1>2, <2>1 DEF Shape
<1>5. Entries'
  BY <1>2 DEF Entries
<1>6. \A q \in Reader : Owns(q)' => q # r /\ reader'[q] = reader[q] /\ Owns(q)
  BY <1>1 DEF Owns
<1>7. Owners'
  <2>1. ASSUME NEW q \in Reader, Owns(q)'
        PROVE  /\ reader'[q].entry \in inflight'
               /\ calls'[reader'[q].entry].key = KeyOf(q)'
    <3>1. q # r /\ reader'[q] = reader[q] /\ Owns(q)
      BY <1>6, <2>1
    <3>2. /\ reader[q].entry \in inflight /\ calls[reader[q].entry].key = KeyOf(q)
          /\ reader[q].entry # reader[r].entry
          /\ calls[reader[r].entry].key = KeyOf(r)
      BY <1>3, <3>1 DEF Owners
    <3>3. reader[q].entry \notin EntryOf(KeyOf(r))
      BY <1>3, <3>2 DEF Entries, EntryOf
    <3> QED
      BY <1>2, <3>1, <3>2, <3>3 DEF KeyOf
  <2>2. \A q, z \in Reader :
           Owns(q)' /\ Owns(z)' /\ reader'[q].entry = reader'[z].entry => q = z
    BY <1>6 DEF Owners
  <2> QED
    BY <2>1, <2>2 DEF Owners
<1>8. Waiters'
  <2>1. reader[r].entry \in DOMAIN calls
    BY <1>3 DEF Entries
  <2>2. (\A q \in Reader : At(q, "wait") => reader[q].entry \in DOMAIN calls)'
    BY <1>1, <1>2, <2>1 DEF Waiters, At
  <2>3. \A q \in Reader : At(q, "mint") => reader'[q] = reader[q]
    BY <1>1, <1>3 DEF At
  <2>4. (\A c \in DOMAIN calls : calls[c].answer = "none" =>
           c \in dropped \/ \E q \in Reader : At(q, "mint") /\ reader[q].entry = c)'
    BY <1>2, <2>3 DEF Waiters, At
  <2> QED
    BY <2>2, <2>4 DEF Waiters
<1> QED
  BY <1>4, <1>5, <1>7, <1>8

\* A handler that is dropped in the middle of a call leaves the call to nobody.
LEMMA LeaveKeepsIInv ==
  ASSUME IInv, NEW r \in Reader, Leave(r)
  PROVE  IInv'
<1> USE DEF IInv, Leave
<1>1. Moves(r)
  BY WaysToMove DEF Pc
<1>2. calls' = calls /\ inflight' = inflight /\ dropped \subseteq dropped'
      /\ (At(r, "mint") => reader[r].entry \in dropped')
  BY DEF flightVars, At
<1>3. Shape'
  <2>1. (calls \in Seq({calls[c] : c \in DOMAIN calls}))'
    BY <1>2 DEF Shape
  <2> QED
    BY <1>1, <1>2, <2>1 DEF Shape, Moves
<1>4. Entries'
  BY <1>2 DEF Entries
<1>5. \A q \in Reader : Owns(q)' => q # r /\ reader'[q] = reader[q] /\ Owns(q)
  BY <1>1 DEF Owns, Moves
<1>6. Owners'
  <2>1. \A q \in Reader : Owns(q)' => KeyOf(q)' = KeyOf(q)
    BY <1>5 DEF KeyOf
  <2>2. (\A q \in Reader : Owns(q) =>
           reader[q].entry \in inflight /\ calls[reader[q].entry].key = KeyOf(q))'
    BY <1>2, <1>5, <2>1 DEF Owners
  <2>3. (\A q, z \in Reader :
           Owns(q) /\ Owns(z) /\ reader[q].entry = reader[z].entry => q = z)'
    BY <1>5 DEF Owners
  <2> QED
    BY <2>2, <2>3 DEF Owners
<1>7. Waiters'
  <2>1. (\A q \in Reader : At(q, "wait") => reader[q].entry \in DOMAIN calls)'
    BY <1>1, <1>2 DEF Waiters, At, Moves
  <2>2. \A q \in Reader : At(q, "mint") => reader'[q] = reader[q] \/ q = r
    BY <1>1 DEF Moves
  <2>3. (\A c \in DOMAIN calls : calls[c].answer = "none" =>
           c \in dropped \/ \E q \in Reader : At(q, "mint") /\ reader[q].entry = c)'
    BY <1>2, <2>2 DEF Waiters, At
  <2> QED
    BY <2>1, <2>3 DEF Waiters
<1> QED
  BY <1>3, <1>4, <1>6, <1>7

\* Time moves no reader and touches no flight.
LEMMA StillKeepsIInv ==
  ASSUME IInv, Time \/ UNCHANGED vars
  PROVE  IInv'
<1> USE DEF IInv
<1>1. UNCHANGED <<reader, calls, inflight, dropped>>
  BY DEF Time, Expire, BreakerCools, BackoffEnds, NegativeEnds, vars, flightVars, outsideVars
<1>2. (calls \in Seq({calls[c] : c \in DOMAIN calls}))'
  BY <1>1 DEF Shape
<1>3. Shape' /\ Entries'
  BY <1>1, <1>2 DEF Shape, Entries
<1>4. Owners' /\ Waiters'
  BY <1>1 DEF Owners, Owns, KeyOf, Waiters, At
<1> QED
  BY <1>3, <1>4

\* Every step keeps the invariant.
LEMMA NextKeepsIInv == IInv /\ [Next]_vars => IInv'
<1> SUFFICES ASSUME IInv, [Next]_vars PROVE IInv'
  OBVIOUS
<1>1. CASE Time \/ UNCHANGED vars
  BY <1>1, StillKeepsIInv
<1>2. ASSUME NEW r \in Reader, Step(r) \/ Rejected(r) \/ Leave(r) PROVE IInv'
  <2>1. CASE Try(r)
    BY <2>1, TryKeepsIInv
  <2>2. CASE Resolve(r)
    BY <2>2, ResolvedKeepsIInv, JoinKeepsIInv, CallKeepsIInv, MintedKeepsIInv, RemoveKeepsIInv
       DEF Resolve
  <2>3. CASE Recover(r) \/ Rejected(r) \/ Release(r)
    BY <2>3, RecoverKeepsIInv
  <2>4. CASE Leave(r)
    BY <2>4, LeaveKeepsIInv
  <2> QED
    BY <1>2, <2>1, <2>2, <2>3, <2>4 DEF Step
<1> QED
  BY <1>1, <1>2 DEF Next

----------------------------------------------------------------------------
(* Theorems *)

\* The invariant holds always.
LEMMA AlwaysIInv == Spec => []IInv
BY InitIInv, NextKeepsIInv, PTL DEF Spec

\* Single-flight: whatever readers join, fail or are dropped, only one at a time
\* calls the provider for a key (resolve_internal).
THEOREM CallsAreSingle == Spec => []OneCallPerKey
<1>1. IInv => OneCallPerKey
  BY DEF IInv, Owners, Owns, Entries, OneCallPerKey, At
<1> QED
  BY <1>1, AlwaysIInv, PTL

\* A waiter is never left without an answer, but by a handler dropped in the middle
\* of its call (resolve_internal).
THEOREM WaitersAreAnswered == Spec => []WaitersHaveOwner
<1>1. IInv => WaitersHaveOwner
  BY DEF IInv, Waiters, WaitersHaveOwner, Answer
<1> QED
  BY <1>1, AlwaysIInv, PTL


----------------------------------------------------------------------------
(* Sequences of capabilities *)

\* A set of naturals that is not empty has a least element, so that the first of
\* the indices of a sequence is one of them.
LEMMA FirstOfIsOne ==
  ASSUME NEW q, NEW I \in SUBSET Nat, I # {}
  PROVE  \E i \in I : FirstOf(q, I) = q[i]
<1> DEFINE Below(k) == I \cap (0 .. k)
           Segments == {Below(k) : k \in I}
<1>1. \A k \in I : Below(k) \in FiniteSubsetsOf(Nat)
  <2> SUFFICES ASSUME NEW k \in I
               PROVE  IsFiniteSet(Below(k)) /\ Below(k) \subseteq Nat
    BY DEF FiniteSubsetsOf
  <2>1. IsFiniteSet(0 .. k)
    BY FS_Interval
  <2> QED
    BY <2>1, FS_Subset
<1>2. PICK k \in I : \A j \in I : <<Below(j), Below(k)>> \notin StrictSubsetOrdering(Nat)
  <2>1. Segments \subseteq FiniteSubsetsOf(Nat) /\ Segments # {}
    BY <1>1
  <2>2. \E x \in Segments : \A y \in Segments : <<y, x>> \notin StrictSubsetOrdering(Nat)
    <3> HIDE DEF Segments
    <3> QED
      BY <2>1, FS_StrictSubsetOrderingWellFounded, WFMin
  <2> QED
    BY <2>2
<1>3. \A j \in I : k <= j
  <2> SUFFICES ASSUME NEW j \in I, j < k PROVE FALSE
    OBVIOUS
  <2>1. k \in Below(k) /\ k \notin Below(j) /\ Below(j) \subseteq Below(k)
    OBVIOUS
  <2>2. <<Below(j), Below(k)>> \in StrictSubsetOrdering(Nat)
    BY <2>1 DEF StrictSubsetOrdering
  <2> QED
    BY <1>2, <2>2
<1>4. (CHOOSE i \in I : \A j \in I : i <= j) \in I
  BY <1>3
<1> QED
  BY <1>4 DEF FirstOf

\* A finite set of naturals has an element with any number of others below it: the
\* numbers differ, and there are as many of them as elements.
LEMMA EveryRank ==
  ASSUME NEW L \in SUBSET Nat, IsFiniteSet(L), NEW n \in 1 .. Cardinality(L)
  PROVE  \E i \in L : Cardinality({j \in L : j < i}) = n - 1
<1> DEFINE Below(i) == {j \in L : j < i}
           m == Cardinality(L)
           rank == [i \in L |-> Cardinality(Below(i)) + 1]
<1>1. m \in Nat
  BY FS_CardinalityType
<1>2. \A i \in L : IsFiniteSet(Below(i)) /\ Cardinality(Below(i)) \in Nat
  BY FS_Subset, FS_CardinalityType
<1>3. \A i \in L : Cardinality(Below(i)) + 1 \in 1 .. m
  <2> SUFFICES ASSUME NEW i \in L PROVE Cardinality(Below(i)) + 1 \in 1 .. m
    OBVIOUS
  <2>1. Below(i) \subseteq L \ {i}
    OBVIOUS
  <2>2. IsFiniteSet(L \ {i}) /\ Cardinality(L \ {i}) = m - 1
    BY FS_RemoveElement
  <2>3. Cardinality(Below(i)) <= m - 1
    BY <2>1, <2>2, FS_Subset
  <2> QED
    BY <1>1, <1>2, <2>3
<1>4. \A i, k \in L : i < k => Cardinality(Below(i)) < Cardinality(Below(k))
  <2> SUFFICES ASSUME NEW i \in L, NEW k \in L, i < k
               PROVE  Cardinality(Below(i)) < Cardinality(Below(k))
    OBVIOUS
  <2>1. Below(i) \subseteq Below(k) \ {i} /\ i \in Below(k)
    <3>1. \A j \in L : j \in Nat
      OBVIOUS
    <3>2. \A j \in L : j < i => j < k /\ j # i
      BY <3>1
    <3> HIDE DEF m, rank
    <3> QED
      BY <3>2
  <2>2. /\ IsFiniteSet(Below(k) \ {i})
        /\ Cardinality(Below(k) \ {i}) = Cardinality(Below(k)) - 1
    BY <1>2, <2>1, FS_RemoveElement
  <2>3. Cardinality(Below(i)) <= Cardinality(Below(k)) - 1
    BY <2>1, <2>2, FS_Subset
  <2> QED
    BY <1>2, <2>3
<1>5. rank \in Injection(L, 1 .. m)
  <2>1. rank \in [L -> 1 .. m]
    BY <1>3
  <2>2. \A i, k \in L : rank[i] = rank[k] => i = k
    BY <1>2, <1>4
  <2> HIDE DEF rank, m
  <2> QED
    BY <2>1, <2>2 DEF Injection, IsInjective
<1>6. IsFiniteSet(1 .. m) /\ Cardinality(1 .. m) = m
  BY <1>1, FS_Interval
<1>7. rank \in Surjection(L, 1 .. m)
  <2> HIDE DEF rank
  <2> QED
    BY <1>5, <1>6, FS_Injection
<1>8. PICK i \in L : rank[i] = n
  <2> HIDE DEF rank
  <2> QED
    BY <1>7 DEF Surjection
<1>9. Cardinality(Below(i)) \in Nat /\ Cardinality(Below(i)) + 1 = n
  BY <1>2, <1>8
<1> HIDE DEF rank, m, Below
<1>10. Cardinality(Below(i)) = n - 1
  BY <1>9
<1> QED
  BY <1>10 DEF Below

\* A pool without its dead capabilities has none that it had not, is not longer, and is
\* empty only if all were dead.
LEMMA PrunedKeeps ==
  ASSUME NEW S, caps \in [Slot -> Seq(S)], NEW s \in Slot
  PROVE  /\ Pruned(s) \in Seq(S) /\ Len(Pruned(s)) <= Len(caps[s])
         /\ \A n \in DOMAIN Pruned(s) :
              \E i \in DOMAIN caps[s] : Pruned(s)[n] = caps[s][i]
         /\ Pruned(s) = <<>> => \A i \in DOMAIN caps[s] : caps[s][i] \in dead
<1> DEFINE q == caps[s]
           live == {i \in DOMAIN q : q[i] \notin dead}
           m == Cardinality(live)
           Nth(n) == CHOOSE i \in live : Cardinality({j \in live : j < i}) = n - 1
           p == [n \in 1 .. m |-> q[Nth(n)]]
<1>1. q \in Seq(S) /\ Len(q) \in Nat /\ DOMAIN q = 1 .. Len(q)
  OBVIOUS
<1>2. IsFiniteSet(1 .. Len(q)) /\ Cardinality(1 .. Len(q)) = Len(q)
  <2>1. \A l \in Nat : IsFiniteSet(1 .. l) /\ Cardinality(1 .. l) = l
    BY FS_Interval
  <2> QED
    BY <1>1, <2>1
<1>3. live \subseteq 1 .. Len(q) /\ live \in SUBSET Nat
  BY <1>1
<1>4. IsFiniteSet(live) /\ m <= Len(q) /\ m \in Nat
  BY <1>2, <1>3, FS_Subset, FS_CardinalityType
<1>5. Pruned(s) = p
  BY DEF Pruned
<1>6. \A n \in 1 .. m : Nth(n) \in live
  <2> SUFFICES ASSUME NEW n \in 1 .. m PROVE Nth(n) \in live
    OBVIOUS
  <2>1. \E i \in live : Cardinality({j \in live : j < i}) = n - 1
    <3> HIDE DEF live
    <3> QED
      BY <1>3, <1>4, EveryRank
  <2> HIDE DEF live
  <2> QED
    BY <2>1
<1>7. p \in [1 .. m -> S]
  <2> HIDE DEF m, Nth
  <2>1. \A i \in live : q[i] \in S
    BY <1>1
  <2>2. \A n \in 1 .. m : q[Nth(n)] \in S
    BY <1>6, <2>1
  <2> QED
    BY <2>2
<1>8. p \in Seq(S) /\ Len(p) = m /\ DOMAIN p = 1 .. m
  <2> HIDE DEF p, m
  <2> QED
    BY <1>4, <1>7, FunctionIsSequence
<1>9. \A n \in 1 .. m : \E i \in DOMAIN q : p[n] = q[i]
  BY <1>3, <1>6
<1>10. p = <<>> => \A i \in DOMAIN q : q[i] \in dead
  <2> SUFFICES ASSUME p = <<>> PROVE \A i \in DOMAIN q : q[i] \in dead
    OBVIOUS
  <2>1. m = 0
    <3> HIDE DEF p, m
    <3> QED
      BY <1>4, <1>8
  <2>2. live = {}
    BY <1>4, <2>1, FS_EmptySet
  <2> QED
    BY <2>2
<1> HIDE DEF p
<1> QED
  BY <1>4, <1>5, <1>8, <1>9, <1>10

----------------------------------------------------------------------------
(* The invariant of the pools *)

Mode == {"demand", "failover", "reacquire"}

\* A reader, with the calls C.
Reading(C) ==
  [pc : Pc, mode : Mode, at : Slot, idx : Nat \ {0},
   entry : {0} \cup DOMAIN C, holds : {0} \cup DOMAIN C,
   spent : SUBSET {"failover", "reacquire"}]

Demanding == {"idle", "fast", "try", "grow", "block", "queue", "holding", "rejected",
              "done", "failed", "refused", "left"}

\* Where a reader is says which of the three ways of acquiring it is on.
ModeOK(x) ==
  /\ x.pc \in Demanding => x.mode = "demand"
  /\ x.pc = "failover" => x.mode = "failover"
  /\ x.pc \in {"reacquire", "again"} => x.mode = "reacquire"
  /\ x.pc = "push" => x.mode # "reacquire"
  /\ x.mode = "reacquire" => "reacquire" \in x.spent

\* The call or capability a reader has in mind is of the slot it is at.
EntryOK(x, C) ==
  /\ x.pc \in {"mint", "remove", "wait"} =>
       x.entry \in DOMAIN C /\ C[x.entry].key = <<x.at, x.idx>>
  /\ x.pc \in {"push", "reserve"} =>
       x.entry \in DOMAIN C /\ C[x.entry].key[1] = x.at
  /\ x.pc \in {"queue", "again"} => x.entry \in DOMAIN C
  /\ x.pc = "mint" => C[x.entry].answer = "none"
  /\ x.pc = "holding" => x.holds \in DOMAIN C

\* A call of the slot's provider has failed, or a capability of it has died.
Cause(s) == \E e \in Failed \cup dead : calls[e].key[1] = s

\* A reader that is about to wait finds a capability to wait for, if none has died.
BlockOK(x) == x.pc = "block" => caps[x.at] # <<>> \/ Cause(x.at)

ReadersOK == \A r \in Reader : ModeOK(reader[r]) /\ EntryOK(reader[r], calls) /\ BlockOK(reader[r])

\* A pool holds capabilities of its own provider.
PoolsOK == \A s \in Slot : \A i \in DOMAIN caps[s] : calls[caps[s][i]].key[1] = s

\* What makes a reader pass over a slot has a cause.
CausesOK ==
  /\ \A s \in open \cup backoff : Cause(s)
  /\ \A k \in negative : Cause(k[1])

\* A reader that compared the length with the target, and has not pushed yet.
Pushes(x) ==
  /\ x.mode # "reacquire"
  /\ x.pc \in {"index", "lookup", "mint", "remove", "wait", "push"}

\* A reader that reacquires, and may still push what it cannot reserve.
Pends(x) ==
  /\ x.mode = "reacquire"
  /\ x.pc \in {"reacquire", "index", "lookup", "mint", "remove", "wait", "reserve"}

Pending == {r \in Reader : Pends(reader[r])}

\* The pool, with what is still to be pushed.
RoomOK ==
  \A s \in Slot :
    Len(caps[s]) + Cardinality(Pushing(s)) + Cardinality(Pending)
      <= target[s] + Cardinality(Reader) - 1 + Cardinality(Reacquirers)

PoolInv == PoolTypeOK /\ ReadersOK /\ PoolsOK /\ CausesOK /\ RoomOK

\* The initial state satisfies it.
LEMMA InitPoolInv == Init => PoolInv
<1> SUFFICES ASSUME Init PROVE PoolInv
  OBVIOUS
<1>1. Slot # {} /\ 1 \in Slot /\ PoolMax \in Nat \ {0} /\ Threshold \in Nat \ {0}
  BY PoolAssumption DEF Slot
<1>2. PoolTypeOK
  <2>1. calls = <<>> /\ DOMAIN calls = {} /\ \A T : <<>> \in Seq(T)
    BY DEF Init
  <2>2. caps \in [Slot -> Seq(DOMAIN calls)]
    BY <2>1 DEF Init
  <2>3. reader \in [Reader -> [pc : Pc, mode : {"demand", "failover", "reacquire"},
                               at : Slot, idx : Nat \ {0},
                               entry : {0} \cup DOMAIN calls, holds : {0} \cup DOMAIN calls,
                               spent : SUBSET {"failover", "reacquire"}]]
    BY <1>1 DEF Init, Pc
  <2> QED
    BY <1>1, <2>1, <2>2, <2>3 DEF Init, PoolTypeOK
<1>3. ReadersOK
  BY DEF Init, ReadersOK, ModeOK, EntryOK, BlockOK, Demanding
<1>4. PoolsOK /\ CausesOK
  BY DEF Init, PoolsOK, CausesOK
<1>5. RoomOK
  <2>1. \A s \in Slot : Pushing(s) = {}
    BY DEF Init, Pushing
  <2>2. Pending = {} /\ Reacquirers = {}
    BY DEF Init, Pending, Pends, Reacquirers
  <2>3. \A s \in Slot : Len(caps[s]) = 0 /\ target[s] = 1
    BY DEF Init
  <2>4. Cardinality(Reader) \in Nat
    BY PoolAssumption, FS_CardinalityType
  <2>5. \A s \in Slot :
           Cardinality(Pushing(s)) = 0 /\ Cardinality(Pending) = 0
           /\ Cardinality(Reacquirers) = 0
    BY <2>1, <2>2, FS_EmptySet
  <2> QED
    BY <2>3, <2>4, <2>5 DEF RoomOK
<1> QED
  BY <1>2, <1>3, <1>4, <1>5 DEF PoolInv

----------------------------------------------------------------------------
(* How a reader moves *)

\* r is now a record of these fields, and no other reader moves.
Comes(r, p, m, a, i, e, h, sp) ==
  /\ reader' = [reader EXCEPT ![r] = reader'[r]]
  /\ reader'[r] = [pc |-> p, mode |-> m, at |-> a, idx |-> i, entry |-> e,
                   holds |-> h, spent |-> sp]

\* What is known of a reader before its step.
LEMMA ReaderIs ==
  ASSUME PoolInv, NEW r \in Reader
  PROVE  LET x == reader[r] IN
         /\ x \in Reading(calls) /\ DOMAIN reader = Reader
         /\ x.pc \in Pc /\ x.mode \in Mode /\ x.at \in Slot /\ x.idx \in Nat \ {0}
         /\ x.entry \in {0} \cup DOMAIN calls /\ x.holds \in {0} \cup DOMAIN calls
         /\ x.spent \subseteq {"failover", "reacquire"}
         /\ ModeOK(x) /\ EntryOK(x, calls) /\ BlockOK(x)
<1>1. reader \in [Reader -> Reading(calls)]
  BY DEF PoolInv, PoolTypeOK, Reading, Mode
<1>2. reader[r] \in Reading(calls) /\ DOMAIN reader = Reader
  BY <1>1
<1> QED
  BY <1>2 DEF PoolInv, ReadersOK, Reading

\* The assignments to reader, field by field.
LEMMA WaysToCome ==
  ASSUME PoolInv, NEW r \in Reader
  PROVE  LET x == reader[r] IN
         /\ \A l : Goto(r, l) =>
              Comes(r, l, x.mode, x.at, x.idx, x.entry, x.holds, x.spent)
         /\ \A l, s : GoTo(r, l, s) => Comes(r, l, x.mode, s, 1, 0, x.holds, x.spent)
         /\ \A l : End(r, l) => Comes(r, l, "demand", 1, 1, 0, 0, x.spent)
         /\ \A c : Take(r, c) =>
              Comes(r, "holding", "demand", 1, 1, 0, c, x.spent \cup ({x.mode} \ {"demand"}))
         /\ \A l, e : reader' = [reader EXCEPT ![r].pc = l, ![r].entry = e] =>
              Comes(r, l, x.mode, x.at, x.idx, e, x.holds, x.spent)
         /\ \A l, i : reader' = [reader EXCEPT ![r].pc = l, ![r].idx = i] =>
              Comes(r, l, x.mode, x.at, i, x.entry, x.holds, x.spent)
         /\ \A l, m, s : reader' = [reader EXCEPT ![r].pc = l, ![r].mode = m, ![r].at = s] =>
              Comes(r, l, m, s, x.idx, x.entry, x.holds, x.spent)
<1>1. reader[r] \in Reading(calls) /\ DOMAIN reader = Reader
  BY ReaderIs
<1>2. reader[r] = [pc |-> reader[r].pc, mode |-> reader[r].mode, at |-> reader[r].at,
                   idx |-> reader[r].idx, entry |-> reader[r].entry,
                   holds |-> reader[r].holds, spent |-> reader[r].spent]
  BY <1>1 DEF Reading
<1>3. DOMAIN reader[r] = {"pc", "mode", "at", "idx", "entry", "holds", "spent"}
  BY <1>2
<1>4. ASSUME NEW l, Goto(r, l)
      PROVE  Comes(r, l, reader[r].mode, reader[r].at, reader[r].idx, reader[r].entry,
                   reader[r].holds, reader[r].spent)
  BY <1>1, <1>2, <1>3, <1>4 DEF Goto, Comes
<1>5. ASSUME NEW l, NEW s, GoTo(r, l, s)
      PROVE  Comes(r, l, reader[r].mode, s, 1, 0, reader[r].holds, reader[r].spent)
  BY <1>1, <1>2, <1>3, <1>5 DEF GoTo, Comes
<1>6. ASSUME NEW l, End(r, l)
      PROVE  Comes(r, l, "demand", 1, 1, 0, 0, reader[r].spent)
  BY <1>1, <1>6 DEF End, Comes
<1>7. ASSUME NEW c, Take(r, c)
      PROVE  Comes(r, "holding", "demand", 1, 1, 0, c,
                   reader[r].spent \cup ({reader[r].mode} \ {"demand"}))
  BY <1>1, <1>7 DEF Take, Comes
<1>8. ASSUME NEW l, NEW e, reader' = [reader EXCEPT ![r].pc = l, ![r].entry = e]
      PROVE  Comes(r, l, reader[r].mode, reader[r].at, reader[r].idx, e,
                   reader[r].holds, reader[r].spent)
  BY <1>1, <1>2, <1>3, <1>8 DEF Comes
<1>9. ASSUME NEW l, NEW i, reader' = [reader EXCEPT ![r].pc = l, ![r].idx = i]
      PROVE  Comes(r, l, reader[r].mode, reader[r].at, i, reader[r].entry,
                   reader[r].holds, reader[r].spent)
  BY <1>1, <1>2, <1>3, <1>9 DEF Comes
<1>10. ASSUME NEW l, NEW m, NEW s,
              reader' = [reader EXCEPT ![r].pc = l, ![r].mode = m, ![r].at = s]
       PROVE  Comes(r, l, m, s, reader[r].idx, reader[r].entry, reader[r].holds,
                    reader[r].spent)
  BY <1>1, <1>2, <1>3, <1>10 DEF Comes
<1> QED
  BY <1>4, <1>5, <1>6, <1>7, <1>8, <1>9, <1>10

----------------------------------------------------------------------------
(* What a step may do *)

\* Calls are added and answered; a failure stays one, and who died stays dead.
Onward(r) ==
  /\ calls' \in Seq([key : Key, answer : Failure \cup {"none", "ok"}])
  /\ DOMAIN calls \subseteq DOMAIN calls'
  /\ \A e \in DOMAIN calls :
       /\ calls'[e].key = calls[e].key
       /\ calls[e].answer \in Failure => calls'[e].answer \in Failure
  /\ dead \subseteq dead' /\ dead' \subseteq DOMAIN calls'
  /\ inflight' \subseteq DOMAIN calls' /\ dropped' \subseteq DOMAIN calls'
  /\ \A q \in Reader \ {r} : At(q, "mint") => calls'[reader[q].entry].answer = "none"

\* r comes to where it may be.
Lands(r) ==
  /\ reader' = [reader EXCEPT ![r] = reader'[r]]
  /\ reader'[r] \in Reading(calls')
  /\ ModeOK(reader'[r]) /\ EntryOK(reader'[r], calls')
  /\ reader'[r].pc = "block" =>
       caps' = caps /\ (caps[reader'[r].at] # <<>> \/ Cause(reader'[r].at))

\* A pool is pruned, or one more capability is added to it.
Pruning(s) == caps' = [caps EXCEPT ![s] = Pruned(s)]
Adding(s, e) ==
  /\ e \in DOMAIN calls /\ calls[e].key[1] = s
  /\ caps' = [caps EXCEPT ![s] = Append(caps[s], e)]
PoolStep == caps' = caps \/ \E s \in Slot : Pruning(s) \/ \E e : Adding(s, e)

\* A slot is shut out only with a cause.
MemoStep ==
  /\ target' \in [Slot -> 1 .. PoolMax] /\ \A s \in Slot : target[s] <= target'[s]
  /\ failures' \in [Slot -> 0 .. Threshold]
  /\ open' \subseteq Slot /\ \A s \in open' : s \in open \/ Cause(s)
  /\ backoff' \subseteq Slot /\ \A s \in backoff' : s \in backoff \/ Cause(s)'
  /\ negative' \subseteq Key /\ \A k \in negative' : k \in negative \/ Cause(k[1])'

\* The demand moves on with a cause.
Caused(r) ==
  reader[r].mode = "demand" /\ reader[r].pc \notin {"fast", "failed"}
  /\ (reader'[r].at > reader[r].at \/ reader'[r].pc = "failed") => Cause(reader[r].at)

\* What the step does to the pool and to what is still to be pushed: nothing is added,
\* or r begins to resolve where there is room, or it pushes, or it pushes again.
Quiet(r) ==
  /\ caps' = caps \/ \E s \in Slot : Pruning(s)
  /\ Pushes(reader'[r]) => Pushes(reader[r]) /\ reader'[r].at = reader[r].at
  /\ Pends(reader'[r]) =>
       Pends(reader[r]) \/ "reacquire" \in reader'[r].spent \ reader[r].spent
Begins(r) ==
  /\ caps' = caps \/ \E s \in Slot : Pruning(s)
  /\ ~Pends(reader'[r])
  /\ Len(caps'[reader'[r].at]) < target[reader'[r].at] /\ ~Pushes(reader[r])
PushesOne(r) ==
  /\ \E e : Adding(reader[r].at, e)
  /\ ~Pushes(reader'[r]) /\ ~Pends(reader'[r])
  /\ Pushes(reader[r]) \/ Pends(reader[r])
Counted(r) ==
  /\ reader[r].spent \subseteq reader'[r].spent
  /\ Quiet(r) \/ Begins(r) \/ PushesOne(r)

Fits(r) == Onward(r) /\ Lands(r) /\ PoolStep /\ MemoStep /\ Caused(r) /\ Counted(r)

----------------------------------------------------------------------------
(* A step that fits keeps the invariant *)

\* What has a cause keeps it.
LEMMA CauseStays ==
  ASSUME PoolInv, NEW r, Onward(r), NEW s, Cause(s)
  PROVE  Cause(s)'
<1>1. PICK e \in Failed \cup dead : calls[e].key[1] = s
  BY DEF Cause
<1>2. e \in DOMAIN calls
  BY <1>1 DEF Failed, PoolInv, PoolTypeOK
<1>3. e \in (Failed \cup dead)' /\ calls'[e].key[1] = s
  BY <1>1, <1>2 DEF Onward, Failed
<1> QED
  BY <1>3 DEF Cause

\* A pool that was not empty is, after the step, only if all in it have died.
LEMMA PoolStepKeeps ==
  ASSUME PoolInv, NEW r, Onward(r), PoolStep
  PROVE  /\ caps' \in [Slot -> Seq(DOMAIN calls')] /\ PoolsOK'
         /\ \A s \in Slot : caps'[s] = <<>> => caps[s] = <<>> \/ Cause(s)
<1>1. caps \in [Slot -> Seq(DOMAIN calls)] /\ \A s \in Slot : caps[s] \in Seq(DOMAIN calls)
  BY DEF PoolInv, PoolTypeOK
<1>2. \A q \in Seq(DOMAIN calls) : q \in Seq(DOMAIN calls')
  <2> SUFFICES ASSUME NEW q \in Seq(DOMAIN calls) PROVE q \in Seq(DOMAIN calls')
    OBVIOUS
  <2>1. q \in [1 .. Len(q) -> DOMAIN calls'] /\ Len(q) \in Nat
    BY DEF Onward
  <2> QED
    BY <2>1, FunctionIsSequence
<1>3. CASE caps' = caps
  <2>1. caps' \in [Slot -> Seq(DOMAIN calls')]
    BY <1>1, <1>2, <1>3
  <2>2. PoolsOK'
    BY <1>1, <1>3 DEF PoolInv, PoolsOK, Onward
  <2> QED
    BY <1>3, <2>1, <2>2
<1>4. ASSUME NEW s \in Slot, Pruning(s)
      PROVE  /\ caps' \in [Slot -> Seq(DOMAIN calls')] /\ PoolsOK'
             /\ \A t \in Slot : caps'[t] = <<>> => caps[t] = <<>> \/ Cause(t)
  <2>1. /\ Pruned(s) \in Seq(DOMAIN calls)
        /\ \A n \in DOMAIN Pruned(s) : \E i \in DOMAIN caps[s] : Pruned(s)[n] = caps[s][i]
        /\ Pruned(s) = <<>> => \A i \in DOMAIN caps[s] : caps[s][i] \in dead
    BY <1>1, PrunedKeeps
  <2> DEFINE p == Pruned(s)
  <2>2. caps' = [caps EXCEPT ![s] = p]
    BY <1>4 DEF Pruning
  <2> HIDE DEF p
  <2>3. caps'[s] = p /\ \A t \in Slot \ {s} : caps'[t] = caps[t]
    BY <1>1, <2>2
  <2>4. p \in Seq(DOMAIN calls)
    BY <2>1 DEF p
  <2>5. caps' \in [Slot -> Seq(DOMAIN calls')]
    BY <1>1, <1>2, <2>2, <2>4
  <2>6. ASSUME NEW t \in Slot, NEW n \in DOMAIN caps'[t]
        PROVE  calls'[caps'[t][n]].key[1] = t
    <3>1. PICK i \in DOMAIN caps[t] : caps'[t][n] = caps[t][i]
      BY <2>1, <2>3 DEF p
    <3>2. caps[t][i] \in DOMAIN calls /\ calls[caps[t][i]].key[1] = t
      BY <1>1 DEF PoolInv, PoolsOK
    <3> QED
      BY <3>1, <3>2 DEF Onward
  <2>7. ASSUME NEW t \in Slot, caps'[t] = <<>>, caps[t] # <<>> PROVE Cause(t)
    <3>1. t = s /\ p = <<>>
      BY <2>3, <2>7
    <3>2. caps[s] \in Seq(DOMAIN calls) /\ Len(caps[s]) # 0
      BY <1>1, <2>7, <3>1, EmptySeq
    <3>3. 1 \in DOMAIN caps[s]
      BY <3>2
    <3>4. caps[s][1] \in dead /\ calls[caps[s][1]].key[1] = s
      BY <2>1, <3>1, <3>3 DEF p, PoolInv, PoolsOK
    <3> QED
      BY <3>1, <3>4 DEF Cause
  <2> QED
    BY <2>5, <2>6, <2>7 DEF PoolsOK
<1>5. ASSUME NEW s \in Slot, NEW e, Adding(s, e)
      PROVE  /\ caps' \in [Slot -> Seq(DOMAIN calls')] /\ PoolsOK'
             /\ \A t \in Slot : caps'[t] = <<>> => caps[t] = <<>> \/ Cause(t)
  <2> DEFINE p == Append(caps[s], e)
  <2>1. /\ p \in Seq(DOMAIN calls) /\ p # <<>>
        /\ \A n \in DOMAIN p : p[n] = e \/ (n \in DOMAIN caps[s] /\ p[n] = caps[s][n])
    BY <1>1, <1>5 DEF Adding
  <2>2. caps' = [caps EXCEPT ![s] = p]
    BY <1>5 DEF Adding
  <2> HIDE DEF p
  <2>3. caps'[s] = p /\ \A t \in Slot \ {s} : caps'[t] = caps[t]
    BY <1>1, <2>2
  <2>4. caps' \in [Slot -> Seq(DOMAIN calls')]
    BY <1>1, <1>2, <2>1, <2>2
  <2>5. ASSUME NEW t \in Slot, NEW n \in DOMAIN caps'[t]
        PROVE  calls'[caps'[t][n]].key[1] = t
    <3>1. CASE t = s /\ p[n] = e
      BY <1>5, <2>3, <3>1 DEF Adding, Onward
    <3>2. CASE t # s \/ p[n] # e
      <4>1. n \in DOMAIN caps[t] /\ caps'[t][n] = caps[t][n]
        BY <2>1, <2>3, <2>5, <3>2
      <4>2. caps[t][n] \in DOMAIN calls /\ calls[caps[t][n]].key[1] = t
        BY <1>1, <4>1 DEF PoolInv, PoolsOK
      <4> QED
        BY <4>1, <4>2 DEF Onward
    <3> QED
      BY <3>1, <3>2
  <2> QED
    BY <2>1, <2>3, <2>4, <2>5 DEF PoolsOK
<1> QED
  BY <1>3, <1>4, <1>5 DEF PoolStep

\* The other readers are where they may be, too.
LEMMA LandsKeeps ==
  ASSUME PoolInv, NEW r \in Reader, Onward(r), Lands(r), PoolStep
  PROVE  reader' \in [Reader -> Reading(calls')] /\ ReadersOK'
<1>1. reader \in [Reader -> Reading(calls)]
  BY DEF PoolInv, PoolTypeOK, Reading, Mode
<1>2. \A x \in Reading(calls) : x \in Reading(calls')
  BY DEF Reading, Onward
<1>3. \A q \in Reader \ {r} : reader'[q] = reader[q]
  BY <1>1 DEF Lands
<1>4. reader' \in [Reader -> Reading(calls')]
  BY <1>1, <1>2 DEF Lands
<1>5. ASSUME NEW q \in Reader \ {r}
      PROVE  ModeOK(reader[q]) /\ EntryOK(reader[q], calls') /\ BlockOK(reader[q])'
  <2>1. ModeOK(reader[q]) /\ EntryOK(reader[q], calls) /\ BlockOK(reader[q])
    BY DEF PoolInv, ReadersOK
  <2>2. EntryOK(reader[q], calls')
    BY <2>1 DEF EntryOK, Onward, At
  <2>3. reader[q].at \in Slot
    BY <1>1 DEF Reading
  <2>4. reader[q].pc = "block" => caps'[reader[q].at] # <<>> \/ Cause(reader[q].at)
    BY <2>1, <2>3, PoolStepKeeps DEF BlockOK
  <2>5. \A s : Cause(s) => Cause(s)'
    BY CauseStays
  <2>6. BlockOK(reader[q])'
    BY <1>3, <2>4, <2>5 DEF BlockOK
  <2> QED
    BY <2>1, <2>2, <2>6
<1>6. BlockOK(reader[r])'
  <2>1. \A s : Cause(s) => Cause(s)'
    BY CauseStays
  <2> QED
    BY <2>1 DEF BlockOK, Lands
<1>7. ReadersOK'
  BY <1>3, <1>5, <1>6 DEF ReadersOK, Lands
<1> QED
  BY <1>4, <1>7

\* Some of the readers: how many.
LEMMA SomeReaders ==
  ASSUME NEW A \in SUBSET Reader
  PROVE  /\ IsFiniteSet(A) /\ Cardinality(A) \in Nat /\ Cardinality(Reader) \in Nat
         /\ Cardinality(A) <= Cardinality(Reader)
         /\ \A B \in SUBSET Reader : A \subseteq B => Cardinality(A) <= Cardinality(B)
         /\ \A r \in A : Cardinality(A \ {r}) = Cardinality(A) - 1
         /\ \A r \in Reader \ A : Cardinality(A \cup {r}) = Cardinality(A) + 1
<1>1. \A B \in SUBSET Reader : IsFiniteSet(B) /\ Cardinality(B) \in Nat
  BY PoolAssumption, FS_Subset, FS_CardinalityType
<1>2. \A B \in SUBSET Reader : A \subseteq B => Cardinality(A) <= Cardinality(B)
  BY <1>1, FS_Subset
<1>3. \A r \in A : Cardinality(A \ {r}) = Cardinality(A) - 1
  BY <1>1, FS_RemoveElement
<1>4. \A r \in Reader \ A : Cardinality(A \cup {r}) = Cardinality(A) + 1
  BY <1>1, FS_AddElement
<1> QED
  BY <1>1, <1>2, <1>3, <1>4

\* No pool is longer than it was, unless one more capability is pushed to it.
LEMMA PoolLength ==
  ASSUME PoolInv
  PROVE  /\ \A s \in Slot : Len(caps[s]) \in Nat
         /\ caps' = caps \/ (\E s \in Slot : Pruning(s)) =>
              \A t \in Slot : Len(caps'[t]) \in Nat /\ Len(caps'[t]) <= Len(caps[t])
         /\ \A s \in Slot : \A e : Adding(s, e) =>
              /\ Len(caps'[s]) = Len(caps[s]) + 1
              /\ \A t \in Slot \ {s} : caps'[t] = caps[t]
<1>1. caps \in [Slot -> Seq(DOMAIN calls)]
      /\ \A s \in Slot : caps[s] \in Seq(DOMAIN calls) /\ Len(caps[s]) \in Nat
  BY DEF PoolInv, PoolTypeOK
<1>2. ASSUME NEW s \in Slot, Pruning(s), NEW t \in Slot
      PROVE  Len(caps'[t]) \in Nat /\ Len(caps'[t]) <= Len(caps[t])
  <2> DEFINE p == Pruned(s)
  <2>1. p \in Seq(DOMAIN calls) /\ Len(p) <= Len(caps[s])
    BY <1>1, PrunedKeeps
  <2>2. caps' = [caps EXCEPT ![s] = p]
    BY <1>2 DEF Pruning
  <2> HIDE DEF p
  <2>3. Len(p) \in Nat
    BY <2>1
  <2>4. caps'[t] = IF t = s THEN p ELSE caps[t]
    BY <1>1, <2>2
  <2> QED
    BY <1>1, <2>1, <2>3, <2>4
<1>3. ASSUME NEW s \in Slot, NEW e, Adding(s, e)
      PROVE  /\ Len(caps'[s]) = Len(caps[s]) + 1
             /\ \A t \in Slot \ {s} : caps'[t] = caps[t]
  <2> DEFINE p == Append(caps[s], e)
  <2>1. Len(p) = Len(caps[s]) + 1
    BY <1>1, <1>3 DEF Adding
  <2>2. caps' = [caps EXCEPT ![s] = p]
    BY <1>3 DEF Adding
  <2> HIDE DEF p
  <2>3. caps'[s] = p /\ \A t \in Slot \ {s} : caps'[t] = caps[t]
    BY <1>1, <2>2
  <2> QED
    BY <2>1, <2>3
<1> QED
  BY <1>1, <1>2, <1>3

\* A pool that is shorter than its target has room for everybody who pushes to it.
LEMMA RoomKeeps ==
  ASSUME PoolInv, NEW r \in Reader, Onward(r), Lands(r), MemoStep, Counted(r), PoolStep
  PROVE  RoomOK'
<1> SUFFICES ASSUME NEW s \in Slot
             PROVE  (Len(caps[s]) + Cardinality(Pushing(s)) + Cardinality(Pending)
                       <= target[s] + Cardinality(Reader) - 1 + Cardinality(Reacquirers))'
  BY DEF RoomOK
<1> DEFINE P == Cardinality(Pushing(s))
           Q == Cardinality(Pushing(s)')
           W == Cardinality(Pending)
           V == Cardinality(Pending')
           R == Cardinality(Reacquirers)
           T == Cardinality(Reacquirers')
           N == Cardinality(Reader)
           L == Len(caps[s])
           M == Len(caps'[s])
           G == target[s]
           H == target'[s]
<1>1. /\ \A q \in Reader \ {r} : reader'[q] = reader[q]
      /\ reader'[r].at \in Slot /\ reader[r].at \in Slot
  <2>1. reader \in [Reader -> Reading(calls)]
    BY DEF PoolInv, PoolTypeOK, Reading, Mode
  <2> QED
    BY <2>1 DEF Lands, Reading
<1>2. /\ Pushing(s) = {q \in Reader : reader[q].at = s /\ Pushes(reader[q])}
      /\ Pushing(s)' = {q \in Reader : reader'[q].at = s /\ Pushes(reader'[q])}
  BY DEF Pushing, Pushes
<1>3. /\ Pending = {q \in Reader : Pends(reader[q])}
      /\ Pending' = {q \in Reader : Pends(reader'[q])}
      /\ Reacquirers = {q \in Reader : "reacquire" \in reader[q].spent}
      /\ Reacquirers' = {q \in Reader : "reacquire" \in reader'[q].spent}
  BY DEF Pending, Reacquirers
<1>4. Pending \subseteq Reacquirers /\ Pending' \subseteq Reacquirers'
  BY <1>3, LandsKeeps DEF PoolInv, ReadersOK, ModeOK, Pends
<1>5. Reacquirers \subseteq Reacquirers'
  BY <1>1, <1>3 DEF Counted
<1>6. /\ P \in Nat /\ Q \in Nat /\ P <= N /\ Q <= N
      /\ W \in Nat /\ V \in Nat /\ R \in Nat /\ T \in Nat /\ N \in Nat
      /\ W <= R /\ V <= T /\ R <= T /\ N >= 1
  <2>1. N >= 1
    <3>1. N = Cardinality(Reader \ {r}) + 1 /\ Cardinality(Reader \ {r}) \in Nat
      BY SomeReaders
    <3> QED
      BY <3>1
  <2>2. /\ Pushing(s) \in SUBSET Reader /\ Pushing(s)' \in SUBSET Reader
        /\ Pending \in SUBSET Reader /\ Pending' \in SUBSET Reader
        /\ Reacquirers \in SUBSET Reader /\ Reacquirers' \in SUBSET Reader
    BY <1>2, <1>3
  <2> QED
    BY <1>4, <1>5, <2>1, <2>2, SomeReaders
<1>7. /\ G \in Nat \ {0} /\ H \in Nat /\ G <= H
      /\ L \in Nat /\ L + P + W <= G + N - 1 + R
  <2>1. target \in [Slot -> 1 .. PoolMax] /\ target' \in [Slot -> 1 .. PoolMax]
    BY DEF PoolInv, PoolTypeOK, MemoStep
  <2>2. PoolMax \in Nat
    BY PoolAssumption
  <2> QED
    BY <2>1, <2>2, PoolLength DEF PoolInv, RoomOK, MemoStep
<1> SUFFICES M + Q + V <= H + N - 1 + T
  OBVIOUS
<1>8. CASE Quiet(r)
  <2>1. M \in Nat /\ M <= L
    BY <1>8, PoolLength DEF Quiet
  <2>2. Q <= P
    <3>1. Pushing(s)' \subseteq Pushing(s)
      BY <1>1, <1>2, <1>8 DEF Quiet
    <3> QED
      BY <1>2, <3>1, SomeReaders
  <2>3. V + R <= T + W
    <3>1. CASE Pends(reader'[r]) => Pends(reader[r])
      <4>1. Pending' \subseteq Pending
        BY <1>1, <1>3, <3>1
      <4>2. V <= W
        BY <1>3, <4>1, SomeReaders
      <4> QED
        BY <1>6, <4>2
    <3>2. CASE Pends(reader'[r]) /\ ~Pends(reader[r])
      <4>1. "reacquire" \in reader'[r].spent \ reader[r].spent
        BY <1>8, <3>2 DEF Quiet
      <4>2. Pending' = Pending \cup {r} /\ r \notin Pending
        BY <1>1, <1>3, <3>2
      <4>3. Reacquirers' = Reacquirers \cup {r} /\ r \notin Reacquirers
        BY <1>1, <1>3, <4>1
      <4>4. V = W + 1 /\ T = R + 1
        BY <1>3, <4>2, <4>3, SomeReaders
      <4> QED
        BY <1>6, <4>4
    <3> QED
      BY <3>1, <3>2
  <2> HIDE DEF P, Q, W, V, R, T, N, L, M, G, H
  <2> QED
    BY <1>6, <1>7, <2>1, <2>2, <2>3
<1>9. CASE Begins(r)
  <2>1. M \in Nat /\ M <= L
    BY <1>9, PoolLength DEF Begins
  <2>2. V <= W
    <3>1. Pending' \subseteq Pending
      BY <1>1, <1>3, <1>9 DEF Begins
    <3> QED
      BY <1>3, <3>1, SomeReaders
  <2>3. CASE s = reader'[r].at
    <3>1. M < G
      BY <1>9, <2>3 DEF Begins
    <3> HIDE DEF P, Q, W, V, R, T, N, L, M, G, H
    <3> QED
      BY <1>6, <1>7, <2>1, <3>1
  <2>4. CASE s # reader'[r].at
    <3>1. Q <= P
      <4>1. Pushing(s)' \subseteq Pushing(s)
        BY <1>1, <1>2, <2>4
      <4> QED
        BY <1>2, <4>1, SomeReaders
    <3> HIDE DEF P, Q, W, V, R, T, N, L, M, G, H
    <3> QED
      BY <1>6, <1>7, <2>1, <2>2, <3>1
  <2> QED
    BY <2>3, <2>4
<1>10. CASE PushesOne(r)
  <2> DEFINE a == reader[r].at
  <2>1. PICK e : Adding(a, e)
    BY <1>10 DEF PushesOne
  <2>2. Pushing(s)' = Pushing(s) \ {r} /\ Pending' = Pending \ {r}
    BY <1>1, <1>2, <1>3, <1>10 DEF PushesOne
  <2>3. Q <= P /\ V <= W
    BY <1>2, <1>3, <2>2, SomeReaders
  <2>4. CASE s # a
    <3>1. M = L
      BY <1>1, <2>1, <2>4, PoolLength
    <3> HIDE DEF P, Q, W, V, R, T, N, L, M, G, H
    <3> QED
      BY <1>6, <1>7, <2>3, <3>1
  <2>5. CASE s = a
    <3>1. M = L + 1
      BY <2>1, <2>5, PoolLength
    <3>2. Q = P - 1 \/ V = W - 1
      <4>1. CASE Pushes(reader[r])
        <5>1. r \in Pushing(s)
          BY <1>2, <2>5, <4>1
        <5> QED
          BY <1>2, <2>2, <5>1, SomeReaders
      <4>2. CASE Pends(reader[r])
        <5>1. r \in Pending
          BY <1>3, <4>2
        <5> QED
          BY <1>3, <2>2, <5>1, SomeReaders
      <4> QED
        BY <1>10, <4>1, <4>2 DEF PushesOne
    <3> HIDE DEF P, Q, W, V, R, T, N, L, M, G, H
    <3> QED
      BY <1>6, <1>7, <2>3, <3>1, <3>2
  <2> QED
    BY <2>4, <2>5
<1> QED
  BY <1>8, <1>9, <1>10 DEF Counted

\* A step that fits keeps the invariant.
LEMMA FitsKeeps ==
  ASSUME PoolInv, NEW r \in Reader, Fits(r)
  PROVE  PoolInv'
<1> USE DEF Fits
<1>1. caps' \in [Slot -> Seq(DOMAIN calls')] /\ PoolsOK'
  BY PoolStepKeeps
<1>2. reader' \in [Reader -> Reading(calls')] /\ ReadersOK'
  BY LandsKeeps
<1>3. RoomOK'
  BY RoomKeeps
<1>4. CausesOK'
  <2>1. \A s : Cause(s) => Cause(s)'
    BY CauseStays
  <2> QED
    BY <2>1 DEF MemoStep, CausesOK, PoolInv
<1>5. PoolTypeOK'
  BY <1>1, <1>2 DEF PoolTypeOK, MemoStep, Onward, Reading, Mode
<1> QED
  BY <1>1, <1>2, <1>3, <1>4, <1>5 DEF PoolInv

----------------------------------------------------------------------------
(* The steps fit *)

\* No call is made or answered and no capability dies.
LEMMA SameCalls ==
  ASSUME PoolInv, NEW r, UNCHANGED <<flightVars, outsideVars>>
  PROVE  Onward(r)
<1>1. calls' = calls /\ inflight' = inflight /\ dead' = dead /\ dropped' = dropped
  BY DEF flightVars, outsideVars
<1>2. \A q \in Reader : At(q, "mint") => calls[reader[q].entry].answer = "none"
  BY DEF PoolInv, ReadersOK, EntryOK, At
<1> QED
  BY <1>1, <1>2 DEF Onward, PoolInv, PoolTypeOK

\* The ways to treat a breaker, and the target, the backoffs and the negative cache as
\* they are.
LEMMA SameMemos ==
  ASSUME PoolInv, UNCHANGED <<target, memoVars>>,
         \/ UNCHANGED breakerVars
         \/ \E s \in Slot : LookAt(s) \/ RecordSuccess(s)
         \/ \E s \in Slot, n \in Nat : Cause(s) /\ RecordFailures(s, n)
  PROVE  MemoStep
<1>1. /\ target' = target /\ backoff' = backoff /\ negative' = negative
      /\ target \in [Slot -> 1 .. PoolMax] /\ failures \in [Slot -> 0 .. Threshold]
      /\ open \subseteq Slot /\ backoff \subseteq Slot /\ negative \subseteq Key
      /\ Threshold \in Nat \ {0} /\ PoolMax \in Nat
  BY PoolAssumption DEF PoolInv, PoolTypeOK, memoVars
<1>2. \A s \in Slot : target[s] <= target'[s]
  BY <1>1
<1>3. failures' \in [Slot -> 0 .. Threshold] /\ open' \subseteq Slot
      /\ \A s \in open' : s \in open \/ Cause(s)
  <2>1. CASE UNCHANGED breakerVars
    BY <1>1, <2>1 DEF breakerVars
  <2>2. ASSUME NEW s \in Slot, LookAt(s)
        PROVE  failures' \in [Slot -> 0 .. Threshold] /\ open' = open
    BY <1>1, <2>2 DEF LookAt
  <2>3. ASSUME NEW s \in Slot, RecordSuccess(s)
        PROVE  failures' \in [Slot -> 0 .. Threshold] /\ open' \subseteq open
    BY <1>1, <2>3 DEF RecordSuccess
  <2>4. ASSUME NEW s \in Slot, NEW n \in Nat, RecordFailures(s, n)
        PROVE  failures' \in [Slot -> 0 .. Threshold] /\ open' \subseteq open \cup {s}
    BY <1>1, <2>4 DEF RecordFailures
  <2> QED
    BY <1>1, <2>1, <2>2, <2>3, <2>4
<1> QED
  BY <1>1, <1>2, <1>3 DEF MemoStep

\* What most steps leave alone: the pools are at most pruned, nobody answers or dies, and
\* the breakers, if they are looked at, open only with a cause.
Frame(r) ==
  /\ Onward(r) /\ MemoStep
  /\ caps' = caps \/ \E s \in Slot : Pruning(s)

LEMMA FrameIs ==
  ASSUME PoolInv, NEW r, UNCHANGED <<target, memoVars, flightVars, outsideVars>>,
         caps' = caps \/ \E s \in Slot : Pruning(s),
         \/ UNCHANGED breakerVars
         \/ \E s \in Slot : LookAt(s) \/ RecordSuccess(s)
         \/ \E s \in Slot, n \in Nat : Cause(s) /\ RecordFailures(s, n)
  PROVE  Frame(r)
BY SameCalls, SameMemos DEF Frame

Resting == {"fast", "try", "grow", "rejected", "failover", "done", "failed", "refused", "left"}

\* A step to a place where nothing is in mind.
LEMMA RestsFit ==
  ASSUME PoolInv, NEW r \in Reader, Frame(r),
         NEW p, NEW m, NEW a, NEW i, NEW e, NEW h, NEW sp,
         Comes(r, p, m, a, i, e, h, sp),
         p \in Resting, p = "failover" => m = "failover", p # "failover" => m = "demand",
         a \in Slot, i \in Nat \ {0}, e \in {0} \cup DOMAIN calls, h \in {0} \cup DOMAIN calls,
         sp \subseteq {"failover", "reacquire"}, reader[r].spent \subseteq sp,
         reader[r].mode = "demand" /\ reader[r].pc \notin {"fast", "failed"}
           /\ (a > reader[r].at \/ p = "failed") => Cause(reader[r].at)
  PROVE  Fits(r)
<1> DEFINE z == reader'[r]
<1>1. DOMAIN calls \subseteq DOMAIN calls'
  BY DEF Frame, Onward
<1>2. /\ p \in Pc /\ m \in Mode
      /\ e \in {0} \cup DOMAIN calls' /\ h \in {0} \cup DOMAIN calls'
  BY <1>1 DEF Resting, Pc, Mode
<1>3. /\ reader' = [reader EXCEPT ![r] = z] /\ z \in Reading(calls')
      /\ z.pc = p /\ z.mode = m /\ z.at = a /\ z.spent = sp
  BY <1>1, <1>2 DEF Comes, Reading
<1> HIDE DEF z
<1>4. Lands(r)
  BY <1>3 DEF Lands, ModeOK, EntryOK, Demanding, Resting, z
<1>5. Caused(r)
  BY <1>3 DEF Caused, z
<1>6. ~Pushes(z) /\ ~Pends(z)
  BY <1>3 DEF Pushes, Pends, Resting
<1>7. Counted(r)
  BY <1>3, <1>6 DEF Counted, Quiet, Frame, z
<1> QED
  BY <1>4, <1>5, <1>7 DEF Fits, Frame, PoolStep

\* A step to the read of a capability.
LEMMA HoldsFit ==
  ASSUME PoolInv, NEW r \in Reader, Frame(r), NEW c \in DOMAIN calls, Take(r, c)
  PROVE  Fits(r)
<1> DEFINE x == reader[r]
           z == reader'[r]
           sp == x.spent \cup ({x.mode} \ {"demand"})
<1>1. DOMAIN calls \subseteq DOMAIN calls'
  BY DEF Frame, Onward
<1>2. x.mode \in Mode /\ x.at \in Slot /\ x.spent \subseteq {"failover", "reacquire"}
  BY ReaderIs
<1>3. Comes(r, "holding", "demand", 1, 1, 0, c, sp)
  BY WaysToCome
<1>4. 1 \in Slot /\ x.at \in Nat /\ x.at >= 1
  BY <1>2, PoolAssumption DEF Slot
<1>5. /\ sp \subseteq {"failover", "reacquire"} /\ x.spent \subseteq sp
      /\ c \in {0} \cup DOMAIN calls' /\ "holding" \in Pc /\ "demand" \in Mode
      /\ 0 \in {0} \cup DOMAIN calls' /\ 1 \in Nat \ {0}
  BY <1>1, <1>2 DEF Mode, Pc
<1> HIDE DEF sp
<1>6. /\ reader' = [reader EXCEPT ![r] = z] /\ z \in Reading(calls')
      /\ z.pc = "holding" /\ z.mode = "demand" /\ z.at = 1 /\ z.holds = c /\ z.spent = sp
  BY <1>1, <1>3, <1>4, <1>5 DEF Comes, Reading
<1> HIDE DEF x, z
<1>7. Lands(r)
  BY <1>1, <1>6 DEF Lands, ModeOK, EntryOK, Demanding, z
<1>8. Caused(r) /\ ~Pushes(z) /\ ~Pends(z)
  BY <1>4, <1>6 DEF Caused, Pushes, Pends, x, z
<1>9. Counted(r)
  BY <1>5, <1>6, <1>8 DEF Counted, Quiet, Frame, x, z
<1> QED
  BY <1>7, <1>8, <1>9 DEF Fits, Frame, PoolStep

\* The read is over.
LEMMA EndFits ==
  ASSUME PoolInv, NEW r \in Reader, Frame(r),
         NEW l \in {"done", "failed", "refused", "left"}, End(r, l),
         l = "failed" /\ reader[r].mode = "demand" /\ reader[r].pc \notin {"fast", "failed"}
           => Cause(reader[r].at)
  PROVE  Fits(r)
<1>1. Comes(r, l, "demand", 1, 1, 0, 0, reader[r].spent)
  BY WaysToCome
<1>2. reader[r].at \in Slot /\ reader[r].spent \subseteq {"failover", "reacquire"}
  BY ReaderIs
<1>3. 1 \in Slot /\ ~(1 > reader[r].at)
  BY <1>2, PoolAssumption DEF Slot
<1>4. /\ l \in Resting /\ l # "failover"
      /\ 1 \in Nat \ {0} /\ 0 \in {0} \cup DOMAIN calls
  BY DEF Resting
<1> QED
  BY <1>1, <1>2, <1>3, <1>4, RestsFit

\* The slot is given up, with a cause.
LEMMA NextSlotFits ==
  ASSUME PoolInv, NEW r \in Reader, Frame(r), NextSlot(r), reader[r].mode = "demand",
         Cause(reader[r].at)
  PROVE  Fits(r)
<1>1. /\ reader[r].at \in Slot /\ reader[r].spent \subseteq {"failover", "reacquire"}
      /\ reader[r].holds \in {0} \cup DOMAIN calls
  BY ReaderIs
<1>2. CASE reader[r].at < NumSlots
  <2>1. GoTo(r, "try", reader[r].at + 1)
    BY <1>2 DEF NextSlot
  <2>2. Comes(r, "try", reader[r].mode, reader[r].at + 1, 1, 0, reader[r].holds,
              reader[r].spent)
    BY <2>1, WaysToCome
  <2>3. reader[r].at + 1 \in Slot
    BY <1>1, <1>2, PoolAssumption DEF Slot
  <2>4. /\ "try" \in Resting /\ 1 \in Nat \ {0} /\ 0 \in {0} \cup DOMAIN calls
        /\ "try" # "failover"
    BY DEF Resting
  <2> QED
    BY <1>1, <2>2, <2>3, <2>4, RestsFit
<1>3. CASE ~(reader[r].at < NumSlots)
  BY <1>3, EndFits DEF NextSlot
<1> QED
  BY <1>2, <1>3

\* The reacquire begins, once: it is counted before it is pending.
LEMMA ReacquiresFits ==
  ASSUME PoolInv, NEW r \in Reader, Frame(r), Reacquires(r)
  PROVE  Fits(r)
<1>1. CASE "reacquire" \in reader[r].spent
  BY <1>1, EndFits DEF Reacquires
<1>2. CASE "reacquire" \notin reader[r].spent
  <2> DEFINE x == reader[r]
             z == reader'[r]
             sp == x.spent \cup {"reacquire"}
  <2>1. /\ x.at \in Slot /\ x.spent \subseteq {"failover", "reacquire"}
        /\ x.holds \in {0} \cup DOMAIN calls /\ DOMAIN reader = Reader
    BY ReaderIs
  <2>2. reader' = [reader EXCEPT ![r] =
           [pc |-> "reacquire", mode |-> "reacquire", at |-> 1, idx |-> 1, entry |-> 0,
            holds |-> x.holds, spent |-> sp]]
    BY <1>2 DEF Reacquires
  <2>3. Comes(r, "reacquire", "reacquire", 1, 1, 0, x.holds, sp)
    BY <2>1, <2>2 DEF Comes
  <2>4. 1 \in Slot /\ ~(1 > x.at)
    BY <2>1, PoolAssumption DEF Slot
  <2>5. DOMAIN calls \subseteq DOMAIN calls'
    BY DEF Frame, Onward
  <2>6. sp \subseteq {"failover", "reacquire"}
    BY <2>1
  <2> HIDE DEF sp
  <2>7. /\ reader' = [reader EXCEPT ![r] = z] /\ z \in Reading(calls')
        /\ z.pc = "reacquire" /\ z.mode = "reacquire" /\ z.at = 1 /\ z.spent = sp
    BY <2>1, <2>3, <2>4, <2>5, <2>6 DEF Comes, Reading, Pc, Mode
  <2> USE DEF sp
  <2> HIDE DEF x, z
  <2>8. Lands(r)
    BY <2>7 DEF Lands, ModeOK, EntryOK, Demanding, z
  <2>9. Caused(r) /\ ~Pushes(z)
    BY <2>4, <2>7 DEF Caused, Pushes, x, z
  <2>10. "reacquire" \in z.spent \ x.spent /\ x.spent \subseteq z.spent
    BY <1>2, <2>7 DEF x
  <2>11. Counted(r)
    BY <2>9, <2>10 DEF Counted, Quiet, Frame, x, z
  <2> QED
    BY <2>8, <2>9, <2>11 DEF Fits, Frame, PoolStep
<1> QED
  BY <1>1, <1>2

\* The failover goes to the next slot, or the reacquire begins.
LEMMA NextAlternateFits ==
  ASSUME PoolInv, NEW r \in Reader, Frame(r), NextAlternate(r), reader[r].mode = "failover"
  PROVE  Fits(r)
<1>1. /\ reader[r].at \in Slot /\ reader[r].spent \subseteq {"failover", "reacquire"}
      /\ reader[r].holds \in {0} \cup DOMAIN calls
  BY ReaderIs
<1>2. CASE reader[r].at < NumSlots
  <2>1. GoTo(r, "failover", reader[r].at + 1)
    BY <1>2 DEF NextAlternate
  <2>2. Comes(r, "failover", reader[r].mode, reader[r].at + 1, 1, 0, reader[r].holds,
              reader[r].spent)
    BY <2>1, WaysToCome
  <2>3. reader[r].at + 1 \in Slot
    BY <1>1, <1>2, PoolAssumption DEF Slot
  <2>4. /\ "failover" \in Resting /\ 1 \in Nat \ {0} /\ 0 \in {0} \cup DOMAIN calls
        /\ "failover" # "failed"
    BY DEF Resting
  <2> QED
    BY <1>1, <2>2, <2>3, <2>4, RestsFit
<1>3. CASE ~(reader[r].at < NumSlots)
  BY <1>3, ReacquiresFits DEF NextAlternate
<1> QED
  BY <1>2, <1>3

Way == {"index", "lookup", "mint", "remove", "wait", "push", "reserve", "again", "queue"}

\* Where a reader may be on its way, and what it has in mind there.
WayOK(p, m, a, i, e, C) ==
  /\ p \in Way /\ a \in Slot /\ i \in Nat \ {0} /\ e \in {0} \cup DOMAIN C
  /\ p = "queue" => m = "demand"
  /\ p = "again" => m = "reacquire"
  /\ p = "push" => m # "reacquire"
  /\ p \in {"mint", "remove", "wait"} => e \in DOMAIN C /\ C[e].key = <<a, i>>
  /\ p \in {"push", "reserve"} => e \in DOMAIN C /\ C[e].key[1] = a
  /\ p \in {"queue", "again"} => e \in DOMAIN C
  /\ p = "mint" => C[e].answer = "none"

\* A step of r on the way to a capability: the mode and the slot stay, but for a
\* reacquire, which goes to the slot it finds.
Travels(r, p, a, i, e) ==
  /\ Onward(r) /\ WayOK(p, reader[r].mode, a, i, e, calls')
  /\ Comes(r, p, reader[r].mode, a, i, e, reader[r].holds, reader[r].spent)
  /\ a = reader[r].at \/ reader[r].mode = "reacquire"

LEMMA OnTheWay ==
  ASSUME PoolInv, NEW r \in Reader, NEW p, NEW a, NEW i, NEW e, Travels(r, p, a, i, e)
  PROVE  /\ Lands(r) /\ Caused(r) /\ reader[r].spent \subseteq reader'[r].spent
         /\ reader'[r].pc = p /\ reader'[r].mode = reader[r].mode /\ reader'[r].at = a
<1> DEFINE x == reader[r]
           z == reader'[r]
<1>1. /\ x.mode \in Mode /\ x.at \in Slot /\ x.spent \subseteq {"failover", "reacquire"}
      /\ x.holds \in {0} \cup DOMAIN calls /\ ModeOK(x)
  BY ReaderIs
<1>2. x.holds \in {0} \cup DOMAIN calls' /\ p \in Pc
  BY <1>1 DEF Travels, Onward, Pc, WayOK, Way
<1> HIDE DEF x
<1>3. /\ reader' = [reader EXCEPT ![r] = z] /\ z \in Reading(calls')
      /\ z.pc = p /\ z.mode = x.mode /\ z.at = a /\ z.idx = i /\ z.entry = e
      /\ z.spent = x.spent
  BY <1>1, <1>2 DEF Travels, Comes, Reading, WayOK, x
<1> HIDE DEF z
<1>4. ModeOK(z)
  BY <1>1, <1>3 DEF Travels, ModeOK, Demanding, WayOK, Way, x
<1>5. EntryOK(z, calls')
  BY <1>3 DEF Travels, EntryOK, WayOK, Way
<1>6. Lands(r)
  BY <1>3, <1>4, <1>5 DEF Travels, Lands, WayOK, Way, z
<1>7. x.at \in Nat
  BY <1>1, PoolAssumption DEF Slot
<1>8. Caused(r)
  BY <1>3, <1>7 DEF Travels, Caused, WayOK, Way, x, z
<1> QED
  BY <1>3, <1>6, <1>8 DEF x, z

\* The steps of acquire_for_read.
LEMMA TryFits ==
  ASSUME PoolInv, NEW r \in Reader, Try(r)
  PROVE  Fits(r)
<1> DEFINE x == reader[r]
           s == reader[r].at
<1>1. /\ x.pc \in Pc /\ x.mode \in Mode /\ s \in Slot /\ x.idx \in Nat \ {0}
      /\ x.entry \in {0} \cup DOMAIN calls /\ x.holds \in {0} \cup DOMAIN calls
      /\ x.spent \subseteq {"failover", "reacquire"}
      /\ ModeOK(x) /\ EntryOK(x, calls) /\ BlockOK(x)
  BY ReaderIs
<1>2. /\ caps \in [Slot -> Seq(DOMAIN calls)] /\ caps[s] \in Seq(DOMAIN calls)
      /\ s \in 1 .. NumSlots /\ 1 \in Slot /\ NumSlots \in Nat
  BY <1>1, PoolAssumption DEF PoolInv, PoolTypeOK, Slot
<1>3. \A t \in open \cup backoff : Cause(t)
  BY DEF PoolInv, CausesOK
<1>4. /\ Pruned(s) \in Seq(DOMAIN calls)
      /\ \A n \in DOMAIN Pruned(s) : Pruned(s)[n] \in DOMAIN calls
  BY <1>1, <1>2, PrunedKeeps
<1> DEFINE p == Pruned(s)
<1>5. ASSUME NEW q \in Seq(DOMAIN calls), NEW I \in SUBSET DOMAIN q, I # {}
      PROVE  FirstOf(q, I) \in DOMAIN calls
  <2>1. I \in SUBSET Nat /\ \A i \in I : q[i] \in DOMAIN calls
    BY <1>5
  <2>2. PICK i \in I : FirstOf(q, I) = q[i]
    BY <1>5, <2>1, FirstOfIsOne
  <2> QED
    BY <2>1, <2>2
<1>6. /\ FreeIn(caps[s]) \subseteq DOMAIN caps[s] /\ FreeIn(p) \subseteq DOMAIN p
      /\ Waitable(s) \subseteq DOMAIN caps[s]
  BY DEF FreeIn, Waitable
<1> HIDE DEF x, s, p
<1>7. CASE Begin(r)
  <2>1. Comes(r, "fast", x.mode, s, x.idx, x.entry, x.holds, x.spent)
    BY <1>7, WaysToCome DEF Begin, x, s
  <2>2. Frame(r)
    BY <1>7, FrameIs DEF Begin, poolVars
  <2>3. x.mode = "demand" /\ ~(s > s)
    BY <1>1, <1>2, <1>7 DEF ModeOK, Demanding, Begin, At, x
  <2> QED
    BY <1>1, <2>1, <2>2, <2>3, RestsFit DEF Resting, x, s
<1>8. CASE FastReuse(r)
  <2>1. FirstOf(caps[s], FreeIn(caps[s])) \in DOMAIN calls
    BY <1>2, <1>5, <1>6, <1>8 DEF FastReuse, s
  <2>2. Frame(r)
    BY <1>1, <1>8, FrameIs DEF FastReuse, poolVars, s
  <2> QED
    BY <1>8, <2>1, <2>2, HoldsFit DEF FastReuse, s
<1>9. CASE FastNext(r)
  <2>1. Frame(r)
    BY <1>1, <1>9, FrameIs DEF FastNext, poolVars, s
  <2>2. x.pc = "fast" /\ x.mode = "demand"
    BY <1>1, <1>9 DEF ModeOK, Demanding, FastNext, At, x
  <2>3. CASE s < NumSlots
    <3>1. Comes(r, "fast", x.mode, s + 1, 1, 0, x.holds, x.spent)
      BY <1>9, <2>3, WaysToCome DEF FastNext, x, s
    <3>2. s + 1 \in Slot
      BY <1>2, <2>3 DEF Slot
    <3> QED
      BY <1>1, <2>1, <2>2, <3>1, <3>2, RestsFit DEF Resting, x, s
  <2>4. CASE ~(s < NumSlots)
    <3>1. Comes(r, "try", x.mode, 1, 1, 0, x.holds, x.spent)
      BY <1>9, <2>4, WaysToCome DEF FastNext, x, s
    <3> QED
      BY <1>1, <1>2, <2>1, <2>2, <3>1, RestsFit DEF Resting, x, s
  <2> QED
    BY <2>3, <2>4
<1>10. CASE SkipOpen(r)
  <2>1. Frame(r)
    BY <1>10, FrameIs DEF SkipOpen, poolVars
  <2>2. x.mode = "demand" /\ Cause(s)
    BY <1>1, <1>3, <1>10 DEF ModeOK, Demanding, SkipOpen, At, x, s
  <2> QED
    BY <1>10, <2>1, <2>2, NextSlotFits DEF SkipOpen, x, s
<1>11. CASE SkipBackoff(r)
  <2>1. Frame(r)
    BY <1>1, <1>11, FrameIs DEF SkipBackoff, Pruning, s
  <2>2. x.mode = "demand" /\ Cause(s)
    BY <1>1, <1>3, <1>11 DEF ModeOK, Demanding, SkipBackoff, At, x, s
  <2> QED
    BY <1>11, <2>1, <2>2, NextSlotFits DEF SkipBackoff, x, s
<1>12. CASE Reuse(r)
  <2>1. FirstOf(p, FreeIn(p)) \in DOMAIN calls
    BY <1>4, <1>5, <1>6, <1>12 DEF Reuse, s, p
  <2>2. Frame(r)
    BY <1>1, <1>12, FrameIs DEF Reuse, Pruning, s
  <2> QED
    BY <1>12, <2>1, <2>2, HoldsFit DEF Reuse, s, p
<1>13. CASE Press(r)
  <2>1. Comes(r, "grow", x.mode, s, x.idx, x.entry, x.holds, x.spent)
    BY <1>13, WaysToCome DEF Press, x, s
  <2>2. Frame(r)
    <3>1. Onward(r) /\ Pruning(s)
      BY <1>13, SameCalls DEF Press, Pruning, s
    <3>2. /\ target \in [Slot -> 1 .. PoolMax] /\ failures \in [Slot -> 0 .. Threshold]
          /\ open \subseteq Slot /\ backoff \subseteq Slot /\ negative \subseteq Key
          /\ Threshold \in Nat /\ PoolMax \in Nat
      BY PoolAssumption DEF PoolInv, PoolTypeOK
    <3>3. failures' \in [Slot -> 0 .. Threshold] /\ open' = open
          /\ backoff' = backoff /\ negative' = negative
      BY <1>1, <1>13, <3>2 DEF Press, LookAt, memoVars, s
    <3>4. target' \in [Slot -> 1 .. PoolMax] /\ \A t \in Slot : target[t] <= target'[t]
      <4>1. \/ target' = [target EXCEPT ![s] = target[s] + 1] /\ target[s] < PoolMax
            \/ target' = target
        BY <1>13, <3>2 DEF Press, s
      <4> QED
        BY <1>1, <3>2, <4>1
    <3>5. MemoStep
      BY <3>2, <3>3, <3>4 DEF MemoStep
    <3> QED
      BY <1>1, <3>1, <3>5 DEF Frame
  <2>3. x.mode = "demand" /\ ~(s > s)
    BY <1>1, <1>2, <1>13 DEF ModeOK, Demanding, Press, At, x
  <2> QED
    BY <1>1, <2>1, <2>2, <2>3, RestsFit DEF Resting, x, s
<1>14. CASE NothingToWaitFor(r)
  <2>1. x.pc = "block" /\ x.mode = "demand" /\ Waitable(s) = {}
    BY <1>1, <1>14 DEF ModeOK, Demanding, NothingToWaitFor, At, x, s
  <2>2. Cause(s)
    <3>1. CASE caps[s] = <<>>
      BY <1>1, <2>1, <3>1 DEF BlockOK, x, s
    <3>2. CASE caps[s] # <<>>
      <4>1. 1 \in DOMAIN caps[s]
        <5>1. Len(caps[s]) \in Nat \ {0}
          BY <1>2, <3>2, EmptySeq
        <5> QED
          BY <1>2, <5>1
      <4>2. caps[s][1] \in dead
        BY <2>1, <4>1 DEF Waitable
      <4> QED
        BY <1>1, <4>1, <4>2 DEF Cause, PoolInv, PoolsOK
    <3> QED
      BY <3>1, <3>2
  <2>3. Frame(r)
    BY <1>1, <1>14, <2>2, FrameIs DEF NothingToWaitFor, poolVars, s
  <2> QED
    BY <1>14, <2>1, <2>2, <2>3, NextSlotFits DEF NothingToWaitFor, x, s
<1>15. CASE Permit(r)
  <2>1. x.entry \in DOMAIN calls
    BY <1>1, <1>15 DEF Permit, EntryOK, At, x
  <2>2. Frame(r)
    BY <1>1, <1>15, FrameIs DEF Permit, poolVars, s
  <2> QED
    BY <1>15, <2>1, <2>2, HoldsFit DEF Permit, x
<1>16. CASE Block(r)
  <2> DEFINE c == FirstOf(caps[s], Waitable(s))
  <2>1. c \in DOMAIN calls
    BY <1>2, <1>5, <1>6, <1>16 DEF Block, s
  <2>2. Comes(r, "queue", x.mode, s, x.idx, c, x.holds, x.spent)
    BY <1>16, WaysToCome DEF Block, x, s
  <2>3. Frame(r) /\ calls' = calls
    BY <1>16, FrameIs DEF Block, poolVars, flightVars
  <2>4. x.mode = "demand"
    BY <1>1, <1>16 DEF ModeOK, Demanding, Block, At, x
  <2> HIDE DEF c
  <2>5. WayOK("queue", x.mode, s, x.idx, c, calls')
    BY <1>1, <2>1, <2>3, <2>4 DEF WayOK, Way
  <2>6. /\ Lands(r) /\ Caused(r) /\ x.spent \subseteq reader'[r].spent
        /\ reader'[r].pc = "queue"
    <3>1. Travels(r, "queue", s, x.idx, c)
      BY <2>2, <2>3, <2>5 DEF Travels, Frame, x, s
    <3> QED
      BY <3>1, OnTheWay DEF x, s
  <2>7. Counted(r)
    BY <2>3, <2>6 DEF Counted, Quiet, Pushes, Pends, Frame, x
  <2> QED
    BY <2>3, <2>6, <2>7 DEF Fits, Frame, PoolStep
<1>17. CASE Grow(r)
  <2>1. Frame(r) /\ calls' = calls /\ caps' = caps
    BY <1>1, <1>17, FrameIs DEF Grow, poolVars, flightVars, s
  <2>2. x.pc = "grow" /\ x.mode = "demand"
    BY <1>1, <1>17 DEF ModeOK, Demanding, Grow, At, x
  <2>3. CASE Short(s)
    <3>1. Comes(r, "index", x.mode, s, x.idx, x.entry, x.holds, x.spent)
      BY <1>17, <2>3, WaysToCome DEF Grow, x, s
    <3>2. WayOK("index", x.mode, s, x.idx, x.entry, calls')
      BY <1>1, <2>1 DEF WayOK, Way
    <3>3. /\ Lands(r) /\ Caused(r) /\ x.spent \subseteq reader'[r].spent
          /\ reader'[r].mode = x.mode /\ reader'[r].at = s
      <4>1. Travels(r, "index", s, x.idx, x.entry)
        BY <2>1, <3>1, <3>2 DEF Travels, Frame, x, s
      <4> QED
        BY <4>1, OnTheWay DEF x, s
    <3>4. Counted(r)
      BY <2>1, <2>2, <2>3, <3>3 DEF Counted, Begins, Short, Pushes, Pends, x
    <3> QED
      BY <2>1, <3>3, <3>4 DEF Fits, Frame, PoolStep
  <2>4. CASE ~Short(s)
    <3>1. Comes(r, "block", x.mode, s, x.idx, x.entry, x.holds, x.spent)
      BY <1>17, <2>4, WaysToCome DEF Grow, x, s
    <3>2. caps[s] # <<>> \/ Cause(s)
      <4>1. target[s] \in Nat /\ target[s] >= 1
        BY <1>1, PoolAssumption DEF PoolInv, PoolTypeOK
      <4>2. caps[s] = <<>> => Len(caps[s]) = 0
        OBVIOUS
      <4> QED
        BY <1>3, <2>4, <4>1, <4>2 DEF Short
    <3> DEFINE z == reader'[r]
    <3>3. /\ reader' = [reader EXCEPT ![r] = z] /\ z \in Reading(calls')
          /\ z.pc = "block" /\ z.mode = x.mode /\ z.at = s /\ z.spent = x.spent
      BY <1>1, <2>1, <3>1 DEF Comes, Reading, Pc
    <3> HIDE DEF z
    <3>4. Lands(r)
      BY <1>1, <2>1, <2>2, <3>2, <3>3 DEF Lands, ModeOK, EntryOK, Demanding, z
    <3>5. ~(s > s)
      BY <1>2
    <3>6. Caused(r)
      BY <3>3, <3>5 DEF Caused, x, s, z
    <3>7. ~Pushes(z) /\ ~Pends(z)
      BY <3>3 DEF Pushes, Pends
    <3>8. Counted(r)
      BY <2>1, <3>3, <3>7 DEF Counted, Quiet, x, z
    <3> QED
      BY <2>1, <3>4, <3>6, <3>8 DEF Fits, Frame, PoolStep
  <2> QED
    BY <2>3, <2>4
<1> QED
  BY <1>7, <1>8, <1>9, <1>10, <1>11, <1>12, <1>13, <1>14, <1>15, <1>16, <1>17 DEF Try

\* A call that fails, or has failed: every mode gives the slot up with a cause.
LEMMA GivesUpFits ==
  ASSUME PoolInv, NEW r \in Reader, NEW a, GivesUp(r, a), Cause(reader[r].at),
         UNCHANGED <<poolVars, memoVars, flightVars, outsideVars>>
  PROVE  Fits(r)
<1> DEFINE x == reader[r]
           s == reader[r].at
<1>1. x.mode \in Mode /\ s \in Slot
  BY ReaderIs
<1>2. Frame(r)
  <2>1. \E n \in Nat : RecordFailures(s, n)
    <3>1. CASE x.mode = "demand"
      <4>1. RecordFailures(s, IF a = "limited" THEN 1 ELSE 2)
        BY <3>1 DEF GivesUp
      <4>2. (IF a = "limited" THEN 1 ELSE 2) \in Nat
        OBVIOUS
      <4> QED
        BY <4>1, <4>2
    <3>2. CASE x.mode # "demand"
      <4>1. RecordFailures(s, 1)
        BY <1>1, <3>2 DEF GivesUp, Mode
      <4> QED
        BY <4>1
    <3> QED
      BY <3>1, <3>2
  <2> HIDE DEF s
  <2>2. UNCHANGED <<target, memoVars, flightVars, outsideVars>> /\ caps' = caps
    BY DEF poolVars
  <2> QED
    BY <1>1, <2>1, <2>2, FrameIs DEF s
<1>3. CASE x.mode = "demand"
  BY <1>2, <1>3, NextSlotFits DEF GivesUp
<1>4. CASE x.mode = "failover"
  BY <1>2, <1>4, NextAlternateFits DEF GivesUp
<1>5. CASE x.mode = "reacquire"
  BY <1>2, <1>5, EndFits DEF GivesUp
<1> QED
  BY <1>1, <1>3, <1>4, <1>5 DEF Mode

\* The steps of resolve_internal and its callers that call nobody.
LEMMA ResolvedFits ==
  ASSUME PoolInv, NEW r \in Reader,
         \/ Index(r) \/ NegativeHit(r) \/ LookupPresent(r) \/ Join(r) \/ Remove(r)
         \/ Resolved(r) \/ ResolveFails(r) \/ Push(r) \/ Reserve(r) \/ ReserveFails(r)
  PROVE  Fits(r)
<1> DEFINE x == reader[r]
           s == reader[r].at
<1>1. /\ x.pc \in Pc /\ x.mode \in Mode /\ s \in Slot /\ x.idx \in Nat \ {0}
      /\ x.entry \in {0} \cup DOMAIN calls /\ x.holds \in {0} \cup DOMAIN calls
      /\ x.spent \subseteq {"failover", "reacquire"}
      /\ ModeOK(x) /\ EntryOK(x, calls)
  BY ReaderIs
<1>2. /\ caps \in [Slot -> Seq(DOMAIN calls)] /\ caps[s] \in Seq(DOMAIN calls)
      /\ inflight \subseteq DOMAIN calls
  BY <1>1 DEF PoolInv, PoolTypeOK
<1> HIDE DEF x, s
<1>3. CASE Index(r)
  <2> DEFINE i == IndexFor(r)
  <2>1. i \in Nat \ {0}
    BY <1>2 DEF IndexFor, Pools, s
  <2>2. Comes(r, "lookup", x.mode, s, i, x.entry, x.holds, x.spent) /\ x.pc = "index"
    BY <1>3, WaysToCome DEF Index, At, x, s
  <2>3. Frame(r) /\ calls' = calls
    BY <1>3, FrameIs DEF Index, poolVars, flightVars
  <2> HIDE DEF i
  <2>4. WayOK("lookup", x.mode, s, i, x.entry, calls')
    BY <1>1, <2>1, <2>3 DEF WayOK, Way
  <2>5. /\ Lands(r) /\ Caused(r) /\ x.spent \subseteq reader'[r].spent
        /\ reader'[r].mode = x.mode /\ reader'[r].at = s
    <3>1. Travels(r, "lookup", s, i, x.entry)
      BY <2>2, <2>3, <2>4 DEF Travels, Frame, x, s
    <3> QED
      BY <3>1, OnTheWay DEF x, s
  <2>6. Counted(r)
    BY <2>2, <2>3, <2>5 DEF Counted, Quiet, Pushes, Pends, Frame, x, s
  <2> QED
    BY <2>3, <2>5, <2>6 DEF Fits, Frame, PoolStep
<1>4. CASE NegativeHit(r)
  <2>1. Cause(s)
    BY <1>4 DEF NegativeHit, PoolInv, CausesOK, s
  <2> QED
    BY <1>4, <2>1, GivesUpFits DEF NegativeHit, s
<1>5. CASE LookupPresent(r)
  <2> DEFINE c == caps[s][x.idx]
             p == IF Pools(r) THEN "push" ELSE "reserve"
  <2>1. c \in DOMAIN calls /\ calls[c].key[1] = s
    <3>1. x.idx \in DOMAIN caps[s]
      BY <1>1, <1>2, <1>5 DEF LookupPresent, Present, KeyOf, x, s
    <3> QED
      BY <1>1, <1>2, <3>1 DEF PoolInv, PoolsOK
  <2>2. Comes(r, p, x.mode, s, x.idx, c, x.holds, x.spent) /\ x.pc = "lookup"
    BY <1>5, WaysToCome DEF LookupPresent, KeyOf, At, x, s
  <2>3. Frame(r) /\ calls' = calls
    BY <1>5, FrameIs DEF LookupPresent, poolVars, flightVars
  <2>4. \/ p = "push" /\ x.mode # "reacquire"
        \/ p = "reserve" /\ x.mode = "reacquire"
    BY DEF Pools, x
  <2> HIDE DEF c, p
  <2>5. WayOK(p, x.mode, s, x.idx, c, calls')
    BY <1>1, <2>1, <2>3, <2>4 DEF WayOK, Way
  <2>6. /\ Lands(r) /\ Caused(r) /\ x.spent \subseteq reader'[r].spent
        /\ reader'[r].pc = p /\ reader'[r].mode = x.mode /\ reader'[r].at = s
    <3>1. Travels(r, p, s, x.idx, c)
      BY <2>2, <2>3, <2>5 DEF Travels, Frame, x, s
    <3> QED
      BY <3>1, OnTheWay DEF x, s
  <2>7. Counted(r)
    BY <2>2, <2>3, <2>6 DEF Counted, Quiet, Pushes, Pends, Frame, x, s
  <2> QED
    BY <2>3, <2>6, <2>7 DEF Fits, Frame, PoolStep
<1>6. CASE Join(r)
  <2>1. PICK e \in EntryOf(KeyOf(r)) :
           reader' = [reader EXCEPT ![r].pc = "wait", ![r].entry = e]
    BY <1>6 DEF Join
  <2>2. e \in DOMAIN calls /\ calls[e].key = <<s, x.idx>>
    BY <1>2, <2>1 DEF EntryOf, KeyOf, x, s
  <2>3. Comes(r, "wait", x.mode, s, x.idx, e, x.holds, x.spent) /\ x.pc = "lookup"
    BY <1>6, <2>1, WaysToCome DEF Join, At, x, s
  <2>4. Frame(r) /\ calls' = calls
    BY <1>6, FrameIs DEF Join, poolVars, flightVars
  <2>5. WayOK("wait", x.mode, s, x.idx, e, calls')
    BY <1>1, <2>2, <2>4 DEF WayOK, Way
  <2>6. /\ Lands(r) /\ Caused(r) /\ x.spent \subseteq reader'[r].spent
        /\ reader'[r].mode = x.mode /\ reader'[r].at = s
    <3>1. Travels(r, "wait", s, x.idx, e)
      BY <2>3, <2>4, <2>5 DEF Travels, Frame, x, s
    <3> QED
      BY <3>1, OnTheWay DEF x, s
  <2>7. Counted(r)
    BY <2>3, <2>4, <2>6 DEF Counted, Quiet, Pushes, Pends, Frame, x, s
  <2> QED
    BY <2>4, <2>6, <2>7 DEF Fits, Frame, PoolStep
<1>7. CASE Remove(r)
  <2>1. /\ Comes(r, "wait", x.mode, s, x.idx, x.entry, x.holds, x.spent)
        /\ x.pc = "remove"
    BY <1>7, WaysToCome DEF Remove, At, x, s
  <2>2. calls' = calls /\ caps' = caps
    BY <1>7 DEF Remove, poolVars
  <2>3. Onward(r) /\ MemoStep
    <3>1. MemoStep
      BY <1>7, SameMemos DEF Remove, poolVars
    <3>2. inflight' \subseteq inflight /\ dead' = dead /\ dropped' = dropped
      BY <1>7 DEF Remove, outsideVars
    <3>3. \A q \in Reader : At(q, "mint") => calls[reader[q].entry].answer = "none"
      BY DEF PoolInv, ReadersOK, EntryOK, At
    <3> QED
      BY <2>2, <3>1, <3>2, <3>3 DEF Onward, PoolInv, PoolTypeOK
  <2>4. WayOK("wait", x.mode, s, x.idx, x.entry, calls')
    BY <1>1, <2>1, <2>2 DEF WayOK, Way, EntryOK, s, x
  <2>5. /\ Lands(r) /\ Caused(r) /\ x.spent \subseteq reader'[r].spent
        /\ reader'[r].mode = x.mode /\ reader'[r].at = s
    <3>1. Travels(r, "wait", s, x.idx, x.entry)
      BY <2>1, <2>3, <2>4 DEF Travels, x, s
    <3> QED
      BY <3>1, OnTheWay DEF x, s
  <2>6. Counted(r)
    BY <2>1, <2>2, <2>5 DEF Counted, Quiet, Pushes, Pends, x, s
  <2> QED
    BY <2>2, <2>3, <2>5, <2>6 DEF Fits, PoolStep
<1>8. CASE Resolved(r)
  <2>1. /\ Comes(r, "reserve", x.mode, s, x.idx, x.entry, x.holds, x.spent)
        /\ x.pc = "wait" /\ x.mode = "reacquire"
    BY <1>8, WaysToCome DEF Resolved, Pools, At, x, s
  <2>2. Frame(r) /\ calls' = calls
    BY <1>8, FrameIs DEF Resolved, poolVars, flightVars
  <2>3. WayOK("reserve", x.mode, s, x.idx, x.entry, calls')
    BY <1>1, <2>1, <2>2 DEF WayOK, Way, EntryOK, x, s
  <2>4. /\ Lands(r) /\ Caused(r) /\ x.spent \subseteq reader'[r].spent
        /\ reader'[r].mode = x.mode /\ reader'[r].at = s
    <3>1. Travels(r, "reserve", s, x.idx, x.entry)
      BY <2>1, <2>2, <2>3 DEF Travels, Frame, x, s
    <3> QED
      BY <3>1, OnTheWay DEF x, s
  <2>5. Counted(r)
    BY <2>1, <2>2, <2>4 DEF Counted, Quiet, Pushes, Pends, Frame, x, s
  <2> QED
    BY <2>2, <2>4, <2>5 DEF Fits, Frame, PoolStep
<1>9. CASE ResolveFails(r)
  <2>1. x.pc = "wait" /\ calls[x.entry].answer \in Failure
    BY <1>9 DEF ResolveFails, Answer, At, x
  <2>2. Cause(s)
    BY <1>1, <2>1 DEF EntryOK, Cause, Failed, x, s
  <2> QED
    BY <1>9, <2>2, GivesUpFits DEF ResolveFails, s
<1>10. CASE Push(r)
  <2>1. /\ Comes(r, "reserve", x.mode, s, x.idx, x.entry, x.holds, x.spent)
        /\ Pushes(x)
    BY <1>1, <1>10, WaysToCome DEF Push, Pools, At, Pushes, ModeOK, x, s
  <2>2. Adding(s, x.entry)
    BY <1>1, <1>10 DEF Push, Adding, EntryOK, At, x, s
  <2>3. Onward(r) /\ MemoStep /\ calls' = calls
    BY <1>10, SameCalls, SameMemos DEF Push, flightVars
  <2>4. WayOK("reserve", x.mode, s, x.idx, x.entry, calls')
    BY <1>1, <2>2, <2>3 DEF WayOK, Way, Adding
  <2>5. /\ Lands(r) /\ Caused(r) /\ x.spent \subseteq reader'[r].spent
        /\ reader'[r].pc = "reserve" /\ reader'[r].mode = x.mode
    <3>1. Travels(r, "reserve", s, x.idx, x.entry)
      BY <2>1, <2>3, <2>4 DEF Travels, x, s
    <3> QED
      BY <3>1, OnTheWay DEF x, s
  <2>6. Counted(r)
    BY <2>1, <2>2, <2>5 DEF Counted, PushesOne, Pushes, Pends, x, s
  <2> QED
    BY <1>1, <2>2, <2>3, <2>5, <2>6 DEF Fits, PoolStep
<1>11. CASE Reserve(r)
  <2>1. x.entry \in DOMAIN calls
    BY <1>1, <1>11 DEF Reserve, EntryOK, At, x
  <2>2. Frame(r)
    BY <1>1, <1>11, FrameIs DEF Reserve, poolVars, s
  <2> QED
    BY <1>11, <2>1, <2>2, HoldsFit DEF Reserve, x
<1>12. CASE ReserveFails(r)
  <2>1. x.pc = "reserve" /\ x.entry \in DOMAIN calls /\ calls[x.entry].key[1] = s
    BY <1>1, <1>12 DEF ReserveFails, EntryOK, At, x, s
  <2>2. Onward(r) /\ MemoStep /\ calls' = calls
    BY <1>12, SameCalls, SameMemos DEF ReserveFails, flightVars
  <2>3. CASE x.mode = "demand"
    <3>1. caps' = caps /\ GoTo(r, "grow", s)
      BY <1>12, <2>3 DEF ReserveFails, x, s
    <3>2. Comes(r, "grow", x.mode, s, 1, 0, x.holds, x.spent)
      BY <3>1, WaysToCome DEF x, s
    <3>3. Frame(r) /\ ~(s > s)
      BY <1>1, <2>2, <3>1, PoolAssumption DEF Frame, Slot
    <3> QED
      BY <1>1, <2>3, <3>2, <3>3, RestsFit DEF Resting, x, s
  <2>4. CASE x.mode = "failover"
    <3>1. caps' = caps /\ NextAlternate(r)
      BY <1>12, <2>4 DEF ReserveFails, x, s
    <3>2. Frame(r)
      BY <2>2, <3>1 DEF Frame
    <3> QED
      BY <2>4, <3>1, <3>2, NextAlternateFits DEF x
  <2>5. CASE x.mode = "reacquire"
    <3>1. Adding(s, x.entry) /\ Goto(r, "again")
      BY <1>12, <2>1, <2>5 DEF ReserveFails, Adding, x, s
    <3>2. Comes(r, "again", x.mode, s, x.idx, x.entry, x.holds, x.spent)
      BY <3>1, WaysToCome DEF x, s
    <3>3. WayOK("again", x.mode, s, x.idx, x.entry, calls')
      BY <1>1, <2>1, <2>2, <2>5 DEF WayOK, Way
    <3>4. /\ Lands(r) /\ Caused(r) /\ x.spent \subseteq reader'[r].spent
          /\ reader'[r].pc = "again" /\ reader'[r].mode = x.mode
      <4>1. Travels(r, "again", s, x.idx, x.entry)
        BY <2>2, <3>2, <3>3 DEF Travels, x, s
      <4> QED
        BY <4>1, OnTheWay DEF x, s
    <3>5. Counted(r)
      BY <2>1, <2>5, <3>1, <3>4 DEF Counted, PushesOne, Pushes, Pends, x, s
    <3> QED
      BY <1>1, <2>2, <3>1, <3>4, <3>5 DEF Fits, PoolStep
  <2> QED
    BY <1>1, <2>3, <2>4, <2>5 DEF Mode
<1> QED
  BY <1>3, <1>4, <1>5, <1>6, <1>7, <1>8, <1>9, <1>10, <1>11, <1>12

\* A call is added, which its caller has in mind.
LEMMA CallFits ==
  ASSUME PoolInv, NEW r \in Reader, Call(r)
  PROVE  Fits(r)
<1> DEFINE x == reader[r]
           s == reader[r].at
           n == Len(calls) + 1
           c == [key |-> KeyOf(r), answer |-> "none"]
           C == [key : Key, answer : Failure \cup {"none", "ok"}]
<1>1. /\ x.mode \in Mode /\ s \in Slot /\ x.idx \in Nat \ {0}
      /\ x.holds \in {0} \cup DOMAIN calls /\ x.pc = "lookup"
  BY ReaderIs DEF Call, At
<1>2. calls \in Seq(C) /\ c \in C
  BY <1>1 DEF PoolInv, PoolTypeOK, KeyOf, Key
<1>3. calls' = Append(calls, c) /\ inflight' = inflight \cup {n} /\ caps' = caps
  BY DEF Call, poolVars
<1>4. c.key = <<s, x.idx>> /\ c.answer = "none"
  BY DEF KeyOf
<1> HIDE DEF c, C
<1>5. /\ calls' \in Seq(C) /\ DOMAIN calls' = DOMAIN calls \cup {n} /\ n \in Nat \ {0}
      /\ calls'[n] = c /\ \A e \in DOMAIN calls : calls'[e] = calls[e]
  BY <1>2, <1>3
<1> HIDE DEF n, x, s
<1>6. Onward(r)
  <2>1. dead' = dead /\ dropped' = dropped
    BY DEF Call, outsideVars
  <2>2. \A q \in Reader : At(q, "mint") =>
           reader[q].entry \in DOMAIN calls /\ calls[reader[q].entry].answer = "none"
    BY DEF PoolInv, ReadersOK, EntryOK, At
  <2> QED
    BY <1>3, <1>5, <2>1, <2>2 DEF Onward, PoolInv, PoolTypeOK, C
<1>7. MemoStep
  BY SameMemos DEF Call, poolVars
<1>8. Comes(r, "mint", x.mode, s, x.idx, n, x.holds, x.spent)
  BY WaysToCome DEF Call, n, x, s
<1>9. WayOK("mint", x.mode, s, x.idx, n, calls')
  BY <1>1, <1>4, <1>5 DEF WayOK, Way
<1>10. /\ Lands(r) /\ Caused(r) /\ x.spent \subseteq reader'[r].spent
       /\ reader'[r].mode = x.mode /\ reader'[r].at = s
  <2>1. Travels(r, "mint", s, x.idx, n)
    BY <1>6, <1>8, <1>9 DEF Travels, x, s
  <2> QED
    BY <2>1, OnTheWay DEF x, s
<1>11. Counted(r)
  BY <1>1, <1>3, <1>10 DEF Counted, Quiet, Pushes, Pends, x, s
<1> QED
  BY <1>3, <1>6, <1>7, <1>10, <1>11 DEF Fits, PoolStep

\* The call of the owner is answered, and no other that somebody still makes.
LEMMA MintedFits ==
  ASSUME PoolInv, IInv, NEW r \in Reader, NEW a \in Failure \cup {"ok"}, Minted(r, a)
  PROVE  Fits(r)
<1> DEFINE x == reader[r]
           s == reader[r].at
           n == reader[r].entry
           C == [key : Key, answer : Failure \cup {"none", "ok"}]
           c == [calls[n] EXCEPT !.answer = a]
<1>1. /\ x.mode \in Mode /\ s \in Slot /\ x.idx \in Nat \ {0}
      /\ x.holds \in {0} \cup DOMAIN calls /\ x.pc = "mint" /\ EntryOK(x, calls)
  BY ReaderIs DEF Minted, At
<1>2. n \in DOMAIN calls /\ calls[n].key = <<s, x.idx>> /\ calls[n].answer = "none"
  BY <1>1 DEF EntryOK
<1>3. calls \in Seq(C)
  BY DEF PoolInv, PoolTypeOK
<1>4. calls[n] \in C
  <2> HIDE DEF C, n
  <2> QED
    BY <1>2, <1>3
<1>5. c \in C /\ c.key = <<s, x.idx>> /\ c.answer = a
  BY <1>2, <1>4
<1>6. calls' = [calls EXCEPT ![n] = c] /\ inflight' = inflight /\ caps' = caps
  BY DEF Minted, poolVars
<1> HIDE DEF c, C, n
<1>7. /\ calls' \in Seq(C) /\ DOMAIN calls' = DOMAIN calls
      /\ calls'[n] = c /\ \A e \in DOMAIN calls \ {n} : calls'[e] = calls[e]
  <2>1. calls \in [1 .. Len(calls) -> C] /\ Len(calls) \in Nat
    BY <1>3
  <2>2. calls' \in [1 .. Len(calls) -> C]
    BY <1>5, <1>6, <2>1
  <2>3. calls' \in Seq(C)
    BY <2>1, <2>2, FunctionIsSequence
  <2> QED
    BY <1>2, <1>6, <2>3
<1> HIDE DEF x, s
<1>8. Onward(r)
  <2>1. dead' = dead /\ dropped' = dropped
    BY DEF Minted, outsideVars
  <2>2. \A q \in Reader \ {r} : At(q, "mint") =>
           /\ reader[q].entry \in DOMAIN calls \ {n}
           /\ calls[reader[q].entry].answer = "none"
    <3>1. \A q \in Reader \ {r} : At(q, "mint") => reader[q].entry # n
      BY <1>1 DEF IInv, Owners, Owns, At, n, x
    <3> QED
      BY <3>1 DEF PoolInv, ReadersOK, EntryOK, At
  <2>3. calls[n].answer \notin Failure
    BY <1>2 DEF Failure
  <2> QED
    BY <1>2, <1>5, <1>6, <1>7, <2>1, <2>2, <2>3 DEF Onward, PoolInv, PoolTypeOK, C
<1>9. MemoStep
  <2>1. /\ target' = target /\ failures' = failures /\ open' = open
        /\ target \in [Slot -> 1 .. PoolMax] /\ failures \in [Slot -> 0 .. Threshold]
        /\ open \subseteq Slot /\ backoff \subseteq Slot /\ negative \subseteq Key
        /\ PoolMax \in Nat
    BY PoolAssumption DEF PoolInv, PoolTypeOK, Minted, poolVars, breakerVars
  <2>2. /\ \/ a = "limited" /\ backoff' = backoff \cup {s}
           \/ backoff' = backoff
        /\ \/ a = "failed" /\ negative' = negative \cup {<<s, x.idx>>}
           \/ negative' = negative
    BY DEF Minted, KeyOf, x, s
  <2>3. a \in Failure => n \in Failed' /\ calls'[n].key[1] = s
    BY <1>2, <1>5, <1>7 DEF Failed
  <2>4. \A t : a \in Failure /\ t = s => Cause(t)'
    BY <2>3 DEF Cause
  <2>5. \A t \in Slot : target[t] <= target'[t]
    BY <2>1
  <2>6. <<s, x.idx>> \in Key
    BY <1>1 DEF Key
  <2>7. backoff' \subseteq Slot /\ \A t \in backoff' : t \in backoff \/ Cause(t)'
    BY <1>1, <2>1, <2>2, <2>4 DEF Failure
  <2>8. negative' \subseteq Key /\ \A k \in negative' : k \in negative \/ Cause(k[1])'
    BY <1>1, <2>1, <2>2, <2>6, <2>4 DEF Failure
  <2> QED
    BY <2>1, <2>5, <2>7, <2>8 DEF MemoStep
<1>10. Comes(r, "remove", x.mode, s, x.idx, n, x.holds, x.spent)
  BY WaysToCome DEF Minted, n, x, s
<1>11. WayOK("remove", x.mode, s, x.idx, n, calls')
  BY <1>1, <1>2, <1>5, <1>7 DEF WayOK, Way
<1>12. /\ Lands(r) /\ Caused(r) /\ x.spent \subseteq reader'[r].spent
       /\ reader'[r].mode = x.mode /\ reader'[r].at = s
  <2>1. Travels(r, "remove", s, x.idx, n)
    BY <1>8, <1>10, <1>11 DEF Travels, x, s
  <2> QED
    BY <2>1, OnTheWay DEF x, s
<1>13. Counted(r)
  BY <1>1, <1>6, <1>12 DEF Counted, Quiet, Pushes, Pends, x, s
<1> QED
  BY <1>6, <1>8, <1>9, <1>12, <1>13 DEF Fits, PoolStep

\* The steps of the recovery, the end of a read and the ways to lose what it held.
LEMMA RecoverFits ==
  ASSUME PoolInv, NEW r \in Reader, Recover(r) \/ Release(r) \/ Rejected(r) \/ Leave(r)
  PROVE  Fits(r)
<1> DEFINE x == reader[r]
           s == reader[r].at
<1>1. /\ x.pc \in Pc /\ x.mode \in Mode /\ s \in Slot /\ x.idx \in Nat \ {0}
      /\ x.entry \in {0} \cup DOMAIN calls /\ x.holds \in {0} \cup DOMAIN calls
      /\ x.spent \subseteq {"failover", "reacquire"}
      /\ ModeOK(x) /\ EntryOK(x, calls)
  BY ReaderIs
<1>2. /\ caps \in [Slot -> Seq(DOMAIN calls)] /\ caps[s] \in Seq(DOMAIN calls)
      /\ 1 \in Slot /\ ~(1 > s) /\ ~(s > s)
  BY <1>1, PoolAssumption DEF PoolInv, PoolTypeOK, Slot
<1>3. \A q \in Reader : At(q, "mint") => calls[reader[q].entry].answer = "none"
  BY DEF PoolInv, ReadersOK, EntryOK, At
<1> HIDE DEF x, s
<1>4. CASE Failover(r)
  <2>1. Comes(r, "failover", "failover", 1, x.idx, x.entry, x.holds, x.spent)
    BY <1>4, WaysToCome DEF Failover, x
  <2>2. Frame(r)
    BY <1>4, FrameIs DEF Failover, poolVars
  <2>3. "failover" \in Resting
    BY DEF Resting
  <2> QED
    BY <1>1, <1>2, <2>1, <2>2, <2>3, RestsFit DEF x, s
<1>5. CASE NoFailover(r)
  <2>1. Frame(r)
    BY <1>5, FrameIs DEF NoFailover, poolVars
  <2> QED
    BY <1>5, <2>1, ReacquiresFits DEF NoFailover
<1>6. CASE FailoverSkip(r)
  <2>1. Frame(r)
    BY <1>6, FrameIs DEF FailoverSkip, poolVars
  <2>2. x.mode = "failover"
    BY <1>1, <1>6 DEF FailoverSkip, At, ModeOK, x
  <2> QED
    BY <1>6, <2>1, <2>2, NextAlternateFits DEF FailoverSkip, x
<1>7. CASE FailoverWarm(r)
  <2>1. Frame(r)
    BY <1>1, <1>7, FrameIs DEF FailoverWarm, poolVars, s
  <2>2. FirstOf(caps[s], FreeIn(caps[s])) \in DOMAIN calls
    <3>1. /\ FreeIn(caps[s]) \in SUBSET Nat /\ FreeIn(caps[s]) # {}
          /\ \A i \in FreeIn(caps[s]) : caps[s][i] \in DOMAIN calls
      BY <1>2, <1>7 DEF FreeIn, FailoverWarm, s
    <3>2. PICK i \in FreeIn(caps[s]) : FirstOf(caps[s], FreeIn(caps[s])) = caps[s][i]
      BY <3>1, FirstOfIsOne
    <3> QED
      BY <3>1, <3>2
  <2> QED
    BY <1>7, <2>1, <2>2, HoldsFit DEF FailoverWarm, s
<1>8. CASE FailoverCold(r)
  <2>1. Frame(r) /\ calls' = calls
    BY <1>1, <1>8, FrameIs DEF FailoverCold, Pruning, flightVars, s
  <2>2. x.mode = "failover" /\ x.pc = "failover"
    BY <1>1, <1>8 DEF FailoverCold, At, ModeOK, x
  <2>3. CASE Len(Pruned(s)) < target[s]
    <3>1. Comes(r, "index", x.mode, s, x.idx, x.entry, x.holds, x.spent)
      BY <1>8, <2>3, WaysToCome DEF FailoverCold, x, s
    <3>2. WayOK("index", x.mode, s, x.idx, x.entry, calls')
      BY <1>1, <2>1 DEF WayOK, Way
    <3>3. /\ Lands(r) /\ Caused(r) /\ x.spent \subseteq reader'[r].spent
          /\ reader'[r].mode = x.mode /\ reader'[r].at = s
      <4>1. Travels(r, "index", s, x.idx, x.entry)
        BY <2>1, <3>1, <3>2 DEF Travels, Frame, x, s
      <4> QED
        BY <4>1, OnTheWay DEF x, s
    <3>4. caps'[s] = Pruned(s)
      BY <1>1, <1>2, <1>8 DEF FailoverCold, s
    <3>5. Counted(r)
      BY <2>1, <2>2, <2>3, <3>3, <3>4 DEF Counted, Begins, Pushes, Pends, Frame, x
    <3> QED
      BY <2>1, <3>3, <3>5 DEF Fits, Frame, PoolStep
  <2>4. CASE ~(Len(Pruned(s)) < target[s])
    <3>1. NextAlternate(r)
      BY <1>8, <2>4 DEF FailoverCold, s
    <3> QED
      BY <2>1, <2>2, <3>1, NextAlternateFits DEF x
  <2> QED
    BY <2>3, <2>4
<1>9. ASSUME NEW t \in Slot, Reacquire(r, t) PROVE Fits(r)
  <2>1. Frame(r) /\ calls' = calls
    BY <1>9, FrameIs DEF Reacquire, Pruning, flightVars
  <2>2. x.mode = "reacquire" /\ x.pc = "reacquire"
    BY <1>1, <1>9 DEF Reacquire, At, ModeOK, x
  <2>3. Comes(r, "index", x.mode, t, 1, 0, x.holds, x.spent)
    BY <1>9, WaysToCome DEF Reacquire, x
  <2>4. WayOK("index", x.mode, t, 1, 0, calls')
    BY DEF WayOK, Way
  <2>5. /\ Lands(r) /\ Caused(r) /\ x.spent \subseteq reader'[r].spent
        /\ reader'[r].mode = x.mode
    <3>1. Travels(r, "index", t, 1, 0)
      BY <2>1, <2>2, <2>3, <2>4 DEF Travels, Frame, x
    <3> QED
      BY <3>1, OnTheWay DEF x
  <2>6. Counted(r)
    BY <2>1, <2>2, <2>5 DEF Counted, Quiet, Pushes, Pends, Frame, x
  <2> QED
    BY <2>1, <2>5, <2>6 DEF Fits, Frame, PoolStep
<1>10. CASE ReacquireNowhere(r)
  <2>1. Frame(r)
    BY <1>10, FrameIs DEF ReacquireNowhere, poolVars
  <2>2. x.mode = "reacquire"
    BY <1>1, <1>10 DEF ReacquireNowhere, At, ModeOK, x
  <2> QED
    BY <1>10, <2>1, <2>2, EndFits DEF ReacquireNowhere, x
<1>11. CASE ReserveAgain(r)
  <2>1. Frame(r)
    BY <1>11, FrameIs DEF ReserveAgain, poolVars
  <2>2. x.mode = "reacquire" /\ x.entry \in DOMAIN calls
    BY <1>1, <1>11 DEF ReserveAgain, At, ModeOK, EntryOK, x
  <2>3. Take(r, x.entry) \/ End(r, "failed")
    BY <1>11 DEF ReserveAgain, x
  <2> QED
    BY <2>1, <2>2, <2>3, HoldsFit, EndFits DEF x
<1>12. CASE Release(r)
  <2>1. Frame(r)
    BY <1>12, FrameIs DEF Release, poolVars
  <2> QED
    BY <1>12, <2>1, EndFits DEF Release
<1>13. CASE Rejected(r)
  <2>1. Comes(r, "rejected", x.mode, s, x.idx, x.entry, x.holds, x.spent)
    BY <1>13, WaysToCome DEF Rejected, x, s
  <2>2. x.holds \in DOMAIN calls /\ x.mode = "demand"
    BY <1>1, <1>13 DEF Rejected, At, EntryOK, ModeOK, Demanding, x
  <2>3. Onward(r)
    <3>1. calls' = calls /\ inflight' = inflight /\ dropped' = dropped
          /\ dead' = dead \cup {x.holds}
      BY <1>13 DEF Rejected, flightVars, x
    <3> QED
      BY <1>3, <2>2, <3>1 DEF Onward, PoolInv, PoolTypeOK
  <2>4. Frame(r)
    BY <1>13, <2>3, SameMemos DEF Rejected, Frame, poolVars
  <2>5. "rejected" \in Resting
    BY DEF Resting
  <2> QED
    BY <1>1, <1>2, <2>1, <2>2, <2>4, <2>5, RestsFit DEF x, s
<1>14. CASE Leave(r)
  <2>1. Onward(r)
    <3>1. calls' = calls /\ inflight' = inflight /\ dead' = dead
          /\ \/ dropped' = dropped
             \/ x.pc \in {"mint", "remove"} /\ dropped' = dropped \cup {x.entry}
      BY <1>14 DEF Leave, flightVars, x
    <3>2. x.pc \in {"mint", "remove"} => x.entry \in DOMAIN calls
      BY <1>1 DEF EntryOK
    <3> QED
      BY <1>3, <3>1, <3>2 DEF Onward, PoolInv, PoolTypeOK
  <2>2. Frame(r)
    BY <1>14, <2>1, SameMemos DEF Leave, Frame, poolVars
  <2> QED
    BY <1>14, <2>2, EndFits DEF Leave
<1> QED
  BY <1>4, <1>5, <1>6, <1>7, <1>8, <1>9, <1>10, <1>11, <1>12, <1>13, <1>14 DEF Recover

\* Time shuts no slot out, and who dies is a cause.
LEMMA TimeKeepsPoolInv ==
  ASSUME PoolInv, Time \/ UNCHANGED vars
  PROVE  PoolInv'
<1>1. /\ UNCHANGED <<caps, target, failures, calls, inflight, reader, dropped>>
      /\ open' \subseteq open /\ backoff' \subseteq backoff /\ negative' \subseteq negative
      /\ dead \subseteq dead' /\ dead' \subseteq dead \cup DOMAIN calls
  BY DEF Time, Expire, BreakerCools, BackoffEnds, NegativeEnds, vars, poolVars, breakerVars,
         memoVars, flightVars, outsideVars
<1>2. \A s : Cause(s) => Cause(s)'
  BY <1>1 DEF Cause, Failed
<1>3. PoolTypeOK'
  BY <1>1 DEF PoolInv, PoolTypeOK
<1>4. ReadersOK'
  BY <1>1, <1>2 DEF PoolInv, ReadersOK, ModeOK, EntryOK, BlockOK
<1>5. PoolsOK' /\ CausesOK'
  BY <1>1, <1>2 DEF PoolInv, PoolsOK, CausesOK
<1>6. RoomOK'
  <2>1. \A s : Pushing(s)' = Pushing(s)
    BY <1>1 DEF Pushing
  <2>2. Pending' = Pending /\ Reacquirers' = Reacquirers
    BY <1>1 DEF Pending, Pends, Reacquirers
  <2> QED
    BY <1>1, <2>1, <2>2 DEF PoolInv, RoomOK
<1> QED
  BY <1>3, <1>4, <1>5, <1>6 DEF PoolInv

\* Every step of a reader fits.
LEMMA StepFits ==
  ASSUME PoolInv, IInv, NEW r \in Reader, Step(r) \/ Rejected(r) \/ Leave(r)
  PROVE  Fits(r)
<1>1. CASE Try(r)
  BY <1>1, TryFits
<1>2. CASE Resolve(r)
  BY <1>2, ResolvedFits, CallFits, MintedFits DEF Resolve
<1>3. CASE Recover(r) \/ Release(r) \/ Rejected(r) \/ Leave(r)
  BY <1>3, RecoverFits
<1> QED
  BY <1>1, <1>2, <1>3 DEF Step

\* Every step keeps the invariant, and no demand moves on without a cause.
LEMMA NextKeepsPoolInv == PoolInv /\ IInv /\ [Next]_vars => PoolInv'
<1> SUFFICES ASSUME PoolInv, IInv, [Next]_vars PROVE PoolInv'
  OBVIOUS
<1>1. CASE Time \/ UNCHANGED vars
  BY <1>1, TimeKeepsPoolInv
<1>2. ASSUME NEW r \in Reader, Step(r) \/ Rejected(r) \/ Leave(r) PROVE PoolInv'
  BY <1>2, StepFits, FitsKeeps
<1> QED
  BY <1>1, <1>2 DEF Next

\* The move of a demand, as the property has it.
Moved(r) ==
  Demand(r) /\ ~At(r, "fast") /\ (reader'[r].at > reader[r].at \/ At(r, "failed")')
    => \/ At(r, "failed")
       \/ \E e \in Failed \cup dead : calls[e].key[1] = reader[r].at

LEMMA NextMoves ==
  ASSUME PoolInv, IInv, [Next]_vars, NEW r \in Reader
  PROVE  Moved(r)
<1>1. reader[r].at \in Slot
  BY ReaderIs
<1>2. ~(reader[r].at > reader[r].at)
  BY <1>1, PoolAssumption DEF Slot
<1>3. CASE reader'[r] = reader[r]
  BY <1>2, <1>3 DEF Moved, At
<1>4. CASE Fits(r)
  BY <1>4 DEF Moved, Fits, Caused, Cause, Demand, At
<1>5. CASE Time \/ UNCHANGED vars
  <2>1. reader' = reader
    BY <1>5 DEF Time, Expire, BreakerCools, BackoffEnds, NegativeEnds, vars
  <2> QED
    BY <1>3, <2>1
<1>6. ASSUME NEW q \in Reader, Step(q) \/ Rejected(q) \/ Leave(q) PROVE Moved(r)
  <2>1. Fits(q)
    BY <1>6, StepFits
  <2>2. CASE q = r
    BY <1>4, <2>1, <2>2
  <2>3. CASE q # r
    <3>1. reader' = [reader EXCEPT ![q] = reader'[q]]
      BY <2>1 DEF Fits, Lands
    <3>2. DOMAIN reader = Reader
      BY ReaderIs
    <3>3. reader'[r] = reader[r]
      BY <2>3, <3>1, <3>2
    <3> QED
      BY <1>3, <3>3
  <2> QED
    BY <2>2, <2>3
<1> QED
  BY <1>5, <1>6 DEF Next

----------------------------------------------------------------------------
(* Theorems about the pools *)

\* The invariant holds always.
LEMMA AlwaysPoolInv == Spec => [](PoolInv /\ IInv)
<1>1. Init => PoolInv /\ IInv
  BY InitPoolInv, InitIInv
<1>2. PoolInv /\ IInv /\ [Next]_vars => (PoolInv /\ IInv)'
  BY NextKeepsPoolInv, NextKeepsIInv
<1> QED
  BY <1>1, <1>2, PTL DEF Spec

\* The types of the pools, breakers, calls and readers: what a pool holds is a
\* capability that was called for, and no target exceeds POOL_MAX.
THEOREM PoolTypeCorrect == Spec => []PoolTypeOK
<1>1. PoolInv => PoolTypeOK
  BY DEF PoolInv
<1> QED
  BY <1>1, AlwaysPoolInv, PTL

\* However many readers compare a pool's length with its target before others push, and
\* push what others have pushed, the pool exceeds the target by less than the readers,
\* and once more for each that has reacquired (try_slot, reacquire_for_read).
THEOREM PoolOvershoot == Spec => []OvershootBounded
<1>1. PoolInv => OvershootBounded
  <2> SUFFICES ASSUME PoolInv, NEW s \in Slot
               PROVE  Len(caps[s]) + Cardinality(Pushing(s))
                        <= target[s] + Cardinality(Reader) - 1 + Cardinality(Reacquirers)
    BY DEF OvershootBounded
  <2> DEFINE L == Len(caps[s])
             P == Cardinality(Pushing(s))
             W == Cardinality(Pending)
             R == Cardinality(Reacquirers)
             N == Cardinality(Reader)
             T == target[s]
  <2>1. L + P + W <= T + N - 1 + R
    BY DEF PoolInv, RoomOK
  <2>2. Pushing(s) \in SUBSET Reader /\ Pending \in SUBSET Reader
        /\ Reacquirers \in SUBSET Reader
    BY DEF Pushing, Pending, Reacquirers
  <2>3. P \in Nat /\ W \in Nat /\ R \in Nat /\ N \in Nat
    BY <2>2, SomeReaders
  <2>4. L \in Nat /\ T \in Nat
    BY PoolLength, PoolAssumption DEF PoolInv, PoolTypeOK
  <2> HIDE DEF L, P, W, R, N, T
  <2>5. L + P <= T + N - 1 + R
    BY <2>1, <2>3, <2>4
  <2> QED
    BY <2>5 DEF L, P, W, R, N, T
<1> QED
  BY <1>1, AlwaysPoolInv, PTL

\* A demand leaves a provider for a less preferred one, or fails, only after a call of
\* this provider has failed or a capability of it has died (try_slot, acquire_for_read).
THEOREM MovesHaveCause == Spec => MovesOnForCause
<1>1. PoolInv /\ IInv /\ [Next]_vars => [\A r \in Reader : Moved(r)]_vars
  BY NextMoves
<1>2. MovesOnForCause <=> [][\A r \in Reader : Moved(r)]_vars
  BY DEF MovesOnForCause, Moved
<1> QED
  BY <1>1, <1>2, AlwaysPoolInv, PTL DEF Spec

----------------------------------------------------------------------------
(* Which providers a read has tried *)

\* A demand has a cause for every slot it passed over; a read that fails and never
\* reacquired has one for all.
PassedOver(x) ==
  /\ x.mode = "demand" /\ x.pc # "fast" => \A s \in Slot : s < x.at => Cause(s)
  /\ x.pc = "failed" /\ "reacquire" \notin x.spent => \A s \in Slot : Cause(s)

\* A read that has left the demand's way did so because a capability died.
Recovers(x) == x.mode # "demand" \/ x.spent # {} \/ x.pc = "rejected"

TriedOK == \A r \in Reader : PassedOver(reader[r]) /\ (Recovers(reader[r]) => dead # {})

\* From x to y: a demand stays at its slot, goes to the next or back to the first, and
\* fails at the last.
Tries(x, y) ==
  /\ y.mode = "demand" /\ y.pc # "fast" =>
       \/ y.at = 1
       \/ x.mode = "demand" /\ x.pc \notin {"fast", "failed"} /\ y.at \in {x.at, x.at + 1}
  /\ y.pc = "failed" /\ "reacquire" \notin y.spent =>
       x.mode = "demand" /\ x.pc \notin {"fast", "failed"} /\ x.at = NumSlots
  /\ Recovers(y) => Recovers(x) \/ dead' # {}

\* The reader stays on its way, or goes to another slot of it.
LEMMA StaysTries ==
  ASSUME NEW r \in Reader,
         reader'[r].mode = reader[r].mode, reader'[r].spent = reader[r].spent,
         reader'[r].pc # "failed", reader'[r].pc = "rejected" => dead' # {},
         \/ reader[r].mode # "demand" \/ reader'[r].pc = "fast" \/ reader'[r].at = 1
         \/ /\ reader[r].pc \notin {"fast", "failed"}
            /\ reader'[r].at \in {reader[r].at, reader[r].at + 1}
  PROVE  Tries(reader[r], reader'[r])
BY DEF Tries, Recovers

\* It takes a capability, or its read is over.
LEMMA BackTries ==
  ASSUME PoolInv, NEW r \in Reader,
         \/ \E c : Take(r, c)
         \/ \E l \in {"done", "refused", "left"} : End(r, l)
         \/ End(r, "failed") /\ \/ "reacquire" \in reader[r].spent
                                \/ /\ reader[r].mode = "demand" /\ reader[r].at = NumSlots
                                   /\ reader[r].pc \notin {"fast", "failed"}
  PROVE  Tries(reader[r], reader'[r])
<1>1. CASE \E c : Take(r, c)
  <2>1. PICK c : Take(r, c)
    BY <1>1
  <2>2. Comes(r, "holding", "demand", 1, 1, 0, c,
              reader[r].spent \cup ({reader[r].mode} \ {"demand"}))
    BY <2>1, WaysToCome
  <2> QED
    BY <2>2 DEF Comes, Tries, Recovers
<1>2. ASSUME NEW l, End(r, l)
      PROVE  /\ reader'[r].pc = l /\ reader'[r].at = 1 /\ reader'[r].mode = "demand"
             /\ reader'[r].spent = reader[r].spent
  <2>1. Comes(r, l, "demand", 1, 1, 0, 0, reader[r].spent)
    BY <1>2, WaysToCome
  <2> QED
    BY <2>1 DEF Comes
<1>3. CASE \E l \in {"done", "refused", "left"} : End(r, l)
  BY <1>2, <1>3 DEF Tries, Recovers
<1>4. CASE End(r, "failed") /\ \/ "reacquire" \in reader[r].spent
                               \/ /\ reader[r].mode = "demand" /\ reader[r].at = NumSlots
                                  /\ reader[r].pc \notin {"fast", "failed"}
  BY <1>2, <1>4 DEF Tries, Recovers
<1> QED
  BY <1>1, <1>3, <1>4

\* The slot is given up: the next one is tried, and after the last one the demand fails.
LEMMA NextSlotTries ==
  ASSUME PoolInv, NEW r \in Reader, NextSlot(r), reader[r].mode = "demand",
         reader[r].pc \notin {"fast", "failed"}
  PROVE  Tries(reader[r], reader'[r])
<1>1. reader[r].at \in Slot
  BY ReaderIs
<1>2. CASE reader[r].at < NumSlots
  <2>1. Comes(r, "try", reader[r].mode, reader[r].at + 1, 1, 0, reader[r].holds,
              reader[r].spent)
    BY <1>2, WaysToCome DEF NextSlot
  <2> QED
    BY <2>1, StaysTries DEF Comes
<1>3. CASE ~(reader[r].at < NumSlots)
  <2>1. reader[r].at = NumSlots
    BY <1>1, <1>3, PoolAssumption DEF Slot
  <2> QED
    BY <1>3, <2>1, BackTries DEF NextSlot
<1> QED
  BY <1>2, <1>3

\* The recovery goes on: to the next slot of another provider, or to a reacquire.
LEMMA ReacquiresTries ==
  ASSUME PoolInv, NEW r \in Reader, Reacquires(r), Recovers(reader[r])
  PROVE  Tries(reader[r], reader'[r])
<1>1. CASE "reacquire" \in reader[r].spent
  BY <1>1, BackTries DEF Reacquires
<1>2. CASE "reacquire" \notin reader[r].spent
  <2>1. DOMAIN reader = Reader
    BY ReaderIs
  <2>2. reader'[r] = [pc |-> "reacquire", mode |-> "reacquire", at |-> 1, idx |-> 1,
                      entry |-> 0, holds |-> reader[r].holds,
                      spent |-> reader[r].spent \cup {"reacquire"}]
    BY <1>2, <2>1 DEF Reacquires
  <2>3. reader'[r].pc = "reacquire" /\ reader'[r].mode = "reacquire"
    BY <2>2
  <2> QED
    BY <2>3 DEF Tries
<1> QED
  BY <1>1, <1>2

LEMMA NextAlternateTries ==
  ASSUME PoolInv, NEW r \in Reader, NextAlternate(r), reader[r].mode = "failover"
  PROVE  Tries(reader[r], reader'[r])
<1>1. CASE reader[r].at < NumSlots
  <2>1. Comes(r, "failover", reader[r].mode, reader[r].at + 1, 1, 0, reader[r].holds,
              reader[r].spent)
    BY <1>1, WaysToCome DEF NextAlternate
  <2> QED
    BY <2>1, StaysTries DEF Comes
<1>2. CASE ~(reader[r].at < NumSlots)
  <2>1. Recovers(reader[r])
    BY DEF Recovers
  <2> QED
    BY <1>2, <2>1, ReacquiresTries DEF NextAlternate
<1> QED
  BY <1>1, <1>2

\* acquire_for_read.
LEMMA TryTries ==
  ASSUME PoolInv, NEW r \in Reader, Try(r)
  PROVE  Tries(reader[r], reader'[r])
<1> DEFINE x == reader[r]
<1>1. ModeOK(x)
  BY ReaderIs
<1>2. CASE FastReuse(r) \/ Reuse(r) \/ Permit(r)
  BY <1>2, BackTries DEF FastReuse, Reuse, Permit
<1>3. CASE FastNext(r)
  <2>1. \/ Comes(r, "fast", x.mode, x.at + 1, 1, 0, x.holds, x.spent)
        \/ Comes(r, "try", x.mode, 1, 1, 0, x.holds, x.spent)
    BY <1>3, WaysToCome DEF FastNext
  <2> QED
    BY <2>1, StaysTries DEF Comes
<1>4. CASE SkipOpen(r) \/ SkipBackoff(r) \/ NothingToWaitFor(r)
  <2>1. NextSlot(r) /\ x.pc \in {"try", "block"}
    BY <1>4 DEF SkipOpen, SkipBackoff, NothingToWaitFor, At
  <2>2. x.mode = "demand"
    BY <1>1, <2>1 DEF ModeOK, Demanding
  <2> QED
    BY <2>1, <2>2, NextSlotTries
<1>5. CASE Begin(r) \/ Press(r) \/ Grow(r)
  <2>1. \E l \in {"fast", "grow", "index", "block"} : Goto(r, l)
    BY <1>5 DEF Begin, Press, Grow
  <2>2. x.pc \in {"idle", "try", "grow"}
    BY <1>5 DEF Begin, Press, Grow, At
  <2>3. PICK l \in {"fast", "grow", "index", "block"} :
           Comes(r, l, x.mode, x.at, x.idx, x.entry, x.holds, x.spent)
    BY <2>1, WaysToCome
  <2> QED
    BY <2>2, <2>3, StaysTries DEF Comes
<1>6. CASE Block(r)
  <2>1. \E e : Comes(r, "queue", x.mode, x.at, x.idx, e, x.holds, x.spent)
    BY <1>6, WaysToCome DEF Block
  <2>2. x.pc = "block"
    BY <1>6 DEF Block, At
  <2> QED
    BY <2>1, <2>2, StaysTries DEF Comes
<1> QED
  BY <1>2, <1>3, <1>4, <1>5, <1>6 DEF Try

\* resolve_internal.
LEMMA ResolveTries ==
  ASSUME PoolInv, NEW r \in Reader, Resolve(r)
  PROVE  Tries(reader[r], reader'[r])
<1> DEFINE x == reader[r]
<1>1. ModeOK(x) /\ x.mode \in Mode
  BY ReaderIs
<1>2. CASE \/ Index(r) \/ LookupPresent(r) \/ Join(r) \/ Call(r)
           \/ \E a \in Failure \cup {"ok"} : Minted(r, a)
           \/ Remove(r) \/ Resolved(r) \/ Push(r)
  <2>1. x.pc \in {"index", "lookup", "mint", "remove", "wait", "push"}
    BY <1>2 DEF Index, LookupPresent, Join, Call, Minted, Remove, Resolved, Push, At
  <2>2. CASE Index(r)
    <3>1. \E i : Comes(r, "lookup", x.mode, x.at, i, x.entry, x.holds, x.spent)
      BY <2>2, WaysToCome DEF Index
    <3> QED
      BY <2>1, <3>1, StaysTries DEF Comes
  <2>3. CASE LookupPresent(r) \/ Join(r) \/ Call(r)
    <3>1. \E l \in {"push", "reserve", "wait", "mint"} : \E e :
             reader' = [reader EXCEPT ![r].pc = l, ![r].entry = e]
      BY <2>3 DEF LookupPresent, Join, Call
    <3>2. PICK l \in {"push", "reserve", "wait", "mint"} : \E e :
             Comes(r, l, x.mode, x.at, x.idx, e, x.holds, x.spent)
      BY <3>1, WaysToCome
    <3> QED
      BY <2>1, <3>2, StaysTries DEF Comes
  <2>4. CASE \/ \E a \in Failure \cup {"ok"} : Minted(r, a)
             \/ Remove(r) \/ Resolved(r) \/ Push(r)
    <3>1. \E l \in {"remove", "wait", "reserve"} : Goto(r, l)
      BY <2>4 DEF Minted, Remove, Resolved, Push
    <3>2. PICK l \in {"remove", "wait", "reserve"} :
             Comes(r, l, x.mode, x.at, x.idx, x.entry, x.holds, x.spent)
      BY <3>1, WaysToCome
    <3> QED
      BY <2>1, <3>2, StaysTries DEF Comes
  <2> QED
    BY <1>2, <2>2, <2>3, <2>4
<1>3. CASE NegativeHit(r) \/ ResolveFails(r)
  <2>1. /\ x.pc \in {"index", "wait"}
        /\ \/ x.mode = "demand" /\ NextSlot(r)
           \/ x.mode = "failover" /\ NextAlternate(r)
           \/ x.mode = "reacquire" /\ End(r, "failed")
    BY <1>1, <1>3 DEF NegativeHit, ResolveFails, GivesUp, At, Mode
  <2>2. x.mode = "reacquire" => "reacquire" \in x.spent
    BY <1>1 DEF ModeOK
  <2> QED
    BY <2>1, <2>2, NextSlotTries, NextAlternateTries, BackTries
<1>4. CASE Reserve(r)
  BY <1>4, BackTries DEF Reserve
<1>5. CASE ReserveFails(r)
  <2>1. /\ x.pc = "reserve"
        /\ \/ x.mode = "demand" /\ GoTo(r, "grow", x.at)
           \/ x.mode = "failover" /\ NextAlternate(r)
           \/ x.mode = "reacquire" /\ Goto(r, "again")
    BY <1>1, <1>5 DEF ReserveFails, At, Mode
  <2>2. CASE GoTo(r, "grow", x.at)
    <3>1. Comes(r, "grow", x.mode, x.at, 1, 0, x.holds, x.spent)
      BY <2>2, WaysToCome
    <3> QED
      BY <2>1, <3>1, StaysTries DEF Comes
  <2>3. CASE Goto(r, "again")
    <3>1. Comes(r, "again", x.mode, x.at, x.idx, x.entry, x.holds, x.spent)
      BY <2>3, WaysToCome
    <3> QED
      BY <2>1, <3>1, StaysTries DEF Comes
  <2> QED
    BY <2>1, <2>2, <2>3, NextAlternateTries
<1> QED
  BY <1>2, <1>3, <1>4, <1>5 DEF Resolve

\* apply_dead, the end of a read, a rejection and a handler dropped.
LEMMA RecoverTries ==
  ASSUME PoolInv, NEW r \in Reader, Recover(r) \/ Release(r) \/ Rejected(r) \/ Leave(r)
  PROVE  Tries(reader[r], reader'[r])
<1> DEFINE x == reader[r]
<1>1. ModeOK(x)
  BY ReaderIs
<1>2. CASE Failover(r)
  <2>1. Comes(r, "failover", "failover", 1, x.idx, x.entry, x.holds, x.spent)
    BY <1>2, WaysToCome DEF Failover
  <2>2. Recovers(x)
    BY <1>2 DEF Failover, At, Recovers
  <2>3. reader'[r].pc = "failover" /\ reader'[r].mode = "failover"
    BY <2>1 DEF Comes
  <2> QED
    BY <2>2, <2>3 DEF Tries
<1>3. CASE NoFailover(r)
  <2>1. Reacquires(r) /\ Recovers(x)
    BY <1>3 DEF NoFailover, At, Recovers
  <2> QED
    BY <2>1, ReacquiresTries
<1>4. CASE FailoverSkip(r) \/ FailoverCold(r)
  <2>1. x.mode = "failover"
    BY <1>1, <1>4 DEF FailoverSkip, FailoverCold, At, ModeOK
  <2>2. NextAlternate(r) \/ Goto(r, "index")
    BY <1>4 DEF FailoverSkip, FailoverCold
  <2>3. CASE Goto(r, "index")
    <3>1. Comes(r, "index", x.mode, x.at, x.idx, x.entry, x.holds, x.spent)
      BY <2>3, WaysToCome
    <3> QED
      BY <2>1, <3>1, StaysTries DEF Comes
  <2> QED
    BY <2>1, <2>2, <2>3, NextAlternateTries
<1>5. CASE FailoverWarm(r)
  BY <1>5, BackTries DEF FailoverWarm
<1>6. ASSUME NEW s \in Slot, Reacquire(r, s)
      PROVE  Tries(x, reader'[r])
  <2>1. x.mode = "reacquire"
    BY <1>1, <1>6 DEF Reacquire, At, ModeOK
  <2>2. Comes(r, "index", x.mode, s, 1, 0, x.holds, x.spent)
    BY <1>6, WaysToCome DEF Reacquire
  <2> QED
    BY <2>1, <2>2, StaysTries DEF Comes
<1>7. CASE ReacquireNowhere(r) \/ ReserveAgain(r)
  <2>1. "reacquire" \in x.spent
    BY <1>1, <1>7 DEF ReacquireNowhere, ReserveAgain, At, ModeOK
  <2> QED
    BY <1>7, <2>1, BackTries DEF ReacquireNowhere, ReserveAgain
<1>8. CASE Release(r) \/ Leave(r)
  BY <1>8, BackTries DEF Release, Leave
<1>9. CASE Rejected(r)
  <2>1. Comes(r, "rejected", x.mode, x.at, x.idx, x.entry, x.holds, x.spent)
    BY <1>9, WaysToCome DEF Rejected
  <2>2. dead' # {} /\ x.pc = "holding"
    BY <1>9 DEF Rejected, At
  <2> QED
    BY <2>1, <2>2, StaysTries DEF Comes
<1> QED
  BY <1>2, <1>3, <1>4, <1>5, <1>6, <1>7, <1>8, <1>9 DEF Recover

\* What a step of the reader leaves it having tried.
LEMMA TriesKeeps ==
  ASSUME PoolInv, TriedOK, NEW r \in Reader, Fits(r), Tries(reader[r], reader'[r])
  PROVE  TriedOK'
<1> DEFINE x == reader[r]
           y == reader'[r]
<1>1. /\ \A s : Cause(s) => Cause(s)'
      /\ dead \subseteq dead'
  BY CauseStays DEF Fits, Onward
<1>2. x.at \in Slot /\ DOMAIN reader = Reader
  BY ReaderIs
<1>3. reader' = [reader EXCEPT ![r] = y]
  BY DEF Fits, Lands
<1>4. PassedOver(x) /\ (Recovers(x) => dead # {})
  BY DEF TriedOK
<1>5. /\ x.mode = "demand" /\ x.pc \notin {"fast", "failed"}
         /\ (y.at > x.at \/ y.pc = "failed") => Cause(x.at)
  BY DEF Fits, Caused
<1>6. Tries(x, y)
  OBVIOUS
<1>7. Recovers(y) => dead' # {}
  BY <1>1, <1>4, <1>6 DEF Tries
<1> HIDE DEF x, y
<1>8. ASSUME y.pc = "failed", "reacquire" \notin y.spent
      PROVE  \A s \in Slot : Cause(s)'
  <2>1. x.mode = "demand" /\ x.pc \notin {"fast", "failed"} /\ x.at = NumSlots
    BY <1>6, <1>8 DEF Tries
  <2>2. Cause(x.at) /\ \A s \in Slot : s < x.at => Cause(s)
    BY <1>4, <1>5, <1>8, <2>1 DEF PassedOver
  <2>3. \A s \in Slot : s < x.at \/ s = x.at
    BY <2>1, PoolAssumption DEF Slot
  <2> QED
    BY <1>1, <2>2, <2>3
<1>9. ASSUME y.mode = "demand", y.pc # "fast", NEW s \in Slot, s < y.at
      PROVE  Cause(s)'
  <2>1. s \in Nat /\ s >= 1 /\ x.at \in Nat /\ x.at >= 1
    BY <1>2, PoolAssumption DEF Slot
  <2>2. CASE y.at = 1
    BY <1>9, <2>1, <2>2
  <2>3. CASE /\ x.mode = "demand" /\ x.pc \notin {"fast", "failed"}
             /\ (y.at = x.at \/ y.at = x.at + 1)
    <3>1. CASE s < x.at
      BY <1>1, <1>4, <2>3, <3>1 DEF PassedOver
    <3>2. CASE ~(s < x.at)
      <4>1. s = x.at /\ y.at > x.at
        BY <1>9, <2>1, <2>3, <3>2
      <4> QED
        BY <1>1, <1>5, <2>3, <4>1
    <3> QED
      BY <3>1, <3>2
  <2> QED
    BY <1>6, <1>9, <2>2, <2>3 DEF Tries
<1>10. ASSUME NEW q \in Reader
       PROVE  PassedOver(reader[q])' /\ (Recovers(reader[q])' => dead' # {})
  <2>1. CASE q = r
    <3>1. reader'[q] = y
      BY <2>1 DEF y
    <3> QED
      BY <1>7, <1>8, <1>9, <3>1 DEF PassedOver, Recovers
  <2>2. CASE q # r
    <3>1. reader'[q] = reader[q]
      BY <1>2, <1>3, <2>2
    <3>2. PassedOver(reader[q]) /\ (Recovers(reader[q]) => dead # {})
      BY DEF TriedOK
    <3> QED
      BY <1>1, <3>1, <3>2 DEF PassedOver, Recovers
  <2> QED
    BY <2>1, <2>2
<1> QED
  BY <1>10 DEF TriedOK

LEMMA AlwaysTried == Spec => []TriedOK
<1>1. Init => TriedOK
  BY PoolAssumption DEF Init, TriedOK, PassedOver, Recovers, Slot
<1>2. PoolInv /\ IInv /\ TriedOK /\ [Next]_vars => TriedOK'
  <2> SUFFICES ASSUME PoolInv, IInv, TriedOK, [Next]_vars PROVE TriedOK'
    OBVIOUS
  <2>1. CASE Time \/ UNCHANGED vars
    <3>1. reader' = reader /\ calls' = calls /\ dead \subseteq dead'
      BY <2>1 DEF Time, Expire, BreakerCools, BackoffEnds, NegativeEnds, vars, poolVars,
                  breakerVars, memoVars, flightVars, outsideVars
    <3>2. \A s : Cause(s) => Cause(s)'
      BY <3>1 DEF Cause, Failed
    <3> QED
      BY <3>1, <3>2 DEF TriedOK, PassedOver, Recovers
  <2>2. ASSUME NEW r \in Reader, Step(r) \/ Rejected(r) \/ Leave(r) PROVE TriedOK'
    <3>1. Fits(r)
      BY <2>2, StepFits
    <3>2. Tries(reader[r], reader'[r])
      BY <2>2, TryTries, ResolveTries, RecoverTries DEF Step
    <3> QED
      BY <3>1, <3>2, TriesKeeps
  <2> QED
    BY <2>1, <2>2 DEF Next
<1> QED
  BY <1>1, <1>2, AlwaysPoolInv, PTL DEF Spec

\* The code reserves AllSameTfDeliveryFailed for every viable provider exhausted.  What
\* of it is true: a read that never reacquired fails only when a call of every provider
\* has failed or a capability of it has died (manager.rs).
EveryProviderTried ==
  \A r \in Reader : At(r, "failed") /\ "reacquire" \notin reader[r].spent =>
    \A s \in Slot : \E e \in Failed \cup dead : calls[e].key[1] = s

\* A first acquisition gives up only with a cause at every provider, whatever other reads
\* do meanwhile (acquire_for_read, try_slot).
THEOREM FailsAfterEveryProvider == Spec => []EveryProviderTried
<1>1. TriedOK => EveryProviderTried
  BY DEF TriedOK, PassedOver, EveryProviderTried, Cause, At
<1> QED
  BY <1>1, AlwaysTried, PTL

\* And as long as no capability has died, AllSameTfDeliveryFailed is what the code says it
\* is: the dishonest exhaustion takes a recovery (acquire_for_read, reacquire_for_read).
THEOREM HonestWhileAlive == Spec => [](dead = {} => HonestExhaustion)
<1>1. TriedOK => (dead = {} => HonestExhaustion)
  <2> SUFFICES ASSUME TriedOK, dead = {}, NEW r \in Reader, At(r, "failed")
               PROVE  Failed # {}
    BY DEF HonestExhaustion
  <2>1. reader[r].spent = {} /\ PassedOver(reader[r])
    BY DEF TriedOK, Recovers
  <2>2. 1 \in Slot
    BY PoolAssumption DEF Slot
  <2>3. Cause(1)
    BY <2>1, <2>2 DEF PassedOver, At
  <2> QED
    BY <2>3 DEF Cause
<1> QED
  BY <1>1, AlwaysTried, PTL

----------------------------------------------------------------------------
(* A fill and its stager *)

\* The stager counts bytes and never looks at them, so that a chunk is whole rests on
\* the count: it is of bytes written once each (Honest).  That it loses none is the
\* other direction, and holds while nothing has failed (Exact).  Both speak of the
\* bytes read so far, R, which the position of the reader determines (ReadSoFar).

\* Arithmetic of the grid.
LEMMA GridOf ==
    /\ \A o \in Nat : IndexOf(o) \in Nat
    /\ \A o, u \in Nat : o <= u => IndexOf(o) <= IndexOf(u)
    /\ \A o, u \in Nat : o <= u /\ u < o + ChunkLen => IndexOf(u) <= IndexOf(o) + 1
    /\ \A c \in Nat : c * ChunkLen \in Nat /\ IndexOf(c * ChunkLen) = c
    /\ \A o \in Nat : IndexOf(o) * ChunkLen <= o
<1>1. ChunkLen \in Nat \ {0}
  BY StagingAssumption
<1>2. \A o \in Nat : /\ IndexOf(o) \in Nat /\ IndexOf(o) * ChunkLen \in Nat
                     /\ IndexOf(o) * ChunkLen <= o
                     /\ o < IndexOf(o) * ChunkLen + ChunkLen
  BY <1>1, SMTT(30) DEF IndexOf
<1>3. ASSUME NEW a \in Nat, NEW b \in Nat, a < b
      PROVE  a * ChunkLen \in Nat /\ b * ChunkLen \in Nat /\ a * ChunkLen + ChunkLen <= b * ChunkLen
  BY <1>1, <1>3, SMTT(30)
<1>4. \A c \in Nat : c * ChunkLen \in Nat
  BY <1>1, SMTT(30)
<1>5. ASSUME NEW o \in Nat, NEW u \in Nat, o <= u
      PROVE  IndexOf(o) <= IndexOf(u)
  <2>1. CASE IndexOf(u) < IndexOf(o)
    <3>1. IndexOf(u) * ChunkLen + ChunkLen <= IndexOf(o) * ChunkLen
      BY <1>2, <1>3, <2>1
    <3> HIDE DEF IndexOf
    <3> QED
      BY <1>1, <1>2, <1>5, <3>1
  <2> QED
    BY <1>2, <2>1
<1>6. ASSUME NEW o \in Nat, NEW u \in Nat, o <= u, u < o + ChunkLen
      PROVE  IndexOf(u) <= IndexOf(o) + 1
  <2>1. CASE IndexOf(o) + 1 < IndexOf(u)
    <3>1. (IndexOf(o) + 1) * ChunkLen + ChunkLen <= IndexOf(u) * ChunkLen
      BY <1>2, <1>3, <2>1
    <3>2. (IndexOf(o) + 1) * ChunkLen = IndexOf(o) * ChunkLen + ChunkLen
      BY <1>1, <1>2, SMTT(30)
    <3> QED
      BY <1>1, <1>2, <1>6, <3>1, <3>2
  <2> QED
    BY <1>2, <2>1
<1>7. ASSUME NEW c \in Nat
      PROVE  IndexOf(c * ChunkLen) = c
  <2>1. c * ChunkLen \in Nat
    BY <1>4
  <2>2. CASE IndexOf(c * ChunkLen) < c
    <3>1. IndexOf(c * ChunkLen) * ChunkLen + ChunkLen <= c * ChunkLen
      BY <1>2, <1>3, <2>1, <2>2
    <3> QED
      BY <1>1, <1>2, <2>1, <3>1
  <2>3. CASE c < IndexOf(c * ChunkLen)
    <3>1. c * ChunkLen + ChunkLen <= IndexOf(c * ChunkLen) * ChunkLen
      BY <1>2, <1>3, <2>1, <2>3
    <3> QED
      BY <1>1, <1>2, <2>1, <3>1
  <2> QED
    BY <1>2, <2>1, <2>2, <2>3
<1> QED
  BY <1>2, <1>4, <1>5, <1>6, <1>7

\* The chunks of the file, and the bytes of each.
LEMMA ChunksOf ==
    /\ Chunk \subseteq Nat /\ NoChunk \notin Chunk /\ Offset \subseteq Nat
    /\ \A o \in Offset : IndexOf(o) \in Chunk /\ o \in BytesOf(IndexOf(o))
    /\ \A c \in Chunk : BytesOf(c) # {} /\ BytesOf(c) \subseteq Offset
    /\ \A c, d : c # d => BytesOf(c) \cap BytesOf(d) = {}
<1>1. FileLen \in Nat \ {0} /\ FileLen - 1 \in Nat /\ Offset \subseteq Nat
  BY StagingAssumption DEF Offset
<1>2. Chunk \subseteq Nat /\ NoChunk \notin Chunk
  BY <1>1, GridOf DEF Chunk, NoChunk
<1>3. \A o \in Offset : IndexOf(o) \in Chunk /\ o \in BytesOf(IndexOf(o))
  <2> SUFFICES ASSUME NEW o \in Offset PROVE IndexOf(o) \in Chunk /\ o \in BytesOf(IndexOf(o))
    OBVIOUS
  <2>1. o \in Nat /\ o <= FileLen - 1
    BY <1>1 DEF Offset
  <2>2. IndexOf(o) \in Nat /\ IndexOf(FileLen - 1) \in Nat /\ IndexOf(o) <= IndexOf(FileLen - 1)
    BY <1>1, <2>1, GridOf
  <2> QED
    BY <2>2 DEF Chunk, BytesOf
<1>4. ASSUME NEW c \in Chunk PROVE BytesOf(c) # {}
  <2>1. c \in Nat /\ IndexOf(FileLen - 1) \in Nat /\ c <= IndexOf(FileLen - 1)
    BY <1>1, <1>2, GridOf DEF Chunk
  <2>2. c * ChunkLen \in Nat /\ IndexOf(c * ChunkLen) = c
    BY <2>1, GridOf
  <2>3. c * ChunkLen <= FileLen - 1
    <3>1. CASE c = IndexOf(FileLen - 1)
      BY <1>1, <3>1, GridOf
    <3>2. CASE c < IndexOf(FileLen - 1)
      <4>1. FileLen - 1 < c * ChunkLen => IndexOf(FileLen - 1) <= c
        BY <1>1, <2>1, <2>2, GridOf
      <4> QED
        BY <1>1, <2>1, <2>2, <3>2, <4>1
    <3> QED
      BY <2>1, <3>1, <3>2
  <2> QED
    BY <1>1, <2>2, <2>3 DEF BytesOf, Offset
<1>5. \A c, d : c # d => BytesOf(c) \cap BytesOf(d) = {}
  BY DEF BytesOf
<1>6. \A c \in Chunk : BytesOf(c) \subseteq Offset
  BY DEF BytesOf
<1> QED
  BY <1>1, <1>2, <1>3, <1>4, <1>5, <1>6

LEMMA BytesAreFinite ==
    ASSUME NEW S \in SUBSET Offset
    PROVE  /\ IsFiniteSet(S) /\ Cardinality(S) \in Nat
           /\ \A c : /\ IsFiniteSet(S \cap BytesOf(c)) /\ Cardinality(S \cap BytesOf(c)) \in Nat
                     /\ IsFiniteSet(BytesOf(c)) /\ Cardinality(BytesOf(c)) \in Nat
                     /\ Cardinality(S \cap BytesOf(c)) <= Cardinality(BytesOf(c))
                     /\ Cardinality(S \cap BytesOf(c)) = Cardinality(BytesOf(c)) => BytesOf(c) \subseteq S
<1>1. IsFiniteSet(Offset)
  BY StagingAssumption, FS_Interval DEF Offset
<1>2. IsFiniteSet(S) /\ Cardinality(S) \in Nat
  BY <1>1, FS_Subset, FS_CardinalityType
<1>3. ASSUME NEW c
      PROVE  /\ IsFiniteSet(S \cap BytesOf(c)) /\ Cardinality(S \cap BytesOf(c)) \in Nat
             /\ IsFiniteSet(BytesOf(c)) /\ Cardinality(BytesOf(c)) \in Nat
             /\ Cardinality(S \cap BytesOf(c)) <= Cardinality(BytesOf(c))
             /\ Cardinality(S \cap BytesOf(c)) = Cardinality(BytesOf(c)) => BytesOf(c) \subseteq S
  <2>1. BytesOf(c) \in SUBSET Offset /\ S \cap BytesOf(c) \in SUBSET BytesOf(c)
    BY DEF BytesOf
  <2>2. IsFiniteSet(BytesOf(c)) /\ Cardinality(BytesOf(c)) \in Nat
    BY <1>1, <2>1, FS_Subset, FS_CardinalityType
  <2>3. /\ IsFiniteSet(S \cap BytesOf(c))
        /\ Cardinality(S \cap BytesOf(c)) <= Cardinality(BytesOf(c))
        /\ Cardinality(BytesOf(c)) = Cardinality(S \cap BytesOf(c)) => BytesOf(c) = S \cap BytesOf(c)
    BY <2>1, <2>2, FS_Subset
  <2>4. Cardinality(S \cap BytesOf(c)) \in Nat
    BY <2>3, FS_CardinalityType
  <2> QED
    BY <2>2, <2>3, <2>4
<1> QED
  BY <1>2, <1>3

LEMMA DisjointAdds ==
    ASSUME NEW S, NEW B, IsFiniteSet(S), IsFiniteSet(B), S \cap B = {}
    PROVE  Cardinality(S \cup B) = Cardinality(S) + Cardinality(B)
<1>1. Cardinality(S \cup B) = Cardinality(S) + Cardinality(B) - Cardinality(S \cap B)
  BY FS_Union
<1>2. Cardinality(S \cap B) = 0
  BY FS_EmptySet
<1>3. Cardinality(S) \in Nat /\ Cardinality(B) \in Nat
  BY FS_CardinalityType
<1> QED
  BY <1>1, <1>2, <1>3

----------------------------------------------------------------------------
\* The stager. R is the set of the bytes read so far.

Staging == [cur : Chunk \cup {NoChunk}, written : Nat, pending : [Chunk -> Nat],
            tmp : SUBSET Offset, tmpFiles : SUBSET Chunk, object : SUBSET Offset,
            row : SUBSET Chunk, err : BOOLEAN]

\* The bytes of chunk c the stager has counted.
Count(st, c) == IF c = st.cur THEN st.written ELSE st.pending[c]

\* It has counted no byte twice, nor one it has not written, and what it has
\* published is whole: faults and all.
Honest(st, R) ==
  /\ st \in Staging
  /\ st.tmp \subseteq R
  /\ st.cur # NoChunk => st.pending[st.cur] = 0
  /\ \A c \in Chunk : /\ Count(st, c) <= Cardinality(st.tmp \cap BytesOf(c))
                      /\ c \in st.row => BytesOf(c) \subseteq st.object

\* Nothing has failed: it has counted what was read, and published what was
\* read whole.
Exact(st, R) ==
  /\ ~st.err
  /\ \A c \in Chunk : /\ c \in st.row <=> BytesOf(c) \subseteq R
                      /\ c \notin st.row =>
                           /\ st.tmp \cap BytesOf(c) = R \cap BytesOf(c)
                           /\ Count(st, c) = Cardinality(R \cap BytesOf(c))

\* To open a chunk's file changes no count, but that of a chunk it cannot open.
LEMMA OpenCounts ==
    ASSUME NEW R \in SUBSET Offset, NEW st, Honest(st, R), ~st.err, NEW c \in Chunk, NEW k \in Fault
    PROVE  /\ Honest(Open(st, c, k), R)
           /\ Open(st, c, k).cur = c \/ Open(st, c, k).err
           /\ k = "none" => /\ Open(st, c, k).cur = c
                            /\ Exact(st, R) => Exact(Open(st, c, k), R)
<1>1. st \in Staging
  BY DEF Honest
<1>2. CASE st.cur = c
  BY <1>2 DEF Open
<1>3. CASE st.cur # c
  <2> DEFINE parked == IF st.cur = NoChunk THEN st.pending
                       ELSE [st.pending EXCEPT ![st.cur] = st.written]
             pending == [parked EXCEPT ![c] = 0]
             q == [st EXCEPT !.cur = NoChunk, !.written = 0, !.pending = pending, !.err = TRUE]
             r == [st EXCEPT !.cur = c, !.written = parked[c], !.pending = pending,
                             !.tmpFiles = @ \cup {c}]
  <2>1. /\ parked \in [Chunk -> Nat] /\ pending \in [Chunk -> Nat]
        /\ \A d \in Chunk : parked[d] = Count(st, d)
        /\ pending[c] = 0 /\ \A d \in Chunk \ {c} : pending[d] = parked[d]
    <3>1. /\ st.pending \in [Chunk -> Nat] /\ st.written \in Nat
          /\ st.cur \in Chunk \cup {NoChunk} /\ NoChunk \notin Chunk
      BY <1>1, ChunksOf DEF Staging
    <3> QED
      BY <3>1 DEF Count
  <2>2. Open(st, c, k) = IF k = "open" THEN q ELSE r
    BY <1>1, <1>3 DEF Open, Staging
  <2> HIDE DEF parked, pending
  <2>3. /\ q \in Staging /\ q.cur = NoChunk /\ q.err /\ q.pending = pending
        /\ q.tmp = st.tmp /\ q.object = st.object /\ q.row = st.row
    BY <1>1, <2>1 DEF Staging
  <2>4. /\ r \in Staging /\ r.cur = c /\ r.written = parked[c] /\ r.pending = pending
        /\ r.err = st.err /\ r.tmp = st.tmp /\ r.object = st.object /\ r.row = st.row
    BY <1>1, <2>1 DEF Staging
  <2> HIDE DEF q, r
  <2>5. \A d \in Chunk : Count(q, d) <= Count(st, d) /\ Count(r, d) = Count(st, d)
    <3> TAKE d \in Chunk
    <3>1. NoChunk \notin Chunk /\ parked[d] \in Nat
      BY <2>1, ChunksOf
    <3>2. Count(q, d) = pending[d] /\ Count(r, d) = IF d = c THEN parked[c] ELSE pending[d]
      BY <2>3, <2>4, <3>1 DEF Count
    <3> QED
      BY <2>1, <3>1, <3>2
  <2>6. \A d \in Chunk : Count(q, d) \in Nat /\ Count(st, d) \in Nat
                         /\ Cardinality(st.tmp \cap BytesOf(d)) \in Nat
    <3>1. st.tmp \in SUBSET Offset
      BY <1>1 DEF Staging
    <3> QED
      BY <1>1, <2>3, <3>1, BytesAreFinite DEF Count, Staging
  <2>7. Honest(q, R)
    BY <2>3, <2>5, <2>6 DEF Honest
  <2>8. Honest(r, R)
    BY <2>1, <2>4, <2>5 DEF Honest
  <2>9. Exact(st, R) => Exact(r, R)
    BY <2>4, <2>5 DEF Exact
  <2> QED
    BY <2>2, <2>3, <2>4, <2>7, <2>8, <2>9
<1> QED
  BY <1>2, <1>3

\* A chunk is published when its count says that it is complete, and it is.
LEMMA PromoteCounts ==
    ASSUME NEW R \in SUBSET Offset, NEW st, Honest(st, R), ~st.err, NEW c \in Chunk, NEW k \in Fault,
           st.cur = c, st.written = Cardinality(BytesOf(c))
    PROVE  /\ Honest(Promote(st, c, k), R)
           /\ BytesOf(c) \subseteq R
           /\ k = "none" =>
                /\ ~Promote(st, c, k).err /\ Promote(st, c, k).row = st.row \cup {c}
                /\ \A d \in Chunk \ {c} :
                     /\ Count(Promote(st, c, k), d) = Count(st, d)
                     /\ Promote(st, c, k).tmp \cap BytesOf(d) = st.tmp \cap BytesOf(d)
<1> DEFINE object == (st.object \ BytesOf(c)) \cup (st.tmp \cap BytesOf(c))
           q == [st EXCEPT !.cur = NoChunk, !.written = 0, !.err = TRUE]
           r == [st EXCEPT !.cur = NoChunk, !.written = 0, !.tmp = @ \ BytesOf(c),
                           !.tmpFiles = @ \ {c}, !.object = object]
           f == [r EXCEPT !.err = TRUE]
           p == [r EXCEPT !.row = @ \cup {c}]
<1>1. st \in Staging /\ st.tmp \in SUBSET Offset /\ st.pending[c] = 0 /\ NoChunk \notin Chunk
  BY ChunksOf DEF Honest, Staging
<1>2. BytesOf(c) \subseteq st.tmp
  <2>1. Count(st, c) <= Cardinality(st.tmp \cap BytesOf(c)) /\ Count(st, c) = Cardinality(BytesOf(c))
    BY DEF Honest, Count
  <2>2. /\ Cardinality(st.tmp \cap BytesOf(c)) \in Nat /\ Cardinality(BytesOf(c)) \in Nat
        /\ Cardinality(st.tmp \cap BytesOf(c)) <= Cardinality(BytesOf(c))
        /\ Cardinality(st.tmp \cap BytesOf(c)) = Cardinality(BytesOf(c)) => BytesOf(c) \subseteq st.tmp
    BY <1>1, BytesAreFinite
  <2> QED
    BY <2>1, <2>2
<1>3. Promote(st, c, k) = IF k = "rename" THEN q ELSE IF k = "insert" THEN f ELSE p
  BY DEF Promote
<1>4. object \in SUBSET Offset /\ BytesOf(c) \subseteq object
      /\ \A d \in Chunk : d \in st.row => BytesOf(d) \subseteq object
  <2>1. \A d \in Chunk : d \in st.row => BytesOf(d) \subseteq st.object
    BY DEF Honest
  <2> QED
    BY <1>1, <1>2, <2>1, ChunksOf DEF Staging
<1> HIDE DEF object
<1>5. /\ q \in Staging /\ q.cur = NoChunk /\ q.pending = st.pending
      /\ q.tmp = st.tmp /\ q.object = st.object /\ q.row = st.row
  BY <1>1 DEF Staging
<1>6. /\ r \in Staging /\ r.cur = NoChunk /\ r.pending = st.pending /\ r.err = st.err
      /\ r.tmp = st.tmp \ BytesOf(c) /\ r.object = object /\ r.row = st.row
  BY <1>1, <1>4 DEF Staging
<1> HIDE DEF q, r
<1>7. /\ f \in Staging /\ f.cur = NoChunk /\ f.pending = st.pending
      /\ f.tmp = st.tmp \ BytesOf(c) /\ f.object = object /\ f.row = st.row
  BY <1>6 DEF Staging
<1>8. /\ p \in Staging /\ p.cur = NoChunk /\ p.pending = st.pending /\ p.err = st.err
      /\ p.tmp = st.tmp \ BytesOf(c) /\ p.object = object /\ p.row = st.row \cup {c}
  BY <1>6 DEF Staging
<1> HIDE DEF f, p
<1>9. ASSUME NEW z \in {q, f, p}
      PROVE  \A d \in Chunk : /\ d = c => Count(z, d) = 0
                              /\ d # c => Count(z, d) = Count(st, d)
                                          /\ z.tmp \cap BytesOf(d) = st.tmp \cap BytesOf(d)
  <2> TAKE d \in Chunk
  <2>1. z.cur = NoChunk /\ z.pending = st.pending /\ z.tmp \in {st.tmp, st.tmp \ BytesOf(c)}
    BY <1>5, <1>7, <1>8
  <2>2. d # c => BytesOf(d) \cap BytesOf(c) = {}
    BY ChunksOf
  <2> QED
    BY <1>1, <2>1, <2>2 DEF Count
<1>10. ASSUME NEW z \in {q, f, p} PROVE Honest(z, R)
  <2>1. z \in Staging /\ z.cur = NoChunk /\ z.tmp \subseteq R /\ z.tmp \in SUBSET Offset
    BY <1>1, <1>5, <1>7, <1>8 DEF Honest
  <2>2. ASSUME NEW d \in Chunk PROVE Count(z, d) <= Cardinality(z.tmp \cap BytesOf(d))
    <3>1. Cardinality(z.tmp \cap BytesOf(d)) \in Nat
      BY <2>1, BytesAreFinite
    <3> QED
      BY <1>9, <3>1 DEF Honest
  <2>3. ASSUME NEW d \in Chunk, d \in z.row PROVE BytesOf(d) \subseteq z.object
    BY <1>4, <1>5, <1>7, <1>8, <2>3 DEF Honest
  <2> QED
    BY <2>1, <2>2, <2>3 DEF Honest
<1>11. BytesOf(c) \subseteq R
  BY <1>2 DEF Honest
<1> QED
  BY <1>3, <1>8, <1>9, <1>10, <1>11

\* New bytes of the open chunk are written and counted.
LEMMA WriteCounts ==
    ASSUME NEW R \in SUBSET Offset, NEW st, Honest(st, R), NEW c \in Chunk, NEW k \in Fault,
           st.cur = c \/ st.err, NEW B \in SUBSET BytesOf(c), B \cap R = {}
    PROVE  /\ Honest(Write(st, c, B, k), R \cup B)
           /\ k = "none" /\ st.cur = c /\ B # {} /\ Exact(st, R) => Exact(Write(st, c, B, k), R \cup B)
<1> DEFINE w == [st EXCEPT !.written = @ + Cardinality(B), !.tmp = @ \cup B]
           f == [st EXCEPT !.err = TRUE]
           Q == R \cup B
<1>1. /\ st \in Staging /\ st.tmp \in SUBSET Offset /\ NoChunk \notin Chunk
      /\ B \in SUBSET Offset /\ Q \in SUBSET Offset
  BY ChunksOf DEF Honest, Staging
<1>2. /\ IsFiniteSet(B) /\ Cardinality(B) \in Nat
      /\ \A d : IsFiniteSet(st.tmp \cap BytesOf(d)) /\ IsFiniteSet(R \cap BytesOf(d))
                /\ Cardinality(st.tmp \cap BytesOf(d)) \in Nat
  BY <1>1, BytesAreFinite
<1>3. Honest(st, Q)
  BY DEF Honest
<1>4. CASE st.err
  BY <1>3, <1>4 DEF Write, Exact
<1>5. CASE ~st.err /\ k = "write"
  <2>1. f \in Staging /\ f.cur = st.cur /\ f.written = st.written /\ f.pending = st.pending
        /\ f.tmp = st.tmp /\ f.row = st.row /\ f.object = st.object
    BY <1>1 DEF Staging
  <2>2. Write(st, c, B, k) = f
    BY <1>5 DEF Write
  <2> HIDE DEF f
  <2>3. Honest(f, Q)
    BY <1>3, <2>1 DEF Honest, Count
  <2> QED
    BY <1>5, <2>2, <2>3
<1>6. CASE ~st.err /\ k # "write"
  <2>1. /\ w \in Staging /\ w.cur = c /\ w.pending = st.pending /\ w.err = st.err
        /\ w.written = st.written + Cardinality(B) /\ w.tmp = st.tmp \cup B
        /\ w.object = st.object /\ w.row = st.row /\ st.cur = c
    <3> DEFINE sum == st.written + Cardinality(B)
               all == st.tmp \cup B
    <3>1. sum \in Nat /\ all \in SUBSET Offset /\ st.cur = c
      BY <1>1, <1>2, <1>6 DEF Staging
    <3>2. w = [st EXCEPT !.written = sum, !.tmp = all]
      BY <1>1 DEF Staging
    <3> HIDE DEF w, sum, all
    <3>3. /\ w \in Staging /\ w.cur = st.cur /\ w.pending = st.pending /\ w.err = st.err
          /\ w.written = sum /\ w.tmp = all /\ w.object = st.object /\ w.row = st.row
      BY <1>1, <3>1, <3>2 DEF Staging
    <3> QED
      BY <3>1, <3>3 DEF sum, all
  <2>2. Write(st, c, B, k) = IF w.written = Cardinality(BytesOf(c)) THEN Promote(w, c, k) ELSE w
    BY <1>6 DEF Write
  <2> HIDE DEF w
  <2>3. \A d \in Chunk \ {c} : /\ Count(w, d) = Count(st, d)
                               /\ w.tmp \cap BytesOf(d) = st.tmp \cap BytesOf(d)
                               /\ Q \cap BytesOf(d) = R \cap BytesOf(d)
                               /\ BytesOf(d) \subseteq Q <=> BytesOf(d) \subseteq R
    <3> TAKE d \in Chunk \ {c}
    <3>1. BytesOf(d) \cap BytesOf(c) = {} /\ BytesOf(d) \cap B = {}
      BY ChunksOf
    <3> QED
      BY <2>1, <3>1 DEF Count
  <2>4. Cardinality(w.tmp \cap BytesOf(c)) = Cardinality(st.tmp \cap BytesOf(c)) + Cardinality(B)
    <3>1. w.tmp \cap BytesOf(c) = (st.tmp \cap BytesOf(c)) \cup B
      BY <2>1
    <3>2. (st.tmp \cap BytesOf(c)) \cap B = {}
      BY DEF Honest
    <3> QED
      BY <1>2, <3>1, <3>2, DisjointAdds
  <2>5. Cardinality(Q \cap BytesOf(c)) = Cardinality(R \cap BytesOf(c)) + Cardinality(B)
    <3>1. Q \cap BytesOf(c) = (R \cap BytesOf(c)) \cup B
      OBVIOUS
    <3>2. (R \cap BytesOf(c)) \cap B = {}
      OBVIOUS
    <3> QED
      BY <1>2, <3>1, <3>2, DisjointAdds
  <2>6. Honest(w, Q)
    <3>1. \A d \in Chunk : Count(w, d) <= Cardinality(w.tmp \cap BytesOf(d))
      <4> TAKE d \in Chunk
      <4>1. Count(st, d) <= Cardinality(st.tmp \cap BytesOf(d)) /\ Count(st, d) \in Nat
        BY <1>1 DEF Honest, Count, Staging
      <4>2. CASE d = c
        <5>1. Count(w, c) = Count(st, c) + Cardinality(B)
          BY <2>1 DEF Count
        <5>2. Cardinality(st.tmp \cap BytesOf(c)) \in Nat /\ Cardinality(B) \in Nat
          BY <1>2
        <5> HIDE DEF Q
        <5> QED
          BY <2>4, <4>1, <4>2, <5>1, <5>2
      <4>3. CASE d # c
        BY <2>3, <4>1, <4>3
      <4> QED
        BY <4>2, <4>3
    <3> QED
      BY <2>1, <3>1 DEF Honest
  <2>7. ASSUME B # {}, Exact(st, R)
        PROVE  /\ c \notin w.row /\ w.tmp \cap BytesOf(c) = Q \cap BytesOf(c)
               /\ w.written = Cardinality(Q \cap BytesOf(c))
               /\ \A d \in Chunk \ {c} :
                    /\ d \in w.row <=> BytesOf(d) \subseteq Q
                    /\ d \notin w.row => /\ w.tmp \cap BytesOf(d) = Q \cap BytesOf(d)
                                         /\ Count(w, d) = Cardinality(Q \cap BytesOf(d))
    <3>1. c \notin w.row
      BY <2>1, <2>7 DEF Exact
    <3>2. st.tmp \cap BytesOf(c) = R \cap BytesOf(c) /\ st.written = Cardinality(R \cap BytesOf(c))
      BY <2>1, <2>7, <3>1 DEF Exact, Count
    <3>3. w.tmp \cap BytesOf(c) = Q \cap BytesOf(c) /\ w.written = Cardinality(Q \cap BytesOf(c))
      BY <2>1, <2>5, <3>2
    <3>4. ASSUME NEW d \in Chunk \ {c}
          PROVE  /\ d \in w.row <=> BytesOf(d) \subseteq Q
                 /\ d \notin w.row => /\ w.tmp \cap BytesOf(d) = Q \cap BytesOf(d)
                                      /\ Count(w, d) = Cardinality(Q \cap BytesOf(d))
      BY <2>1, <2>3, <2>7 DEF Exact
    <3> QED
      BY <3>1, <3>3, <3>4
  <2>8. CASE w.written = Cardinality(BytesOf(c))
    <3>1. Write(st, c, B, k) = Promote(w, c, k) /\ ~w.err
      BY <1>6, <2>1, <2>2, <2>8
    <3>2. /\ Honest(Promote(w, c, k), Q) /\ BytesOf(c) \subseteq Q
          /\ k = "none" =>
               /\ ~Promote(w, c, k).err /\ Promote(w, c, k).row = w.row \cup {c}
               /\ \A d \in Chunk \ {c} :
                    /\ Count(Promote(w, c, k), d) = Count(w, d)
                    /\ Promote(w, c, k).tmp \cap BytesOf(d) = w.tmp \cap BytesOf(d)
      <4>1. w.cur = c /\ ~w.err /\ Q \in SUBSET Offset /\ Honest(w, Q)
        BY <1>1, <2>1, <2>6, <3>1
      <4> HIDE DEF Q
      <4>2. Honest(Promote(w, c, k), Q) /\ BytesOf(c) \subseteq Q
        BY <2>8, <4>1, PromoteCounts
      <4>3. k = "none" =>
              /\ ~Promote(w, c, k).err /\ Promote(w, c, k).row = w.row \cup {c}
              /\ \A d \in Chunk \ {c} :
                   /\ Count(Promote(w, c, k), d) = Count(w, d)
                   /\ Promote(w, c, k).tmp \cap BytesOf(d) = w.tmp \cap BytesOf(d)
        BY <2>8, <4>1, PromoteCounts
      <4> QED
        BY <4>2, <4>3
    <3>3. ASSUME k = "none", B # {}, Exact(st, R) PROVE Exact(Promote(w, c, k), Q)
      <4> HIDE DEF Q
      <4> QED
        BY <2>7, <3>2, <3>3 DEF Exact
    <3> QED
      BY <3>1, <3>2, <3>3
  <2>9. CASE w.written # Cardinality(BytesOf(c))
    <3>1. ASSUME B # {}, Exact(st, R) PROVE Exact(w, Q)
      <4>1. ~(BytesOf(c) \subseteq Q)
        <5>1. BytesOf(c) \subseteq Q => Q \cap BytesOf(c) = BytesOf(c)
          OBVIOUS
        <5> QED
          BY <2>7, <2>9, <3>1, <5>1
      <4>2. Count(w, c) = w.written
        BY <2>1 DEF Count
      <4> HIDE DEF Q
      <4> QED
        BY <1>6, <2>1, <2>7, <3>1, <4>1, <4>2 DEF Exact
    <3> QED
      BY <2>2, <2>6, <2>9, <3>1
  <2> QED
    BY <2>8, <2>9
<1> QED
  BY <1>4, <1>5, <1>6

\* One piece of a frame.
LEMMA PutCounts ==
    ASSUME NEW R \in SUBSET Offset, NEW st, Honest(st, R), NEW c \in Chunk,
           NEW B \in SUBSET Offset, B \cap R = {}, NEW fault, fault[2] \in Fault
    PROVE  /\ Honest(Put(st, c, B, fault), R \cup (B \cap BytesOf(c)))
           /\ fault[1] # c /\ B \cap BytesOf(c) # {} /\ Exact(st, R)
                => Exact(Put(st, c, B, fault), R \cup (B \cap BytesOf(c)))
<1> DEFINE k == IF fault[1] = c THEN fault[2] ELSE "none"
           o == Open(st, c, k)
           D == B \cap BytesOf(c)
<1>1. CASE st.err
  BY <1>1 DEF Put, Honest, Exact
<1>2. CASE ~st.err
  <2>1. k \in Fault /\ Put(st, c, B, fault) = Write(o, c, D, k)
    BY <1>2 DEF Put, Fault
  <2>2. D \in SUBSET BytesOf(c) /\ D \cap R = {}
    OBVIOUS
  <2> HIDE DEF k, D
  <2>3. /\ Honest(o, R) /\ (o.cur = c \/ o.err)
        /\ k = "none" => o.cur = c /\ (Exact(st, R) => Exact(o, R))
    BY <1>2, <2>1, OpenCounts
  <2> HIDE DEF o
  <2>4. /\ Honest(Write(o, c, D, k), R \cup D)
        /\ k = "none" /\ o.cur = c /\ D # {} /\ Exact(o, R) => Exact(Write(o, c, D, k), R \cup D)
    BY <2>1, <2>2, <2>3, WriteCounts
  <2>5. fault[1] # c => k = "none"
    BY DEF k
  <2> USE DEF D
  <2> QED
    BY <2>1, <2>3, <2>4, <2>5
<1> QED
  BY <1>1, <1>2

\* A frame of bytes that were not read before.
LEMMA StageCounts ==
    ASSUME NEW R \in SUBSET Offset, NEW st, Honest(st, R), NEW n \in 1 .. MaxFrame,
           pos \in Nat, FrameBytes(n) \subseteq Offset, FrameBytes(n) \cap R = {},
           NEW fault, fault[2] \in Fault
    PROVE  /\ Honest(Stage(st, n, fault), R \cup FrameBytes(n))
           /\ fault[1] = NoChunk /\ Exact(st, R) => Exact(Stage(st, n, fault), R \cup FrameBytes(n))
<1> DEFINE B == FrameBytes(n)
           h == HeadChunk
           t == TailChunk(n)
           head == Put(st, h, B, fault)
           Q == R \cup (B \cap BytesOf(h))
<1>1. /\ n \in Nat \ {0} /\ n <= ChunkLen /\ ChunkLen \in Nat
      /\ pos \in B /\ pos + n - 1 \in B /\ pos + n - 1 \in Nat
  BY StagingAssumption DEF FrameBytes
<1>2. /\ h \in Chunk /\ pos \in BytesOf(h) /\ t \in Chunk /\ pos + n - 1 \in BytesOf(t)
      /\ NoChunk \notin Chunk
  BY <1>1, ChunksOf DEF HeadChunk, TailChunk
<1>3. B \subseteq BytesOf(h) \cup BytesOf(t)
  <2> SUFFICES ASSUME NEW o \in B PROVE IndexOf(o) \in {h, t}
    BY ChunksOf
  <2>1. o \in Nat /\ pos <= o /\ o <= pos + n - 1 /\ pos + n - 1 < pos + ChunkLen
    BY <1>1 DEF FrameBytes
  <2>2. /\ IndexOf(pos) <= IndexOf(o) /\ IndexOf(o) <= IndexOf(pos + n - 1)
        /\ IndexOf(pos + n - 1) <= IndexOf(pos) + 1
        /\ IndexOf(pos) \in Nat /\ IndexOf(o) \in Nat /\ IndexOf(pos + n - 1) \in Nat
    BY <1>1, <2>1, GridOf
  <2> QED
    BY <2>2 DEF HeadChunk, TailChunk
<1>4. /\ Stage(st, n, fault) = IF t = h THEN head ELSE Put(head, t, B, fault)
      /\ B \in SUBSET Offset /\ B \cap R = {}
  BY DEF Stage
<1> HIDE DEF B, h, t
<1>5. /\ Honest(head, Q) /\ Q \in SUBSET Offset
      /\ fault[1] = NoChunk /\ Exact(st, R) => Exact(head, Q)
  <2>1. B \cap BytesOf(h) # {}
    BY <1>1, <1>2
  <2>2. fault[1] = NoChunk => fault[1] # h
    BY <1>2
  <2> QED
    BY <1>2, <1>4, <2>1, <2>2, PutCounts
<1>6. CASE t = h
  <2>1. R \cup B = Q
    BY <1>3, <1>6
  <2> QED
    BY <1>4, <1>5, <1>6, <2>1 DEF B
<1>7. CASE t # h
  <2> DEFINE D == B \ Q
  <2>1. /\ D \in SUBSET Offset /\ D \cap Q = {}
        /\ D \cap BytesOf(t) = B \cap BytesOf(t) /\ Q \cup (D \cap BytesOf(t)) = R \cup B
    <3>1. BytesOf(t) \cap BytesOf(h) = {}
      BY <1>7, ChunksOf
    <3> QED
      BY <1>3, <1>4, <3>1
  <2>2. B \cap BytesOf(t) # {} /\ (fault[1] = NoChunk => fault[1] # t)
    BY <1>1, <1>2
  <2>3. Put(head, t, B, fault) = Put(head, t, D, fault)
    BY <2>1 DEF Put
  <2> HIDE DEF D, head, Q
  <2>4. /\ Honest(Put(head, t, D, fault), Q \cup (D \cap BytesOf(t)))
        /\ fault[1] # t /\ D \cap BytesOf(t) # {} /\ Exact(head, Q)
             => Exact(Put(head, t, D, fault), Q \cup (D \cap BytesOf(t)))
    BY <1>2, <1>5, <2>1, PutCounts
  <2> QED
    BY <1>4, <1>5, <1>7, <2>1, <2>2, <2>3, <2>4 DEF B
<1> QED
  BY <1>6, <1>7

\* What a call does to the stager keeps its type.
LEMMA StageTyped ==
    ASSUME NEW st \in Staging, NEW n \in 1 .. MaxFrame, pos \in Nat, FrameBytes(n) \subseteq Offset,
           NEW fault
    PROVE  Stage(st, n, fault) \in Staging
<1>1. ASSUME NEW s \in Staging, NEW c \in Chunk, NEW k
      PROVE  Open(s, c, k) \in Staging
  <2> DEFINE parked == IF s.cur = NoChunk THEN s.pending
                       ELSE [s.pending EXCEPT ![s.cur] = s.written]
             pending == [parked EXCEPT ![c] = 0]
  <2>1. parked \in [Chunk -> Nat] /\ parked[c] \in Nat /\ pending \in [Chunk -> Nat]
    BY DEF Staging
  <2>2. Open(s, c, k) =
          IF s.cur = c THEN s
          ELSE IF k = "open"
          THEN [s EXCEPT !.cur = NoChunk, !.written = 0, !.pending = pending, !.err = TRUE]
          ELSE [s EXCEPT !.cur = c, !.written = parked[c], !.pending = pending,
                         !.tmpFiles = @ \cup {c}]
    BY DEF Open, Staging
  <2> DEFINE w == parked[c]
  <2> HIDE DEF parked, pending, w
  <2>3. [s EXCEPT !.cur = NoChunk, !.written = 0, !.pending = pending, !.err = TRUE] \in Staging
    BY <2>1 DEF Staging
  <2>4. [s EXCEPT !.cur = c, !.written = w, !.pending = pending, !.tmpFiles = @ \cup {c}] \in Staging
    BY <2>1 DEF Staging, w
  <2> QED
    BY <2>2, <2>3, <2>4 DEF w
<1>2. ASSUME NEW s \in Staging, NEW c \in Chunk, NEW k
      PROVE  Promote(s, c, k) \in Staging
  <2> DEFINE object == (s.object \ BytesOf(c)) \cup (s.tmp \cap BytesOf(c))
             r == [s EXCEPT !.cur = NoChunk, !.written = 0, !.tmp = @ \ BytesOf(c),
                            !.tmpFiles = @ \ {c}, !.object = object]
  <2>1. object \in SUBSET Offset
    BY DEF Staging
  <2> HIDE DEF object
  <2>2. r \in Staging
    BY <2>1 DEF Staging
  <2>3. Promote(s, c, k) = IF k = "rename" THEN [s EXCEPT !.cur = NoChunk, !.written = 0, !.err = TRUE]
                           ELSE IF k = "insert" THEN [r EXCEPT !.err = TRUE]
                           ELSE [r EXCEPT !.row = @ \cup {c}]
    BY DEF Promote, object
  <2> HIDE DEF r
  <2>4. [s EXCEPT !.cur = NoChunk, !.written = 0, !.err = TRUE] \in Staging
    BY DEF Staging
  <2>5. [r EXCEPT !.err = TRUE] \in Staging
    BY <2>2 DEF Staging
  <2>6. [r EXCEPT !.row = @ \cup {c}] \in Staging
    BY <2>2 DEF Staging
  <2> QED
    BY <2>3, <2>4, <2>5, <2>6
<1>3. ASSUME NEW s \in Staging, NEW c \in Chunk, NEW k, NEW B \in SUBSET Offset
      PROVE  Write(s, c, B, k) \in Staging
  <2> DEFINE w == [s EXCEPT !.written = @ + Cardinality(B), !.tmp = @ \cup B]
  <2>1. Cardinality(B) \in Nat
    BY BytesAreFinite
  <2>2. w \in Staging
    <3>1. s.written + Cardinality(B) \in Nat /\ s.tmp \cup B \in SUBSET Offset
      BY <2>1 DEF Staging
    <3> QED
      BY <3>1 DEF Staging
  <2>3. Write(s, c, B, k) = IF s.err THEN s
                            ELSE IF k = "write" THEN [s EXCEPT !.err = TRUE]
                            ELSE IF w.written = Cardinality(BytesOf(c)) THEN Promote(w, c, k)
                            ELSE w
    BY DEF Write
  <2> HIDE DEF w
  <2>4. [s EXCEPT !.err = TRUE] \in Staging
    BY DEF Staging
  <2>5. Promote(w, c, k) \in Staging
    BY <1>2, <2>2
  <2> QED
    BY <2>2, <2>3, <2>4, <2>5
<1>4. ASSUME NEW s \in Staging, NEW c \in Chunk, NEW B \in SUBSET Offset
      PROVE  Put(s, c, B, fault) \in Staging
  <2> DEFINE k == IF fault[1] = c THEN fault[2] ELSE "none"
  <2>1. Open(s, c, k) \in Staging /\ B \cap BytesOf(c) \in SUBSET Offset
    BY <1>1
  <2>2. Put(s, c, B, fault) = IF s.err THEN s ELSE Write(Open(s, c, k), c, B \cap BytesOf(c), k)
    BY DEF Put
  <2> HIDE DEF k
  <2> QED
    BY <1>3, <2>1, <2>2
<1>5. HeadChunk \in Chunk /\ TailChunk(n) \in Chunk
  <2>1. pos \in Offset /\ pos + n - 1 \in Offset
    BY StagingAssumption DEF FrameBytes
  <2> QED
    BY <2>1, ChunksOf DEF HeadChunk, TailChunk
<1> QED
  BY <1>4, <1>5 DEF Stage

----------------------------------------------------------------------------
\* The fill's inductive invariant.

Excused == split /\ hedgeServed

\* Where the reader is, and what it has told the client.
PlaceInv ==
  /\ window[1] <= window[2] /\ (split => window[1] > 0)
  /\ span = 2 => split /\ served
  /\ pc = "span" => pos = IF span = 1 THEN 0 ELSE FileLen
  /\ pc = "read" => SpanStart(span) <= pos /\ pos <= SpanEnd(span) + 1
  /\ pc \in {"span", "read"} => ok /\ (served => span = 2)
  /\ pc = "tail" /\ ok => served
  /\ pc = "eof" => served

\* What the client has is the part of its window the reader has passed.
SentInv ==
  /\ \A i \in 1 .. Len(sent) : sent[i] = window[1] + i - 1 /\ sent[i] <= window[2]
  /\ ~gone /\ served => Len(sent) = window[2] - window[1] + 1
  /\ ~gone /\ ~served /\ pc \in {"span", "read"}
       => Len(sent) = IF pos <= window[1] THEN 0
                      ELSE IF pos > window[2] THEN window[2] - window[1] + 1
                      ELSE pos - window[1]

\* The reader may stage what it reads, and no other reader may before a race.
GateInv ==
  /\ span = 1 /\ ~hedgeServed => gate.primary /\ ~gate.hedge
  /\ ~Excused => /\ gate.hedge => hedged /\ pc # "span"
                 /\ pc = "span" => gate.primary
                 /\ pc = "read" => gate[lane]

ReadSoFar ==
  IF span = 1 THEN SpanStart(1) .. (pos - 1)
  ELSE (window[1] .. (FileLen - 1)) \cup (IF pc = "read" THEN 0 .. (pos - 1) ELSE {})

StageInv ==
  ~Excused =>
    /\ \A c \in disk.row : Whole(c)
    /\ pc \in {"span", "read"} => /\ Honest(Calm, ReadSoFar)
                                  /\ faults = 0 => Exact(Calm, ReadSoFar)
    /\ pc \notin {"span", "read"} /\ ok /\ faults = 0 /\ (split => span = 2 /\ pos = window[1])
         => disk.row = Chunk

FillInv == StagingTypeOK /\ PlaceInv /\ SentInv /\ GateInv /\ StageInv

\* A frame is of bytes not read before, and the reader is past it then.
LEMMA FrameIsNew ==
    ASSUME StagingTypeOK, PlaceInv, NEW n \in 1 .. MaxFrame, Yields(n),
           pos' = pos + n, UNCHANGED <<window, split, span, pc>>
    PROVE  /\ pos \in Nat /\ n \in Nat \ {0} /\ FrameBytes(n) \subseteq Offset
           /\ FrameBytes(n) \cap ReadSoFar = {} /\ ReadSoFar \subseteq Offset
           /\ ReadSoFar' = ReadSoFar \cup FrameBytes(n)
           /\ pos' \in 0 .. FileLen /\ pos' <= SpanEnd(span) + 1 /\ pos >= SpanStart(span)
<1>1. /\ FileLen \in Nat \ {0} /\ n \in Nat \ {0} /\ pos \in Nat
      /\ window[1] \in Nat /\ window[1] <= FileLen - 1
      /\ span \in 1 .. 2 /\ pc = "read"
  BY StagingAssumption DEF StagingTypeOK, Offset, Yields
<1>2. /\ SpanStart(span) <= pos /\ pos + n - 1 <= SpanEnd(span)
      /\ SpanStart(1) \in {0, window[1]} /\ SpanStart(2) = 0
      /\ SpanEnd(1) = FileLen - 1 /\ SpanEnd(2) = window[1] - 1
  BY <1>1 DEF PlaceInv, Yields, SpanStart, SpanEnd
<1>3. SpanStart(1)' = SpanStart(1)
  BY DEF SpanStart
<1>4. CASE span = 1
  BY <1>1, <1>2, <1>3, <1>4 DEF FrameBytes, ReadSoFar, Offset
<1>5. CASE span = 2
  BY <1>1, <1>2, <1>3, <1>5 DEF FrameBytes, ReadSoFar, Offset
<1> QED
  BY <1>1, <1>4, <1>5

LEMMA CalmTyped ==
    ASSUME StagingTypeOK
    PROVE  Calm \in Staging
BY DEF StagingTypeOK, Calm, Staging

\* The calls leave the stager what Stage makes of it.
LEMMA BecomesCalm ==
    ASSUME NEW st \in Staging, Becomes(st)
    PROVE  /\ stager' \in [cur : Chunk \cup {NoChunk}, written : Nat, pending : [Chunk -> Nat]]
           /\ disk' \in [tmp : SUBSET Offset, tmpFiles : SUBSET Chunk,
                         object : SUBSET Offset, row : SUBSET Chunk]
           /\ Calm' \in Staging /\ disk'.row = st.row /\ disk'.object = st.object
           /\ \A R : /\ Honest(st, R) => Honest(Calm', R)
                     /\ Exact(st, R) => Exact(Calm', R)
<1>1. /\ stager'.cur = st.cur /\ stager'.written = st.written /\ stager'.pending = st.pending
      /\ disk'.tmp = st.tmp /\ disk'.tmpFiles = st.tmpFiles
      /\ disk'.object = st.object /\ disk'.row = st.row
  BY DEF Becomes
<1>2. /\ stager' \in [cur : Chunk \cup {NoChunk}, written : Nat, pending : [Chunk -> Nat]]
      /\ disk' \in [tmp : SUBSET Offset, tmpFiles : SUBSET Chunk,
                    object : SUBSET Offset, row : SUBSET Chunk]
  BY DEF Becomes, Staging
<1> DEFINE z == Calm'
<1>3. /\ z \in Staging /\ z.cur = st.cur /\ z.written = st.written /\ z.pending = st.pending
      /\ z.tmp = st.tmp /\ z.row = st.row /\ z.object = st.object /\ ~z.err
  BY <1>1, <1>2 DEF Calm, Staging
<1> HIDE DEF z
<1>4. \A R : /\ Honest(st, R) => Honest(z, R)
             /\ Exact(st, R) => Exact(z, R)
  BY <1>3 DEF Honest, Exact, Count
<1> QED
  BY <1>1, <1>2, <1>3, <1>4 DEF z

\* A turn that stages its frame, with or without a fault.
LEMMA StagesKeep ==
    ASSUME StagingTypeOK, NEW n \in 1 .. MaxFrame, pos \in Nat, FrameBytes(n) \subseteq Offset,
           Stages(n)
    PROVE  /\ stager' \in [cur : Chunk \cup {NoChunk}, written : Nat, pending : [Chunk -> Nat]]
           /\ disk' \in [tmp : SUBSET Offset, tmpFiles : SUBSET Chunk,
                         object : SUBSET Offset, row : SUBSET Chunk]
           /\ faults' \in 0 .. MaxFaults
           /\ \A R \in SUBSET Offset :
                Honest(Calm, R) /\ FrameBytes(n) \cap R = {} =>
                  /\ Honest(Calm', R \cup FrameBytes(n))
                  /\ (faults = 0 => Exact(Calm, R)) =>
                       (faults' = 0 => Exact(Calm', R \cup FrameBytes(n)))
<1>1. PICK fault :
        /\ fault[2] \in Fault /\ Becomes(Stage(Calm, n, fault))
        /\ \/ fault[1] = NoChunk /\ UNCHANGED faults
           \/ faults < MaxFaults /\ faults' = faults + 1
  <2>1. CASE Becomes(Stage(Calm, n, <<NoChunk, "none">>)) /\ UNCHANGED faults
    <3>1. <<NoChunk, "none">>[1] = NoChunk /\ <<NoChunk, "none">>[2] \in Fault
      BY DEF Fault
    <3> QED
      BY <2>1, <3>1
  <2>2. CASE /\ faults < MaxFaults
             /\ \E c \in {HeadChunk, TailChunk(n)}, k \in Fault \ {"none"} :
                  Stage(Calm, n, <<c, k>>).err /\ Becomes(Stage(Calm, n, <<c, k>>))
             /\ faults' = faults + 1
    <3>1. PICK c \in {HeadChunk, TailChunk(n)}, k \in Fault \ {"none"} :
            Becomes(Stage(Calm, n, <<c, k>>))
      BY <2>2
    <3>2. <<c, k>>[2] \in Fault
      OBVIOUS
    <3> QED
      BY <2>2, <3>1, <3>2
  <2> QED
    BY <2>1, <2>2 DEF Stages
<1>2. Stage(Calm, n, fault) \in Staging
  BY CalmTyped, StageTyped
<1>3. faults \in 0 .. MaxFaults /\ MaxFaults \in Nat
  BY StagingAssumption DEF StagingTypeOK
<1>4. ASSUME NEW R \in SUBSET Offset, Honest(Calm, R), FrameBytes(n) \cap R = {}
      PROVE  /\ Honest(Calm', R \cup FrameBytes(n))
             /\ (faults = 0 => Exact(Calm, R)) =>
                  (faults' = 0 => Exact(Calm', R \cup FrameBytes(n)))
  <2> DEFINE st == Stage(Calm, n, fault)
             Q == R \cup FrameBytes(n)
  <2>1. /\ Honest(st, Q)
        /\ fault[1] = NoChunk /\ Exact(Calm, R) => Exact(st, Q)
    BY <1>1, <1>4, StageCounts
  <2>2. st \in Staging /\ Becomes(st)
    BY <1>1, <1>2
  <2> HIDE DEF st, Q
  <2>3. (Honest(st, Q) => Honest(Calm', Q)) /\ (Exact(st, Q) => Exact(Calm', Q))
    BY <2>2, BecomesCalm
  <2>4. faults' = 0 => fault[1] = NoChunk /\ faults = 0
    BY <1>1, <1>3
  <2> QED
    BY <2>1, <2>3, <2>4 DEF Q
<1>5. faults' \in 0 .. MaxFaults
  BY <1>1, <1>3
<1>6. /\ stager' \in [cur : Chunk \cup {NoChunk}, written : Nat, pending : [Chunk -> Nat]]
      /\ disk' \in [tmp : SUBSET Offset, tmpFiles : SUBSET Chunk,
                    object : SUBSET Offset, row : SUBSET Chunk]
  <2> DEFINE st == Stage(Calm, n, fault)
  <2>1. st \in Staging /\ Becomes(st)
    BY <1>1, <1>2
  <2> HIDE DEF st
  <2> QED
    BY <2>1, BecomesCalm
<1> QED
  BY <1>4, <1>5, <1>6

LEMMA TwiceTyped ==
    ASSUME StagingTypeOK, NEW n \in 1 .. MaxFrame, pos \in Nat, FrameBytes(n) \subseteq Offset,
           StagesTwice(n)
    PROVE  /\ stager' \in [cur : Chunk \cup {NoChunk}, written : Nat, pending : [Chunk -> Nat]]
           /\ disk' \in [tmp : SUBSET Offset, tmpFiles : SUBSET Chunk,
                         object : SUBSET Offset, row : SUBSET Chunk]
<1> DEFINE once == Stage(Calm, n, <<NoChunk, "none">>)
           st == Stage(once, n, <<NoChunk, "none">>)
<1>1. once \in Staging
  BY CalmTyped, StageTyped
<1> HIDE DEF once
<1>2. st \in Staging
  BY <1>1, StageTyped
<1>3. Becomes(st)
  BY DEF StagesTwice, once
<1> HIDE DEF st
<1> QED
  BY <1>2, <1>3, BecomesCalm

\* The client's part of a frame.
LEMMA DeliversKeeps ==
    ASSUME StagingTypeOK, PlaceInv, SentInv, NEW n \in 1 .. MaxFrame, Yields(n), Takes(n),
           UNCHANGED <<window, split, span, pc, served>>
    PROVE  sent' \in Seq(Offset) /\ gone' \in BOOLEAN /\ SentInv'
<1> DEFINE os == IF pos < window[1] THEN window[1] ELSE pos
           oe == IF pos + n - 1 > window[2] THEN window[2] ELSE pos + n - 1
           part == [i \in 1 .. (oe - os + 1) |-> os + i - 1]
<1>1. /\ FileLen \in Nat \ {0} /\ n \in Nat \ {0} /\ pos \in Nat /\ pc = "read"
      /\ window[1] \in Nat /\ window[2] \in Nat /\ window[1] <= window[2]
      /\ window[2] <= FileLen - 1 /\ span \in 1 .. 2 /\ pos' = pos + n
      /\ sent \in Seq(Offset) /\ gone \in BOOLEAN /\ pos + n - 1 <= FileLen - 1
  BY StagingAssumption DEF StagingTypeOK, Offset, Yields, PlaceInv, Takes, SpanEnd
<1>2. \/ UNCHANGED <<sent, gone>> /\ (gone \/ os > oe)
      \/ ~gone /\ os <= oe /\ sent' = sent \o part /\ UNCHANGED gone
      \/ gone' = TRUE /\ UNCHANGED sent
  <2>1. IF gone \/ os > oe
        THEN UNCHANGED <<sent, gone>>
        ELSE \/ sent' = sent \o part /\ UNCHANGED gone
             \/ gone' = TRUE /\ UNCHANGED sent
    BY DEF Takes, Delivers
  <2>2. os \in Int /\ oe \in Int
    BY <1>1
  <2> HIDE DEF os, oe, part
  <2> QED
    BY <2>1, <2>2
<1>3. os \in Nat /\ oe \in Nat /\ oe <= window[2] /\ os >= window[1] /\ oe <= FileLen - 1
  BY <1>1
<1>4. served => os > oe
  BY <1>1 DEF PlaceInv, Yields, SpanEnd
<1>5. Len(sent) \in Nat
  BY <1>1
<1>6. CASE UNCHANGED <<sent, gone>> /\ (gone \/ os > oe)
  <2>1. ~gone /\ ~served => Len(sent) = IF pos' <= window[1] THEN 0
                      ELSE IF pos' > window[2] THEN window[2] - window[1] + 1
                      ELSE pos' - window[1]
    BY <1>1, <1>6 DEF SentInv
  <2> QED
    BY <1>1, <1>6, <2>1 DEF SentInv
<1>7. CASE ~gone /\ os <= oe /\ sent' = sent \o part /\ UNCHANGED gone
  <2>1. part \in Seq(Offset) /\ Len(part) = oe - os + 1
        /\ \A i \in 1 .. Len(part) : part[i] = os + i - 1
    <3> DEFINE m == oe - os + 1
    <3>1. m \in Nat /\ os \in Nat /\ \A i \in 1 .. m : os + i - 1 \in Offset
      <4> HIDE DEF os, oe
      <4> QED
        BY <1>1, <1>3, <1>7 DEF Offset
    <3> HIDE DEF os, oe
    <3>2. part = [i \in 1 .. m |-> os + i - 1]
      OBVIOUS
    <3> HIDE DEF part, m
    <3>3. part \in [1 .. m -> Offset]
      BY <3>1, <3>2
    <3>4. part \in Seq(Offset) /\ DOMAIN part = 1 .. m
      BY <3>1, <3>3 DEF Seq
    <3>5. Len(part) = m
      BY <3>1, <3>4, LenProperties
    <3> QED
      BY <3>2, <3>4, <3>5 DEF m
  <2>2. Len(sent) = os - window[1] /\ ~served
    <3>0. window[1] \in Nat /\ window[2] \in Nat /\ pos \in Nat /\ os \in Nat
      BY <1>1, <1>3
    <3>1. ~served /\ os <= window[2]
      <4> HIDE DEF os, oe
      <4> QED
        BY <1>1, <1>3, <1>4, <1>7
    <3>2. Len(sent) = IF pos <= window[1] THEN 0
                      ELSE IF pos > window[2] THEN window[2] - window[1] + 1
                      ELSE pos - window[1]
      BY <1>1, <1>7, <3>1 DEF SentInv
    <3>3. CASE pos <= window[1]
      BY <1>1, <3>1, <3>2, <3>3
    <3>4. CASE pos > window[1]
      BY <1>1, <3>1, <3>2, <3>4
    <3> QED
      BY <1>1, <3>3, <3>4
  <2> HIDE DEF part
  <2>3. /\ sent' \in Seq(Offset) /\ Len(sent') = Len(sent) + Len(part)
        /\ \A i \in 1 .. Len(sent') :
             sent'[i] = IF i <= Len(sent) THEN sent[i] ELSE part[i - Len(sent)]
    BY <1>1, <1>7, <2>1
  <2>4. Len(sent') = oe - window[1] + 1
    <3> HIDE DEF os, oe
    <3>1. Len(sent') = (os - window[1]) + (oe - os + 1)
      BY <2>1, <2>2, <2>3
    <3>2. window[1] \in Nat /\ os \in Nat /\ oe \in Nat
      BY <1>1, <1>3
    <3> QED
      BY <3>1, <3>2
  <2>5. \A i \in 1 .. Len(sent') : sent'[i] = window[1] + i - 1 /\ sent'[i] <= window[2]
    <3> TAKE i \in 1 .. Len(sent')
    <3>1. CASE i <= Len(sent)
      BY <1>5, <2>3, <2>4, <3>1 DEF SentInv
    <3>2. CASE i > Len(sent)
      <4> HIDE DEF os, oe
      <4>0. i \in Nat /\ i <= Len(sent')
        BY <1>1, <1>3, <2>4
      <4>1. i - Len(sent) \in 1 .. Len(part)
        BY <1>3, <1>5, <2>1, <2>3, <2>4, <3>2, <4>0
      <4>2. part[i - Len(sent)] = window[1] + i - 1
        <5>1. part[i - Len(sent)] = os + (i - Len(sent)) - 1
          BY <2>1, <4>1
        <5>2. window[1] \in Nat /\ os \in Nat
          BY <1>1, <1>3
        <5> QED
          BY <1>5, <2>2, <4>0, <5>1, <5>2
      <4>3. i <= oe - window[1] + 1
        BY <2>4, <4>0
      <4>4. sent'[i] = part[i - Len(sent)]
        BY <1>5, <2>3, <3>2, <4>0
      <4>5. sent'[i] = window[1] + i - 1
        BY <4>2, <4>4
      <4>6. window[1] + i - 1 <= oe /\ oe <= window[2]
        <5>1. window[1] \in Nat /\ oe \in Nat /\ oe <= window[2] /\ window[2] \in Nat
          BY <1>1, <1>3
        <5> QED
          BY <4>0, <4>3, <5>1
      <4>7. sent'[i] \in Nat /\ oe \in Nat /\ window[2] \in Nat
        BY <1>1, <1>3, <4>0, <4>5
      <4> QED
        BY <4>5, <4>6, <4>7
    <3> QED
      BY <1>1, <1>3, <1>5, <2>4, <3>1, <3>2
  <2>6. Len(sent') = IF pos' <= window[1] THEN 0
                      ELSE IF pos' > window[2] THEN window[2] - window[1] + 1
                      ELSE pos' - window[1]
    BY <1>1, <1>7, <2>4
  <2> QED
    BY <1>1, <1>7, <2>2, <2>3, <2>5, <2>6 DEF SentInv
<1>8. CASE gone' = TRUE /\ UNCHANGED sent
  BY <1>1, <1>8 DEF SentInv
<1> QED
  BY <1>2, <1>6, <1>7, <1>8

\* What the invariant says of the variables no frame and no race touches.
StagerTyped == stager \in [cur : Chunk \cup {NoChunk}, written : Nat, pending : [Chunk -> Nat]]
DiskTyped == disk \in [tmp : SUBSET Offset, tmpFiles : SUBSET Chunk,
                       object : SUBSET Offset, row : SUBSET Chunk]

\* A turn that takes a frame, whichever reader it comes from, provided the frame
\* is staged once where a hedge has not won the first of two spans.
LEMMA FrameKeeps ==
    ASSUME FillInv, NEW n \in 1 .. MaxFrame, Yields(n), Takes(n),
           UNCHANGED <<window, split, span, served, ok, pc>>,
           \/ StagesNothing
           \/ Stages(n)
           \/ StagesTwice(n) /\ UNCHANGED faults,
           ~Excused' => ~Excused /\ Stages(n)
    PROVE  /\ StagerTyped' /\ DiskTyped' /\ faults' \in 0 .. MaxFaults
           /\ pos' \in 0 .. FileLen /\ sent' \in Seq(Offset) /\ gone' \in BOOLEAN
           /\ PlaceInv' /\ SentInv' /\ StageInv'
<1>1. StagingTypeOK /\ PlaceInv /\ SentInv /\ StageInv /\ pc = "read"
  BY DEF FillInv, Yields
<1>2. /\ pos \in Nat /\ n \in Nat \ {0} /\ FrameBytes(n) \subseteq Offset
      /\ FrameBytes(n) \cap ReadSoFar = {} /\ ReadSoFar \subseteq Offset
      /\ ReadSoFar' = ReadSoFar \cup FrameBytes(n)
      /\ pos' \in 0 .. FileLen /\ pos' <= SpanEnd(span) + 1 /\ pos >= SpanStart(span)
      /\ pos' = pos + n
  BY <1>1, FrameIsNew DEF Takes
<1>3. sent' \in Seq(Offset) /\ gone' \in BOOLEAN /\ SentInv'
  BY <1>1, DeliversKeeps
<1>4. PlaceInv'
  <2>1. SpanStart(span)' = SpanStart(span) /\ SpanEnd(span)' = SpanEnd(span)
    BY DEF SpanStart, SpanEnd
  <2>2. SpanStart(span) \in Int
    BY <1>1 DEF SpanStart, StagingTypeOK, Offset
  <2>3. SpanStart(span) <= pos'
    BY <1>2, <2>2
  <2> QED
    BY <1>1, <1>2, <2>1, <2>3 DEF PlaceInv
<1>5. StagerTyped' /\ DiskTyped' /\ faults' \in 0 .. MaxFaults
  <2>1. CASE StagesNothing
    BY <1>1, <2>1 DEF StagesNothing, StagingTypeOK, StagerTyped, DiskTyped
  <2>2. CASE Stages(n)
    BY <1>1, <1>2, <2>2, StagesKeep DEF StagerTyped, DiskTyped
  <2>3. CASE StagesTwice(n) /\ UNCHANGED faults
    <3>1. faults \in 0 .. MaxFaults
      BY <1>1 DEF StagingTypeOK
    <3> QED
      BY <1>1, <1>2, <2>3, <3>1, TwiceTyped DEF StagerTyped, DiskTyped
  <2> QED
    BY <2>1, <2>2, <2>3
<1>6. ASSUME ~Excused'
      PROVE  Honest(Calm', ReadSoFar') /\ (faults' = 0 => Exact(Calm', ReadSoFar'))
  <2>1. Honest(Calm, ReadSoFar) /\ (faults = 0 => Exact(Calm, ReadSoFar)) /\ Stages(n)
    BY <1>1, <1>6 DEF StageInv
  <2>2. \A R \in SUBSET Offset :
           Honest(Calm, R) /\ FrameBytes(n) \cap R = {} =>
             /\ Honest(Calm', R \cup FrameBytes(n))
             /\ (faults = 0 => Exact(Calm, R)) =>
                  (faults' = 0 => Exact(Calm', R \cup FrameBytes(n)))
    BY <1>1, <1>2, <2>1, StagesKeep
  <2> QED
    BY <1>2, <2>1, <2>2
<1>7. ASSUME ~Excused', NEW c \in disk'.row
      PROVE  Whole(c)'
  <2>1. Honest(Calm', ReadSoFar') /\ Calm'.row = disk'.row /\ Calm'.object = disk'.object
    BY <1>6, <1>7 DEF Calm
  <2>2. c \in Chunk
    BY <1>5 DEF DiskTyped
  <2> QED
    BY <1>7, <2>1, <2>2 DEF Honest, Whole
<1>8. StageInv'
  BY <1>1, <1>6, <1>7 DEF StageInv
<1> QED
  BY <1>2, <1>3, <1>4, <1>5, <1>8

\* A turn that stages nothing and reads nothing: the stager is as it was.
LEMMA NothingKeeps ==
    ASSUME FillInv, StagesNothing, UNCHANGED <<window, split, hedgeServed>>,
           pc' \in {"span", "read"} => pc \in {"span", "read"} /\ ReadSoFar' = ReadSoFar,
           pc' \notin {"span", "read"} /\ ok' /\ faults = 0 /\ (split => span' = 2 /\ pos' = window[1])
             /\ ~Excused => disk.row = Chunk
    PROVE  StageInv' /\ StagerTyped' /\ DiskTyped' /\ faults' \in 0 .. MaxFaults
<1>1. Calm' = Calm /\ disk' = disk /\ stager' = stager /\ faults' = faults
  BY DEF StagesNothing, Calm
<1>2. Excused' = Excused /\ \A c : Whole(c)' = Whole(c)
  BY <1>1 DEF Excused, Whole
<1>3. StageInv'
  BY <1>1, <1>2 DEF FillInv, StageInv
<1> QED
  BY <1>1, <1>3 DEF FillInv, StagingTypeOK, StagerTyped, DiskTyped

\* Types put together.
LEMMA TypesTogether ==
    ASSUME StagingTypeOK, UNCHANGED <<window, split>>,
           StagerTyped', DiskTyped', faults' \in 0 .. MaxFaults, pos' \in 0 .. FileLen,
           sent' \in Seq(Offset), gone' \in BOOLEAN, span' \in 1 .. 2,
           gate' \in [{"primary", "hedge"} -> BOOLEAN], lane' \in {"primary", "hedge"},
           hedged' \in BOOLEAN, served' \in BOOLEAN, ok' \in BOOLEAN,
           pc' \in {"span", "read", "tail", "eof", "failed"}, hedgeServed' \in BOOLEAN
    PROVE  StagingTypeOK'
BY DEF StagingTypeOK, StagerTyped, DiskTyped

LEMMA GateTyped ==
    ASSUME NEW a \in BOOLEAN, NEW b \in BOOLEAN
    PROVE  [primary |-> a, hedge |-> b] \in [{"primary", "hedge"} -> BOOLEAN]
<1> DEFINE g == [primary |-> a, hedge |-> b]
<1>1. DOMAIN g = {"primary", "hedge"} /\ g.primary = a /\ g.hedge = b
  OBVIOUS
<1>2. g = [l \in {"primary", "hedge"} |-> g[l]]
  OBVIOUS
<1> HIDE DEF g
<1> QED
  BY <1>1, <1>2 DEF g

LEMMA FillInitially == StagingInit => FillInv
<1> SUFFICES ASSUME StagingInit PROVE FillInv
  OBVIOUS
<1> USE DEF StagingInit
<1>1. /\ FileLen \in Nat \ {0} /\ MaxFaults \in Nat /\ NoChunk \notin Chunk
      /\ window \in Offset \X Offset /\ Offset \subseteq Nat
      /\ window[1] \in Nat /\ window[2] \in Nat /\ window[1] <= window[2]
  BY StagingAssumption, ChunksOf
<1>2. StagerTyped
  <2>1. [c \in Chunk |-> 0] \in [Chunk -> Nat]
    OBVIOUS
  <2> QED
    BY <2>1 DEF StagerTyped
<1>3. DiskTyped
  BY DEF DiskTyped
<1>4. StagingTypeOK
  <2>1. sent \in Seq(Offset) /\ pos \in 0 .. FileLen /\ faults \in 0 .. MaxFaults /\ span \in 1 .. 2
    BY <1>1
  <2>2. gate \in [{"primary", "hedge"} -> BOOLEAN]
    BY GateTyped
  <2> QED
    BY <1>1, <1>2, <1>3, <2>1, <2>2 DEF StagingTypeOK, StagerTyped, DiskTyped
<1>5. PlaceInv
  BY <1>1 DEF PlaceInv
<1>6. SentInv
  BY <1>1 DEF SentInv
<1>7. GateInv
  BY DEF GateInv
<1>8. StageInv
  <2>1. ReadSoFar = {}
    <3>1. SpanStart(1) \in Nat
      BY <1>1 DEF SpanStart
    <3> QED
      BY <3>1 DEF ReadSoFar
  <2>2. Calm \in Staging
    BY <1>4, CalmTyped
  <2> DEFINE z == Calm
  <2>3. /\ z.tmp = {} /\ z.cur = NoChunk /\ z.row = {} /\ ~z.err
        /\ \A c \in Chunk : z.pending[c] = 0
    BY DEF Calm
  <2> HIDE DEF z
  <2>4. \A c \in Chunk : /\ Count(z, c) = 0 /\ Cardinality({} \cap BytesOf(c)) = 0
                         /\ BytesOf(c) # {}
    <3> TAKE c \in Chunk
    <3>1. {} \cap BytesOf(c) = {}
      OBVIOUS
    <3>2. Cardinality({} \cap BytesOf(c)) = 0
      BY <3>1, FS_EmptySet
    <3> QED
      BY <1>1, <2>3, <3>2, ChunksOf DEF Count
  <2>5. Honest(z, {})
    BY <2>2, <2>3, <2>4 DEF Honest, z
  <2>6. Exact(z, {})
    BY <2>3, <2>4 DEF Exact
  <2> QED
    BY <2>1, <2>5, <2>6 DEF StageInv, z
<1> QED
  BY <1>4, <1>5, <1>6, <1>7, <1>8 DEF FillInv

LEMMA FillStep == FillInv /\ [StagingNext]_stagingVars => FillInv'
<1> SUFFICES ASSUME FillInv, [StagingNext]_stagingVars PROVE FillInv'
  OBVIOUS
<1>1. StagingTypeOK /\ PlaceInv /\ SentInv /\ GateInv /\ StageInv
  BY DEF FillInv
<1>2. /\ span \in 1 .. 2 /\ pos \in 0 .. FileLen /\ sent \in Seq(Offset) /\ gone \in BOOLEAN
      /\ gate \in [{"primary", "hedge"} -> BOOLEAN] /\ lane \in {"primary", "hedge"}
      /\ hedged \in BOOLEAN /\ served \in BOOLEAN /\ ok \in BOOLEAN /\ hedgeServed \in BOOLEAN
      /\ split \in BOOLEAN /\ pc \in {"span", "read", "tail", "eof", "failed"}
      /\ faults \in 0 .. MaxFaults
  BY <1>1 DEF StagingTypeOK
<1>3. /\ FileLen \in Nat \ {0} /\ Len(sent) \in Nat
      /\ window[1] \in Nat /\ window[2] \in Nat /\ window[1] <= window[2]
      /\ window[1] <= FileLen - 1 /\ window[2] <= FileLen - 1
  BY <1>1, <1>2, StagingAssumption DEF StagingTypeOK, Offset, PlaceInv
<1>4. /\ SpanStart(1) \in 0 .. window[1] /\ SpanStart(2) = 0
      /\ (~split => SpanStart(1) = 0) /\ (split => SpanStart(1) = window[1])
      /\ SpanEnd(1) = FileLen - 1 /\ SpanEnd(2) = window[1] - 1
  BY <1>3 DEF SpanStart, SpanEnd
<1>5. ASSUME NEW n \in 1 .. MaxFrame, ReadFrame(n)
      PROVE  FillInv'
  <2>1. /\ Yields(n) /\ Takes(n) /\ IF gate[lane] THEN Stages(n) ELSE StagesNothing
        /\ UNCHANGED <<window, split, span, gate, lane, hedged, served, ok, pc, hedgeServed>>
    BY <1>5 DEF ReadFrame, fillVars
  <2>2. ~Excused' => ~Excused /\ Stages(n)
    BY <1>1, <2>1 DEF GateInv, Excused, Yields
  <2>3. /\ StagerTyped' /\ DiskTyped' /\ faults' \in 0 .. MaxFaults
        /\ pos' \in 0 .. FileLen /\ sent' \in Seq(Offset) /\ gone' \in BOOLEAN
        /\ PlaceInv' /\ SentInv' /\ StageInv'
    BY <2>1, <2>2, FrameKeeps
  <2>4. GateInv'
    BY <1>1, <2>1 DEF GateInv, Excused
  <2>5. StagingTypeOK'
    BY <1>1, <1>2, <2>1, <2>3, TypesTogether
  <2> QED
    BY <2>3, <2>4, <2>5 DEF FillInv
<1>6. ASSUME NEW n \in 1 .. MaxFrame, PrimaryWins(n)
      PROVE  FillInv'
  <2>1. /\ Yields(n) /\ Takes(n) /\ Stages(n) /\ pc = "read" /\ ~hedged /\ hedged' = TRUE
        /\ gate' = [gate EXCEPT !.primary = TRUE]
        /\ UNCHANGED <<window, split, span, lane, served, ok, pc, hedgeServed>>
    BY <1>6 DEF PrimaryWins, Races, fillVars
  <2>2. ~Excused' => ~Excused /\ Stages(n)
    BY <2>1 DEF Excused
  <2>3. /\ StagerTyped' /\ DiskTyped' /\ faults' \in 0 .. MaxFaults
        /\ pos' \in 0 .. FileLen /\ sent' \in Seq(Offset) /\ gone' \in BOOLEAN
        /\ PlaceInv' /\ SentInv' /\ StageInv'
    BY <2>1, <2>2, FrameKeeps
  <2>4. GateInv'
    BY <1>1, <1>2, <2>1 DEF GateInv, Excused
  <2>5. StagingTypeOK'
    BY <1>1, <1>2, <2>1, <2>3, TypesTogether
  <2> QED
    BY <2>3, <2>4, <2>5 DEF FillInv
<1>7. ASSUME NEW n \in 1 .. MaxFrame, HedgeWins(n)
      PROVE  FillInv'
  <2>1. /\ Yields(n) /\ Takes(n) /\ pc = "read" /\ ~hedged /\ hedged' = TRUE
        /\ IF gate.hedge THEN StagesTwice(n) /\ UNCHANGED faults ELSE Stages(n)
        /\ gate' = [primary |-> FALSE, hedge |-> TRUE] /\ lane' = "hedge"
        /\ hedgeServed' = (hedgeServed \/ span = 1)
        /\ UNCHANGED <<window, split, span, served, ok, pc>>
    BY <1>7 DEF HedgeWins, Races, fillVars
  <2>2. ~Excused' => ~Excused /\ Stages(n)
    BY <1>1, <2>1 DEF Excused, GateInv
  <2>3. /\ StagerTyped' /\ DiskTyped' /\ faults' \in 0 .. MaxFaults
        /\ pos' \in 0 .. FileLen /\ sent' \in Seq(Offset) /\ gone' \in BOOLEAN
        /\ PlaceInv' /\ SentInv' /\ StageInv'
    BY <2>1, <2>2, FrameKeeps
  <2>4. GateInv'
    BY <1>1, <1>2, <2>1 DEF GateInv, Excused
  <2>5. StagingTypeOK'
    <3>1. gate' \in [{"primary", "hedge"} -> BOOLEAN]
      BY <2>1, GateTyped
    <3>2. hedgeServed' \in BOOLEAN
      BY <1>2, <2>1
    <3> QED
      BY <1>1, <1>2, <2>1, <2>3, <3>1, <3>2, TypesTogether
  <2> QED
    BY <2>3, <2>4, <2>5 DEF FillInv
<1>8. CASE OpenSpan
  <2>1. /\ pc = "span" /\ pc' = "read" /\ pos' = SpanStart(span) /\ lane' = "primary"
        /\ hedged' = FALSE /\ StagesNothing
        /\ UNCHANGED <<window, split, span, gate, sent, gone, served, ok, hedgeServed>>
    BY <1>8 DEF OpenSpan, fillVars
  <2>2. SpanStart(span)' = SpanStart(span) /\ SpanEnd(span)' = SpanEnd(span)
        /\ SpanStart(1)' = SpanStart(1)
    BY <2>1 DEF SpanStart, SpanEnd
  <2>3. pos' \in 0 .. FileLen
    BY <1>2, <1>3, <1>4, <2>1
  <2>4. PlaceInv'
    BY <1>1, <1>2, <1>3, <1>4, <2>1, <2>2 DEF PlaceInv
  <2>5. SentInv'
    BY <1>1, <1>2, <1>3, <1>4, <2>1 DEF SentInv, PlaceInv
  <2>6. GateInv'
    BY <1>1, <2>1 DEF GateInv, Excused
  <2>7. ReadSoFar' = ReadSoFar
    <3>1. CASE span = 1
      BY <1>1, <1>3, <1>4, <2>1, <2>2, <3>1 DEF ReadSoFar, PlaceInv
    <3>2. CASE span = 2
      BY <1>3, <1>4, <2>1, <2>2, <3>2 DEF ReadSoFar
    <3> QED
      BY <1>2, <3>1, <3>2
  <2>8. StageInv' /\ StagerTyped' /\ DiskTyped' /\ faults' \in 0 .. MaxFaults
    BY <2>1, <2>7, NothingKeeps
  <2>9. StagingTypeOK'
    BY <1>1, <1>2, <2>1, <2>3, <2>8, TypesTogether
  <2> QED
    BY <2>4, <2>5, <2>6, <2>8, <2>9 DEF FillInv
<1>9. CASE OpenFails \/ Terminal
  <2>1. /\ pc \in {"span", "read"} /\ pc' = "tail" /\ ok' = FALSE /\ StagesNothing
        /\ UNCHANGED <<window, split, span, pos, gate, lane, hedged, sent, gone, served, hedgeServed>>
    BY <1>9 DEF OpenFails, Terminal, fillVars
  <2>2. PlaceInv'
    BY <1>1, <2>1 DEF PlaceInv
  <2>3. SentInv'
    BY <1>1, <2>1 DEF SentInv
  <2>4. GateInv'
    BY <1>1, <2>1 DEF GateInv, Excused
  <2>5. StageInv' /\ StagerTyped' /\ DiskTyped' /\ faults' \in 0 .. MaxFaults
    BY <2>1, NothingKeeps
  <2>6. StagingTypeOK'
    BY <1>1, <1>2, <2>1, <2>5, TypesTogether
  <2> QED
    BY <2>2, <2>3, <2>4, <2>5, <2>6 DEF FillInv
<1>10. CASE SkipPrefix
  <2>1. /\ pc = "span" /\ span = 2 /\ pc' = "tail" /\ StagesNothing
        /\ UNCHANGED <<window, split, span, pos, gate, lane, hedged, sent, gone, served, ok, hedgeServed>>
    BY <1>10 DEF SkipPrefix, fillVars
  <2>2. PlaceInv'
    BY <1>1, <2>1 DEF PlaceInv
  <2>3. SentInv'
    BY <1>1, <2>1 DEF SentInv
  <2>4. GateInv'
    BY <1>1, <2>1 DEF GateInv, Excused
  <2>5. split /\ pos' # window[1]
    BY <1>1, <1>3, <2>1 DEF PlaceInv
  <2>6. StageInv' /\ StagerTyped' /\ DiskTyped' /\ faults' \in 0 .. MaxFaults
    BY <2>1, <2>5, NothingKeeps
  <2>7. StagingTypeOK'
    BY <1>1, <1>2, <2>1, <2>6, TypesTogether
  <2> QED
    BY <2>2, <2>3, <2>4, <2>6, <2>7 DEF FillInv
<1>11. CASE HedgeFails
  <2>1. /\ pc = "read" /\ ~hedged /\ hedged' = TRUE /\ StagesNothing
        /\ gate' = [gate EXCEPT !.primary = TRUE]
        /\ UNCHANGED <<window, split, span, pos, lane, sent, gone, served, ok, pc, hedgeServed>>
    BY <1>11 DEF HedgeFails, Races, fillVars
  <2>2. SpanStart(span)' = SpanStart(span) /\ SpanEnd(span)' = SpanEnd(span)
        /\ SpanStart(1)' = SpanStart(1)
    BY <2>1 DEF SpanStart, SpanEnd
  <2>3. PlaceInv'
    BY <1>1, <2>1, <2>2 DEF PlaceInv
  <2>4. SentInv'
    BY <1>1, <2>1 DEF SentInv
  <2>5. GateInv'
    BY <1>1, <1>2, <2>1 DEF GateInv, Excused
  <2>6. ReadSoFar' = ReadSoFar
    BY <2>1, <2>2 DEF ReadSoFar
  <2>7. StageInv' /\ StagerTyped' /\ DiskTyped' /\ faults' \in 0 .. MaxFaults
    BY <2>1, <2>6, NothingKeeps
  <2>8. StagingTypeOK'
    BY <1>1, <1>2, <2>1, <2>7, TypesTogether
  <2> QED
    BY <2>3, <2>4, <2>5, <2>7, <2>8 DEF FillInv
<1>12. CASE EndSpan
  <2>1. /\ pc = "read" /\ pos > SpanEnd(span) /\ served' = TRUE /\ StagesNothing
        /\ IF split /\ span = 1 THEN span' = 2 /\ pc' = "span"
                                ELSE pc' = "tail" /\ span' = span
        /\ UNCHANGED <<window, split, pos, gate, lane, hedged, sent, gone, ok, hedgeServed>>
    BY <1>12 DEF EndSpan, fillVars
  <2>2. /\ pos = SpanEnd(span) + 1 /\ ok /\ (served => span = 2) /\ (span = 2 => split /\ served)
    BY <1>1, <1>2, <1>3, <1>4, <2>1 DEF PlaceInv
  <2>3. PlaceInv'
    BY <1>1, <1>2, <1>3, <1>4, <2>1, <2>2 DEF PlaceInv
  <2>4. SentInv'
    <3>1. ~gone => Len(sent) = window[2] - window[1] + 1
      BY <1>1, <1>2, <1>3, <1>4, <2>1, <2>2 DEF SentInv
    <3> QED
      BY <1>1, <2>1, <3>1 DEF SentInv
  <2>5. GateInv'
    BY <1>1, <1>2, <2>1 DEF GateInv, Excused
  <2>6. SpanStart(1)' = SpanStart(1)
    BY <2>1 DEF SpanStart
  <2>7. pc' \in {"span", "read"} => ReadSoFar' = ReadSoFar
    <3>1. CASE split /\ span = 1
      BY <1>3, <1>4, <2>1, <2>2, <3>1 DEF ReadSoFar
    <3> QED
      BY <2>1, <3>1
  <2>8. pc' \notin {"span", "read"} /\ faults = 0 /\ ~Excused => disk.row = Chunk
    <3> SUFFICES ASSUME pc' \notin {"span", "read"}, faults = 0, ~Excused
                 PROVE  disk.row = Chunk
      OBVIOUS
    <3>1. Offset \subseteq ReadSoFar
      <4>1. CASE span = 1
        BY <1>3, <1>4, <2>1, <2>2, <4>1 DEF ReadSoFar, Offset
      <4>2. CASE span = 2
        BY <1>3, <1>4, <2>1, <2>2, <4>2 DEF ReadSoFar, Offset
      <4> QED
        BY <1>2, <4>1, <4>2
    <3>2. Exact(Calm, ReadSoFar) /\ Calm.row = disk.row
      BY <1>1, <2>1 DEF StageInv, Calm
    <3>3. disk.row \subseteq Chunk
      BY <1>1 DEF StagingTypeOK
    <3> QED
      BY <3>1, <3>2, <3>3, ChunksOf DEF Exact
  <2>9. StageInv' /\ StagerTyped' /\ DiskTyped' /\ faults' \in 0 .. MaxFaults
    BY <2>1, <2>7, <2>8, NothingKeeps
  <2>10. StagingTypeOK'
    BY <1>1, <1>2, <2>1, <2>9, TypesTogether
  <2> QED
    BY <2>3, <2>4, <2>5, <2>9, <2>10 DEF FillInv
<1>13. CASE Finish
  <2>1. /\ pc = "tail" /\ pc' = IF ok \/ served THEN "eof" ELSE "failed"
        /\ Discards(ok) /\ pc' \in {"eof", "failed"}
        /\ UNCHANGED <<window, split, span, pos, gate, lane, hedged, sent, gone, served, ok, hedgeServed>>
    BY <1>13 DEF Finish, fillVars
  <2>2. PlaceInv'
    BY <1>1, <2>1 DEF PlaceInv
  <2>3. SentInv'
    BY <1>1, <2>1 DEF SentInv
  <2>4. GateInv'
    BY <1>1, <2>1 DEF GateInv, Excused
  <2>5. StagerTyped /\ DiskTyped
    BY <1>1 DEF StagingTypeOK, StagerTyped, DiskTyped
  <2>6. StagerTyped' /\ faults' = faults
    <3> DEFINE pending == [c \in Chunk |->
                   IF ok /\ c # stager.cur THEN stager.pending[c] ELSE 0]
    <3>1. pending \in [Chunk -> Nat]
      BY <2>5 DEF StagerTyped
    <3>2. stager' = [cur |-> NoChunk, written |-> 0, pending |-> pending] /\ faults' = faults
      BY <2>1 DEF Discards
    <3> HIDE DEF pending
    <3> QED
      BY <3>1, <3>2 DEF StagerTyped
  <2>7. DiskTyped' /\ disk'.row = disk.row /\ disk'.object = disk.object
    BY <2>1, <2>5 DEF Discards, DiskTyped
  <2>8. StageInv'
    BY <1>1, <2>1, <2>6, <2>7 DEF StageInv, Whole, Excused
  <2>9. StagingTypeOK'
    BY <1>1, <1>2, <2>1, <2>6, <2>7, TypesTogether
  <2> QED
    BY <2>2, <2>3, <2>4, <2>8, <2>9 DEF FillInv
<1>14. CASE UNCHANGED stagingVars
  <2>1. UNCHANGED <<stager, disk, window, split, span, pos, gate, lane, hedged, sent,
                 gone, served, ok, pc, faults, hedgeServed>>
    BY <1>14 DEF stagingVars
  <2>2. StagingTypeOK'
    BY <1>1, <2>1 DEF StagingTypeOK
  <2>3. PlaceInv' /\ SentInv' /\ GateInv'
    BY <1>1, <2>1 DEF PlaceInv, SentInv, GateInv, Excused, SpanStart, SpanEnd
  <2>4. StageInv'
    BY <1>1, <2>1 DEF StageInv, Excused, Whole, Calm, ReadSoFar, SpanStart
  <2> QED
    BY <2>2, <2>3, <2>4 DEF FillInv
<1> QED
  BY <1>5, <1>6, <1>7, <1>8, <1>9, <1>10, <1>11, <1>12, <1>13, <1>14 DEF StagingNext

LEMMA FillAlways == StagingSpec => []FillInv
<1>1. FillInv /\ [StagingNext]_stagingVars => FillInv'
  BY FillStep
<1> QED
  BY <1>1, FillInitially, PTL DEF StagingSpec

\* A fill's stager, files, rows and reader are always of their types; it never
\* stages a byte outside the file (the stager's arithmetic in cache.rs).
THEOREM StagingTypeCorrect == StagingSpec => []StagingTypeOK
<1>1. FillInv => StagingTypeOK
  BY DEF FillInv
<1> QED
  BY <1>1, FillAlways, PTL

\* For every file, grid and frame size, with any staging errors and races: a
\* chunk is PRESENT only with all its bytes, unless a hedge won the first span of
\* a split fill (ChunkStager::stage counts bytes, it does not look at them).
THEOREM PublishedChunksAreWhole == StagingSpec => []PublishedWhole
<1>1. FillInv => PublishedWhole
  BY DEF FillInv, StageInv, PublishedWhole, Excused
<1> QED
  BY <1>1, FillAlways, PTL

LEMMA HedgeServesIfAllowed == StagingSpec => [](hedgeServed => Hedge)
<1>1. StagingInit => (hedgeServed => Hedge)
  BY DEF StagingInit
<1>2. (hedgeServed => Hedge) /\ [StagingNext]_stagingVars => (hedgeServed => Hedge)'
  BY DEF StagingNext, stagingVars, OpenSpan, OpenFails, SkipPrefix, ReadFrame, PrimaryWins,
         HedgeWins, Races, HedgeFails, Terminal, EndSpan, Finish
<1> QED
  BY <1>1, <1>2, PTL DEF StagingSpec

\* Every PRESENT chunk is complete, as the staging discipline of a race claims
\* (serve.rs), where hedging is off or the fill reads in one span: the exception of
\* PublishedWhole needs both a split fill and a hedge.
THEOREM CompleteWithoutHedge == StagingSpec => [](~Hedge \/ ~split => PresentMeansComplete)
<1>1. FillInv /\ (hedgeServed => Hedge) => (~Hedge \/ ~split => PresentMeansComplete)
  BY DEF FillInv, StageInv, PresentMeansComplete, Excused
<1> QED
  BY <1>1, FillAlways, HedgeServesIfAllowed, PTL

\* A fill without a staging error that has read the whole file leaves every chunk
\* of it PRESENT (fill_chunk_run_inner: the head put aside is resumed, and no race
\* leaves both gates closed).
THEOREM ReadIsPublished == StagingSpec => []ReadMeansPublished
<1>1. FillInv => ReadMeansPublished
  BY DEF FillInv, StageInv, ReadMeansPublished, Excused
<1> QED
  BY <1>1, FillAlways, PTL

\* The client of a fill gets its window in order, once, and no other byte, and is
\* told Eof only when it has all of it (window_slice and serve_done_ok).
THEOREM ClientGetsItsWindow == StagingSpec => []DeliveredExactly
<1>1. FillInv => DeliveredExactly
  BY DEF FillInv, PlaceInv, SentInv, DeliveredExactly
<1> QED
  BY <1>1, FillAlways, PTL

=============================================================================
