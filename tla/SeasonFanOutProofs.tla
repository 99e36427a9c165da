------------------------- MODULE SeasonFanOutProofs -------------------------
(***************************************************************************)
(* What the coalescer promises whoever calls it, for any requests, media   *)
(* and directories; that the season webhooks and the others only call it;  *)
(* and that a fan-out alone in its scope sends one refresh a directory.    *)
(***************************************************************************)
EXTENDS SeasonFanOut, TLAPS

\* Who waits in an entry or a bucket has asked, and for that key.
AskedFor(k) == {r \in Request : KeyOf[r] = k /\ status[r] # "unasked"}

Waiters ==
    /\ \A k \in Key : pending[k] \subseteq AskedFor(k)
    /\ \A s \in Scope, k \in Key : buckets[s][k] \subseteq AskedFor(k)
    /\ \A d \in refreshes : d.members \subseteq d.sees /\ d.sees \subseteq AskedFor(d.key)

CInv == CoalescerTypeOK /\ Waiters /\ NobodyIsForgotten /\ AnsweredMeansScanned

----------------------------------------------------------------------------
(* The coalescer *)

\* What a refresh that begins now is.
LEMMA BegunIsRefresh ==
    ASSUME CoalescerTypeOK, NEW k \in Key, NEW members \in SUBSET AskedFor(k)
    PROVE  /\ Begun(k, members) \in Refresh
           /\ Begun(k, members).key = k
           /\ Begun(k, members).members = members
           /\ Begun(k, members).outcome = "under way"
           /\ Begun(k, members).sees = AskedFor(k)
           /\ members \subseteq Request
  BY DEF Begun, Refresh, AskedFor

\* At the start nobody has asked.
LEMMA CoalescerInitial == CoalescerInit => CInv
  BY MediaAndKeys, NoScopeIsNoScope
  DEF CoalescerInit, CInv, CoalescerTypeOK, Waiters, AskedFor, NobodyIsForgotten,
      AnsweredMeansScanned, Refresh

\* A step that leaves what was asked asked keeps the sets of those who have.
LEMMA AskedGrows ==
    ASSUME NEW k \in Key,
           \A r \in Request : status[r] # "unasked" => status'[r] # "unasked"
    PROVE  AskedFor(k) \subseteq AskedFor(k)'
  BY DEF AskedFor

\* A step that leaves the coalescer alone keeps the invariant.
LEMMA CoalescerStutter ==
    ASSUME CInv, UNCHANGED cvars
    PROVE  CInv'
<1>0. CoalescerTypeOK /\ Waiters /\ NobodyIsForgotten /\ AnsweredMeansScanned
  BY DEF CInv
<1>1. /\ status' = status /\ pending' = pending /\ open' = open
      /\ buckets' = buckets /\ refreshes' = refreshes
  BY DEF cvars
<1>2. CoalescerTypeOK'
  BY <1>0, <1>1 DEF CoalescerTypeOK
<1>3. Waiters'
  BY <1>0, <1>1 DEF Waiters, AskedFor
<1>4. NobodyIsForgotten'
  BY <1>0, <1>1 DEF NobodyIsForgotten, WaitsForTimer, WaitsForScope, WaitsForAnswer
<1>5. AnsweredMeansScanned'
  BY <1>0, <1>1 DEF AnsweredMeansScanned
<1> QED BY <1>2, <1>3, <1>4, <1>5 DEF CInv

\* schedule() keeps the invariant.
LEMMA ScheduleKeeps ==
    ASSUME CInv, NEW r \in Request, Schedule(r)
    PROVE  CInv'
<1> USE MediaAndKeys, NoScopeIsNoScope
<1> DEFINE m == MediaOf[r]
           s == open[m]
<1>0. CoalescerTypeOK /\ Waiters /\ NobodyIsForgotten /\ AnsweredMeansScanned
  BY DEF CInv
<1>1. /\ status[r] = "unasked"
      /\ status' = [status EXCEPT ![r] = "waiting"]
      /\ open' = open /\ refreshes' = refreshes
  BY DEF Schedule
<1>2. m \in Media /\ KeyOf[r] \in Key
  OBVIOUS
<1>3. s # NoScope => s \in Scope
  BY <1>0, <1>2 DEF CoalescerTypeOK
<1>4. \A x \in Request : status[x] # "unasked" => status'[x] # "unasked"
  BY <1>0, <1>1 DEF CoalescerTypeOK
<1>5. \A k \in Key : AskedFor(k) \subseteq AskedFor(k)'
  BY <1>4, AskedGrows
<1>6. r \in AskedFor(KeyOf[r])'
  BY <1>0, <1>1 DEF CoalescerTypeOK, AskedFor
<1>7. \A d \in refreshes' : d.members \subseteq d.sees /\ d.sees \subseteq AskedFor(d.key)'
  <2>1. \A d \in refreshes : d.key \in Key
    BY <1>0 DEF CoalescerTypeOK, Refresh
  <2> QED BY <1>0, <1>1, <1>5, <2>1 DEF Waiters
<1>8. CASE Buffer(r)
  <2>1. /\ s \in Scope
        /\ buckets' = [buckets EXCEPT ![s][KeyOf[r]] = @ \cup {r}]
        /\ pending' = pending
    BY <1>3, <1>8 DEF Buffer
  <2>2. \A t \in Scope, k \in Key :
            buckets'[t][k] = IF t = s /\ k = KeyOf[r]
                               THEN buckets[t][k] \cup {r} ELSE buckets[t][k]
    <3>1. buckets \in [Scope -> [Key -> SUBSET Request]] /\ buckets[s] \in [Key -> SUBSET Request]
      BY <1>0, <2>1 DEF CoalescerTypeOK
    <3>2. \A t \in Scope : t # s => buckets'[t] = buckets[t]
      BY <2>1, <3>1
    <3>3. buckets'[s] = [buckets[s] EXCEPT ![KeyOf[r]] = @ \cup {r}]
      BY <2>1, <3>1
    <3>4. \A k \in Key : buckets'[s][k] = IF k = KeyOf[r] THEN buckets[s][k] \cup {r}
                                                        ELSE buckets[s][k]
      BY <3>1, <3>3
    <3> HIDE DEF s
    <3> QED BY <3>2, <3>4
  <2>3. CoalescerTypeOK'
    <3>1. buckets' \in [Scope -> [Key -> SUBSET Request]]
      <4>1. buckets[s] \in [Key -> SUBSET Request]
        BY <1>0, <2>1 DEF CoalescerTypeOK
      <4>2. [buckets[s] EXCEPT ![KeyOf[r]] = @ \cup {r}] \in [Key -> SUBSET Request]
        BY <1>2, <4>1
      <4> QED BY <1>0, <2>1, <4>2 DEF CoalescerTypeOK
    <3> QED BY <1>0, <1>1, <1>2, <2>1, <3>1 DEF CoalescerTypeOK
  <2>4. Waiters'
    <3>1. \A k \in Key : pending'[k] \subseteq AskedFor(k)'
      BY <1>0, <1>5, <2>1 DEF Waiters
    <3>2. ASSUME NEW t \in Scope, NEW k \in Key
          PROVE  buckets'[t][k] \subseteq AskedFor(k)'
      <4>1. buckets[t][k] \subseteq AskedFor(k)'
        BY <1>0, <1>5 DEF Waiters
      <4>2. CASE t = s /\ k = KeyOf[r]
        <5>1. buckets'[t][k] = buckets[t][k] \cup {r}
          BY <2>2, <4>2
        <5>2. r \in AskedFor(k)'
          BY <1>6, <4>2
        <5> QED BY <4>1, <5>1, <5>2
      <4>3. CASE ~(t = s /\ k = KeyOf[r])
        BY <2>2, <4>1, <4>3
      <4> QED BY <4>2, <4>3
    <3> QED BY <3>1, <3>2, <1>7 DEF Waiters
  <2>5. NobodyIsForgotten'
    <3> SUFFICES ASSUME NEW x \in Request, status'[x] = "waiting"
                 PROVE  (WaitsForTimer(x) \/ WaitsForScope(x) \/ WaitsForAnswer(x))'
      BY DEF NobodyIsForgotten
    <3>1. CASE x = r
      <4>1. r \in buckets'[s][KeyOf[r]]
        BY <1>2, <2>1, <2>2
      <4> QED BY <1>1, <2>1, <3>1, <4>1 DEF WaitsForScope
    <3>2. CASE x # r
      <4>1. status[x] = "waiting"
        BY <1>0, <1>1, <3>2 DEF CoalescerTypeOK
      <4>2. WaitsForScope(x) => WaitsForScope(x)'
        <5> SUFFICES ASSUME WaitsForScope(x) PROVE WaitsForScope(x)'
          OBVIOUS
        <5>1. open[MediaOf[x]] \in Scope /\ KeyOf[x] \in Key
          BY <1>0 DEF CoalescerTypeOK, WaitsForScope
        <5> QED BY <1>1, <2>2, <5>1 DEF WaitsForScope
      <4> QED BY <1>0, <1>1, <2>1, <4>1, <4>2
              DEF NobodyIsForgotten, WaitsForTimer, WaitsForAnswer
    <3> QED BY <3>1, <3>2
  <2>6. AnsweredMeansScanned'
    BY <1>0, <1>1 DEF AnsweredMeansScanned, CoalescerTypeOK
  <2> QED BY <2>3, <2>4, <2>5, <2>6 DEF CInv
<1>9. CASE Debounce(r)
  <2>1. /\ pending' = [pending EXCEPT ![KeyOf[r]] = @ \cup {r}]
        /\ buckets' = buckets
    BY <1>9 DEF Debounce
  <2>2. \A k \in Key : pending'[k] = IF k = KeyOf[r] THEN pending[k] \cup {r} ELSE pending[k]
    BY <1>0, <1>2, <2>1 DEF CoalescerTypeOK
  <2>3. CoalescerTypeOK'
    BY <1>0, <1>1, <1>2, <2>1 DEF CoalescerTypeOK
  <2>4. Waiters'
    <3>1. ASSUME NEW k \in Key
          PROVE  pending'[k] \subseteq AskedFor(k)'
      <4>1. pending[k] \subseteq AskedFor(k)'
        BY <1>0, <1>5 DEF Waiters
      <4>2. CASE k = KeyOf[r]
        BY <1>6, <2>2, <4>1, <4>2
      <4>3. CASE k # KeyOf[r]
        BY <2>2, <4>1, <4>3
      <4> QED BY <4>2, <4>3
    <3>2. \A t \in Scope, k \in Key : buckets'[t][k] \subseteq AskedFor(k)'
      BY <1>0, <1>5, <2>1 DEF Waiters
    <3> QED BY <3>1, <3>2, <1>7 DEF Waiters
  <2>5. NobodyIsForgotten'
    <3> SUFFICES ASSUME NEW x \in Request, status'[x] = "waiting"
                 PROVE  (WaitsForTimer(x) \/ WaitsForScope(x) \/ WaitsForAnswer(x))'
      BY DEF NobodyIsForgotten
    <3>1. CASE x = r
      BY <1>2, <2>2, <3>1 DEF WaitsForTimer
    <3>2. CASE x # r
      <4>1. status[x] = "waiting" /\ KeyOf[x] \in Key
        BY <1>0, <1>1, <3>2 DEF CoalescerTypeOK
      <4>2. WaitsForTimer(x) => WaitsForTimer(x)'
        BY <2>2, <4>1 DEF WaitsForTimer
      <4> QED BY <1>0, <1>1, <2>1, <4>1, <4>2
              DEF NobodyIsForgotten, WaitsForScope, WaitsForAnswer
    <3> QED BY <3>1, <3>2
  <2>6. AnsweredMeansScanned'
    BY <1>0, <1>1 DEF AnsweredMeansScanned, CoalescerTypeOK
  <2> QED BY <2>3, <2>4, <2>5, <2>6 DEF CInv
<1> QED BY <1>8, <1>9 DEF Schedule

\* So does the end of a window: the entry becomes a refresh with its waiters.
LEMMA FireKeeps ==
    ASSUME CInv, NEW k \in Key, Fire(k)
    PROVE  CInv'
<1> USE MediaAndKeys, NoScopeIsNoScope
<1> DEFINE b == Begun(k, pending[k])
<1>0. CoalescerTypeOK /\ Waiters /\ NobodyIsForgotten /\ AnsweredMeansScanned
  BY DEF CInv
<1>1. /\ pending' = [pending EXCEPT ![k] = {}]
      /\ refreshes' = refreshes \cup {b}
      /\ status' = status /\ open' = open /\ buckets' = buckets
  BY DEF Fire
<1>2. /\ b \in Refresh /\ b.key = k /\ b.members = pending[k]
      /\ b.outcome = "under way" /\ b.sees = AskedFor(k)
      /\ pending[k] \subseteq AskedFor(k)
  <2> DEFINE m == pending[k]
  <2>1. m \in SUBSET AskedFor(k)
    BY <1>0 DEF Waiters
  <2> HIDE DEF m
  <2>2. /\ Begun(k, m) \in Refresh
        /\ Begun(k, m).key = k /\ Begun(k, m).members = m
        /\ Begun(k, m).outcome = "under way" /\ Begun(k, m).sees = AskedFor(k)
    BY <1>0, <2>1, BegunIsRefresh
  <2> QED BY <2>1, <2>2 DEF m
<1> HIDE DEF b
<1>3. \A j \in Key : pending'[j] = IF j = k THEN {} ELSE pending[j]
  BY <1>0, <1>1 DEF CoalescerTypeOK
<1>4. \A j \in Key : AskedFor(j)' = AskedFor(j)
  BY <1>1 DEF AskedFor
<1>5. CoalescerTypeOK'
  BY <1>0, <1>1, <1>2 DEF CoalescerTypeOK
<1>6. Waiters'
  <2>1. \A d \in refreshes : d.key \in Key
    BY <1>0 DEF CoalescerTypeOK, Refresh
  <2>2. \A d \in refreshes' : d.members \subseteq d.sees /\ d.sees \subseteq AskedFor(d.key)'
    <3>1. \A d \in refreshes : d.members \subseteq d.sees /\ d.sees \subseteq AskedFor(d.key)
      BY <1>0 DEF Waiters
    <3>2. b.members \subseteq b.sees /\ b.sees = AskedFor(k)'
      BY <1>2, <1>4
    <3>3. \A d \in refreshes' : d \in refreshes \/ d = b
      BY <1>1
    <3>4. \A d \in refreshes : AskedFor(d.key)' = AskedFor(d.key)
      BY <1>4, <2>1
    <3> SUFFICES ASSUME NEW d \in refreshes'
                 PROVE  d.members \subseteq d.sees /\ d.sees \subseteq AskedFor(d.key)'
      OBVIOUS
    <3>5. CASE d \in refreshes
      BY <3>1, <3>4, <3>5
    <3>6. CASE d = b
      BY <1>2, <3>2, <3>6
    <3> QED BY <3>3, <3>5, <3>6
  <2>3. \A j \in Key : pending'[j] \subseteq AskedFor(j)'
    BY <1>0, <1>3, <1>4 DEF Waiters
  <2>4. \A t \in Scope, j \in Key : buckets'[t][j] \subseteq AskedFor(j)'
    BY <1>0, <1>1, <1>4 DEF Waiters
  <2> QED BY <2>2, <2>3, <2>4 DEF Waiters
<1>7. NobodyIsForgotten'
  <2> SUFFICES ASSUME NEW x \in Request, status'[x] = "waiting"
               PROVE  (WaitsForTimer(x) \/ WaitsForScope(x) \/ WaitsForAnswer(x))'
    BY DEF NobodyIsForgotten
  <2>1. WaitsForTimer(x) => (WaitsForTimer(x) \/ WaitsForAnswer(x))'
    BY <1>1, <1>2, <1>3 DEF WaitsForTimer, WaitsForAnswer
  <2>2. WaitsForAnswer(x) => WaitsForAnswer(x)'
    BY <1>1 DEF WaitsForAnswer
  <2>3. WaitsForScope(x) => WaitsForScope(x)'
    BY <1>1 DEF WaitsForScope
  <2> QED BY <1>0, <1>1, <2>1, <2>2, <2>3 DEF NobodyIsForgotten
<1>8. AnsweredMeansScanned'
  BY <1>0, <1>1 DEF AnsweredMeansScanned
<1> QED BY <1>5, <1>6, <1>7, <1>8 DEF CInv

\* And the answer of Plex: all who waited for the refresh hear it.
LEMMA SettleKeeps ==
    ASSUME CInv, NEW d \in refreshes, NEW outcome \in {"ok", "failed"}, Settle(d, outcome)
    PROVE  CInv'
<1> USE MediaAndKeys, NoScopeIsNoScope
<1> DEFINE e == [d EXCEPT !.outcome = outcome]
<1>0. CoalescerTypeOK /\ Waiters /\ NobodyIsForgotten /\ AnsweredMeansScanned
  BY DEF CInv
<1>1. /\ d.outcome = "under way"
      /\ refreshes' = (refreshes \ {d}) \cup {e}
      /\ status' = [r \in Request |-> IF r \in d.members THEN outcome ELSE status[r]]
      /\ pending' = pending /\ open' = open /\ buckets' = buckets
  BY DEF Settle
<1>2. d \in Refresh
  BY <1>0 DEF CoalescerTypeOK
<1>3. /\ e \in Refresh /\ e.key = d.key /\ e.members = d.members
      /\ e.sees = d.sees /\ e.outcome = outcome
  BY <1>2 DEF Refresh
<1> HIDE DEF e
<1>4. \A x \in Request : status[x] # "unasked" => status'[x] # "unasked"
  BY <1>1
<1>5. \A k \in Key : AskedFor(k) \subseteq AskedFor(k)'
  BY <1>4, AskedGrows
<1>6. CoalescerTypeOK'
  <2>1. status' \in [Request -> {"unasked", "waiting", "ok", "failed"}]
    BY <1>0, <1>1 DEF CoalescerTypeOK
  <2>2. refreshes' \subseteq Refresh
    BY <1>0, <1>1, <1>3 DEF CoalescerTypeOK
  <2> QED BY <1>0, <1>1, <2>1, <2>2 DEF CoalescerTypeOK
<1>7. Waiters'
  <2>1. \A c \in refreshes : c.key \in Key
    BY <1>0 DEF CoalescerTypeOK, Refresh
  <2>2. \A c \in refreshes : c.members \subseteq c.sees /\ c.sees \subseteq AskedFor(c.key)'
    BY <1>0, <1>5, <2>1 DEF Waiters
  <2>3. \A c \in refreshes' : c.members \subseteq c.sees /\ c.sees \subseteq AskedFor(c.key)'
    BY <1>1, <1>3, <2>2
  <2>4. \A k \in Key : pending'[k] \subseteq AskedFor(k)'
    BY <1>0, <1>1, <1>5 DEF Waiters
  <2>5. \A t \in Scope, k \in Key : buckets'[t][k] \subseteq AskedFor(k)'
    BY <1>0, <1>1, <1>5 DEF Waiters
  <2> QED BY <2>3, <2>4, <2>5 DEF Waiters
<1>8. NobodyIsForgotten'
  <2> SUFFICES ASSUME NEW x \in Request, status'[x] = "waiting"
               PROVE  (WaitsForTimer(x) \/ WaitsForScope(x) \/ WaitsForAnswer(x))'
    BY DEF NobodyIsForgotten
  <2>1. x \notin d.members /\ status[x] = "waiting"
    BY <1>1
  <2>2. WaitsForAnswer(x) => WaitsForAnswer(x)'
    BY <1>1, <2>1 DEF WaitsForAnswer
  <2>3. (WaitsForTimer(x) => WaitsForTimer(x)') /\ (WaitsForScope(x) => WaitsForScope(x)')
    BY <1>1 DEF WaitsForTimer, WaitsForScope
  <2> QED BY <1>0, <2>1, <2>2, <2>3 DEF NobodyIsForgotten
<1>9. AnsweredMeansScanned'
  <2> SUFFICES ASSUME NEW x \in Request, status'[x] = "ok"
               PROVE  \E c \in refreshes' : c.outcome = "ok" /\ c.key = KeyOf[x] /\ x \in c.sees
    BY DEF AnsweredMeansScanned
  <2>1. CASE x \in d.members
    <3>1. x \in d.sees /\ d.key \in Key
      BY <1>0, <1>2, <2>1 DEF Waiters, Refresh
    <3>2. KeyOf[x] = d.key
      BY <1>0, <3>1 DEF Waiters, AskedFor
    <3>3. outcome = "ok"
      BY <1>1, <2>1
    <3> QED BY <1>1, <1>3, <3>1, <3>2, <3>3
  <2>2. CASE x \notin d.members
    <3>1. PICK c \in refreshes : c.outcome = "ok" /\ c.key = KeyOf[x] /\ x \in c.sees
      BY <1>0, <1>1, <2>2 DEF AnsweredMeansScanned
    <3> QED BY <1>1, <3>1
  <2> QED BY <2>1, <2>2
<1> QED BY <1>6, <1>7, <1>8, <1>9 DEF CInv

\* Opening a scope hides nobody: those already waiting are not in a bucket.
LEMMA OpenKeeps ==
    ASSUME CInv, NEW s \in Scope, OpenScope(s)
    PROVE  CInv'
<1> USE MediaAndKeys, NoScopeIsNoScope
<1>0. CoalescerTypeOK /\ Waiters /\ NobodyIsForgotten /\ AnsweredMeansScanned
  BY DEF CInv
<1>1. /\ open' = [open EXCEPT ![MediaOf[s]] = IF @ = NoScope THEN s ELSE @]
      /\ status' = status /\ pending' = pending /\ buckets' = buckets
      /\ refreshes' = refreshes
  BY DEF OpenScope
<1>2. MediaOf[s] \in Media
  OBVIOUS
<1>3. \A m \in Media : open'[m] = IF m = MediaOf[s] /\ open[m] = NoScope THEN s ELSE open[m]
  BY <1>0, <1>1, <1>2 DEF CoalescerTypeOK
<1>4. CoalescerTypeOK'
  <2>1. open' \in [Media -> Scope \cup {NoScope}]
    BY <1>0, <1>1, <1>2 DEF CoalescerTypeOK
  <2>2. \A m \in Media : open'[m] # NoScope => MediaOf[open'[m]] = m
    BY <1>0, <1>3 DEF CoalescerTypeOK
  <2> QED BY <1>0, <1>1, <2>1, <2>2 DEF CoalescerTypeOK
<1>5. Waiters'
  BY <1>0, <1>1 DEF Waiters, AskedFor
<1>6. NobodyIsForgotten'
  <2> SUFFICES ASSUME NEW x \in Request, status'[x] = "waiting"
               PROVE  (WaitsForTimer(x) \/ WaitsForScope(x) \/ WaitsForAnswer(x))'
    BY DEF NobodyIsForgotten
  <2>1. WaitsForScope(x) => WaitsForScope(x)'
    <3>1. MediaOf[x] \in Media
      OBVIOUS
    <3> QED BY <1>1, <1>3, <3>1 DEF WaitsForScope
  <2> QED BY <1>0, <1>1, <2>1 DEF NobodyIsForgotten, WaitsForTimer, WaitsForAnswer
<1>7. AnsweredMeansScanned'
  BY <1>0, <1>1 DEF AnsweredMeansScanned
<1> QED BY <1>4, <1>5, <1>6, <1>7 DEF CInv

\* Closing one sends a refresh for each bucket, with all who were in it.
LEMMA CloseKeeps ==
    ASSUME CInv, NEW s \in Scope, CloseScope(s)
    PROVE  CInv'
<1> USE MediaAndKeys, NoScopeIsNoScope
<1>0. CoalescerTypeOK /\ Waiters /\ NobodyIsForgotten /\ AnsweredMeansScanned
  BY DEF CInv
<1>1. CASE open[MediaOf[s]] = s
  <2>1. /\ open' = [open EXCEPT ![MediaOf[s]] = NoScope]
        /\ refreshes' = refreshes \cup Batches(s)
        /\ buckets' = [buckets EXCEPT ![s] = [k \in Key |-> {}]]
        /\ status' = status /\ pending' = pending
    BY <1>1 DEF CloseScope
  <2>2. MediaOf[s] \in Media
    OBVIOUS
  <2>3. \A m \in Media : open'[m] = IF m = MediaOf[s] THEN NoScope ELSE open[m]
    BY <1>0, <2>1, <2>2 DEF CoalescerTypeOK
  <2>4. \A k \in Key : AskedFor(k)' = AskedFor(k)
    BY <2>1 DEF AskedFor
  <2>5. \A b \in Batches(s) : /\ b \in Refresh /\ b.outcome = "under way"
                              /\ b.members \subseteq b.sees
                              /\ b.sees = AskedFor(b.key)
    <3> SUFFICES ASSUME NEW b \in Batches(s)
                 PROVE  /\ b \in Refresh /\ b.outcome = "under way"
                        /\ b.members \subseteq b.sees /\ b.sees = AskedFor(b.key)
      OBVIOUS
    <3>1. PICK k \in Key : b = Begun(k, buckets[s][k])
      BY DEF Batches
    <3>2. buckets[s][k] \in SUBSET AskedFor(k)
      BY <1>0 DEF Waiters
    <3>3. /\ b \in Refresh /\ b.key = k /\ b.members = buckets[s][k]
          /\ b.outcome = "under way" /\ b.sees = AskedFor(k)
      <4> DEFINE m == buckets[s][k]
      <4>1. m \in SUBSET AskedFor(k) /\ b = Begun(k, m)
        BY <3>1, <3>2
      <4> HIDE DEF m
      <4>2. /\ Begun(k, m) \in Refresh
            /\ Begun(k, m).key = k /\ Begun(k, m).members = m
            /\ Begun(k, m).outcome = "under way" /\ Begun(k, m).sees = AskedFor(k)
        BY <1>0, <4>1, BegunIsRefresh
      <4> QED BY <4>1, <4>2 DEF m
    <3> QED BY <3>2, <3>3
  <2>6. CoalescerTypeOK'
    <3>1. open' \in [Media -> Scope \cup {NoScope}]
      BY <1>0, <2>1, <2>2 DEF CoalescerTypeOK
    <3>2. \A m \in Media : open'[m] # NoScope => MediaOf[open'[m]] = m
      BY <1>0, <2>3 DEF CoalescerTypeOK
    <3>3. refreshes' \subseteq Refresh
      BY <1>0, <2>1, <2>5 DEF CoalescerTypeOK
    <3>4. buckets' \in [Scope -> [Key -> SUBSET Request]]
      BY <1>0, <2>1 DEF CoalescerTypeOK
    <3> QED BY <1>0, <2>1, <3>1, <3>2, <3>3, <3>4 DEF CoalescerTypeOK
  <2>7. Waiters'
    <3>1. \A c \in refreshes : c.key \in Key
      BY <1>0 DEF CoalescerTypeOK, Refresh
    <3>2. \A c \in Batches(s) : c.key \in Key
      BY <2>5 DEF Refresh
    <3>3. \A c \in refreshes' : c.members \subseteq c.sees /\ c.sees \subseteq AskedFor(c.key)'
      BY <1>0, <2>1, <2>4, <2>5, <3>1, <3>2 DEF Waiters
    <3>4. \A k \in Key : pending'[k] \subseteq AskedFor(k)'
      BY <1>0, <2>1, <2>4 DEF Waiters
    <3>5. ASSUME NEW t \in Scope, NEW k \in Key
          PROVE  buckets'[t][k] \subseteq AskedFor(k)'
      <4>1. CASE t = s
        BY <1>0, <2>1, <4>1 DEF CoalescerTypeOK
      <4>2. CASE t # s
        BY <1>0, <2>1, <2>4, <4>2 DEF CoalescerTypeOK, Waiters
      <4> QED BY <4>1, <4>2
    <3> QED BY <3>3, <3>4, <3>5 DEF Waiters
  <2>8. NobodyIsForgotten'
    <3> SUFFICES ASSUME NEW x \in Request, status'[x] = "waiting"
                 PROVE  (WaitsForTimer(x) \/ WaitsForScope(x) \/ WaitsForAnswer(x))'
      BY DEF NobodyIsForgotten
    <3> DEFINE k == KeyOf[x]
    <3>1. k \in Key /\ MediaOf[x] \in Media
      OBVIOUS
    <3>2. ASSUME WaitsForScope(x)
          PROVE  (WaitsForScope(x) \/ WaitsForAnswer(x))'
      <4>1. CASE MediaOf[x] = MediaOf[s]
        <5>1. x \in buckets[s][k]
          BY <1>1, <3>2, <4>1 DEF WaitsForScope
        <5>3. /\ Begun(k, buckets[s][k]).outcome = "under way"
              /\ Begun(k, buckets[s][k]).members = buckets[s][k]
          BY DEF Begun
        <5>4. Begun(k, buckets[s][k]) \in Batches(s)
          BY <3>1, <5>1 DEF Batches
        <5> QED BY <2>1, <5>1, <5>3, <5>4 DEF WaitsForAnswer
      <4>2. CASE MediaOf[x] # MediaOf[s]
        <5>1. open[MediaOf[x]] \in Scope /\ open[MediaOf[x]] # s
          BY <1>0, <3>1, <3>2, <4>2 DEF CoalescerTypeOK, WaitsForScope
        <5>2. open'[MediaOf[x]] = open[MediaOf[x]]
          BY <2>3, <3>1, <4>2
        <5>3. buckets'[open[MediaOf[x]]] = buckets[open[MediaOf[x]]]
          BY <1>0, <2>1, <5>1 DEF CoalescerTypeOK
        <5> QED BY <3>2, <5>2, <5>3 DEF WaitsForScope
      <4> QED BY <4>1, <4>2
    <3>3. WaitsForAnswer(x) => WaitsForAnswer(x)'
      BY <2>1 DEF WaitsForAnswer
    <3> QED BY <1>0, <2>1, <3>2, <3>3 DEF NobodyIsForgotten, WaitsForTimer
  <2>9. AnsweredMeansScanned'
    BY <1>0, <2>1 DEF AnsweredMeansScanned
  <2> QED BY <2>6, <2>7, <2>8, <2>9 DEF CInv
<1>2. CASE open[MediaOf[s]] # s
  <2>1. UNCHANGED cvars
    BY <1>2 DEF CloseScope
  <2> QED BY <2>1, CoalescerStutter
<1> QED BY <1>1, <1>2

\* The invariant of the coalescer, whoever calls it and in whatever order.
LEMMA CoalescerStep == CInv /\ [CoalescerNext]_cvars => CInv'
<1> SUFFICES ASSUME CInv, [CoalescerNext]_cvars PROVE CInv'
  OBVIOUS
<1>1. CASE CoalescerNext
  BY <1>1, ScheduleKeeps, FireKeeps, SettleKeeps, OpenKeeps, CloseKeeps DEF CoalescerNext
<1>2. CASE UNCHANGED cvars
  BY <1>2, CoalescerStutter
<1> QED BY <1>1, <1>2

LEMMA CoalescerInvariant == CoalescerSpec => []CInv
<1>1. CoalescerInit => CInv
  BY CoalescerInitial
<1>2. CInv /\ [CoalescerNext]_cvars => CInv'
  BY CoalescerStep
<1> QED BY <1>1, <1>2, PTL DEF CoalescerSpec

\* The coalescer's type invariant.
THEOREM CoalescerTypeCorrect == CoalescerSpec => []CoalescerTypeOK
<1>1. CInv => CoalescerTypeOK
  BY DEF CInv
<1> QED BY <1>1, CoalescerInvariant, PTL

----------------------------------------------------------------------------
(* The fan-outs call it *)

USE DEF FanOut

\* A fan-out holds a scope once it has begun, and whose scope is open or held by
\* anybody holds it too.
Handles ==
    /\ \A f \in FanOut : at[f] = "idle" <=> handle[f] = NoScope
    /\ \A f \in FanOut : handle[f] # NoScope => handle[handle[f]] = handle[f]
    /\ \A m \in Media : open[m] # NoScope => handle[open[m]] = open[m]

\* What is still to do has not been asked for.
Todo ==
    \A f \in FanOut :
        /\ todo[f] \subseteq ChildrenOf[f]
        /\ \A r \in todo[f] : status[r] = "unasked"
        /\ at[f] = "idle" => todo[f] = ChildrenOf[f]

HInv == CInv /\ FanOutTypeOK /\ Handles

LEMMA FanOutInitial == Init => HInv /\ Todo
  BY CoalescerInitial, Families, NoScopeIsNoScope
  DEF Init, CoalescerInit, HInv, FanOutTypeOK, Handles, Todo

\* Every step is a call of the coalescer, one of its callbacks, or none of its business.
LEMMA StepOfCoalescer == HInv /\ [Next]_vars => [CoalescerNext]_cvars
<1> SUFFICES ASSUME HInv, [Next]_vars PROVE [CoalescerNext]_cvars
  OBVIOUS
<1>1. \A f \in FanOut : at[f] = "running" => handle[f] \in Scope
  BY DEF HInv, FanOutTypeOK, Handles
<1>2. ASSUME NEW f \in FanOut, Works(f) PROVE [CoalescerNext]_cvars
  <2>1. \A r \in todo[f] : r \in Request
    BY DEF HInv, FanOutTypeOK
  <2>2. CASE Publish(f) \/ Republish(f)
    BY <2>1, <2>2 DEF Publish, Republish, CoalescerNext
  <2>3. CASE Close(f)
    BY <1>1, <2>3 DEF Close, CoalescerNext
  <2>4. CASE Quiet(f) \/ Resume(f) \/ End(f)
    BY <2>4 DEF Quiet, Resume, End
  <2> QED BY <1>2, <2>2, <2>3, <2>4 DEF Works
<1>3. ASSUME NEW f \in FanOut, Begin(f) \/ Throw(f) PROVE [CoalescerNext]_cvars
  BY <1>3 DEF Begin, Throw, CoalescerNext
<1>4. CASE Timer \/ Plex
  BY <1>4 DEF Timer, Plex, CoalescerNext
<1>5. ASSUME NEW r \in Request, Notice(r) PROVE [CoalescerNext]_cvars
  BY <1>5 DEF Notice, CoalescerNext
<1>6. CASE UNCHANGED vars
  BY <1>6 DEF vars
<1> QED BY <1>2, <1>3, <1>4, <1>5, <1>6 DEF Next, Webhooks

\* What one step does to where the fan-outs are and to the scopes they hold.
LEMMA HandlesStep ==
    ASSUME HInv, [Next]_vars
    PROVE  FanOutTypeOK' /\ Handles'
<1> USE NoScopeIsNoScope, MediaAndKeys
<1>0. CoalescerTypeOK /\ FanOutTypeOK /\ Handles
  BY DEF HInv, CInv
<1>1. ASSUME NEW f \in FanOut, Begin(f) PROVE FanOutTypeOK' /\ Handles'
  <2> DEFINE m == MediaOf[f]
  <2>1. /\ at[f] = "idle" /\ at' = [at EXCEPT ![f] = "running"]
        /\ handle' = [handle EXCEPT ![f] = open'[m]]
        /\ open' = [open EXCEPT ![m] = IF @ = NoScope THEN f ELSE @]
        /\ todo' = todo /\ waits' = waits
    BY <1>1 DEF Begin, OpenScope
  <2>2. m \in Media /\ handle[f] = NoScope
    BY <1>0, <2>1 DEF Handles
  <2>3. open'[m] = IF open[m] = NoScope THEN f ELSE open[m]
    BY <1>0, <2>1, <2>2 DEF CoalescerTypeOK
  <2>4. open'[m] \in Scope
    BY <1>0, <2>2, <2>3 DEF CoalescerTypeOK
  <2>5. FanOutTypeOK'
    BY <1>0, <2>1, <2>4 DEF FanOutTypeOK
  <2>6. /\ at'[f] = "running" /\ handle'[f] = open'[m]
        /\ \A g \in FanOut : g # f => at'[g] = at[g] /\ handle'[g] = handle[g]
    BY <1>0, <2>1 DEF FanOutTypeOK
  <2> HIDE DEF m
  <2>7. \A n \in Media : n # m => open'[n] = open[n]
    BY <1>0, <2>1, <2>2 DEF CoalescerTypeOK
  <2>8. handle'[open'[m]] = open'[m]
    <3>1. CASE open[m] = NoScope
      BY <2>3, <2>6, <3>1
    <3>2. CASE open[m] # NoScope
      BY <1>0, <2>2, <2>3, <2>4, <2>6, <3>2 DEF Handles
    <3> QED BY <3>1, <3>2
  <2>9. \A g \in FanOut : at'[g] = "idle" <=> handle'[g] = NoScope
    BY <1>0, <2>4, <2>6 DEF Handles
  <2>10. ASSUME NEW g \in FanOut, handle'[g] # NoScope
         PROVE  handle'[handle'[g]] = handle'[g]
    <3>1. CASE g = f
      BY <2>6, <2>8, <3>1
    <3>2. CASE g # f
      <4>1. handle'[g] = handle[g] /\ handle[g] \in Scope /\ handle[handle[g]] = handle[g]
        BY <1>0, <2>6, <2>10, <3>2 DEF Handles, FanOutTypeOK
      <4>2. handle[g] # f
        BY <2>2, <4>1
      <4> QED BY <2>6, <4>1, <4>2
    <3> QED BY <3>1, <3>2
  <2>11. ASSUME NEW n \in Media, open'[n] # NoScope
         PROVE  handle'[open'[n]] = open'[n]
    <3>1. CASE n = m
      BY <2>8, <3>1
    <3>2. CASE n # m
      <4>1. open'[n] = open[n] /\ open[n] \in Scope /\ handle[open[n]] = open[n]
        BY <1>0, <2>7, <2>11, <3>2 DEF Handles, CoalescerTypeOK
      <4>2. open[n] # f
        BY <2>2, <4>1
      <4> QED BY <2>6, <4>1, <4>2
    <3> QED BY <3>1, <3>2
  <2> QED BY <2>5, <2>9, <2>10, <2>11 DEF Handles
<1>2. ASSUME handle' = handle,
             \A m \in Media : open'[m] \in {open[m], NoScope},
             \A f \in FanOut : at'[f] = "idle" <=> at[f] = "idle"
      PROVE  Handles'
  BY <1>0, <1>2 DEF Handles
<1>3. \A s \in Scope : CloseScope(s) => \A m \in Media : open'[m] \in {open[m], NoScope}
  BY <1>0 DEF CloseScope, CoalescerTypeOK, cvars
<1>4. ASSUME NEW f \in FanOut, Works(f) \/ Throw(f) PROVE FanOutTypeOK' /\ Handles'
  <2>1. at[f] # "idle" /\ handle' = handle
    BY <1>4 DEF Works, Quiet, Publish, Republish, Resume, Close, End, Throw
  <2>2. \E a \in {"running", "await", "closing", "done", "threw"} : at' = [at EXCEPT ![f] = a]
    <3>1. CASE Quiet(f) \/ Publish(f)
      BY <1>0, <3>1 DEF Quiet, Publish, FanOutTypeOK
    <3>2. CASE Republish(f) \/ Resume(f) \/ Close(f) \/ End(f) \/ Throw(f)
      BY <3>2 DEF Republish, Resume, Close, End, Throw
    <3> QED BY <1>4, <3>1, <3>2 DEF Works
  <2>3. \A m \in Media : open'[m] \in {open[m], NoScope}
    <3>1. CASE Close(f)
      <4>1. handle[f] \in Scope
        BY <1>0, <2>1 DEF FanOutTypeOK, Handles
      <4> QED BY <1>3, <3>1, <4>1 DEF Close
    <3>2. CASE ~Close(f)
      BY <1>4, <3>2 DEF Works, Quiet, Publish, Republish, Resume, End, Throw, Schedule, cvars
    <3> QED BY <3>1, <3>2
  <2>4. waits' \in [FanOut -> SUBSET Request]
    <3>1. CASE Close(f)
      <4>1. \A d \in refreshes' : d.members \subseteq Request
        <5>1. [Next]_vars /\ CInv
          BY DEF HInv
        <5>2. CInv'
          BY <5>1, StepOfCoalescer, CoalescerStep
        <5> QED BY <5>2 DEF CInv, CoalescerTypeOK, Refresh
      <4> QED BY <1>0, <3>1, <4>1 DEF Close, FanOutTypeOK
    <3>2. CASE Republish(f)
      <4>1. \A r \in todo[f] : r \in Request
        BY <1>0 DEF FanOutTypeOK
      <4> QED BY <1>0, <3>2, <4>1 DEF Republish, FanOutTypeOK
    <3>3. CASE Quiet(f) \/ Publish(f) \/ Resume(f) \/ End(f) \/ Throw(f)
      BY <1>0, <3>3 DEF Quiet, Publish, Resume, End, Throw, FanOutTypeOK
    <3> QED BY <1>4, <3>1, <3>2, <3>3 DEF Works
  <2>5. todo' \in [FanOut -> SUBSET Request]
    BY <1>0, <1>4 DEF Works, Quiet, Publish, Republish, Resume, Close, End, Throw, FanOutTypeOK
  <2>6. FanOutTypeOK'
    BY <1>0, <2>1, <2>2, <2>4, <2>5 DEF FanOutTypeOK
  <2>7. \A g \in FanOut : at'[g] = "idle" <=> at[g] = "idle"
    BY <1>0, <2>1, <2>2 DEF FanOutTypeOK
  <2> QED BY <1>2, <2>1, <2>3, <2>6, <2>7
<1>5. ASSUME UNCHANGED fvars, open' = open PROVE FanOutTypeOK' /\ Handles'
  BY <1>0, <1>5 DEF FanOutTypeOK, Handles, fvars
<1>6. CASE Timer \/ Plex \/ (\E r \in Request : Notice(r)) \/ UNCHANGED vars
  BY <1>5, <1>6 DEF Timer, Plex, Notice, Fire, Settle, Schedule, vars, cvars
<1> QED BY <1>1, <1>4, <1>6 DEF Next, Webhooks

LEMMA HoldersInvariant == Spec => []HInv
<1>1. Init => HInv
  BY FanOutInitial
<1>2. HInv /\ [Next]_vars => HInv'
  BY StepOfCoalescer, CoalescerStep, HandlesStep DEF HInv
<1> QED BY <1>1, <1>2, PTL DEF Spec

\* The webhooks and the others are callers like any: each of their behaviours is
\* one of the coalescer's.
THEOREM FanOutIsCoalescer == Spec => CoalescerSpec
<1>1. Init => CoalescerInit
  BY DEF Init
<1>2. HInv /\ [Next]_vars => [CoalescerNext]_cvars
  BY StepOfCoalescer
<1> QED BY <1>1, <1>2, HoldersInvariant, PTL DEF Spec, CoalescerSpec

\* Nobody is forgotten, in the coalescer and so by the fan-outs.
THEOREM NobodyForgotten == CoalescerSpec => []NobodyIsForgotten
<1>1. CInv => NobodyIsForgotten
  BY DEF CInv
<1> QED BY <1>1, CoalescerInvariant, PTL

\* Nor is anybody told of a refresh that came too early for them.
THEOREM AnsweredScanned == CoalescerSpec => []AnsweredMeansScanned
<1>1. CInv => AnsweredMeansScanned
  BY DEF CInv
<1> QED BY <1>1, CoalescerInvariant, PTL

\* The fan-outs' type invariant.
THEOREM FanOutTypeCorrect == Spec => []FanOutTypeOK
<1>1. HInv => FanOutTypeOK
  BY DEF HInv
<1> QED BY <1>1, HoldersInvariant, PTL

----------------------------------------------------------------------------
(* A fan-out alone in its scope *)

\* Its episodes wait nowhere but in its own scope,
Apart(f) ==
    /\ \A k \in Key : pending[k] \cap ChildrenOf[f] = {}
    /\ \A s \in Scope, k \in Key : s # f => buckets[s][k] \cap ChildrenOf[f] = {}

\* which keeps them all until it is closed,
Gathers(f) ==
    /\ open[MediaOf[f]] = f
    /\ \A d \in refreshes : d.members \cap ChildrenOf[f] = {}

\* and then has sent one refresh for each directory.
Sent(f) ==
    /\ \A k \in Key : buckets[f][k] \cap ChildrenOf[f] = {}
    /\ \A d, e \in refreshes :
          /\ d.key = e.key
          /\ d.members \cap ChildrenOf[f] # {}
          /\ e.members \cap ChildrenOf[f] # {}
          => d = e

Season(f) ==
    /\ handle[f] = f
    /\ Apart(f)
    /\ at[f] \in {"running", "await", "threw"} => Gathers(f)
    /\ at[f] \in {"closing", "done"} => todo[f] = {} /\ Sent(f)

SInv == HInv /\ Todo /\ \A f \in FanOut : at[f] # "idle" /\ Alone(f) => Season(f)

\* A step of the coalescer that is not its own leaves all three alone.
Untouched(f) ==
    Apart(f) => Apart(f)' /\ (Gathers(f) => Gathers(f)') /\ (Sent(f) => Sent(f)')

LEMMA OthersAsk ==
    ASSUME CInv, NEW f \in FanOut, NEW r \in Request, r \notin ChildrenOf[f], Schedule(r)
    PROVE  Untouched(f)
<1> USE MediaAndKeys, NoScopeIsNoScope
<1>0. CoalescerTypeOK /\ KeyOf[r] \in Key /\ MediaOf[r] \in Media
  BY DEF CInv
<1>1. open' = open /\ refreshes' = refreshes /\ (Buffer(r) \/ Debounce(r))
  BY DEF Schedule
<1>2. \A k \in Key : pending'[k] \subseteq pending[k] \cup {r}
  BY <1>0, <1>1 DEF Buffer, Debounce, CoalescerTypeOK
<1>3. \A s \in Scope, k \in Key : buckets'[s][k] \subseteq buckets[s][k] \cup {r}
  <2>1. CASE Debounce(r)
    BY <2>1 DEF Debounce
  <2>2. CASE Buffer(r)
    <3> DEFINE t == open[MediaOf[r]]
    <3>1. t \in Scope /\ buckets' = [buckets EXCEPT ![t][KeyOf[r]] = @ \cup {r}]
      BY <1>0, <2>2 DEF Buffer, CoalescerTypeOK
    <3> HIDE DEF t
    <3>2. buckets \in [Scope -> [Key -> SUBSET Request]] /\ buckets[t] \in [Key -> SUBSET Request]
      BY <1>0, <3>1 DEF CoalescerTypeOK
    <3>3. \A s \in Scope : s # t => buckets'[s] = buckets[s]
      BY <3>1, <3>2
    <3>4. buckets'[t] = [buckets[t] EXCEPT ![KeyOf[r]] = @ \cup {r}]
      BY <3>1, <3>2
    <3>5. \A k \in Key : buckets'[t][k] \subseteq buckets[t][k] \cup {r}
      BY <3>2, <3>4
    <3> QED BY <3>3, <3>5
  <2> QED BY <1>1, <2>1, <2>2
<1>4. Apart(f) => Apart(f)'
  BY <1>2, <1>3 DEF Apart
<1>5. Gathers(f) => Gathers(f)'
  BY <1>1 DEF Gathers
<1>6. Sent(f) => Sent(f)'
  BY <1>1, <1>3 DEF Sent
<1> QED BY <1>4, <1>5, <1>6 DEF Untouched

LEMMA OthersFire ==
    ASSUME CInv, NEW f \in FanOut, NEW k \in Key, Fire(k)
    PROVE  Untouched(f)
<1> SUFFICES ASSUME Apart(f)
             PROVE  Apart(f)' /\ (Gathers(f) => Gathers(f)') /\ (Sent(f) => Sent(f)')
  BY DEF Untouched
<1> DEFINE b == Begun(k, pending[k])
<1>1. /\ pending' = [pending EXCEPT ![k] = {}]
      /\ refreshes' = refreshes \cup {b}
      /\ open' = open /\ buckets' = buckets
  BY DEF Fire
<1>2. b.members \cap ChildrenOf[f] = {}
  BY DEF Begun, Apart
<1> HIDE DEF b
<1>3. \A j \in Key : pending'[j] \subseteq pending[j]
  BY <1>1 DEF CInv, CoalescerTypeOK
<1>4. Apart(f)'
  BY <1>1, <1>3 DEF Apart
<1>5. Gathers(f) => Gathers(f)'
  BY <1>1, <1>2 DEF Gathers
<1>6. Sent(f) => Sent(f)'
  BY <1>1, <1>2 DEF Sent
<1> QED BY <1>4, <1>5, <1>6

LEMMA OthersSettle ==
    ASSUME CInv, NEW f \in FanOut, NEW d \in refreshes, NEW outcome \in {"ok", "failed"},
           Settle(d, outcome)
    PROVE  Untouched(f)
<1> DEFINE e == [d EXCEPT !.outcome = outcome]
<1>1. /\ refreshes' = (refreshes \ {d}) \cup {e}
      /\ pending' = pending /\ open' = open /\ buckets' = buckets
  BY DEF Settle
<1>2. e.key = d.key /\ e.members = d.members
  BY DEF CInv, CoalescerTypeOK, Refresh
<1> HIDE DEF e
<1>3. Apart(f) => Apart(f)'
  BY <1>1 DEF Apart
<1>4. Gathers(f) => Gathers(f)'
  BY <1>1, <1>2 DEF Gathers
<1>5. Sent(f) => Sent(f)'
  BY <1>1, <1>2 DEF Sent
<1> QED BY <1>3, <1>4, <1>5 DEF Untouched

LEMMA OthersOpen ==
    ASSUME CInv, NEW f \in FanOut, NEW s \in Scope, OpenScope(s)
    PROVE  Untouched(f)
<1> USE MediaAndKeys, NoScopeIsNoScope
<1>1. /\ open' = [open EXCEPT ![MediaOf[s]] = IF @ = NoScope THEN s ELSE @]
      /\ pending' = pending /\ buckets' = buckets /\ refreshes' = refreshes
  BY DEF OpenScope
<1>2. open[MediaOf[f]] = f => open'[MediaOf[f]] = f
  BY <1>1 DEF CInv, CoalescerTypeOK
<1> QED BY <1>1, <1>2 DEF Untouched, Apart, Gathers, Sent

LEMMA OthersClose ==
    ASSUME CInv, NEW f \in FanOut, NEW s \in Scope, s # f, CloseScope(s)
    PROVE  Untouched(f)
<1> USE MediaAndKeys, NoScopeIsNoScope
<1> SUFFICES ASSUME Apart(f)
             PROVE  Apart(f)' /\ (Gathers(f) => Gathers(f)') /\ (Sent(f) => Sent(f)')
  BY DEF Untouched
<1>0. CoalescerTypeOK
  BY DEF CInv
<1>1. CASE open[MediaOf[s]] = s
  <2>1. /\ open' = [open EXCEPT ![MediaOf[s]] = NoScope]
        /\ refreshes' = refreshes \cup Batches(s)
        /\ buckets' = [buckets EXCEPT ![s] = [k \in Key |-> {}]]
        /\ pending' = pending
    BY <1>1 DEF CloseScope
  <2>2. ASSUME NEW b \in Batches(s) PROVE b.members \cap ChildrenOf[f] = {}
    <3>1. PICK k \in Key : b = Begun(k, buckets[s][k])
      BY DEF Batches
    <3>2. b.members = buckets[s][k]
      BY <3>1 DEF Begun
    <3> QED BY <3>2 DEF Apart
  <2>3. /\ buckets'[f] = buckets[f]
        /\ \A t \in Scope, k \in Key : buckets'[t][k] \subseteq buckets[t][k]
    BY <1>0, <2>1 DEF CoalescerTypeOK
  <2>4. open[MediaOf[f]] = f => open'[MediaOf[f]] = f
    BY <1>0, <1>1, <2>1 DEF CoalescerTypeOK
  <2>5. Apart(f)'
    BY <2>1, <2>3 DEF Apart
  <2>6. Gathers(f) => Gathers(f)'
    BY <2>1, <2>2, <2>4 DEF Gathers
  <2>7. Sent(f) => Sent(f)'
    BY <2>1, <2>2, <2>3 DEF Sent
  <2> QED BY <2>5, <2>6, <2>7
<1>2. CASE open[MediaOf[s]] # s
  BY <1>2 DEF CloseScope, cvars, Apart, Gathers, Sent
<1> QED BY <1>1, <1>2

LEMMA NothingMoves ==
    ASSUME NEW f \in FanOut, UNCHANGED cvars
    PROVE  Untouched(f)
  BY DEF Untouched, Apart, Gathers, Sent, cvars

\* Its own calls: an episode it announces goes to the scope's bucket,
LEMMA EpisodeAsks ==
    ASSUME CInv, NEW f \in FanOut, NEW r \in ChildrenOf[f], r \in Request, Schedule(r),
           Apart(f), Gathers(f)
    PROVE  Apart(f)' /\ Gathers(f)'
<1> USE MediaAndKeys, NoScopeIsNoScope, Families
<1>1. /\ open[MediaOf[r]] = f /\ open' = open /\ refreshes' = refreshes
      /\ buckets' = [buckets EXCEPT ![f][KeyOf[r]] = @ \cup {r}] /\ pending' = pending
  BY DEF Schedule, Buffer, Debounce, Gathers
<1>2. \A s \in Scope : s # f => buckets'[s] = buckets[s]
  BY <1>1 DEF CInv, CoalescerTypeOK
<1> QED BY <1>1, <1>2 DEF Apart, Gathers

\* and closing the scope sends one refresh for each bucket.
LEMMA SeasonCloses ==
    ASSUME CInv, NEW f \in FanOut, CloseScope(f), Apart(f), Gathers(f)
    PROVE  Apart(f)' /\ Sent(f)'
<1>0. CoalescerTypeOK
  BY DEF CInv
<1>1. /\ refreshes' = refreshes \cup Batches(f) /\ pending' = pending
      /\ buckets' = [buckets EXCEPT ![f] = [k \in Key |-> {}]]
  BY DEF CloseScope, Gathers
<1>2. \A s \in Scope : s # f => buckets'[s] = buckets[s]
  BY <1>0, <1>1 DEF CoalescerTypeOK
<1>3. \A k \in Key : buckets'[f][k] = {}
  BY <1>0, <1>1 DEF CoalescerTypeOK
<1>4. ASSUME NEW d \in Batches(f), NEW e \in Batches(f), d.key = e.key
      PROVE  d = e
  <2>1. PICK j \in Key : d = Begun(j, buckets[f][j])
    BY DEF Batches
  <2>2. PICK k \in Key : e = Begun(k, buckets[f][k])
    BY DEF Batches
  <2>3. d.key = j /\ e.key = k
    BY <2>1, <2>2 DEF Begun
  <2> QED BY <1>4, <2>1, <2>2, <2>3
<1>5. \A d \in refreshes : d.members \cap ChildrenOf[f] = {}
  BY DEF Gathers
<1>6. Sent(f)'
  BY <1>1, <1>3, <1>4, <1>5 DEF Sent
<1>7. Apart(f)'
  BY <1>1, <1>2 DEF Apart
<1> QED BY <1>6, <1>7

\* Nothing is asked for before it is done with.
LEMMA TodoStep ==
    ASSUME HInv, Todo, [Next]_vars
    PROVE  Todo'
<1> USE Families
<1>0. FanOutTypeOK /\ Handles /\ Waiters /\ CoalescerTypeOK
  BY DEF HInv, CInv
<1>1. ASSUME NEW r \in Request, Schedule(r),
             \A f \in FanOut : at'[f] = "idle" => at[f] = "idle",
             \A f \in FanOut : todo'[f] = todo[f] \ {r},
             \A f \in FanOut : at[f] = "idle" => r \notin ChildrenOf[f]
      PROVE  Todo'
  <2>1. \A x \in Request : x # r => status'[x] = status[x]
    BY <1>0, <1>1 DEF Schedule, CoalescerTypeOK
  <2> SUFFICES ASSUME NEW f \in FanOut
               PROVE  /\ todo'[f] \subseteq ChildrenOf[f]
                      /\ \A x \in todo'[f] : status'[x] = "unasked"
                      /\ at'[f] = "idle" => todo'[f] = ChildrenOf[f]
    BY DEF Todo
  <2>2. /\ todo[f] \subseteq ChildrenOf[f] /\ todo[f] \subseteq Request
        /\ \A x \in todo[f] : status[x] = "unasked"
        /\ at[f] = "idle" => todo[f] = ChildrenOf[f]
    BY <1>0 DEF Todo, FanOutTypeOK
  <2>3. todo'[f] = todo[f] \ {r}
    BY <1>1
  <2>4. \A x \in todo'[f] : status'[x] = "unasked"
    BY <2>1, <2>2, <2>3
  <2>5. at'[f] = "idle" => todo'[f] = ChildrenOf[f]
    BY <1>1, <2>2, <2>3
  <2> QED BY <2>2, <2>3, <2>4, <2>5
<1>2. ASSUME NEW f \in FanOut, Publish(f) \/ Republish(f) PROVE Todo'
  <2>1. PICK r \in todo[f] : Schedule(r) /\ todo' = [todo EXCEPT ![f] = @ \ {r}]
    BY <1>2 DEF Publish, Republish
  <2>2. r \in ChildrenOf[f] /\ r \in Request
    BY <1>0 DEF Todo, FanOutTypeOK
  <2>3. \A g \in FanOut : g # f => r \notin ChildrenOf[g]
    BY <2>2
  <2>4. \A g \in FanOut : todo'[g] = todo[g] \ {r}
    <3>1. \A g \in FanOut : g # f => r \notin todo[g]
      BY <2>3 DEF Todo
    <3> QED BY <1>0, <2>1, <3>1 DEF FanOutTypeOK
  <2>5. at[f] = "running" /\ (at' = at \/ at' = [at EXCEPT ![f] = "await"])
    BY <1>2 DEF Publish, Republish
  <2>6. \A g \in FanOut : at'[g] = "idle" => at[g] = "idle" /\ g # f
    BY <1>0, <2>5 DEF FanOutTypeOK
  <2>7. \A g \in FanOut : at[g] = "idle" => r \notin ChildrenOf[g]
    BY <2>3, <2>5
  <2> QED BY <1>1, <2>1, <2>2, <2>4, <2>6, <2>7
<1>3. ASSUME NEW r \in Request, Notice(r) PROVE Todo'
  <2>1. Schedule(r) /\ at' = at /\ todo' = todo /\ \A f \in FanOut : r \notin ChildrenOf[f]
    BY <1>3 DEF Notice, fvars
  <2>2. \A f \in FanOut : r \notin todo[f]
    BY <2>1 DEF Todo
  <2>3. \A f \in FanOut : todo'[f] = todo[f] \ {r}
    BY <2>1, <2>2
  <2>4. \A f \in FanOut : at'[f] = "idle" => at[f] = "idle"
    BY <2>1
  <2>5. \A f \in FanOut : at[f] = "idle" => r \notin ChildrenOf[f]
    BY <2>1
  <2> QED BY <1>1, <2>1, <2>3, <2>4, <2>5
<1>4. ASSUME \A r \in Request : status[r] = "unasked" => status'[r] = "unasked",
             \A f \in FanOut : todo'[f] \subseteq todo[f],
             \A f \in FanOut : at'[f] = "idle" => at[f] = "idle" /\ todo'[f] = todo[f]
      PROVE  Todo'
  BY <1>0, <1>4 DEF Todo, FanOutTypeOK
<1>5. ASSUME NEW f \in FanOut, Quiet(f) \/ Resume(f) \/ Close(f) \/ End(f) \/ Throw(f) \/ Begin(f)
      PROVE  Todo'
  <2>1. status' = status
    BY <1>5 DEF Quiet, Resume, Close, CloseScope, End, Throw, Begin, OpenScope, cvars
  <2>2. /\ \A g \in FanOut : todo'[g] \subseteq todo[g]
        /\ \A g \in FanOut : g # f => todo'[g] = todo[g] /\ at'[g] = at[g]
    BY <1>0, <1>5 DEF Quiet, Resume, Close, End, Throw, Begin, FanOutTypeOK
  <2>3. at'[f] # "idle"
    BY <1>0, <1>5 DEF Quiet, Resume, Close, End, Throw, Begin, FanOutTypeOK
  <2>4. \A r \in Request : status[r] = "unasked" => status'[r] = "unasked"
    BY <2>1
  <2>5. \A g \in FanOut : todo'[g] \subseteq todo[g]
    BY <2>2
  <2>6. \A g \in FanOut : at'[g] = "idle" => at[g] = "idle" /\ todo'[g] = todo[g]
    BY <2>2, <2>3
  <2> QED BY <1>4, <2>4, <2>5, <2>6
<1>6. CASE Timer \/ Plex \/ UNCHANGED vars
  <2>1. todo' = todo /\ at' = at
    BY <1>6 DEF Timer, Plex, vars, fvars
  <2>2. ASSUME NEW r \in Request, status[r] = "unasked" PROVE status'[r] = "unasked"
    <3>1. CASE Plex
      <4>1. PICK d \in refreshes, outcome \in {"ok", "failed"} : Settle(d, outcome)
        BY <3>1 DEF Plex
      <4>2. r \notin d.members
        <5>1. d.key \in Key
          BY <1>0 DEF CoalescerTypeOK, Refresh
        <5>2. d.members \subseteq AskedFor(d.key)
          BY <1>0, <5>1 DEF Waiters
        <5> QED BY <2>2, <5>2 DEF AskedFor
      <4> QED BY <2>2, <4>1, <4>2 DEF Settle
    <3>2. CASE Timer \/ UNCHANGED vars
      BY <2>2, <3>2 DEF Timer, Fire, vars, cvars
    <3> QED BY <1>6, <3>1, <3>2
  <2> QED BY <1>4, <2>1, <2>2
<1> QED BY <1>2, <1>3, <1>5, <1>6 DEF Next, Webhooks, Works

\* A fan-out that has begun alone was alone before.
LEMMA AloneBefore ==
    ASSUME HInv, [Next]_vars, NEW f \in FanOut, at[f] # "idle", Alone(f)'
    PROVE  Alone(f) /\ handle'[f] = handle[f]
<1>0. FanOutTypeOK /\ Handles
  BY DEF HInv
<1>1. \A g \in FanOut : at[g] # "idle" => handle'[g] = handle[g]
  <2>1. ASSUME NEW h \in FanOut, Begin(h)
        PROVE  \A g \in FanOut : at[g] # "idle" => handle'[g] = handle[g]
    BY <1>0, <2>1 DEF Begin, FanOutTypeOK
  <2>2. ASSUME NEW h \in FanOut, Works(h) \/ Throw(h) PROVE handle' = handle
    BY <2>2 DEF Works, Quiet, Publish, Republish, Resume, Close, End, Throw
  <2>3. CASE Timer \/ Plex \/ (\E r \in Request : Notice(r)) \/ UNCHANGED vars
    BY <2>3 DEF Timer, Plex, Notice, vars, fvars
  <2> QED BY <2>1, <2>2, <2>3 DEF Next, Webhooks
<1>2. \A g \in FanOut : handle[g] = handle[f] => at[g] # "idle"
  BY <1>0 DEF Handles
<1>3. Alone(f)
  BY <1>1, <1>2 DEF Alone
<1> QED BY <1>1, <1>3

\* What is not one of its own calls leaves its season alone.
LEMMA OthersStep ==
    ASSUME HInv, Todo, [Next]_vars, NEW f \in FanOut, at[f] # "idle", Alone(f), handle[f] = f,
           ~Publish(f), ~Republish(f), ~Close(f)
    PROVE  Untouched(f)
<1> USE Families
<1>0. CInv /\ FanOutTypeOK /\ Handles
  BY DEF HInv
<1>1. ASSUME NEW g \in FanOut, Publish(g) \/ Republish(g) PROVE Untouched(f)
  <2>1. PICK r \in todo[g] : Schedule(r)
    BY <1>1 DEF Publish, Republish
  <2>2. r \in Request /\ r \in ChildrenOf[g] /\ g # f
    BY <1>0, <1>1 DEF FanOutTypeOK, Todo
  <2>3. r \notin ChildrenOf[f]
    BY <2>2
  <2> QED BY <1>0, <2>1, <2>2, <2>3, OthersAsk
<1>2. ASSUME NEW g \in FanOut, Close(g) PROVE Untouched(f)
  <2>1. g # f /\ at[g] = "running" /\ CloseScope(handle[g])
    BY <1>2 DEF Close
  <2>2. handle[g] \in Scope /\ handle[g] # f
    BY <1>0, <2>1 DEF FanOutTypeOK, Handles, Alone
  <2> QED BY <1>0, <2>1, <2>2, OthersClose
<1>3. ASSUME NEW g \in FanOut, Quiet(g) \/ Resume(g) \/ End(g) \/ Throw(g) PROVE Untouched(f)
  BY <1>3, NothingMoves DEF Quiet, Resume, End, Throw
<1>4. ASSUME NEW g \in FanOut, Begin(g) PROVE Untouched(f)
  BY <1>0, <1>4, OthersOpen DEF Begin
<1>5. ASSUME NEW r \in Request, Notice(r) PROVE Untouched(f)
  BY <1>0, <1>5, OthersAsk DEF Notice
<1>6. CASE Timer
  BY <1>0, <1>6, OthersFire DEF Timer
<1>7. CASE Plex
  BY <1>0, <1>7, OthersSettle DEF Plex
<1>8. CASE UNCHANGED vars
  BY <1>8, NothingMoves DEF vars
<1> QED BY <1>1, <1>2, <1>3, <1>4, <1>5, <1>6, <1>7, <1>8 DEF Next, Webhooks, Works

\* A fan-out that begins alone finds none of its episodes anywhere.
LEMMA SeasonBegins ==
    ASSUME HInv, Todo, NEW f \in FanOut, Begin(f), Alone(f)'
    PROVE  Season(f)'
<1> USE NoScopeIsNoScope, MediaAndKeys, Families
<1> DEFINE m == MediaOf[f]
<1>0. CoalescerTypeOK /\ Waiters /\ FanOutTypeOK /\ Handles
  BY DEF HInv, CInv
<1>1. /\ at[f] = "idle" /\ at' = [at EXCEPT ![f] = "running"]
      /\ handle' = [handle EXCEPT ![f] = open'[m]]
      /\ open' = [open EXCEPT ![m] = IF @ = NoScope THEN f ELSE @]
      /\ pending' = pending /\ buckets' = buckets /\ refreshes' = refreshes
  BY DEF Begin, OpenScope
<1>2. m \in Media /\ handle[f] = NoScope
  BY <1>0, <1>1 DEF Handles
<1>3. /\ at'[f] = "running" /\ handle'[f] = open'[m]
      /\ \A g \in FanOut : g # f => handle'[g] = handle[g]
      /\ open'[m] = IF open[m] = NoScope THEN f ELSE open[m]
  BY <1>0, <1>1, <1>2 DEF FanOutTypeOK, CoalescerTypeOK
<1> HIDE DEF m
<1>4. open'[m] = f
  <2> SUFFICES ASSUME open[m] # NoScope PROVE FALSE
    BY <1>3
  <2>1. open[m] \in Scope /\ handle[open[m]] = open[m]
    BY <1>0, <1>2 DEF CoalescerTypeOK, Handles
  <2>2. open[m] # f
    BY <1>2, <2>1
  <2>3. handle'[open[m]] = handle'[f]
    BY <1>3, <2>1, <2>2
  <2> QED BY <2>1, <2>2, <2>3 DEF Alone
<1>5. \A r \in ChildrenOf[f] : status[r] = "unasked"
  BY <1>1 DEF Todo
<1>6. \A k \in Key : AskedFor(k) \cap ChildrenOf[f] = {}
  BY <1>5 DEF AskedFor
<1>7. Apart(f)'
  BY <1>0, <1>1, <1>6 DEF Apart, Waiters
<1>8. \A d \in refreshes : d.key \in Key
  BY <1>0 DEF CoalescerTypeOK, Refresh
<1>9. Gathers(f)'
  BY <1>0, <1>1, <1>4, <1>6, <1>8 DEF Gathers, Waiters, m
<1> QED BY <1>3, <1>4, <1>7, <1>9 DEF Season

LEMMA SeasonStep == SInv /\ [Next]_vars => SInv'
<1> SUFFICES ASSUME SInv, [Next]_vars PROVE SInv'
  OBVIOUS
<1>0. HInv /\ Todo /\ FanOutTypeOK /\ Handles /\ CInv
  BY DEF SInv, HInv
<1>1. HInv'
  BY <1>0, StepOfCoalescer, CoalescerStep, HandlesStep DEF HInv
<1>2. Todo'
  BY <1>0, TodoStep
<1>3. ASSUME NEW f \in FanOut, at'[f] # "idle", Alone(f)'
      PROVE  Season(f)'
  <2>1. CASE at[f] = "idle"
    <3>1. Begin(f)
      BY <1>0, <1>3, <2>1
      DEF Next, Webhooks, Works, Quiet, Publish, Republish, Resume, Close, End, Throw, Begin,
          Timer, Plex, Notice, vars, fvars, FanOutTypeOK
    <3> QED BY <1>0, <1>3, <3>1, SeasonBegins
  <2>2. CASE at[f] # "idle"
    <3>1. Alone(f) /\ handle'[f] = handle[f]
      BY <1>0, <1>3, <2>2, AloneBefore
    <3>2. Season(f)
      BY <2>2, <3>1 DEF SInv
    <3>3. handle'[f] = f /\ handle[f] = f /\ Apart(f)
      BY <3>1, <3>2 DEF Season
    <3>4. CASE Publish(f) \/ Republish(f)
      <4>1. PICK r \in todo[f] : Schedule(r)
        BY <3>4 DEF Publish, Republish
      <4>2. r \in ChildrenOf[f] /\ r \in Request
        BY <1>0 DEF Todo, FanOutTypeOK
      <4>3. at[f] = "running" /\ at'[f] \in {"running", "await"}
        BY <1>0, <3>4 DEF Publish, Republish, FanOutTypeOK
      <4>4. Gathers(f)
        BY <3>2, <4>3 DEF Season
      <4> QED BY <1>0, <3>3, <4>1, <4>2, <4>3, <4>4, EpisodeAsks DEF Season
    <3>5. CASE Close(f)
      <4>1. /\ at[f] = "running" /\ at'[f] = "closing" /\ todo'[f] = {}
            /\ CloseScope(f)
        BY <1>0, <3>3, <3>5 DEF Close, FanOutTypeOK
      <4>2. Gathers(f)
        BY <3>2, <4>1 DEF Season
      <4> QED BY <1>0, <3>3, <4>1, <4>2, SeasonCloses DEF Season
    <3>6. CASE ~Publish(f) /\ ~Republish(f) /\ ~Close(f)
      <4>1. Apart(f)' /\ (Gathers(f) => Gathers(f)') /\ (Sent(f) => Sent(f)')
        BY <1>0, <2>2, <3>1, <3>3, <3>6, OthersStep DEF Untouched
      <4>2. /\ at'[f] \in {"running", "await", "threw"} => at[f] \in {"running", "await", "threw"}
            /\ at'[f] \in {"closing", "done"} => at[f] \in {"closing", "done"}
            /\ todo'[f] \subseteq todo[f]
        <5>1. CASE Quiet(f) \/ Resume(f) \/ End(f) \/ Throw(f)
          BY <1>0, <5>1 DEF Quiet, Resume, End, Throw, FanOutTypeOK
        <5>2. ASSUME NEW g \in FanOut, g # f, Works(g) \/ Begin(g) \/ Throw(g)
              PROVE  at'[f] = at[f] /\ todo'[f] = todo[f]
          BY <1>0, <5>2 DEF Works, Quiet, Publish, Republish, Resume, Close, End, Throw, Begin,
                            FanOutTypeOK
        <5>3. CASE Timer \/ Plex \/ (\E r \in Request : Notice(r)) \/ UNCHANGED vars
          BY <5>3 DEF Timer, Plex, Notice, vars, fvars
        <5>4. ~Begin(f)
          BY <2>2 DEF Begin
        <5> QED BY <3>6, <5>1, <5>2, <5>3, <5>4 DEF Next, Webhooks, Works
      <4> QED BY <3>2, <3>3, <4>1, <4>2 DEF Season
    <3> QED BY <3>4, <3>5, <3>6
  <2> QED BY <2>1, <2>2
<1> QED BY <1>1, <1>2, <1>3 DEF SInv

\* A season whose fan-out shares its scope with no other is refreshed once.
THEOREM SeasonsRefreshedOnce == Spec => []SeasonRefreshedOnce
<1>1. Init => SInv
  BY FanOutInitial DEF SInv, Init
<1>2. SInv /\ [Next]_vars => SInv'
  BY SeasonStep
<1>3. SInv => SeasonRefreshedOnce
  <2> SUFFICES ASSUME SInv, NEW f \in FanOut, at[f] # "idle", Alone(f),
                      NEW d \in refreshes, NEW e \in refreshes, d.key = e.key,
                      d.members \cap ChildrenOf[f] # {}, e.members \cap ChildrenOf[f] # {}
               PROVE  d = e
    BY DEF SeasonRefreshedOnce
  <2>1. Season(f)
    BY DEF SInv
  <2>2. at[f] \in {"running", "await", "closing", "done", "threw"}
    BY DEF SInv, HInv, FanOutTypeOK
  <2>3. ~Gathers(f)
    BY DEF Gathers
  <2>4. Sent(f)
    BY <2>1, <2>2, <2>3 DEF Season
  <2> QED BY <2>4 DEF Sent
<1> QED BY <1>1, <1>2, <1>3, PTL DEF Spec
=============================================================================
