------------------------- MODULE AnticipationProofs -------------------------
(***************************************************************************)
(* Theorems of Anticipation, for any intents, dates, retry limits, outside *)
(* writes and crashes: its variables keep their types, only a crash leaves *)
(* a row in 'preparing', the tick brings no withdrawn row back, it lets an *)
(* exhausted row rest, and it begins no turn of a row before its wait is   *)
(* over.                                                                   *)
(***************************************************************************)
EXTENDS Anticipation, TLAPS

-----------------------------------------------------------------------------
(* The inductive invariant. *)

AtWork  == {"prepared", "published_preparing"}
Preparing  == {"prepare", "judge"}
Publishing == {"probe", "publish", "kept", "refresh", "confirm", "bytes"}

(* The row in hand is where its turn began, or claimed since. *)
HandAgrees ==
  hand # None => /\ phase \in Preparing \cup Publishing
                 /\ phase \in Preparing => rows[hand].state = "preparing"
                 /\ phase \in Publishing => snap[hand].state \in AtWork

(* What the others may not change under the snapshot. *)
Agrees(r, s) ==
  /\ s.state \in AtWork => r.state = s.state
  /\ r.state = "failed" => /\ s.state = "failed"
                           /\ r.attempts = s.attempts
                           /\ r.owned = s.owned
                           /\ s.defer = "market" => r.defer = "market"
  /\ Exhausted(s) => \/ s.defer = "future" /\ s.stage = Released
                     \/ s.owned /\ s.defer = "market"

SnapAgrees == \A i \in todo : Agrees(rows[i], snap[i])

IdleIsEmpty == pc # "drain" => todo = {}

TickInv == TypeOK /\ PreparingIsHeld /\ HandAgrees /\ SnapAgrees /\ IdleIsEmpty

-----------------------------------------------------------------------------
(* The statements of the store. *)

(* What every write keeps, except the tick's own of the row in hand. *)
Kept(r, q) ==
  /\ r.state = "preparing" <=> q.state = "preparing"
  /\ r.state \in AtWork => q.state = r.state
  /\ q.state = "failed" => /\ r.state = "failed"
                           /\ q.attempts = r.attempts
                           /\ q.owned = r.owned
                           /\ r.defer = "market" => q.defer = "market"

LEMMA RowSets ==
    /\ NoRow \in Row /\ NoRow.state = "absent"
    /\ \A r \in Row : OneMore(r.attempts) \in 0..MaxAttempts
    /\ 0..3 \subseteq Stages /\ Due \in Waits /\ Later \in Waits /\ 1 \in Waits /\ 2 \in Waits
    /\ Stages = Waits /\ Undated \in Stages /\ Released \in Waits
<1>1. MaxAttempts \in Nat \ {0}
  BY AnticipationAssumption
<1>2. NoRow \in Row /\ NoRow.state = "absent"
  BY <1>1 DEF NoRow, Row, States, Stages, Waits, Reasons, Sources, Undated, Later
<1>3. \A r \in Row : OneMore(r.attempts) \in 0..MaxAttempts
  BY <1>1 DEF Row, OneMore
<1> QED
  BY <1>2, <1>3 DEF Stages, Waits, Due, Later, Released, Undated

LEMMA SeededKeeps ==
    ASSUME NEW r \in Row, NEW source \in Sources, NEW stage \in Stages, NEW why \in Reasons
    PROVE  /\ Seeded(r, source, stage, why) \in Row
           /\ Kept(r, Seeded(r, source, stage, why))
           /\ Seeded(r, source, stage, why).state =
                IF r.state = "absent" THEN "anticipated" ELSE r.state
<1>1. CASE r.state = "absent"
  BY <1>1, RowSets DEF Seeded, Row, States, Kept, AtWork, NoRow
<1>2. CASE r.state # "absent"
  BY <1>2 DEF Seeded, Row, Kept, AtWork
<1> QED
  BY <1>1, <1>2

LEMMA RevivedKeeps ==
    ASSUME NEW r \in Row, NEW stage \in Stages, NEW why \in Reasons
    PROVE  Revived(r, stage, why) \in Row /\ Kept(r, Revived(r, stage, why))
<1>1. CASE r.state \in {"withdrawn", "failed"}
  <2>1. 0 \in 0..MaxAttempts
    BY AnticipationAssumption
  <2> QED
    BY <1>1, <2>1, RowSets DEF Revived, Row, States, Kept, AtWork
<1>2. CASE r.state \notin {"withdrawn", "failed"}
  BY <1>2 DEF Revived, Kept
<1> QED
  BY <1>1, <1>2

LEMMA RetriedKeeps ==
    ASSUME NEW r \in Row, NEW wait \in Waits, NEW why \in Reasons
    PROVE  /\ Retried(r, wait, why) \in Row
           /\ Kept(r, Retried(r, wait, why))
           /\ Retried(r, wait, why).state =
                IF r.state = "failed" THEN "anticipated" ELSE r.state
           /\ r.state # "failed" => Retried(r, wait, why) = r
<1>1. CASE r.state = "failed"
  <2>1. OneMore(r.attempts) \in 0..MaxAttempts
    BY RowSets
  <2> QED
    BY <1>1, <2>1 DEF Retried, Row, States, Kept, AtWork
<1>2. CASE r.state # "failed"
  BY <1>2 DEF Retried, Kept
<1> QED
  BY <1>1, <1>2

(* A reconciliation may change the owner of a failed row: it is not Kept, but
   no row is brought back. *)
LEMMA EnsuredKeeps ==
    ASSUME NEW r \in Row, NEW stage \in Stages
    PROVE  /\ Ensured(r, stage) \in Row
           /\ Ensured(r, stage).state = IF r.state = "absent" THEN "anticipated" ELSE r.state
<1>1. CASE r.state = "absent"
  <2> DEFINE why == IF stage < Released THEN "future" ELSE "market"
             s == Seeded(r, "seerr", stage, why)
  <2>1. why \in Reasons /\ "seerr" \in Sources
    BY DEF Reasons, Sources
  <2>2. s \in Row /\ s.state = "anticipated"
    BY <1>1, <2>1, SeededKeeps
  <2>3. Ensured(r, stage) = [s EXCEPT !.owned = TRUE]
    BY <1>1 DEF Ensured
  <2> HIDE DEF s
  <2> QED
    BY <1>1, <2>2, <2>3 DEF Row
<1>2. CASE r.state # "absent"
  <2> DEFINE date == IF stage = Undated THEN r.stage ELSE stage
             wait == CASE date < Released -> Released
                       [] date >= Released /\ ~r.owned -> Due
                       [] OTHER -> IF r.wait = Due THEN Due ELSE Later
             defer == IF date < Released /\ r.state \notin {"playable", "withdrawn"}
                      THEN "future" ELSE r.defer
  <2>1. date \in Stages /\ defer \in Reasons
    BY DEF Row, Reasons
  <2>2. wait \in Waits
    <3>1. date < Released \/ date >= Released
      BY <2>1 DEF Stages, Released
    <3> QED
      BY <3>1, RowSets
  <2>3. Ensured(r, stage) = [r EXCEPT !.owned = TRUE, !.stage = date, !.wait = wait, !.defer = defer]
    BY <1>2 DEF Ensured, Row
  <2> HIDE DEF date, wait, defer
  <2> QED
    BY <1>2, <2>1, <2>2, <2>3 DEF Row
<1> QED
  BY <1>1, <1>2

LEMMA DisownedKeeps ==
    ASSUME NEW r \in Row
    PROVE  /\ Disowned(r) \in Row
           /\ Disowned(r).state = "preparing" <=> r.state = "preparing"
           /\ r.state = "withdrawn" => Disowned(r).state = "withdrawn"
           /\ Disowned(r).state # r.state => Disowned(r).state = "withdrawn"
BY DEF Disowned, Row, States

LEMMA ReopenedKeeps ==
    ASSUME NEW r \in Row
    PROVE  /\ Reopened(r) \in Row
           /\ Reopened(r).state = r.state \/ (r.state = "playable" /\ Reopened(r).state = "prepared")
BY RowSets DEF Reopened, Row, States

(* transition, and a new poll time. *)
LEMMA Moved ==
    ASSUME NEW r \in Row, NEW state \in States, NEW wait \in Waits
    PROVE  /\ [r EXCEPT !.state = state, !.wait = wait] \in Row
           /\ [r EXCEPT !.state = state, !.wait = wait].state = state
BY DEF Row

LEMMA Polled ==
    ASSUME NEW r \in Row, NEW wait \in Waits
    PROVE  [r EXCEPT !.wait = wait] \in Row /\ Kept(r, [r EXCEPT !.wait = wait])
           /\ [r EXCEPT !.wait = wait].state = r.state
BY DEF Row, Kept

LEMMA RowMoved ==
    ASSUME NEW f \in [Intents -> Row], NEW i \in Intents, NEW state \in States, NEW wait \in Waits
    PROVE  [f EXCEPT ![i].state = state, ![i].wait = wait] =
             [f EXCEPT ![i] = [f[i] EXCEPT !.state = state, !.wait = wait]]
<1>1. f[i] \in Row
  OBVIOUS
<1> QED
  BY <1>1 DEF Row

-----------------------------------------------------------------------------
(* What the three kinds of step leave of the invariant. *)

(* A write of somebody else, or the clock's. *)
LEMMA OthersKeep ==
    ASSUME TickInv, rows' \in [Intents -> Row], \A i \in Intents : Kept(rows[i], rows'[i]),
           UNCHANGED <<pc, todo, hand, phase, orphans>>,
           \A i \in Intents : /\ snap'[i].state = snap[i].state
                              /\ snap'[i].attempts = snap[i].attempts
                              /\ snap'[i].owned = snap[i].owned
                              /\ snap'[i].defer = snap[i].defer
                              /\ snap[i].stage = Released => snap'[i].stage = Released
    PROVE  PreparingIsHeld' /\ HandAgrees' /\ SnapAgrees' /\ IdleIsEmpty'
<1>1. todo \subseteq Intents /\ hand \in todo \cup {None}
  BY DEF TickInv, TypeOK
<1>2. PreparingIsHeld'
  BY DEF TickInv, PreparingIsHeld, Kept
<1>3. HandAgrees'
  BY <1>1 DEF TickInv, HandAgrees, Kept
<1>4. SnapAgrees'
  <2> SUFFICES ASSUME NEW i \in todo PROVE Agrees(rows'[i], snap'[i])
    BY DEF SnapAgrees
  <2>1. Agrees(rows[i], snap[i]) /\ Kept(rows[i], rows'[i])
    BY <1>1 DEF TickInv, SnapAgrees
  <2>2. i \in Intents
    BY <1>1
  <2> QED
    BY <2>1, <2>2 DEF Agrees, Kept, Exhausted, AtWork
<1>5. IdleIsEmpty'
  BY DEF TickInv, IdleIsEmpty
<1> QED
  BY <1>2, <1>3, <1>4, <1>5

(* The end of a row's turn. *)
LEMMA LeaveKeeps ==
    ASSUME TickInv, NEW i \in todo, NEW q \in Row, Leave(i), hand \in {None, i},
           rows' = [rows EXCEPT ![i] = q], orphans' = orphans,
           q.state = "preparing" => hand = None /\ rows[i].state = "preparing"
    PROVE  /\ rows' \in [Intents -> Row] /\ seasonLast' \in BOOLEAN
           /\ pc' \in {"idle", "season", "drain"} /\ todo' \in SUBSET Intents
           /\ snap' \in [Intents -> Row] /\ hand' \in todo' \cup {None} /\ phase' \in Phases
           /\ PreparingIsHeld' /\ HandAgrees' /\ SnapAgrees' /\ IdleIsEmpty'
<1>1. TypeOK /\ todo \subseteq Intents /\ i \in Intents /\ None \notin Intents
  BY AnticipationAssumption DEF TickInv, TypeOK
<1>2. /\ rows' \in [Intents -> Row] /\ snap' \in [Intents -> Row]
      /\ seasonLast' \in BOOLEAN /\ todo' \in SUBSET Intents
  BY <1>1, RowSets DEF TypeOK, Leave
<1>3. pc' \in {"idle", "season", "drain"} /\ hand' \in todo' \cup {None} /\ phase' \in Phases
  BY DEF Leave, Phases
<1>4. PreparingIsHeld'
  BY <1>1 DEF TickInv, TypeOK, PreparingIsHeld
<1>5. HandAgrees' /\ IdleIsEmpty'
  BY DEF HandAgrees, IdleIsEmpty, Leave
<1>6. SnapAgrees'
  <2> SUFFICES ASSUME NEW j \in todo' PROVE Agrees(rows'[j], snap'[j])
    BY DEF SnapAgrees
  <2>1. j \in todo /\ j # i /\ Agrees(rows[j], snap[j])
    BY DEF Leave, TickInv, SnapAgrees
  <2>2. rows'[j] = rows[j] /\ snap'[j] = snap[j]
    BY <1>1, <2>1 DEF TypeOK, Leave
  <2> QED
    BY <2>1, <2>2
<1> QED
  BY <1>2, <1>3, <1>4, <1>5, <1>6

(* The beginning of one. *)
LEMMA BeginKeeps ==
    ASSUME TickInv, NEW i, NEW q \in Row, NEW row \in Row, NEW awaited,
           Takes(i), Begin(i, row, awaited),
           rows' = [rows EXCEPT ![i] = q], orphans' = orphans,
           \/ awaited \in Preparing /\ q.state = "preparing" /\ row.state = "anticipated"
           \/ awaited \in Publishing /\ row.state \in AtWork /\ q.state = row.state
    PROVE  /\ rows' \in [Intents -> Row] /\ seasonLast' \in BOOLEAN
           /\ pc' \in {"idle", "season", "drain"} /\ todo' \in SUBSET Intents
           /\ snap' \in [Intents -> Row] /\ hand' \in todo' \cup {None} /\ phase' \in Phases
           /\ rested' \in [Intents -> BOOLEAN]
           /\ PreparingIsHeld' /\ HandAgrees' /\ SnapAgrees' /\ IdleIsEmpty'
<1>1. TypeOK /\ todo \subseteq Intents /\ i \in Intents /\ i \in todo /\ hand = None
      /\ None \notin Intents
  BY AnticipationAssumption DEF TickInv, TypeOK, Takes
<1>2. /\ rows' \in [Intents -> Row] /\ snap' \in [Intents -> Row]
      /\ rested' \in [Intents -> BOOLEAN]
  BY <1>1 DEF TypeOK, Begin
<1>3. /\ seasonLast' \in BOOLEAN /\ pc' \in {"idle", "season", "drain"} /\ todo' \in SUBSET Intents
      /\ hand' \in todo' \cup {None} /\ phase' \in Phases
  BY <1>1 DEF TypeOK, Begin, Phases, Preparing, Publishing
<1>4. PreparingIsHeld'
  BY <1>1 DEF TickInv, TypeOK, PreparingIsHeld, Begin
<1>5. rows'[i] = q /\ snap'[i] = row /\ hand' = i /\ phase' = awaited
  BY <1>1 DEF TypeOK, Begin
<1>6. HandAgrees' /\ IdleIsEmpty'
  BY <1>1, <1>5 DEF TickInv, HandAgrees, IdleIsEmpty, Begin, Preparing, Publishing
<1>7. SnapAgrees'
  <2> SUFFICES ASSUME NEW j \in todo' PROVE Agrees(rows'[j], snap'[j])
    BY DEF SnapAgrees
  <2>1. j \in todo /\ Agrees(rows[j], snap[j])
    BY DEF Begin, TickInv, SnapAgrees
  <2>2. CASE j # i
    BY <1>1, <2>1, <2>2 DEF TypeOK, Begin
  <2>3. CASE j = i
    BY <1>5, <2>3 DEF Agrees, Exhausted, AtWork
  <2> QED
    BY <2>2, <2>3
<1> QED
  BY <1>2, <1>3, <1>4, <1>6, <1>7

-----------------------------------------------------------------------------
(* The steps. Each keeps the invariant, brings no withdrawn row back and     *)
(* lets the exhausted rows rest, unless it leaves the tick where it is.      *)

NoReturn ==
  \A i \in Intents :
    rows[i].state = "withdrawn" /\ rows'[i].state # "withdrawn" => UNCHANGED tick

LetsRest ==
  \A i \in Intents :
    Exhausted(rows[i]) /\ rows'[i].state = "anticipated"
    => \/ UNCHANGED tick
       \/ ReleaseWakes(snap[i])
       \/ Obliged(rows[i]) /\ i \in todo /\ hand = None

Good == TickInv' /\ NoReturn /\ LetsRest

LEMMA IdleTick ==
    ASSUME TickInv, pc # "drain"
    PROVE  todo = {} /\ hand = None
BY DEF TickInv, IdleIsEmpty, TypeOK

(* A step of the tick with no row in hand, or a restart. *)
LEMMA EmptyKeeps ==
    ASSUME TickInv, todo' = {}, hand' = None,
           \A i \in Intents : rows'[i].state = "preparing" => rows[i].state = "preparing",
           \/ hand = None /\ orphans' = orphans
           \/ orphans' = {i \in Intents : rows[i].state = "preparing"}
    PROVE  PreparingIsHeld' /\ HandAgrees' /\ SnapAgrees' /\ IdleIsEmpty'
<1>1. PreparingIsHeld'
  BY AnticipationAssumption DEF TickInv, PreparingIsHeld
<1>2. HandAgrees' /\ SnapAgrees' /\ IdleIsEmpty'
  BY DEF HandAgrees, SnapAgrees, IdleIsEmpty
<1> QED
  BY <1>1, <1>2

LEMMA ReopeningKeeps ==
    ASSUME TypeOK
    PROVE  /\ Reopening \in [Intents -> Row]
           /\ \A i \in Intents :
                /\ Reopening[i] = Reopened(rows[i])
                /\ Reopening[i].state = "preparing" => rows[i].state = "preparing"
                /\ rows[i].state # "playable" => Reopening[i].state = rows[i].state
<1>1. \A i \in Intents : rows[i] \in Row
  BY DEF TypeOK
<1>2. \A i \in Intents : /\ Reopened(rows[i]) \in Row
                         /\ \/ Reopened(rows[i]).state = rows[i].state
                            \/ rows[i].state = "playable" /\ Reopened(rows[i]).state = "prepared"
  BY <1>1, ReopenedKeeps
<1> QED
  BY <1>2 DEF Reopening

LEMMA DemotesGood ==
    ASSUME TickInv, NEW i \in Intents, TickDemotes(i)
    PROVE  Good
<1> DEFINE q == [Reopening[i] EXCEPT !.state = "anticipated", !.wait = Due]
<1>1. TypeOK /\ todo = {} /\ hand = None
  BY IdleTick DEF TickInv, TickDemotes
<1>2. /\ Reopening \in [Intents -> Row]
      /\ \A j \in Intents : /\ Reopening[j].state = "preparing" => rows[j].state = "preparing"
                            /\ rows[j].state # "playable" => Reopening[j].state = rows[j].state
  BY <1>1, ReopeningKeeps
<1>3. q \in Row /\ q.state = "anticipated"
  <2>1. Reopening[i] \in Row /\ "anticipated" \in States /\ Due \in Waits
    BY <1>2, RowSets DEF States
  <2> QED
    BY <2>1, Moved
<1>4. rows' = [Reopening EXCEPT ![i] = q]
  <2>1. "anticipated" \in States /\ Due \in Waits
    BY RowSets DEF States
  <2> QED
    BY <1>2, <2>1, RowMoved DEF TickDemotes
<1>5. rows' \in [Intents -> Row] /\ rows'[i].state = "anticipated"
      /\ \A j \in Intents \ {i} : rows'[j] = Reopening[j]
  <2> HIDE DEF q
  <2> QED
    BY <1>2, <1>3, <1>4
<1>6. rows[i].state = "playable"
  <2>1. Reopening[i] = Reopened(rows[i]) /\ Reopened(rows[i]).state = "playable"
    BY <1>1, ReopeningKeeps DEF TickDemotes, StaleRows
  <2> QED
    BY <1>2, <2>1
<1>7. PreparingIsHeld' /\ HandAgrees' /\ SnapAgrees' /\ IdleIsEmpty'
  BY <1>1, <1>2, <1>5, EmptyKeeps DEF TickDemotes, tick
<1>8. TypeOK'
  BY <1>1, <1>5 DEF TypeOK, TickDemotes, tick
<1>9. NoReturn /\ LetsRest
  BY <1>2, <1>5, <1>6 DEF NoReturn, LetsRest, TickDemotes, Exhausted
<1> QED
  BY <1>7, <1>8, <1>9 DEF Good, TickInv

LEMMA SeasonGood ==
    ASSUME TickInv, TickSeason
    PROVE  Good
<1>1. TypeOK /\ todo = {} /\ hand = None
  BY IdleTick DEF TickInv, TickSeason
<1>2. /\ Reopening \in [Intents -> Row] /\ rows' = Reopening
      /\ \A j \in Intents : /\ Reopening[j].state = "preparing" => rows[j].state = "preparing"
                            /\ rows[j].state # "playable" => Reopening[j].state = rows[j].state
  BY <1>1, ReopeningKeeps DEF TickSeason
<1>3. PreparingIsHeld' /\ HandAgrees' /\ SnapAgrees' /\ IdleIsEmpty'
  BY <1>1, <1>2, EmptyKeeps DEF TickSeason
<1>4. TypeOK'
  BY <1>1, <1>2 DEF TypeOK, TickSeason
<1>5. NoReturn /\ LetsRest
  BY <1>2 DEF NoReturn, LetsRest, Exhausted
<1> QED
  BY <1>3, <1>4, <1>5 DEF Good, TickInv

LEMMA DrainsGood ==
    ASSUME TickInv, TickDrains
    PROVE  Good
<1> DEFINE early(r) == r.state = "anticipated" /\ r.defer = "future" /\ r.stage = 0
           work == {i \in {j \in Intents : IsDue(Reopening[j])} : IsActionable(Reopening[i])}
<1>1. TypeOK /\ todo = {} /\ hand = None
  BY IdleTick DEF TickInv, TickDrains
<1>2. /\ Reopening \in [Intents -> Row]
      /\ \A j \in Intents : /\ Reopening[j].state = "preparing" => rows[j].state = "preparing"
                            /\ rows[j].state # "playable" => Reopening[j].state = rows[j].state
  BY <1>1, ReopeningKeeps
<1>3. \A j \in Intents : \/ rows'[j] = Reopening[j]
                         \/ /\ rows'[j] = [Reopening[j] EXCEPT !.wait = 1]
                            /\ early(Reopening[j])
  BY <1>2 DEF TickDrains
<1>4. \A j \in Intents : rows'[j] \in Row /\ rows'[j].state = Reopening[j].state
  <2> TAKE j \in Intents
  <2>1. Reopening[j] \in Row /\ 1 \in Waits
    BY <1>2, RowSets
  <2> DEFINE parked == [Reopening[j] EXCEPT !.wait = 1]
  <2>2. parked \in Row /\ parked.state = Reopening[j].state
    BY <2>1, Polled
  <2>3. rows'[j] = Reopening[j] \/ rows'[j] = parked
    BY <1>3
  <2> HIDE DEF parked
  <2> QED
    BY <2>1, <2>2, <2>3
<1>5. rows' \in [Intents -> Row]
  BY <1>4 DEF TickDrains
<1>6. /\ todo' = work /\ hand' = None /\ orphans' = orphans
      /\ snap' = [i \in Intents |-> IF i \in work THEN Reopening[i] ELSE NoRow]
      /\ pc' = IF work = {} THEN "idle" ELSE "drain"
  BY <1>1 DEF TickDrains
<1>7. snap' \in [Intents -> Row]
  BY <1>2, <1>6, RowSets
<1>8. TypeOK'
  BY <1>1, <1>5, <1>6, <1>7 DEF TypeOK, TickDrains
<1>9. PreparingIsHeld'
  BY <1>1, <1>2, <1>4, <1>6, AnticipationAssumption DEF TickInv, PreparingIsHeld
<1>10. SnapAgrees'
  <2> SUFFICES ASSUME NEW j \in work PROVE Agrees(rows'[j], snap'[j])
    BY <1>6 DEF SnapAgrees
  <2>1. j \in Intents /\ snap'[j] = Reopening[j] /\ IsActionable(Reopening[j]) /\ Reopening[j] \in Row
    BY <1>2, <1>6
  <2>2. CASE rows'[j] = Reopening[j]
    BY <2>1, <2>2 DEF Agrees, IsActionable, ReleaseWakes, IsColdRetryEligible
  <2>3. CASE early(Reopening[j]) /\ rows'[j] = [Reopening[j] EXCEPT !.wait = 1]
    <3>1. rows'[j].state = "anticipated" /\ snap'[j].state = "anticipated"
      BY <1>4, <2>1, <2>3
    <3> QED
      BY <3>1 DEF Agrees, AtWork, Exhausted
  <2> QED
    BY <1>3, <2>1, <2>2, <2>3
<1>11. HandAgrees' /\ IdleIsEmpty'
  BY <1>6 DEF HandAgrees, IdleIsEmpty
<1>12. NoReturn /\ LetsRest
  BY <1>2, <1>4 DEF NoReturn, LetsRest, Exhausted
<1> QED
  BY <1>8, <1>9, <1>10, <1>11, <1>12 DEF Good, TickInv

LEMMA ListedGood ==
    ASSUME TickInv, NEW have \in SUBSET Episodes, NEW listing \in [have -> Stages],
           SeasonListed(listing)
    PROVE  Good
<1> DEFINE after(i) == IF i \in DOMAIN listing THEN Ensured(rows[i], listing[i])
                       ELSE IF i \in Episodes THEN Disowned(rows[i]) ELSE rows[i]
<1>1. TypeOK /\ todo = {} /\ hand = None
  BY IdleTick DEF TickInv, SeasonListed
<1>2. \A i \in Intents : /\ after(i) \in Row
                         /\ after(i).state = "preparing" => rows[i].state = "preparing"
                         /\ rows[i].state # "absent" =>
                              after(i).state \in {rows[i].state, "withdrawn"}
  <2> TAKE i \in Intents
  <2>1. rows[i] \in Row
    BY <1>1 DEF TypeOK
  <2>2. CASE i \in DOMAIN listing
    <3>1. listing[i] \in Stages
      BY <2>2
    <3> QED
      BY <2>1, <2>2, <3>1, EnsuredKeeps
  <2>3. CASE i \notin DOMAIN listing
    BY <2>1, <2>3, DisownedKeeps
  <2> QED
    BY <2>2, <2>3
<1>3. rows' = [i \in Intents |-> after(i)]
  BY DEF SeasonListed
<1> HIDE DEF after
<1>4. rows' \in [Intents -> Row] /\ \A i \in Intents : rows'[i] = after(i)
  BY <1>2, <1>3
<1>5. rested' \in [Intents -> BOOLEAN]
  BY <1>1 DEF SeasonListed, TypeOK
<1>6. events' \in 0..MaxEvents
  <2>1. UNCHANGED events \/ Counted
    BY DEF SeasonListed
  <2>2. events \in 0..MaxEvents /\ MaxEvents \in Nat
    BY <1>1, AnticipationAssumption DEF TypeOK
  <2> QED
    BY <2>1, <2>2 DEF Counted
<1>7. PreparingIsHeld' /\ HandAgrees' /\ SnapAgrees' /\ IdleIsEmpty'
  BY <1>1, <1>2, <1>4, EmptyKeeps DEF SeasonListed
<1>8. TypeOK'
  BY <1>1, <1>4, <1>5, <1>6 DEF TypeOK, SeasonListed
<1>9. NoReturn /\ LetsRest
  BY <1>2, <1>4 DEF NoReturn, LetsRest, Exhausted
<1> QED
  BY <1>7, <1>8, <1>9 DEF Good, TickInv

LEMMA FailsGood ==
    ASSUME TickInv, SeasonFails
    PROVE  Good
<1>1. TypeOK /\ todo = {} /\ hand = None
  BY IdleTick DEF TickInv, SeasonFails
<1>2. PreparingIsHeld' /\ HandAgrees' /\ SnapAgrees' /\ IdleIsEmpty'
  BY <1>1, EmptyKeeps DEF SeasonFails
<1>3. TypeOK'
  BY <1>1, AnticipationAssumption DEF TypeOK, SeasonFails, Counted
<1>4. NoReturn /\ LetsRest
  BY DEF NoReturn, LetsRest, Exhausted, SeasonFails
<1> QED
  BY <1>2, <1>3, <1>4 DEF Good, TickInv

(* The row a turn begins with: the snapshot's, or, when its release has woken
   it, the stored one. *)
LEMMA ReadOf ==
    ASSUME TickInv, NEW i, Takes(i)
    PROVE  /\ i \in todo /\ i \in Intents /\ rows[i] \in Row /\ hand = None
           /\ Stored(i) \in Row /\ Read(i) \in Row
           /\ Stored(i).state = "preparing" => rows[i].state = "preparing"
           /\ rows[i].state = "withdrawn" => Stored(i).state = "withdrawn"
           /\ Read(i).state \in AtWork => rows[i].state = Read(i).state
           /\ Woken(i) => ReleaseWakes(snap[i])
           /\ ~Woken(i) => Stored(i) = rows[i] /\ Read(i) = snap[i]
           /\ Woken(i) => Read(i).state # "failed"
           /\ Exhausted(rows[i]) => Exhausted(snap[i])
           /\ Exhausted(rows[i]) /\ ~ReleaseWakes(snap[i])
                => rows[i].owned /\ rows[i].defer = "market"
<1>1. i \in todo /\ i \in Intents /\ rows[i] \in Row /\ snap[i] \in Row /\ hand = None
  BY DEF TickInv, TypeOK, Takes
<1>2. Agrees(rows[i], snap[i])
  BY <1>1 DEF TickInv, SnapAgrees
<1>3. Exhausted(rows[i]) => Exhausted(snap[i])
  BY <1>2 DEF Agrees, Exhausted
<1>4. Exhausted(rows[i]) /\ ~ReleaseWakes(snap[i]) => rows[i].owned /\ rows[i].defer = "market"
  BY <1>2, <1>3 DEF Agrees, Exhausted, ReleaseWakes
<1>5. CASE Woken(i)
  <2> DEFINE r == Retried(rows[i], Due, "market")
  <2>1. /\ r \in Row /\ r.state = IF rows[i].state = "failed" THEN "anticipated" ELSE rows[i].state
        /\ rows[i].state # "failed" => r = rows[i]
    BY <1>1, RowSets, RetriedKeeps DEF Reasons
  <2>2. Stored(i) = r /\ Read(i) = r
    BY <1>5 DEF Stored, Read
  <2> HIDE DEF r
  <2> QED
    BY <1>1, <1>3, <1>4, <1>5, <2>1, <2>2 DEF Woken, AtWork
<1>6. CASE ~Woken(i)
  BY <1>1, <1>2, <1>3, <1>4, <1>6 DEF Stored, Read, Agrees
<1> QED
  BY <1>5, <1>6

(* A turn that ends as it begins. *)
LEMMA LeaveGood ==
    ASSUME TickInv, NEW i, Takes(i), Leave(i), NEW q \in Row,
           rows' = [rows EXCEPT ![i] = q],
           q.state = "preparing" => rows[i].state = "preparing",
           rows[i].state = "withdrawn" => q.state = "withdrawn",
           UNCHANGED <<season, lost, rested, orphans, events>>
    PROVE  Good
<1>1. TypeOK
  BY DEF TickInv
<1>2. i \in todo /\ i \in Intents /\ hand = None
  BY ReadOf
<1>3. /\ rows' \in [Intents -> Row] /\ seasonLast' \in BOOLEAN
      /\ pc' \in {"idle", "season", "drain"} /\ todo' \in SUBSET Intents
      /\ snap' \in [Intents -> Row] /\ hand' \in todo' \cup {None} /\ phase' \in Phases
      /\ PreparingIsHeld' /\ HandAgrees' /\ SnapAgrees' /\ IdleIsEmpty'
  BY <1>2, LeaveKeeps
<1>4. TypeOK'
  BY <1>1, <1>3 DEF TypeOK
<1>5. rows'[i] = q /\ \A j \in Intents \ {i} : rows'[j] = rows[j]
  BY <1>1, <1>2 DEF TypeOK
<1>6. NoReturn
  BY <1>2, <1>5 DEF NoReturn
<1>7. LetsRest
  BY <1>2, <1>5, ReadOf DEF LetsRest, Exhausted, Obliged
<1> QED
  BY <1>3, <1>4, <1>6, <1>7 DEF Good, TickInv

(* A turn that goes on. *)
LEMMA BeginGood ==
    ASSUME TickInv, NEW i, NEW q \in Row, NEW row \in Row, NEW awaited,
           Takes(i), Begin(i, row, awaited),
           rows' = [rows EXCEPT ![i] = q],
           rows[i].state # "withdrawn", q.state # "anticipated",
           \/ awaited \in Preparing /\ q.state = "preparing" /\ row.state = "anticipated"
           \/ awaited \in Publishing /\ row.state \in AtWork /\ q.state = row.state,
           UNCHANGED <<season, lost, orphans, events>>
    PROVE  Good
<1>1. TypeOK
  BY DEF TickInv
<1>2. i \in todo /\ i \in Intents /\ hand = None
  BY ReadOf
<1>3. /\ rows' \in [Intents -> Row] /\ seasonLast' \in BOOLEAN
      /\ pc' \in {"idle", "season", "drain"} /\ todo' \in SUBSET Intents
      /\ snap' \in [Intents -> Row] /\ hand' \in todo' \cup {None} /\ phase' \in Phases
      /\ rested' \in [Intents -> BOOLEAN]
      /\ PreparingIsHeld' /\ HandAgrees' /\ SnapAgrees' /\ IdleIsEmpty'
  BY BeginKeeps
<1>4. TypeOK'
  BY <1>1, <1>3 DEF TypeOK
<1>5. rows'[i] = q /\ \A j \in Intents \ {i} : rows'[j] = rows[j]
  BY <1>1, <1>2 DEF TypeOK
<1>6. NoReturn /\ LetsRest
  BY <1>2, <1>5 DEF NoReturn, LetsRest, Exhausted
<1> QED
  BY <1>3, <1>4, <1>6 DEF Good, TickInv

LEMMA SleepWaits ==
    ASSUME NEW i, NEW stage \in 1..2
    PROVE  Sleep(i, stage) \in Waits
BY RowSets DEF Sleep, Waits

LEMMA LosesGood ==
    ASSUME TickInv, NEW i, TakeLoses(i)
    PROVE  Good
<1>1. Takes(i) /\ Leave(i) /\ rows' = [rows EXCEPT ![i] = Stored(i)]
  BY DEF TakeLoses
<1>2. Stored(i) \in Row
      /\ (Stored(i).state = "preparing" => rows[i].state = "preparing")
      /\ (rows[i].state = "withdrawn" => Stored(i).state = "withdrawn")
  BY <1>1, ReadOf
<1> QED
  BY <1>1, <1>2, LeaveGood DEF TakeLoses

LEMMA SleepsGood ==
    ASSUME TickInv, NEW i, TakeSleeps(i)
    PROVE  Good
<1> DEFINE q == [Stored(i) EXCEPT !.attempts = OneMore(@), !.wait = Sleep(i, 1)]
<1>1. Takes(i) /\ Leave(i) /\ rows' = [rows EXCEPT ![i] = q] /\ Stored(i).state = "anticipated"
  BY DEF TakeSleeps
<1>2. Stored(i) \in Row /\ (rows[i].state = "withdrawn" => Stored(i).state = "withdrawn")
  BY <1>1, ReadOf
<1>3. q \in Row /\ q.state = "anticipated"
  <2>1. OneMore(Stored(i).attempts) \in 0..MaxAttempts /\ Sleep(i, 1) \in Waits
    BY <1>2, RowSets, SleepWaits
  <2> QED
    BY <1>1, <1>2, <2>1 DEF Row
<1> HIDE DEF q
<1> QED
  BY <1>1, <1>2, <1>3, LeaveGood DEF TakeSleeps

LEMMA PreparesGood ==
    ASSUME TickInv, NEW i, TakePrepares(i)
    PROVE  Good
<1> DEFINE q == [Stored(i) EXCEPT !.state = "preparing", !.attempts = OneMore(@)]
<1>1. /\ Takes(i) /\ Begin(i, Read(i), "prepare") /\ rows' = [rows EXCEPT ![i] = q]
      /\ Read(i).state = "anticipated" /\ Stored(i).state = "anticipated"
  BY DEF TakePrepares
<1>2. Stored(i) \in Row /\ Read(i) \in Row /\ rows[i].state # "withdrawn"
  BY <1>1, ReadOf
<1>3. q \in Row /\ q.state = "preparing"
  <2>1. OneMore(Stored(i).attempts) \in 0..MaxAttempts
    BY <1>2, RowSets
  <2> QED
    BY <1>2, <2>1 DEF Row, States
<1> DEFINE row == Read(i)
           awaited == "prepare"
<1>4. awaited \in Preparing /\ q.state = "preparing" /\ row.state = "anticipated"
  BY <1>1, <1>3 DEF Preparing
<1>5. UNCHANGED <<season, lost, orphans, events>>
  BY DEF TakePrepares
<1>6. /\ Takes(i) /\ Begin(i, row, awaited) /\ row \in Row /\ q \in Row
      /\ rows' = [rows EXCEPT ![i] = q]
      /\ rows[i].state # "withdrawn" /\ q.state # "anticipated"
  BY <1>1, <1>2, <1>3
<1> HIDE DEF q, row, awaited
<1> QED
  BY <1>4, <1>5, <1>6, BeginGood

LEMMA HoldsGood ==
    ASSUME TickInv, NEW i, TakeHolds(i)
    PROVE  Good
<1> DEFINE q == [rows[i] EXCEPT !.state = Read(i).state, !.wait = Sleep(i, 2)]
<1>1. Takes(i) /\ Leave(i) /\ Read(i).state \in AtWork
  BY DEF TakeHolds, AtWork
<1>2. /\ i \in Intents /\ rows[i] \in Row /\ rows \in [Intents -> Row]
      /\ Read(i).state \in States /\ rows[i].state = Read(i).state
  BY <1>1, ReadOf DEF TickInv, TypeOK, States, AtWork
<1>3. Sleep(i, 2) \in Waits
  BY SleepWaits
<1>4. rows' = [rows EXCEPT ![i] = q]
  <2>1. rows' = [rows EXCEPT ![i].state = Read(i).state, ![i].wait = Sleep(i, 2)]
    BY DEF TakeHolds
  <2> QED
    BY <1>2, <1>3, <2>1, RowMoved
<1>5. q \in Row /\ q.state = rows[i].state
  <2>1. \A state \in States, wait \in Waits :
          LET m == [rows[i] EXCEPT !.state = state, !.wait = wait] IN
          m \in Row /\ m.state = state
    BY <1>2, Moved
  <2> QED
    BY <1>2, <1>3, <2>1
<1> HIDE DEF q
<1> QED
  BY <1>1, <1>4, <1>5, LeaveGood DEF TakeHolds

LEMMA PublishesGood ==
    ASSUME TickInv, NEW i, TakePublishes(i)
    PROVE  Good
<1>1. Takes(i) /\ Read(i).state \in AtWork
  BY DEF TakePublishes, AtWork
<1>2. /\ i \in Intents /\ rows[i] \in Row /\ Read(i) \in Row /\ rows \in [Intents -> Row]
      /\ rows[i].state = Read(i).state
  BY <1>1, ReadOf DEF TickInv, TypeOK
<1>3. PICK gated \in QualityGates(Read(i)) :
        Begin(i, Read(i), IF gated THEN "probe" ELSE "publish")
  BY DEF TakePublishes
<1> DEFINE awaited == IF gated THEN "probe" ELSE "publish"
<1>4. awaited \in Publishing /\ Begin(i, Read(i), awaited)
  BY <1>3 DEF Publishing
<1>5. rows' = [rows EXCEPT ![i] = rows[i]]
  BY <1>2 DEF TakePublishes, store
<1>6. rows[i].state # "withdrawn" /\ rows[i].state # "anticipated"
  BY <1>1, <1>2 DEF AtWork
<1>7. UNCHANGED <<season, lost, orphans, events>>
  BY DEF TakePublishes, store
<1> HIDE DEF awaited
<1> QED
  BY <1>1, <1>2, <1>4, <1>5, <1>6, <1>7, BeginGood

LEMMA RearmsGood ==
    ASSUME TickInv, NEW i, TakeRearms(i)
    PROVE  Good
<1> DEFINE r == Read(i)
           armed == IF ~Exhausted(r) THEN Retried(rows[i], Later, "none")
                    ELSE IF r.defer = "market" THEN Retried(rows[i], Due, "none")
                    ELSE rows[i]
<1>1. Takes(i) /\ Leave(i) /\ rows' = [rows EXCEPT ![i] = armed]
  BY DEF TakeRearms
<1>2. rows[i] \in Row
  BY <1>1, ReadOf
<1>3. /\ armed \in Row /\ (armed.state = "preparing" => rows[i].state = "preparing")
      /\ (rows[i].state = "withdrawn" => armed.state = "withdrawn")
  <2>1. Due \in Waits /\ Later \in Waits /\ "none" \in Reasons
    BY RowSets DEF Reasons
  <2>2. \A wait \in {Due, Later} :
          /\ Retried(rows[i], wait, "none") \in Row
          /\ Retried(rows[i], wait, "none").state =
               IF rows[i].state = "failed" THEN "anticipated" ELSE rows[i].state
    BY <1>2, <2>1, RetriedKeeps
  <2> QED
    BY <1>2, <2>2
<1> HIDE DEF armed
<1> QED
  BY <1>1, <1>3, LeaveGood DEF TakeRearms

(* The row in hand is one the tick claimed or found prepared. *)
LEMMA InHand ==
    ASSUME TickInv, NEW i \in Intents, hand = i
    PROVE  /\ i \in todo /\ rows[i] \in Row
           /\ rows[i].state \in AtWork \cup {"preparing"}
           /\ phase \in Publishing => snap[i].state \in AtWork
<1>1. i \in todo /\ i # None
  BY AnticipationAssumption DEF TickInv, TypeOK
<1>2. Agrees(rows[i], snap[i])
  BY <1>1 DEF TickInv, SnapAgrees
<1> QED
  BY <1>1, <1>2 DEF TickInv, TypeOK, HandAgrees, Agrees

(* The answer ends the turn with a transition. *)
LEMMA WriteGood ==
    ASSUME TickInv, NEW i \in Intents, hand = i,
           NEW state \in States \ {"preparing"}, NEW wait \in Waits,
           Write(i, state, wait), events' \in 0..MaxEvents
    PROVE  Good
<1> DEFINE q == [rows[i] EXCEPT !.state = state, !.wait = wait]
<1>1. TypeOK /\ i \in todo /\ rows[i] \in Row /\ rows \in [Intents -> Row]
      /\ rows[i].state \in AtWork \cup {"preparing"}
  BY InHand DEF TickInv, TypeOK
<1>2. q \in Row /\ q.state = state
  BY <1>1, Moved
<1>3. rows' = [rows EXCEPT ![i] = q] /\ Leave(i) /\ orphans' = orphans
  BY <1>1, RowMoved DEF Write
<1>4. /\ rows' \in [Intents -> Row] /\ seasonLast' \in BOOLEAN
      /\ pc' \in {"idle", "season", "drain"} /\ todo' \in SUBSET Intents
      /\ snap' \in [Intents -> Row] /\ hand' \in todo' \cup {None} /\ phase' \in Phases
      /\ PreparingIsHeld' /\ HandAgrees' /\ SnapAgrees' /\ IdleIsEmpty'
  <2> HIDE DEF q
  <2> QED
    BY <1>1, <1>2, <1>3, LeaveKeeps
<1>5. rested' \in [Intents -> BOOLEAN]
  BY <1>1 DEF TypeOK, Write
<1>6. TypeOK'
  BY <1>1, <1>4, <1>5 DEF TypeOK, Write
<1>7. \A j \in Intents \ {i} : rows'[j] = rows[j]
  BY <1>1, <1>3
<1>8. NoReturn /\ LetsRest
  BY <1>1, <1>7 DEF NoReturn, LetsRest, Exhausted, AtWork
<1> QED
  BY <1>4, <1>6, <1>8 DEF Good, TickInv

(* An answer leads to another question, or a scope closes over one. *)
LEMMA AsksGood ==
    ASSUME TickInv,
           \/ phase \in Preparing /\ phase' \in Preparing
           \/ phase \in Publishing /\ phase' \in Publishing,
           lost' \subseteq lost,
           UNCHANGED <<rows, season, seasonLast, pc, todo, snap, hand, rested, orphans, events>>
    PROVE  Good
<1>1. TypeOK'
  BY DEF TickInv, TypeOK, Phases, Preparing, Publishing
<1>2. HandAgrees'
  BY DEF TickInv, HandAgrees, Preparing, Publishing
<1>3. PreparingIsHeld' /\ SnapAgrees' /\ IdleIsEmpty'
  BY DEF TickInv, PreparingIsHeld, SnapAgrees, IdleIsEmpty
<1>4. NoReturn /\ LetsRest
  BY DEF NoReturn, LetsRest, Exhausted
<1> QED
  BY <1>1, <1>2, <1>3, <1>4 DEF Good, TickInv

LEMMA AnsweredGood ==
    ASSUME TickInv, NEW i \in Intents, Answered(i)
    PROVE  Good
<1>1. /\ hand = i
      /\ events \in 0..MaxEvents /\ MaxEvents \in Nat /\ Due \in Waits /\ Later \in Waits
      /\ {"prepared", "anticipated", "failed", "published_preparing", "playable"}
           \subseteq States \ {"preparing"}
  BY AnticipationAssumption, RowSets
     DEF Answered, PreparedWell, PreparedAgain, BelowFloor, PrepareFails, ActionThrows,
         ProbePasses, Published, Notified, Confirmed, NotYetPlayable, BytesReady,
         TickInv, TypeOK, States
<1>2. Counted => events' \in 0..MaxEvents
  BY <1>1 DEF Counted
<1>3. UNCHANGED events => events' \in 0..MaxEvents
  BY <1>1
<1>4. CASE PreparedWell(i)
  <2>1. Write(i, "prepared", Due) /\ UNCHANGED events
    BY <1>4 DEF PreparedWell
  <2> QED
    BY <1>1, <1>3, <2>1, WriteGood
<1>5. CASE PreparedAgain(i)
  BY <1>1, <1>5, AsksGood DEF PreparedAgain, Preparing, store
<1>6. CASE BelowFloor(i)
  <2> DEFINE state == IF phase = "probe" THEN snap[i].state ELSE "anticipated"
  <2>1. Write(i, state, Later) /\ Counted
    BY <1>6 DEF BelowFloor
  <2>2. state \in States \ {"preparing"}
    BY <1>1, InHand DEF Publishing, AtWork
  <2> HIDE DEF state
  <2> QED
    BY <1>1, <1>2, <2>1, <2>2, WriteGood
<1>7. CASE PrepareFails(i)
  <2>1. PICK terminal \in BOOLEAN :
          Write(i, IF terminal \/ snap[i].attempts + 1 >= MaxAttempts
                   THEN "failed" ELSE "anticipated", Later)
    BY <1>7 DEF PrepareFails
  <2> DEFINE state == IF terminal \/ snap[i].attempts + 1 >= MaxAttempts
                      THEN "failed" ELSE "anticipated"
  <2>2. Write(i, state, Later) /\ Counted
    BY <1>7, <2>1 DEF PrepareFails
  <2>3. state \in States \ {"preparing"}
    BY <1>1
  <2> HIDE DEF state
  <2> QED
    BY <1>1, <1>2, <2>2, <2>3, WriteGood
<1>8. CASE ActionThrows(i)
  <2>1. Write(i, "anticipated", Later) /\ Counted
    BY <1>8 DEF ActionThrows
  <2> QED
    BY <1>1, <1>2, <2>1, WriteGood
<1>9. CASE ProbePasses(i)
  BY <1>1, <1>9, AsksGood DEF ProbePasses, Publishing, store
<1>10. CASE Published(i)
  BY <1>1, <1>10, AsksGood DEF Published, Publishing
<1>11. CASE Confirmed(i)
  BY <1>1, <1>11, AsksGood DEF Confirmed, Publishing, store
<1>12. CASE NotYetPlayable(i)
  <2>1. Write(i, "published_preparing", Later) /\ Counted
    BY <1>12 DEF NotYetPlayable
  <2> QED
    BY <1>1, <1>2, <2>1, WriteGood
<1>13. CASE BytesReady(i)
  <2> DEFINE q == [rows[i] EXCEPT !.state = "playable", !.wait = Later, !.defer = "none"]
  <2>1. TypeOK /\ i \in todo /\ rows[i] \in Row /\ rows \in [Intents -> Row]
        /\ rows[i].state \in AtWork \cup {"preparing"}
    BY <1>1, InHand DEF TickInv, TypeOK
  <2>2. q \in Row /\ q.state = "playable"
    BY <1>1, <2>1 DEF Row, Reasons
  <2>3. rows' = [rows EXCEPT ![i] = q] /\ Leave(i)
    BY <1>13, <2>1 DEF BytesReady, Row
  <2>4. UNCHANGED <<season, lost, rested, orphans, events>>
    BY <1>13 DEF BytesReady
  <2> HIDE DEF q
  <2>5. /\ rows' \in [Intents -> Row] /\ seasonLast' \in BOOLEAN
        /\ pc' \in {"idle", "season", "drain"} /\ todo' \in SUBSET Intents
        /\ snap' \in [Intents -> Row] /\ hand' \in todo' \cup {None} /\ phase' \in Phases
        /\ PreparingIsHeld' /\ HandAgrees' /\ SnapAgrees' /\ IdleIsEmpty'
    BY <1>1, <2>1, <2>2, <2>3, <2>4, LeaveKeeps
  <2>6. TypeOK'
    BY <2>1, <2>4, <2>5 DEF TypeOK
  <2>7. \A j \in Intents \ {i} : rows'[j] = rows[j]
    BY <2>1, <2>3
  <2>8. NoReturn /\ LetsRest
    BY <2>1, <2>7 DEF NoReturn, LetsRest, Exhausted, AtWork
  <2> QED
    BY <2>5, <2>6, <2>8 DEF Good, TickInv
<1>14. CASE Notified(i)
  BY <1>1, <1>14, AsksGood DEF Notified, Publishing, store
<1> QED
  BY <1>4, <1>5, <1>6, <1>7, <1>8, <1>9, <1>10, <1>11, <1>12, <1>13, <1>14
     DEF Answered

-----------------------------------------------------------------------------
(* The other writers and the clock. *)

LEMMA OutsideGood ==
    ASSUME TickInv, NEW after \in [Intents -> Row], NEW woken, Outside(after, woken),
           \A i \in Intents : Kept(rows[i], after[i])
    PROVE  Good
<1>1. /\ rows' = after /\ UNCHANGED <<season, lost, tick, orphans>>
      /\ rested' = [i \in Intents |-> rested[i] \/ i \in woken]
      /\ Counted
  BY DEF Outside
<1>2. UNCHANGED <<seasonLast, pc, todo, snap, hand, phase>>
  BY <1>1 DEF tick
<1>3. PreparingIsHeld' /\ HandAgrees' /\ SnapAgrees' /\ IdleIsEmpty'
  BY <1>1, <1>2, OthersKeep
<1>4. events' \in 0..MaxEvents
  BY <1>1, AnticipationAssumption DEF Counted, TickInv, TypeOK
<1>5. TypeOK'
  BY <1>1, <1>2, <1>4 DEF TickInv, TypeOK
<1>6. NoReturn /\ LetsRest
  BY <1>1 DEF NoReturn, LetsRest
<1> QED
  BY <1>3, <1>5, <1>6 DEF Good, TickInv

(* One row is replaced by another that keeps what it must. *)
LEMMA OneRowKept ==
    ASSUME TypeOK, NEW i \in Intents, NEW q \in Row, Kept(rows[i], q)
    PROVE  /\ [rows EXCEPT ![i] = q] \in [Intents -> Row]
           /\ \A j \in Intents : Kept(rows[j], [rows EXCEPT ![i] = q][j])
<1>1. rows \in [Intents -> Row] /\ \A j \in Intents : Kept(rows[j], rows[j])
  BY DEF TypeOK, Kept
<1> QED
  BY <1>1

LEMMA KeptTwice ==
    ASSUME NEW r, NEW s, NEW q, Kept(r, s), Kept(s, q)
    PROVE  Kept(r, q)
BY DEF Kept, AtWork

LEMMA OthersGood ==
    ASSUME TickInv, Others
    PROVE  Good
<1>1. /\ TypeOK /\ rows \in [Intents -> Row] /\ \A i \in Intents : rows[i] \in Row
      /\ Requested \subseteq Intents /\ ArrRows \subseteq Intents /\ Episodes \subseteq Intents
      /\ Dates \subseteq Stages /\ events \in 0..MaxEvents /\ MaxEvents \in Nat
  BY AnticipationAssumption DEF TickInv, TypeOK
<1>2. /\ {"future", "market", "other", "none"} \subseteq Reasons
      /\ {"seerr", "arr", "follow-up"} \subseteq Sources
      /\ Due \in Waits /\ Later \in Waits /\ 1 \in Waits /\ Undated \in Stages
  BY RowSets DEF Reasons, Sources
<1>3. ASSUME NEW i \in Requested, NEW s \in Dates, NEW why \in {"future", "market"},
             SeerrDefers(i, s, why)
      PROVE  Good
  <2> DEFINE r == Seeded(rows[i], "seerr", s, why)
             q == Revived(r, s, why)
             after == [rows EXCEPT ![i] = q]
  <2>1. i \in Intents /\ s \in Stages /\ why \in Reasons
    BY <1>1, <1>2
  <2>2. r \in Row /\ Kept(rows[i], r)
    BY <1>1, <1>2, <2>1, SeededKeeps
  <2>3. q \in Row /\ Kept(r, q)
    <3> HIDE DEF r
    <3> QED
      BY <2>1, <2>2, RevivedKeeps
  <2>4. Outside(after, {i})
    BY <1>3 DEF SeerrDefers
  <2> HIDE DEF r, q
  <2>5. Kept(rows[i], q)
    BY <2>2, <2>3, KeptTwice
  <2>6. after \in [Intents -> Row] /\ \A j \in Intents : Kept(rows[j], after[j])
    BY <1>1, <2>1, <2>3, <2>5, OneRowKept
  <2> HIDE DEF after
  <2> QED
    BY <2>4, <2>6, OutsideGood
<1>4. CASE SeerrWithdraws
  <2> DEFINE q(i) == IF rows[i].source = "seerr" /\ rows[i].state \in {"anticipated", "failed"}
                     THEN [rows[i] EXCEPT !.state = "withdrawn"] ELSE rows[i]
             after == [i \in Intents |-> q(i)]
  <2>1. \A i \in Intents : q(i) \in Row /\ Kept(rows[i], q(i))
    BY <1>1 DEF Row, States, Kept, AtWork
  <2>2. Outside(after, {})
    BY <1>4 DEF SeerrWithdraws
  <2> HIDE DEF q
  <2>3. after \in [Intents -> Row] /\ \A i \in Intents : Kept(rows[i], after[i])
    BY <2>1
  <2> HIDE DEF after
  <2> QED
    BY <2>2, <2>3, OutsideGood
<1>5. ASSUME NEW media \in SUBSET Intents, SeerrWakes(media)
      PROVE  Good
  <2>1. PICK woken \in SUBSET Intents :
          Outside([i \in Intents |->
                     IF i \in woken THEN [rows[i] EXCEPT !.wait = Due] ELSE rows[i]], woken)
    <3> DEFINE waiting == {i \in Intents : rows[i].state \in {"anticipated", "failed"}}
               asked   == {i \in waiting : rows[i].source = "seerr"}
               woken   == IF asked # {} THEN asked ELSE media \cap waiting
    <3>1. woken \in SUBSET Intents
      OBVIOUS
    <3>2. Outside([i \in Intents |->
                     IF i \in woken THEN [rows[i] EXCEPT !.wait = Due] ELSE rows[i]], woken)
      BY <1>5 DEF SeerrWakes
    <3> HIDE DEF woken
    <3> QED
      BY <3>1, <3>2
  <2> DEFINE q(i) == IF i \in woken THEN [rows[i] EXCEPT !.wait = Due] ELSE rows[i]
             after == [i \in Intents |-> q(i)]
  <2>2. \A i \in Intents : q(i) \in Row /\ Kept(rows[i], q(i))
    <3> TAKE i \in Intents
    <3>1. rows[i] \in Row /\ Kept(rows[i], rows[i])
      BY <1>1 DEF Kept
    <3>2. [rows[i] EXCEPT !.wait = Due] \in Row /\ Kept(rows[i], [rows[i] EXCEPT !.wait = Due])
      BY <1>2, <3>1, Polled
    <3> QED
      BY <3>1, <3>2
  <2>3. Outside(after, woken)
    BY <2>1
  <2> HIDE DEF q
  <2>4. after \in [Intents -> Row] /\ \A i \in Intents : Kept(rows[i], after[i])
    BY <2>2
  <2> HIDE DEF after
  <2> QED
    BY <2>3, <2>4, OutsideGood
<1>6. ASSUME NEW i \in Requested, NEW why \in {"market", "other"}, FollowUp(i, why)
      PROVE  Good
  <2> DEFINE q == IF rows[i].state = "absent"
                  THEN Seeded(rows[i], "follow-up", Undated, why)
                  ELSE Revived(rows[i], Undated, why)
             after == [rows EXCEPT ![i] = q]
  <2>1. i \in Intents /\ why \in Reasons
    BY <1>1, <1>2
  <2>2. q \in Row /\ Kept(rows[i], q)
    BY <1>1, <1>2, <2>1, SeededKeeps, RevivedKeeps
  <2>3. Outside(after, {i})
    BY <1>6 DEF FollowUp
  <2> HIDE DEF q
  <2>4. after \in [Intents -> Row] /\ \A j \in Intents : Kept(rows[j], after[j])
    BY <1>1, <2>1, <2>2, OneRowKept
  <2> HIDE DEF after
  <2> QED
    BY <2>3, <2>4, OutsideGood
<1>7. ASSUME NEW i \in ArrRows, NEW s \in Dates, NEW has \in BOOLEAN, ArrReports(i, s, has)
      PROVE  Good
  <2> DEFINE r == Seeded(rows[i], "arr", s, "none")
             stage == IF s = Undated THEN r.stage ELSE s
             wait == IF has THEN Later ELSE IF s = 0 THEN 1 ELSE Due
             q == [r EXCEPT !.stage = stage, !.satisfied = has, !.wait = wait]
             after == [rows EXCEPT ![i] = q]
  <2>1. i \in Intents /\ s \in Stages /\ wait \in Waits
    BY <1>1, <1>2
  <2>2. r \in Row /\ Kept(rows[i], r)
    BY <1>1, <1>2, <2>1, SeededKeeps
  <2>3. Outside(after, {i})
    BY <1>7 DEF ArrReports
  <2> HIDE DEF r, wait
  <2>4. stage \in Stages
    BY <2>1, <2>2 DEF Row
  <2> HIDE DEF stage
  <2>5. q \in Row /\ Kept(r, q)
    BY <2>1, <2>2, <2>4 DEF Row, Kept
  <2> HIDE DEF q
  <2>6. Kept(rows[i], q)
    BY <2>2, <2>5, KeptTwice
  <2>7. after \in [Intents -> Row] /\ \A j \in Intents : Kept(rows[j], after[j])
    BY <1>1, <2>1, <2>5, <2>6, OneRowKept
  <2> HIDE DEF after
  <2> QED
    BY <2>3, <2>7, OutsideGood
<1>8. ASSUME NEW i \in ArrRows, ArrVanishes(i)
      PROVE  Good
  <2> DEFINE q == [rows[i] EXCEPT !.state = IF @ = "anticipated" THEN "withdrawn" ELSE @]
             after == [rows EXCEPT ![i] = q]
  <2>1. i \in Intents /\ rows[i] \in Row
    BY <1>1
  <2>2. q \in Row /\ Kept(rows[i], q)
    BY <2>1 DEF Row, States, Kept, AtWork
  <2>3. Outside(after, {})
    BY <1>1, <1>8, <2>1 DEF ArrVanishes
  <2> HIDE DEF q
  <2>4. after \in [Intents -> Row] /\ \A j \in Intents : Kept(rows[j], after[j])
    BY <1>1, <2>1, <2>2, OneRowKept
  <2> HIDE DEF after
  <2> QED
    BY <2>3, <2>4, OutsideGood
<1>9. CASE SeasonRequested \/ \E i \in Intents : Unbound(i)
  <2>1. /\ UNCHANGED <<rows, seasonLast, pc, todo, snap, hand, phase, orphans>>
        /\ season' \in {"none", "due", "later"} /\ lost' \in SUBSET Intents
        /\ rested' \in [Intents -> BOOLEAN] /\ Counted
    BY <1>1, <1>9 DEF SeasonRequested, Unbound, tick, TypeOK
  <2>2. events' \in 0..MaxEvents
    BY <1>1, <2>1 DEF Counted
  <2>3. TypeOK'
    BY <1>1, <2>1, <2>2 DEF TypeOK
  <2>4. PreparingIsHeld' /\ HandAgrees' /\ SnapAgrees' /\ IdleIsEmpty'
    BY <2>1 DEF TickInv, PreparingIsHeld, HandAgrees, SnapAgrees, IdleIsEmpty
  <2>5. NoReturn /\ LetsRest
    BY <2>1 DEF NoReturn, LetsRest, Exhausted
  <2> QED
    BY <2>3, <2>4, <2>5 DEF Good, TickInv
<1>10. ASSUME NEW asked \in SUBSET Episodes, Restart(asked)
       PROVE  Good
  <2> DEFINE q(i) == IF season # "none" /\ i \in asked
                     THEN Ensured(rows[i], rows[i].stage) ELSE rows[i]
  <2>1. \A i \in Intents : /\ q(i) \in Row
                           /\ q(i).state = "preparing" => rows[i].state = "preparing"
                           /\ rows[i].state # "absent" => q(i).state = rows[i].state
    <3> TAKE i \in Intents
    <3>1. rows[i] \in Row /\ rows[i].stage \in Stages
      BY <1>1 DEF Row
    <3> QED
      BY <3>1, EnsuredKeeps
  <2>2. rows' = [i \in Intents |-> q(i)]
    BY <1>10 DEF Restart
  <2> HIDE DEF q
  <2>3. rows' \in [Intents -> Row] /\ \A i \in Intents : rows'[i] = q(i)
    BY <2>1, <2>2
  <2>4. rested' \in [Intents -> BOOLEAN] /\ events' \in 0..MaxEvents
    BY <1>1, <1>10 DEF Restart, Counted
  <2>5. TypeOK'
    BY <1>1, <1>10, <2>3, <2>4, RowSets DEF TypeOK, Restart, Phases
  <2>6. PreparingIsHeld' /\ HandAgrees' /\ SnapAgrees' /\ IdleIsEmpty'
    BY <1>10, <2>1, <2>3, EmptyKeeps DEF Restart
  <2>7. NoReturn /\ LetsRest
    BY <2>1, <2>3 DEF NoReturn, LetsRest, Exhausted
  <2> QED
    BY <2>5, <2>6, <2>7 DEF Good, TickInv
<1>11. CASE ScopeCloses
  BY <1>11, AsksGood DEF ScopeCloses, Publishing, store
<1> QED
  BY <1>3, <1>4, <1>5, <1>6, <1>7, <1>8, <1>9, <1>10, <1>11 DEF Others

LEMMA ClockGood ==
    ASSUME TickInv, Clock
    PROVE  Good
<1>1. /\ TypeOK /\ rows \in [Intents -> Row] /\ snap \in [Intents -> Row]
      /\ \A i \in Intents : rows[i] \in Row /\ snap[i] \in Row
  BY DEF TickInv, TypeOK
<1>2. CASE SeasonElapses
  <2>1. TypeOK'
    BY <1>1, <1>2 DEF TypeOK, SeasonElapses, tick
  <2>2. PreparingIsHeld' /\ HandAgrees' /\ SnapAgrees' /\ IdleIsEmpty'
    BY <1>2 DEF SeasonElapses, tick, TickInv, PreparingIsHeld, HandAgrees, SnapAgrees, IdleIsEmpty
  <2>3. NoReturn /\ LetsRest
    BY <1>2 DEF SeasonElapses, NoReturn, LetsRest
  <2> QED
    BY <2>1, <2>2, <2>3 DEF Good, TickInv
<1>3. ASSUME NEW i \in Intents, WaitElapses(i)
      PROVE  Good
  <2> DEFINE q == [rows[i] EXCEPT !.wait = Due]
  <2>1. q \in Row /\ Kept(rows[i], q)
    BY <1>1, RowSets, Polled
  <2>2. rows' = [rows EXCEPT ![i] = q]
    BY <1>1, <1>3 DEF WaitElapses
  <2>3. UNCHANGED <<season, lost, tick, orphans, events>> /\ rested' \in [Intents -> BOOLEAN]
    BY <1>1, <1>3 DEF WaitElapses, TypeOK
  <2> HIDE DEF q
  <2>4. rows' \in [Intents -> Row] /\ \A j \in Intents : Kept(rows[j], rows'[j])
    BY <1>1, <2>1, <2>2, OneRowKept
  <2>5. PreparingIsHeld' /\ HandAgrees' /\ SnapAgrees' /\ IdleIsEmpty'
    BY <2>3, <2>4, OthersKeep DEF tick
  <2>6. TypeOK'
    BY <1>1, <2>3, <2>4 DEF TypeOK, tick
  <2>7. NoReturn /\ LetsRest
    BY <2>3 DEF NoReturn, LetsRest
  <2> QED
    BY <2>5, <2>6, <2>7 DEF Good, TickInv
<1>4. ASSUME NEW i \in Intents, TimePasses(i)
      PROVE  Good
  <2>1. PICK s \in 0..2 :
          /\ rows' = IF rows[i].stage = s
                     THEN [rows EXCEPT ![i].stage = s + 1,
                                       ![i].wait = IF @ = s + 1 THEN Due ELSE @]
                     ELSE rows
          /\ snap' = IF snap[i].stage = s THEN [snap EXCEPT ![i].stage = s + 1] ELSE snap
          /\ rested' = [rested EXCEPT ![i] = TRUE]
          /\ UNCHANGED <<season, seasonLast, pc, todo, hand, phase, lost, orphans, events>>
    BY <1>4 DEF TimePasses
  <2> DEFINE q == IF rows[i].stage = s
                  THEN [rows[i] EXCEPT !.stage = s + 1, !.wait = IF @ = s + 1 THEN Due ELSE @]
                  ELSE rows[i]
             z == IF snap[i].stage = s THEN [snap[i] EXCEPT !.stage = s + 1] ELSE snap[i]
  <2>2. s + 1 \in Stages /\ Due \in Waits /\ s # Released
    BY DEF Stages, Waits, Due, Released
  <2>3. q \in Row /\ Kept(rows[i], q) /\ q.state = rows[i].state
    BY <1>1, <2>2 DEF Row, Kept
  <2>4. z \in Row /\ z.state = snap[i].state /\ z.attempts = snap[i].attempts
        /\ z.owned = snap[i].owned /\ z.defer = snap[i].defer
        /\ (snap[i].stage = Released => z.stage = Released)
    BY <1>1, <2>2 DEF Row
  <2>5. rows' = [rows EXCEPT ![i] = q] /\ snap' = [snap EXCEPT ![i] = z]
    BY <1>1, <2>1 DEF Row
  <2> HIDE DEF q, z
  <2>6. rows' \in [Intents -> Row] /\ \A j \in Intents : Kept(rows[j], rows'[j])
    BY <1>1, <2>3, <2>5, OneRowKept
  <2>7. snap' \in [Intents -> Row]
        /\ \A j \in Intents : /\ snap'[j].state = snap[j].state
                              /\ snap'[j].attempts = snap[j].attempts
                              /\ snap'[j].owned = snap[j].owned
                              /\ snap'[j].defer = snap[j].defer
                              /\ snap[j].stage = Released => snap'[j].stage = Released
    BY <1>1, <2>4, <2>5
  <2>8. PreparingIsHeld' /\ HandAgrees' /\ SnapAgrees' /\ IdleIsEmpty'
    BY <2>1, <2>6, <2>7, OthersKeep
  <2>9. TypeOK'
    BY <1>1, <2>1, <2>6, <2>7 DEF TypeOK
  <2>10. NoReturn /\ LetsRest
    BY <1>1, <2>3, <2>5 DEF NoReturn, LetsRest, Exhausted
  <2> QED
    BY <2>8, <2>9, <2>10 DEF Good, TickInv
<1> QED
  BY <1>2, <1>3, <1>4 DEF Clock

-----------------------------------------------------------------------------
(* The theorems. *)

LEMMA NextGood ==
    ASSUME TickInv, Next
    PROVE  Good
<1>1. CASE TickBegins
  BY <1>1, DemotesGood, SeasonGood, DrainsGood DEF TickBegins
<1>2. CASE SeasonAnswers
  <2>1. Dates \subseteq Stages /\ \A i \in Episodes : i \in Intents
    BY AnticipationAssumption
  <2> QED
    BY <1>2, <2>1, ListedGood DEF SeasonAnswers
<1>3. CASE SeasonFails
  BY <1>3, FailsGood
<1>4. ASSUME NEW i \in Intents, TakesUp(i) PROVE Good
  BY <1>4, LosesGood, SleepsGood, PreparesGood, HoldsGood, PublishesGood, RearmsGood DEF TakesUp
<1>5. ASSUME NEW i \in Intents, Answered(i) PROVE Good
  BY <1>5, AnsweredGood
<1>6. CASE Others
  BY <1>6, OthersGood
<1>7. CASE Clock
  BY <1>7, ClockGood
<1> QED
  BY <1>1, <1>2, <1>3, <1>4, <1>5, <1>6, <1>7 DEF Next, Works

(* The scheduler's variables keep their types, the invariant that the tick's
   turns rest on holds, and what follows is of its steps. *)
LEMMA TickInvariant == Spec => []TickInv
<1>1. Init => TickInv
  <2> SUFFICES ASSUME Init PROVE TickInv
    OBVIOUS
  <2>1. TypeOK
    <3>1. rows \in [Intents -> Row] /\ snap \in [Intents -> Row]
      BY RowSets DEF Init
    <3>2. rested \in [Intents -> BOOLEAN]
      BY DEF Init
    <3>3. events \in 0..MaxEvents
      BY AnticipationAssumption DEF Init
    <3> QED
      BY <3>1, <3>2, <3>3 DEF Init, TypeOK, Phases
  <2>2. PreparingIsHeld
    BY RowSets DEF Init, PreparingIsHeld
  <2>3. HandAgrees /\ SnapAgrees /\ IdleIsEmpty
    BY DEF Init, HandAgrees, SnapAgrees, IdleIsEmpty
  <2> QED
    BY <2>1, <2>2, <2>3 DEF TickInv
<1>2. TickInv /\ [Next]_vars => TickInv'
  <2>1. CASE Next
    BY <2>1, NextGood DEF Good
  <2>2. CASE UNCHANGED vars
    <3>1. ASSUME TypeOK PROVE TypeOK'
      <4>1. /\ rows' = rows /\ season' = season /\ seasonLast' = seasonLast /\ pc' = pc
            /\ todo' = todo /\ snap' = snap /\ hand' = hand /\ phase' = phase
            /\ lost' = lost /\ rested' = rested /\ orphans' = orphans /\ events' = events
        BY <2>2 DEF vars
      <4> QED
        BY <3>1, <4>1 DEF TypeOK
    <3>2. PreparingIsHeld /\ HandAgrees /\ SnapAgrees /\ IdleIsEmpty
          => PreparingIsHeld' /\ HandAgrees' /\ SnapAgrees' /\ IdleIsEmpty'
      BY <2>2 DEF vars, PreparingIsHeld, HandAgrees, SnapAgrees, IdleIsEmpty
    <3> QED
      BY <3>1, <3>2 DEF TickInv
  <2> QED
    BY <2>1, <2>2
<1> QED
  BY <1>1, <1>2, PTL DEF Spec

(* Rows, snapshot and tick keep their types. *)
THEOREM AnticipationTypeCorrect == Spec => []TypeOK
BY TickInvariant, PTL DEF TickInv

(* A row is in 'preparing' only while the tick works on it or after a crash:
   every way its turn can end, exceptions included, moves it out
   (scheduler.js:835-873). *)
THEOREM PreparingHeld == Spec => []PreparingIsHeld
BY TickInvariant, PTL DEF TickInv

(* The tick never brings a withdrawn row back, although its snapshot is older
   than the withdrawal. *)
THEOREM WithdrawnRemains == Spec => WithdrawnStays
<1>1. TickInv /\ [Next]_vars =>
        [\A i \in Intents :
           /\ rows[i].state = "withdrawn"
           /\ rows'[i].state # "withdrawn"
           => UNCHANGED tick]_vars
  BY NextGood DEF Good, NoReturn
<1> QED
  BY <1>1, TickInvariant, PTL DEF Spec, WithdrawnStays

-----------------------------------------------------------------------------
(* The backoff. A row that has not rested is calm: due() does not select it, *)
(* or does so for a reason that overrides its poll time.                     *)

DueStates == {"anticipated", "failed", "prepared", "published_preparing"}

(* Its poll time is to come, and no repair of playable rows finds it. *)
Quiet(r) ==
  /\ r.state \in DueStates => r.wait # Due
  /\ r.state = "playable" => r.defer # "future"

Calm(i) ==
  /\ i # hand => Quiet(rows[i])
  /\ rows[i].state = "playable" => i \notin lost
  /\ i \in todo /\ i # hand => Overridden(i)

(* A row is playable again only with its VFS entry and Binding. *)
AfterPublish == {"kept", "refresh", "confirm", "bytes"}
ServedIsFound == hand # None /\ phase \in AfterPublish => hand \notin lost

(* A season that claims a row anew makes it, or finds it without an owner. *)
AbsentIsFree == \A i \in Intents : rows[i].state = "absent" => ~rows[i].owned

RestInv ==
  /\ \A i \in Intents : ~rested[i] => Calm(i)
  /\ ServedIsFound
  /\ AbsentIsFree

HotFree ==
  \A i \in Intents : hand' = i /\ hand # i => rested[i] \/ Overridden(i)

Rests == RestInv' /\ HotFree

LEMMA CalmKept ==
    ASSUME NEW i \in Intents, Calm(i), rows'[i] = rows[i], snap'[i] = snap[i],
           i \in lost' => i \in lost, i \in todo' => i \in todo, i = hand => hand' = i
    PROVE  Calm(i)'
BY DEF Calm, Quiet, Overridden, ReleaseWakes

(* The repair of playable rows leaves the calm ones as they are. *)
LEMMA ReopeningCalm ==
    ASSUME TickInv, RestInv, hand = None, NEW i \in Intents
    PROVE  /\ ~rested[i] => Reopening[i] = rows[i] /\ Quiet(rows[i])
           /\ Reopening[i].state = "absent" => ~Reopening[i].owned
<1>1. rows[i] \in Row /\ Reopening[i] = Reopened(rows[i])
  BY ReopeningKeeps DEF TickInv, TypeOK
<1>2. i # hand
  BY AnticipationAssumption
<1>3. ~rested[i] => Quiet(rows[i])
  BY <1>2 DEF RestInv, Calm
<1>4. rows[i].state = "absent" => ~rows[i].owned
  BY DEF RestInv, AbsentIsFree
<1> QED
  BY <1>1, <1>3, <1>4 DEF Quiet, Reopened, Row

LEMMA DemotesRests ==
    ASSUME TickInv, RestInv, NEW i \in Intents, TickDemotes(i)
    PROVE  Rests
<1> DEFINE q == [Reopening[i] EXCEPT !.state = "anticipated", !.wait = Due]
<1>1. todo = {} /\ hand = None /\ UNCHANGED tick /\ lost' = lost \ {i} /\ rested' = rested
  BY IdleTick DEF TickDemotes
<1>2. Reopening \in [Intents -> Row] /\ i \in lost
      /\ \A j \in Intents : Reopening[j] = Reopened(rows[j]) /\ rows[j] \in Row
  BY ReopeningKeeps DEF TickInv, TypeOK, TickDemotes, StaleRows
<1>3. rows[i].state = "playable"
  <2>1. Reopened(rows[i]).state = "playable"
    BY DEF TickDemotes, StaleRows
  <2> QED
    BY <1>2, <2>1, ReopenedKeeps
<1>4. q \in Row /\ q.state = "anticipated" /\ rows' = [Reopening EXCEPT ![i] = q]
  <2>1. "anticipated" \in States /\ Due \in Waits
    BY RowSets DEF States
  <2>2. q \in Row /\ q.state = "anticipated"
    BY <1>2, <2>1, Moved
  <2>3. rows' = [Reopening EXCEPT ![i] = q]
    BY <1>2, <2>1, RowMoved DEF TickDemotes
  <2> QED
    BY <2>2, <2>3
<1> HIDE DEF q
<1>5. rows'[i].state = "anticipated" /\ \A j \in Intents \ {i} : rows'[j] = Reopening[j]
  BY <1>2, <1>4
<1>6. rested[i]
  BY <1>2, <1>3 DEF RestInv, Calm
<1>7. \A j \in Intents : ~rested'[j] => Calm(j)'
  <2> SUFFICES ASSUME NEW j \in Intents, ~rested[j] PROVE Calm(j)'
    BY <1>1
  <2>1. j # i /\ rows'[j] = rows[j] /\ Calm(j)
    BY <1>1, <1>5, <1>6, ReopeningCalm DEF RestInv
  <2> QED
    BY <1>1, <2>1, CalmKept DEF tick
<1>8. AbsentIsFree'
  BY <1>1, <1>5, ReopeningCalm DEF AbsentIsFree
<1>9. ServedIsFound' /\ HotFree
  BY <1>1, AnticipationAssumption DEF ServedIsFound, HotFree, tick
<1> QED
  BY <1>7, <1>8, <1>9 DEF Rests, RestInv

LEMMA SeasonRests ==
    ASSUME TickInv, RestInv, TickSeason
    PROVE  Rests
<1>1. /\ todo = {} /\ hand = None /\ rows' = Reopening
      /\ UNCHANGED <<todo, snap, hand, phase, lost, rested>>
  BY IdleTick DEF TickSeason
<1>2. \A j \in Intents : ~rested'[j] => Calm(j)'
  <2> SUFFICES ASSUME NEW j \in Intents, ~rested[j] PROVE Calm(j)'
    BY <1>1
  <2>1. rows'[j] = rows[j] /\ Calm(j)
    BY <1>1, ReopeningCalm DEF RestInv
  <2> QED
    BY <1>1, <2>1, CalmKept
<1>3. AbsentIsFree'
  BY <1>1, ReopeningCalm DEF AbsentIsFree
<1>4. ServedIsFound' /\ HotFree
  BY <1>1, AnticipationAssumption DEF ServedIsFound, HotFree
<1> QED
  BY <1>2, <1>3, <1>4 DEF Rests, RestInv

(* A calm row is in the snapshot only for its release. *)
LEMMA DrainsRests ==
    ASSUME TickInv, RestInv, TickDrains
    PROVE  Rests
<1> DEFINE work == {i \in {j \in Intents : IsDue(Reopening[j])} : IsActionable(Reopening[i])}
<1>1. /\ todo = {} /\ hand = None /\ todo' = work
      /\ UNCHANGED <<hand, phase, lost, rested>>
  BY IdleTick DEF TickDrains
<1>2. \A j \in Intents : /\ Reopening[j] \in Row
                         /\ \/ rows'[j] = Reopening[j]
                            \/ rows'[j] = [Reopening[j] EXCEPT !.wait = 1]
  <2>1. \A j \in Intents : Reopening[j] \in Row
    BY ReopeningKeeps DEF TickInv
  <2> QED
    BY <2>1 DEF TickDrains
<1>3. \A j \in Intents : /\ rows'[j].state = Reopening[j].state
                         /\ rows'[j].owned = Reopening[j].owned
                         /\ rows'[j].defer = Reopening[j].defer
                         /\ rows'[j].stage = Reopening[j].stage
                         /\ rows'[j].wait \in {Reopening[j].wait, 1}
  BY <1>2 DEF Row
<1>4. \A j \in Intents : ~rested'[j] => Calm(j)'
  <2> SUFFICES ASSUME NEW j \in Intents, ~rested[j] PROVE Calm(j)'
    BY <1>1
  <2>1. Reopening[j] = rows[j] /\ Quiet(rows[j]) /\ Calm(j) /\ j # hand
    BY <1>1, ReopeningCalm, AnticipationAssumption DEF RestInv
  <2>2. Quiet(rows'[j])
    BY <1>3, <2>1 DEF Quiet, Due
  <2>3. rows'[j].state = "playable" => j \notin lost'
    BY <1>1, <1>3, <2>1 DEF Calm
  <2>4. ASSUME j \in todo' PROVE Overridden(j)'
    <3>1. IsDue(rows[j]) /\ IsActionable(rows[j])
      BY <1>1, <2>1, <2>4
    <3>2. rows[j].state \in DueStates
      BY <3>1 DEF IsActionable, ReleaseWakes, IsColdRetryEligible, Exhausted, DueStates
    <3>3. rows[j].defer = "future" /\ rows[j].stage = Released
      BY <2>1, <3>1, <3>2 DEF IsDue, Quiet
    <3> QED
      BY <1>3, <2>1, <3>3 DEF Overridden
  <2> QED
    BY <2>2, <2>3, <2>4 DEF Calm
<1>5. AbsentIsFree'
  BY <1>1, <1>3, ReopeningCalm DEF AbsentIsFree
<1>6. ServedIsFound' /\ HotFree
  BY <1>1, AnticipationAssumption DEF ServedIsFound, HotFree
<1> QED
  BY <1>4, <1>5, <1>6 DEF Rests, RestInv

(* A reconciliation leaves the poll time of a row its season owns. *)
LEMMA EnsuredCalm ==
    ASSUME NEW r \in Row, NEW stage \in Stages
    PROVE  /\ Ensured(r, stage).owned /\ Ensured(r, stage).state # "absent"
           /\ r.owned /\ r.state # "absent" =>
                /\ Ensured(r, stage).state = r.state
                /\ Quiet(r) => Quiet(Ensured(r, stage))
<1>1. /\ Ensured(r, stage) \in Row
      /\ Ensured(r, stage).state = IF r.state = "absent" THEN "anticipated" ELSE r.state
  BY EnsuredKeeps
<1>2. Ensured(r, stage).owned
  <2>1. CASE r.state = "absent"
    <3> DEFINE why == IF stage < Released THEN "future" ELSE "market"
               s == Seeded(r, "seerr", stage, why)
    <3>1. why \in Reasons /\ "seerr" \in Sources
      BY DEF Reasons, Sources
    <3>2. s \in Row
      BY <3>1, SeededKeeps
    <3>3. Ensured(r, stage) = [s EXCEPT !.owned = TRUE]
      BY <2>1 DEF Ensured
    <3> HIDE DEF s
    <3> QED
      BY <3>2, <3>3 DEF Row
  <2>2. CASE r.state # "absent"
    BY <2>2 DEF Ensured, Row
  <2> QED
    BY <2>1, <2>2
<1>3. ASSUME r.owned, r.state # "absent", Quiet(r)
      PROVE  Quiet(Ensured(r, stage))
  <2> DEFINE date == IF stage = Undated THEN r.stage ELSE stage
             wait == CASE date < Released -> Released
                       [] date >= Released /\ ~r.owned -> Due
                       [] OTHER -> IF r.wait = Due THEN Due ELSE Later
             defer == IF date < Released /\ r.state \notin {"playable", "withdrawn"}
                      THEN "future" ELSE r.defer
  <2>1. Ensured(r, stage) =
          [r EXCEPT !.owned = TRUE, !.stage = date, !.wait = wait, !.defer = defer]
    BY <1>3 DEF Ensured, Row
  <2>2. r.wait # Due => wait # Due
    BY <1>3 DEF Due, Released, Later
  <2>3. r.state = "playable" => defer = r.defer
    OBVIOUS
  <2> HIDE DEF date, wait, defer
  <2>4. Ensured(r, stage).state = r.state /\ Ensured(r, stage).wait = wait
        /\ Ensured(r, stage).defer = defer
    BY <2>1 DEF Row
  <2> QED
    BY <1>3, <2>2, <2>3, <2>4 DEF Quiet
<1> QED
  BY <1>1, <1>2, <1>3

LEMMA DisownedCalm ==
    ASSUME NEW r \in Row
    PROVE  /\ Disowned(r).state # r.state => Disowned(r).state = "withdrawn"
           /\ Disowned(r).state = "absent" => Disowned(r) = r
           /\ Quiet(r) => Quiet(Disowned(r))
BY DEF Disowned, Row, Quiet, DueStates

(* Rows the snapshot does not hold, after a reconciliation or a restart. *)
LEMMA ReconciledRests ==
    ASSUME TickInv, RestInv, todo' = {}, hand' = None, lost' = lost,
           \A i \in Intents :
             /\ rows'[i].state = "absent" => rows'[i] = rows[i]
             /\ ~rested'[i] => /\ ~rested[i] /\ i # hand
                               /\ Quiet(rows[i]) => Quiet(rows'[i])
                               /\ rows'[i].state = "playable" => rows[i].state = "playable"
    PROVE  Rests
<1>1. \A i \in Intents : ~rested'[i] => Calm(i)'
  BY DEF RestInv, Calm
<1>2. ServedIsFound' /\ AbsentIsFree' /\ HotFree
  BY AnticipationAssumption DEF RestInv, ServedIsFound, AbsentIsFree, HotFree
<1> QED
  BY <1>1, <1>2 DEF Rests, RestInv

LEMMA ListedRests ==
    ASSUME TickInv, RestInv, NEW have \in SUBSET Episodes, NEW listing \in [have -> Stages],
           SeasonListed(listing)
    PROVE  Rests
<1> DEFINE after(i) == IF i \in DOMAIN listing THEN Ensured(rows[i], listing[i])
                       ELSE IF i \in Episodes THEN Disowned(rows[i]) ELSE rows[i]
<1>1. todo = {} /\ hand = None
  BY IdleTick DEF SeasonListed
<1>2. \A i \in Intents :
        /\ rows'[i] = after(i)
        /\ rested'[i] = (rested[i] \/ (after(i).owned /\ ~rows[i].owned))
  BY DEF SeasonListed
<1>3. ASSUME NEW i \in Intents
      PROVE  /\ after(i).state = "absent" => after(i) = rows[i]
             /\ ~(after(i).owned /\ ~rows[i].owned) =>
                  /\ Quiet(rows[i]) => Quiet(after(i))
                  /\ after(i).state = "playable" => rows[i].state = "playable"
  <2>1. rows[i] \in Row /\ (rows[i].state = "absent" => ~rows[i].owned)
    BY DEF TickInv, TypeOK, RestInv, AbsentIsFree
  <2>2. CASE i \in DOMAIN listing
    <3>1. listing[i] \in Stages
      BY <2>2
    <3>2. after(i) = Ensured(rows[i], listing[i])
      BY <2>2
    <3> HIDE DEF after
    <3> QED
      BY <2>1, <3>1, <3>2, EnsuredCalm
  <2>3. CASE i \notin DOMAIN listing
    BY <2>1, <2>3, DisownedCalm
  <2> QED
    BY <2>2, <2>3
<1> HIDE DEF after
<1>4. todo' = {} /\ hand' = None /\ lost' = lost
  BY <1>1 DEF SeasonListed
<1>5. \A i \in Intents : i # hand
  BY <1>1, AnticipationAssumption
<1> QED
  BY <1>2, <1>3, <1>4, <1>5, ReconciledRests

LEMMA FailsRests ==
    ASSUME TickInv, RestInv, SeasonFails
    PROVE  Rests
<1>1. todo = {} /\ hand = None /\ UNCHANGED <<rows, todo, snap, hand, phase, lost, rested>>
  BY IdleTick DEF SeasonFails
<1>2. \A i \in Intents : i # hand
  BY <1>1, AnticipationAssumption
<1> QED
  BY <1>1, <1>2, ReconciledRests

(* A turn ends: its row is calm, if it has not rested. *)
LEMMA LeaveRests ==
    ASSUME TickInv, RestInv, NEW i \in Intents, NEW q \in Row, Leave(i), hand \in {None, i},
           rows' = [rows EXCEPT ![i] = q], lost' = lost, q.state # "absent" \/ q = rows[i],
           \A j \in Intents \ {i} : rested'[j] = rested[j],
           ~rested'[i] => Quiet(q) /\ (q.state = "playable" => i \notin lost)
    PROVE  Rests
<1>1. /\ rows \in [Intents -> Row] /\ snap \in [Intents -> Row] /\ None \notin Intents
      /\ todo' = todo \ {i} /\ hand' = None /\ snap' = [snap EXCEPT ![i] = NoRow]
  BY AnticipationAssumption DEF TickInv, TypeOK, Leave
<1>2. rows'[i] = q /\ \A j \in Intents \ {i} : rows'[j] = rows[j] /\ snap'[j] = snap[j]
  BY <1>1
<1>3. Calm(i)' \/ rested'[i]
  BY <1>1, <1>2 DEF Calm
<1>4. ASSUME NEW j \in Intents \ {i}, ~rested'[j] PROVE Calm(j)'
  <2>1. Calm(j) /\ j # hand
    BY <1>1, <1>4 DEF RestInv
  <2> QED
    BY <1>1, <1>2, <2>1, CalmKept
<1>5. AbsentIsFree'
  BY <1>2 DEF RestInv, AbsentIsFree
<1>6. ServedIsFound' /\ HotFree
  BY <1>1 DEF ServedIsFound, HotFree
<1> QED
  BY <1>3, <1>4, <1>5, <1>6 DEF Rests, RestInv

(* A turn begins: its row has rested or is overridden. *)
LEMMA BeginRests ==
    ASSUME TickInv, RestInv, NEW i, NEW q \in Row, NEW row \in Row, NEW awaited,
           Takes(i), Begin(i, row, awaited), rows' = [rows EXCEPT ![i] = q], lost' = lost,
           q.state \notin {"absent", "playable"}, awaited \notin AfterPublish
    PROVE  Rests
<1>1. /\ rows \in [Intents -> Row] /\ snap \in [Intents -> Row] /\ i \in todo /\ i \in Intents
      /\ rested \in [Intents -> BOOLEAN] /\ None \notin Intents /\ hand = None
  BY ReadOf, AnticipationAssumption DEF TickInv, TypeOK
<1>2. /\ hand' = i /\ phase' = awaited /\ todo' = todo /\ rows'[i] = q
      /\ \A j \in Intents \ {i} : rows'[j] = rows[j] /\ snap'[j] = snap[j] /\ rested'[j] = rested[j]
  BY <1>1 DEF Begin
<1>3. Calm(i)'
  BY <1>2 DEF Calm
<1>4. ASSUME NEW j \in Intents \ {i}, ~rested'[j] PROVE Calm(j)'
  <2>1. Calm(j) /\ j # hand
    BY <1>1, <1>2, <1>4 DEF RestInv
  <2> QED
    BY <1>2, <2>1, CalmKept
<1>5. AbsentIsFree'
  BY <1>2 DEF RestInv, AbsentIsFree
<1>6. ServedIsFound'
  BY <1>2 DEF ServedIsFound, AfterPublish
<1>7. HotFree
  BY <1>1, <1>2 DEF HotFree, RestInv, Calm
<1> QED
  BY <1>3, <1>4, <1>5, <1>6, <1>7 DEF Rests, RestInv

LEMMA SleepIsLater ==
    ASSUME NEW i, NEW stage \in 1..2
    PROVE  Sleep(i, stage) # Due
BY DEF Sleep, Due, Later

LEMMA LosesRests ==
    ASSUME TickInv, RestInv, NEW i, TakeLoses(i)
    PROVE  Rests
<1>1. /\ Takes(i) /\ Leave(i) /\ rows' = [rows EXCEPT ![i] = Stored(i)]
      /\ Stored(i).state # "anticipated" /\ lost' = lost /\ rested' = rested
  BY DEF TakeLoses
<1>2. i \in Intents /\ rows[i] \in Row /\ hand = None /\ i # hand
  BY <1>1, ReadOf, AnticipationAssumption
<1>3. Stored(i) = rows[i]
  BY <1>1, <1>2 DEF Stored, Retried, Row
<1>4. ~rested[i] => Quiet(rows[i]) /\ (rows[i].state = "playable" => i \notin lost)
  BY <1>2 DEF RestInv, Calm
<1> QED
  BY <1>1, <1>2, <1>3, <1>4, LeaveRests

LEMMA SleepsRests ==
    ASSUME TickInv, RestInv, NEW i, TakeSleeps(i)
    PROVE  Rests
<1> DEFINE q == [Stored(i) EXCEPT !.attempts = OneMore(@), !.wait = Sleep(i, 1)]
<1>1. /\ Takes(i) /\ Leave(i) /\ rows' = [rows EXCEPT ![i] = q]
      /\ Stored(i).state = "anticipated" /\ lost' = lost /\ rested' = rested
  BY DEF TakeSleeps
<1>2. i \in Intents /\ Stored(i) \in Row /\ hand = None
  BY <1>1, ReadOf
<1>3. q \in Row /\ q.state = "anticipated" /\ q.wait # Due
  <2>1. OneMore(Stored(i).attempts) \in 0..MaxAttempts /\ Sleep(i, 1) \in Waits
    BY <1>2, RowSets, SleepWaits
  <2>2. Sleep(i, 1) # Due
    BY SleepIsLater
  <2> QED
    BY <1>1, <1>2, <2>1, <2>2 DEF Row
<1> HIDE DEF q
<1> QED
  BY <1>1, <1>2, <1>3, LeaveRests DEF Quiet

LEMMA PreparesRests ==
    ASSUME TickInv, RestInv, NEW i, TakePrepares(i)
    PROVE  Rests
<1> DEFINE q == [Stored(i) EXCEPT !.state = "preparing", !.attempts = OneMore(@)]
           row == Read(i)
           awaited == "prepare"
<1>1. /\ Takes(i) /\ Begin(i, row, awaited) /\ rows' = [rows EXCEPT ![i] = q] /\ lost' = lost
      /\ awaited \notin AfterPublish
  BY DEF TakePrepares, AfterPublish
<1>2. Stored(i) \in Row /\ row \in Row
  BY <1>1, ReadOf
<1>3. q \in Row /\ q.state = "preparing"
  <2>1. OneMore(Stored(i).attempts) \in 0..MaxAttempts
    BY <1>2, RowSets
  <2> QED
    BY <1>2, <2>1 DEF Row, States
<1> HIDE DEF q, row, awaited
<1> QED
  BY <1>1, <1>2, <1>3, BeginRests

LEMMA HoldsRests ==
    ASSUME TickInv, RestInv, NEW i, TakeHolds(i)
    PROVE  Rests
<1> DEFINE q == [rows[i] EXCEPT !.state = Read(i).state, !.wait = Sleep(i, 2)]
<1>1. Takes(i) /\ Leave(i) /\ Read(i).state \in AtWork /\ lost' = lost /\ rested' = rested
  BY DEF TakeHolds, AtWork
<1>2. /\ i \in Intents /\ rows[i] \in Row /\ rows \in [Intents -> Row] /\ hand = None
      /\ Read(i).state \in States
  BY <1>1, ReadOf DEF TickInv, TypeOK, States, AtWork
<1>3. Sleep(i, 2) \in Waits /\ Sleep(i, 2) # Due
  BY SleepWaits, SleepIsLater
<1>4. rows' = [rows EXCEPT ![i] = q]
  <2>1. rows' = [rows EXCEPT ![i].state = Read(i).state, ![i].wait = Sleep(i, 2)]
    BY DEF TakeHolds
  <2> QED
    BY <1>2, <1>3, <2>1, RowMoved
<1>5. q \in Row /\ q.state = Read(i).state /\ q.wait # Due
  <2> DEFINE state == Read(i).state
             wait == Sleep(i, 2)
  <2>1. state \in States /\ wait \in Waits /\ wait # Due
    BY <1>2, <1>3
  <2> HIDE DEF state, wait
  <2>2. LET m == [rows[i] EXCEPT !.state = state, !.wait = wait] IN
        m \in Row /\ m.state = state /\ m.wait = wait
    BY <1>2, <2>1 DEF Row
  <2> QED
    BY <2>1, <2>2 DEF state, wait
<1> HIDE DEF q
<1>6. Quiet(q) /\ q.state # "playable" /\ q.state # "absent"
  BY <1>1, <1>5 DEF Quiet, AtWork
<1> QED
  BY <1>1, <1>2, <1>4, <1>5, <1>6, LeaveRests

LEMMA PublishesRests ==
    ASSUME TickInv, RestInv, NEW i, TakePublishes(i)
    PROVE  Rests
<1>1. Takes(i) /\ Read(i).state \in AtWork /\ lost' = lost /\ rows' = rows
  BY DEF TakePublishes, AtWork, store
<1>2. /\ i \in Intents /\ rows[i] \in Row /\ Read(i) \in Row /\ rows \in [Intents -> Row]
      /\ rows[i].state \in AtWork
  BY <1>1, ReadOf DEF TickInv, TypeOK
<1>3. PICK gated \in QualityGates(Read(i)) :
        Begin(i, Read(i), IF gated THEN "probe" ELSE "publish")
  BY DEF TakePublishes
<1> DEFINE awaited == IF gated THEN "probe" ELSE "publish"
<1>4. awaited \notin AfterPublish /\ Begin(i, Read(i), awaited)
  BY <1>3 DEF AfterPublish
<1>5. rows' = [rows EXCEPT ![i] = rows[i]]
  BY <1>1, <1>2
<1>6. rows[i].state \notin {"absent", "playable"}
  BY <1>2 DEF AtWork
<1> HIDE DEF awaited
<1> QED
  BY <1>1, <1>2, <1>4, <1>5, <1>6, BeginRests

(* An exhausted row whose miss is the market's is due at once, but it was in
   the snapshot at the end of a park. *)
LEMMA RearmsRests ==
    ASSUME TickInv, RestInv, NEW i, TakeRearms(i)
    PROVE  Rests
<1> DEFINE r == Read(i)
           armed == IF ~Exhausted(r) THEN Retried(rows[i], Later, "none")
                    ELSE IF r.defer = "market" THEN Retried(rows[i], Due, "none")
                    ELSE rows[i]
<1>1. /\ Takes(i) /\ Leave(i) /\ rows' = [rows EXCEPT ![i] = armed] /\ r.state = "failed"
      /\ lost' = lost /\ rested' = rested
  BY DEF TakeRearms
<1>2. i \in Intents /\ i \in todo /\ rows[i] \in Row /\ hand = None /\ i # hand
  BY <1>1, ReadOf, AnticipationAssumption
<1>3. ~Woken(i) /\ r = snap[i] /\ Agrees(rows[i], snap[i])
  BY <1>1, <1>2, ReadOf DEF TickInv, SnapAgrees
<1>4. \A wait \in {Due, Later} :
        /\ Retried(rows[i], wait, "none") \in Row
        /\ rows[i].state # "failed" => Retried(rows[i], wait, "none") = rows[i]
        /\ rows[i].state = "failed" =>
             /\ Retried(rows[i], wait, "none").state = "anticipated"
             /\ Retried(rows[i], wait, "none").wait = wait
  <2> TAKE wait \in {Due, Later}
  <2>1. wait \in Waits /\ "none" \in Reasons
    BY RowSets DEF Reasons
  <2>2. rows[i].state = "failed" => Retried(rows[i], wait, "none").wait = wait
    BY <1>2 DEF Retried, Row
  <2> QED
    BY <1>2, <2>1, <2>2, RetriedKeeps
<1>5. armed \in Row /\ (armed.state # "absent" \/ armed = rows[i])
  BY <1>2, <1>4
<1>6. ASSUME ~rested[i]
      PROVE  Quiet(armed) /\ (armed.state = "playable" => i \notin lost)
  <2>1. Quiet(rows[i]) /\ Overridden(i) /\ (rows[i].state = "playable" => i \notin lost)
    BY <1>2, <1>6 DEF RestInv, Calm
  <2>2. CASE armed = rows[i]
    BY <2>1, <2>2
  <2>3. CASE armed # rows[i]
    <3>1. rows[i].state = "failed"
      BY <1>4, <2>3
    <3>2. ~Exhausted(r)
      <4> SUFFICES ASSUME Exhausted(r) PROVE FALSE
        OBVIOUS
      <4>1. snap[i].defer = "market" /\ ~ReleaseWakes(snap[i])
        BY <1>3, <2>3 DEF Woken
      <4>2. rows[i].defer = "market"
        BY <1>3, <3>1, <4>1 DEF Agrees
      <4> QED
        BY <2>1, <4>1, <4>2 DEF Overridden
    <3>3. armed.state = "anticipated" /\ armed.wait = Later
      BY <1>4, <3>1, <3>2
    <3> HIDE DEF armed
    <3> QED
      BY <3>3 DEF Quiet, Due, Later
  <2> QED
    BY <2>2, <2>3
<1> HIDE DEF armed
<1> QED
  BY <1>1, <1>2, <1>5, <1>6, LeaveRests

LEMMA WriteRests ==
    ASSUME TickInv, RestInv, NEW i \in Intents, hand = i,
           NEW state \in States \ {"absent", "playable"}, NEW wait \in Waits,
           Write(i, state, wait)
    PROVE  Rests
<1> DEFINE q == [rows[i] EXCEPT !.state = state, !.wait = wait]
<1>1. rows[i] \in Row /\ rows \in [Intents -> Row] /\ rested \in [Intents -> BOOLEAN]
  BY DEF TickInv, TypeOK
<1>2. q \in Row /\ q.state = state /\ q.wait = wait
  BY <1>1 DEF Row
<1>3. /\ rows' = [rows EXCEPT ![i] = q] /\ Leave(i) /\ lost' = lost
      /\ \A j \in Intents \ {i} : rested'[j] = rested[j]
      /\ ~rested'[i] => wait # Due
  BY <1>1, RowMoved DEF Write
<1> HIDE DEF q
<1>4. ~rested'[i] => Quiet(q)
  BY <1>2, <1>3 DEF Quiet
<1> QED
  BY <1>2, <1>3, <1>4, LeaveRests

(* The rows stay, and what they are known to have lost is not more. *)
LEMMA StillRests ==
    ASSUME TickInv, RestInv, UNCHANGED <<rows, todo, snap, hand, rested>>, lost' \subseteq lost,
           hand # None /\ phase' \in AfterPublish => hand \notin lost'
    PROVE  Rests
<1>1. \A i \in Intents : ~rested'[i] => Calm(i)'
  BY CalmKept DEF RestInv
<1>2. AbsentIsFree' /\ ServedIsFound' /\ HotFree
  BY DEF RestInv, AbsentIsFree, ServedIsFound, HotFree
<1> QED
  BY <1>1, <1>2 DEF Rests, RestInv

LEMMA AnsweredRests ==
    ASSUME TickInv, RestInv, NEW i \in Intents, Answered(i)
    PROVE  Rests
<1>1. /\ hand = i /\ Due \in Waits /\ Later \in Waits
      /\ {"prepared", "anticipated", "failed", "published_preparing"}
           \subseteq States \ {"absent", "playable"}
  BY RowSets
     DEF Answered, PreparedWell, PreparedAgain, BelowFloor, PrepareFails, ActionThrows,
         ProbePasses, Published, Notified, Confirmed, NotYetPlayable, BytesReady, States
<1>2. CASE PreparedWell(i)
  <2>1. Write(i, "prepared", Due)
    BY <1>2 DEF PreparedWell
  <2> QED
    BY <1>1, <2>1, WriteRests
<1>3. CASE PreparedAgain(i)
  BY <1>1, <1>3, StillRests DEF PreparedAgain, AfterPublish, store
<1>4. CASE BelowFloor(i)
  <2> DEFINE state == IF phase = "probe" THEN snap[i].state ELSE "anticipated"
  <2>1. Write(i, state, Later)
    BY <1>4 DEF BelowFloor
  <2>2. state \in States \ {"absent", "playable"}
    BY <1>1, InHand DEF Publishing, AtWork
  <2> HIDE DEF state
  <2> QED
    BY <1>1, <2>1, <2>2, WriteRests
<1>5. CASE PrepareFails(i)
  <2>1. PICK terminal \in BOOLEAN :
          Write(i, IF terminal \/ snap[i].attempts + 1 >= MaxAttempts
                   THEN "failed" ELSE "anticipated", Later)
    BY <1>5 DEF PrepareFails
  <2> DEFINE state == IF terminal \/ snap[i].attempts + 1 >= MaxAttempts
                      THEN "failed" ELSE "anticipated"
  <2>2. Write(i, state, Later) /\ state \in States \ {"absent", "playable"}
    BY <1>1, <2>1
  <2> HIDE DEF state
  <2> QED
    BY <1>1, <2>2, WriteRests
<1>6. CASE ActionThrows(i)
  <2>1. Write(i, "anticipated", Later)
    BY <1>6 DEF ActionThrows
  <2> QED
    BY <1>1, <2>1, WriteRests
<1>7. CASE ProbePasses(i)
  BY <1>1, <1>7, StillRests DEF ProbePasses, AfterPublish, store
<1>8. CASE Published(i)
  BY <1>1, <1>8, StillRests DEF Published
<1>9. CASE Confirmed(i)
  <2>1. hand # None => hand \notin lost
    BY <1>9 DEF Confirmed, RestInv, ServedIsFound, AfterPublish
  <2> QED
    BY <1>1, <1>9, <2>1, StillRests DEF Confirmed, store
<1>10. CASE NotYetPlayable(i)
  <2>1. Write(i, "published_preparing", Later)
    BY <1>10 DEF NotYetPlayable
  <2> QED
    BY <1>1, <2>1, WriteRests
<1>11. CASE BytesReady(i)
  <2> DEFINE q == [rows[i] EXCEPT !.state = "playable", !.wait = Later, !.defer = "none"]
  <2>1. rows[i] \in Row /\ rows \in [Intents -> Row] /\ i # None
    BY AnticipationAssumption DEF TickInv, TypeOK
  <2>2. q \in Row /\ q.state = "playable" /\ q.defer = "none"
    BY <1>1, <2>1 DEF Row, Reasons, States
  <2>3. rows' = [rows EXCEPT ![i] = q] /\ Leave(i) /\ lost' = lost /\ rested' = rested
    BY <1>11, <2>1 DEF BytesReady, Row
  <2>4. i \notin lost
    BY <1>1, <1>11, <2>1 DEF BytesReady, RestInv, ServedIsFound, AfterPublish
  <2> HIDE DEF q
  <2>5. Quiet(q)
    BY <2>2 DEF Quiet, DueStates
  <2> QED
    BY <1>1, <2>2, <2>3, <2>4, <2>5, LeaveRests
<1>12. CASE Notified(i)
  <2>1. hand # None => hand \notin lost
    BY <1>12 DEF Notified, RestInv, ServedIsFound, AfterPublish
  <2> QED
    BY <1>1, <1>12, <2>1, StillRests DEF Notified, store
<1> QED
  BY <1>2, <1>3, <1>4, <1>5, <1>6, <1>7, <1>8, <1>9, <1>10, <1>11, <1>12
     DEF Answered

(* Somebody else writes: a row nobody woke is as before, or withdrawn. *)
LEMMA OutsideRests ==
    ASSUME TickInv, RestInv, NEW after \in [Intents -> Row], NEW woken, Outside(after, woken),
           \A i \in Intents :
             /\ after[i].state = "absent" => after[i] = rows[i]
             /\ i \in woken \/ after[i] = rows[i]
                            \/ after[i] = [rows[i] EXCEPT !.state = "withdrawn"]
    PROVE  Rests
<1>1. /\ rows' = after /\ UNCHANGED <<lost, todo, snap, hand, phase>>
      /\ \A i \in Intents : rested'[i] = (rested[i] \/ i \in woken)
  BY DEF Outside, tick
<1>2. ASSUME NEW i \in Intents, ~rested'[i] PROVE Calm(i)'
  <2>1. Calm(i) /\ i \notin woken
    BY <1>1, <1>2 DEF RestInv
  <2>2. CASE rows'[i] = rows[i]
    BY <1>1, <2>1, <2>2, CalmKept
  <2>3. CASE rows'[i] = [rows[i] EXCEPT !.state = "withdrawn"]
    <3>1. rows[i] \in Row
      BY DEF TickInv, TypeOK
    <3>2. /\ rows'[i].state = "withdrawn" /\ rows'[i].defer = rows[i].defer
          /\ rows'[i].stage = rows[i].stage
      BY <2>3, <3>1 DEF Row
    <3>3. Quiet(rows'[i])
      BY <3>2 DEF Quiet, DueStates
    <3> QED
      BY <1>1, <2>1, <3>2, <3>3 DEF Calm, Overridden, ReleaseWakes
  <2> QED
    BY <1>1, <2>1, <2>2, <2>3
<1>3. AbsentIsFree' /\ ServedIsFound' /\ HotFree
  BY <1>1 DEF RestInv, AbsentIsFree, ServedIsFound, HotFree
<1> QED
  BY <1>2, <1>3 DEF Rests, RestInv

(* One row is written, and woken with it. *)
LEMMA OneRowRests ==
    ASSUME TickInv, RestInv, NEW i \in Intents, NEW q \in Row, q.state # "absent",
           Outside([rows EXCEPT ![i] = q], {i})
    PROVE  Rests
<1> DEFINE after == [rows EXCEPT ![i] = q]
<1>1. after \in [Intents -> Row] /\ after[i] = q /\ \A j \in Intents \ {i} : after[j] = rows[j]
  BY DEF TickInv, TypeOK
<1>2. Outside(after, {i})
  OBVIOUS
<1> HIDE DEF after
<1> QED
  BY <1>1, <1>2, OutsideRests

LEMMA RevivedIsThere ==
    ASSUME NEW r \in Row, NEW stage \in Stages, NEW why \in Reasons, r.state # "absent"
    PROVE  Revived(r, stage, why).state # "absent"
BY DEF Revived, Row

LEMMA SeededIsThere ==
    ASSUME NEW r \in Row, NEW source \in Sources, NEW stage \in Stages, NEW why \in Reasons
    PROVE  Seeded(r, source, stage, why) \in Row /\ Seeded(r, source, stage, why).state # "absent"
<1>1. /\ Seeded(r, source, stage, why) \in Row
      /\ Seeded(r, source, stage, why).state = IF r.state = "absent" THEN "anticipated" ELSE r.state
  BY SeededKeeps
<1> QED
  BY <1>1

LEMMA RestartRests ==
    ASSUME TickInv, RestInv, NEW asked \in SUBSET Episodes, Restart(asked)
    PROVE  Rests
<1> DEFINE after(i) == IF season # "none" /\ i \in asked
                       THEN Ensured(rows[i], rows[i].stage) ELSE rows[i]
<1>1. \A i \in Intents :
        /\ rows'[i] = after(i)
        /\ rested'[i] = (rested[i] \/ i = hand \/ (after(i).owned /\ ~rows[i].owned))
  BY DEF Restart
<1>2. todo' = {} /\ hand' = None /\ lost' = lost
  BY DEF Restart
<1>3. ASSUME NEW i \in Intents
      PROVE  /\ after(i).state = "absent" => after(i) = rows[i]
             /\ ~(after(i).owned /\ ~rows[i].owned) =>
                  /\ Quiet(rows[i]) => Quiet(after(i))
                  /\ after(i).state = "playable" => rows[i].state = "playable"
  <2>1. rows[i] \in Row /\ rows[i].stage \in Stages
        /\ (rows[i].state = "absent" => ~rows[i].owned)
    BY DEF TickInv, TypeOK, RestInv, AbsentIsFree, Row
  <2>2. CASE season # "none" /\ i \in asked
    <3>1. after(i) = Ensured(rows[i], rows[i].stage)
      BY <2>2
    <3> HIDE DEF after
    <3> QED
      BY <2>1, <3>1, EnsuredCalm
  <2>3. CASE ~(season # "none" /\ i \in asked)
    BY <2>3
  <2> QED
    BY <2>2, <2>3
<1> HIDE DEF after
<1> QED
  BY <1>1, <1>2, <1>3, ReconciledRests

LEMMA UnboundRests ==
    ASSUME TickInv, RestInv, NEW i \in Intents, Unbound(i)
    PROVE  Rests
<1>1. /\ rows[i].state = "playable" /\ lost' = lost \cup {i}
      /\ UNCHANGED <<rows, todo, snap, hand, phase>>
      /\ rested'[i] /\ \A j \in Intents \ {i} : rested'[j] = rested[j]
  BY DEF Unbound, tick, TickInv, TypeOK
<1>2. i # hand
  BY <1>1, InHand DEF AtWork
<1>3. ASSUME NEW j \in Intents, ~rested'[j] PROVE Calm(j)'
  <2>1. j # i /\ Calm(j)
    BY <1>1, <1>3 DEF RestInv
  <2> QED
    BY <1>1, <2>1, CalmKept
<1>4. ServedIsFound' /\ AbsentIsFree' /\ HotFree
  BY <1>1, <1>2 DEF RestInv, ServedIsFound, AbsentIsFree, HotFree
<1> QED
  BY <1>3, <1>4 DEF Rests, RestInv

LEMMA OthersRests ==
    ASSUME TickInv, RestInv, Others
    PROVE  Rests
<1>1. /\ rows \in [Intents -> Row] /\ \A i \in Intents : rows[i] \in Row
      /\ Requested \subseteq Intents /\ ArrRows \subseteq Intents /\ Dates \subseteq Stages
      /\ {"future", "market", "other", "none"} \subseteq Reasons
      /\ {"seerr", "arr", "follow-up"} \subseteq Sources
      /\ Due \in Waits /\ Later \in Waits /\ 1 \in Waits /\ Undated \in Stages
  BY AnticipationAssumption, RowSets DEF TickInv, TypeOK, Reasons, Sources
<1>2. ASSUME NEW i \in Requested, NEW s \in Dates, NEW why \in {"future", "market"},
             SeerrDefers(i, s, why)
      PROVE  Rests
  <2> DEFINE r == Seeded(rows[i], "seerr", s, why)
             q == Revived(r, s, why)
  <2>1. i \in Intents /\ s \in Stages /\ why \in Reasons
    BY <1>1
  <2>2. r \in Row /\ r.state # "absent"
    <3>1. rows[i] \in Row /\ "seerr" \in Sources
      BY <1>1, <2>1
    <3> QED
      BY <2>1, <3>1, SeededIsThere
  <2>3. q \in Row /\ q.state # "absent"
    <3> HIDE DEF r
    <3> QED
      BY <2>1, <2>2, RevivedKeeps, RevivedIsThere
  <2>4. Outside([rows EXCEPT ![i] = q], {i})
    BY <1>2 DEF SeerrDefers
  <2> HIDE DEF q
  <2> QED
    BY <2>1, <2>3, <2>4, OneRowRests
<1>3. CASE SeerrWithdraws
  <2> DEFINE q(i) == IF rows[i].source = "seerr" /\ rows[i].state \in {"anticipated", "failed"}
                     THEN [rows[i] EXCEPT !.state = "withdrawn"] ELSE rows[i]
             after == [i \in Intents |-> q(i)]
  <2>1. \A i \in Intents : /\ q(i) \in Row
                           /\ q(i).state = "absent" => q(i) = rows[i]
                           /\ q(i) = rows[i] \/ q(i) = [rows[i] EXCEPT !.state = "withdrawn"]
    BY <1>1 DEF Row, States
  <2>2. Outside(after, {})
    BY <1>3 DEF SeerrWithdraws
  <2> HIDE DEF q
  <2>3. after \in [Intents -> Row] /\ \A i \in Intents : after[i] = q(i)
    BY <2>1
  <2> HIDE DEF after
  <2> QED
    BY <2>1, <2>2, <2>3, OutsideRests
<1>4. ASSUME NEW media \in SUBSET Intents, SeerrWakes(media)
      PROVE  Rests
  <2> DEFINE waiting == {i \in Intents : rows[i].state \in {"anticipated", "failed"}}
             asked   == {i \in waiting : rows[i].source = "seerr"}
             woken   == IF asked # {} THEN asked ELSE media \cap waiting
             q(i) == IF i \in woken THEN [rows[i] EXCEPT !.wait = Due] ELSE rows[i]
             after == [i \in Intents |-> q(i)]
  <2>1. Outside(after, woken)
    BY <1>4 DEF SeerrWakes
  <2> HIDE DEF woken
  <2>2. \A i \in Intents : /\ q(i) \in Row /\ q(i).state = rows[i].state
                           /\ q(i).owned = rows[i].owned
                           /\ i \in woken \/ q(i) = rows[i]
    BY <1>1 DEF Row
  <2>3. \A i \in woken : rows[i].state # "absent"
    BY DEF woken
  <2> HIDE DEF q
  <2>4. after \in [Intents -> Row] /\ \A i \in Intents : after[i] = q(i)
    BY <2>2
  <2> HIDE DEF after
  <2> QED
    BY <2>1, <2>2, <2>3, <2>4, OutsideRests
<1>5. ASSUME NEW i \in Requested, NEW why \in {"market", "other"}, FollowUp(i, why)
      PROVE  Rests
  <2> DEFINE q == IF rows[i].state = "absent"
                  THEN Seeded(rows[i], "follow-up", Undated, why)
                  ELSE Revived(rows[i], Undated, why)
  <2>1. i \in Intents /\ why \in Reasons
    BY <1>1
  <2>2. q \in Row /\ q.state # "absent"
    BY <1>1, <2>1, SeededKeeps, RevivedKeeps, RevivedIsThere
  <2>3. Outside([rows EXCEPT ![i] = q], {i})
    BY <1>5 DEF FollowUp
  <2> HIDE DEF q
  <2> QED
    BY <2>1, <2>2, <2>3, OneRowRests
<1>6. ASSUME NEW i \in ArrRows, NEW s \in Dates, NEW has \in BOOLEAN, ArrReports(i, s, has)
      PROVE  Rests
  <2> DEFINE r == Seeded(rows[i], "arr", s, "none")
             stage == IF s = Undated THEN r.stage ELSE s
             wait == IF has THEN Later ELSE IF s = 0 THEN 1 ELSE Due
             q == [r EXCEPT !.stage = stage, !.satisfied = has, !.wait = wait]
  <2>1. i \in Intents /\ s \in Stages /\ wait \in Waits
    BY <1>1
  <2>2. r \in Row /\ r.state # "absent"
    <3>1. rows[i] \in Row /\ "arr" \in Sources /\ "none" \in Reasons
      BY <1>1, <2>1
    <3> QED
      BY <2>1, <3>1, SeededIsThere
  <2>3. Outside([rows EXCEPT ![i] = q], {i})
    BY <1>6 DEF ArrReports
  <2> HIDE DEF r, wait
  <2>4. stage \in Stages
    BY <2>1, <2>2 DEF Row
  <2> HIDE DEF stage
  <2>5. q \in Row /\ q.state # "absent"
    BY <2>1, <2>2, <2>4 DEF Row
  <2> HIDE DEF q
  <2> QED
    BY <2>1, <2>3, <2>5, OneRowRests
<1>7. ASSUME NEW i \in ArrRows, ArrVanishes(i)
      PROVE  Rests
  <2> DEFINE q == [rows[i] EXCEPT !.state = IF @ = "anticipated" THEN "withdrawn" ELSE @]
             after == [rows EXCEPT ![i] = q]
  <2>1. i \in Intents /\ rows[i] \in Row
    BY <1>1
  <2>2. q \in Row /\ (q = rows[i] \/ q = [rows[i] EXCEPT !.state = "withdrawn"])
        /\ (q.state = "absent" => q = rows[i])
    BY <2>1 DEF Row, States
  <2>3. Outside(after, {})
    BY <1>1, <1>7, <2>1 DEF ArrVanishes
  <2> HIDE DEF q
  <2>4. after \in [Intents -> Row] /\ after[i] = q /\ \A j \in Intents \ {i} : after[j] = rows[j]
    BY <1>1, <2>1, <2>2
  <2> HIDE DEF after
  <2> QED
    BY <2>2, <2>3, <2>4, OutsideRests
<1>8. CASE SeasonRequested
  <2>1. UNCHANGED <<rows, todo, snap, hand, phase, rested, lost>>
    BY <1>8 DEF SeasonRequested, tick
  <2> QED
    BY <2>1, StillRests DEF RestInv, ServedIsFound
<1>9. ASSUME NEW i \in Intents, Unbound(i) PROVE Rests
  BY <1>9, UnboundRests
<1>10. ASSUME NEW asked \in SUBSET Episodes, Restart(asked) PROVE Rests
  BY <1>10, RestartRests
<1>11. CASE ScopeCloses
  <2>1. hand # None => hand \notin lost
    BY <1>11 DEF ScopeCloses, RestInv, ServedIsFound, AfterPublish
  <2> QED
    BY <1>11, <2>1, StillRests DEF ScopeCloses, store
<1> QED
  BY <1>2, <1>3, <1>4, <1>5, <1>6, <1>7, <1>8, <1>9, <1>10, <1>11 DEF Others

(* The clock reaches one row, which has rested then. *)
LEMMA ReachedRests ==
    ASSUME TickInv, RestInv, NEW i \in Intents, rested' = [rested EXCEPT ![i] = TRUE],
           UNCHANGED <<todo, hand, phase, lost>>,
           \A j \in Intents \ {i} : rows'[j] = rows[j] /\ snap'[j] = snap[j],
           rows'[i].state = rows[i].state, rows'[i].owned = rows[i].owned
    PROVE  Rests
<1>1. rested'[i] /\ \A j \in Intents \ {i} : rested'[j] = rested[j]
  BY DEF TickInv, TypeOK
<1>2. ASSUME NEW j \in Intents, ~rested'[j] PROVE Calm(j)'
  BY <1>1, <1>2, CalmKept DEF RestInv
<1>3. ServedIsFound' /\ AbsentIsFree' /\ HotFree
  BY DEF RestInv, ServedIsFound, AbsentIsFree, HotFree
<1> QED
  BY <1>2, <1>3 DEF Rests, RestInv

LEMMA ClockRests ==
    ASSUME TickInv, RestInv, Clock
    PROVE  Rests
<1>1. /\ rows \in [Intents -> Row] /\ snap \in [Intents -> Row]
      /\ \A i \in Intents : rows[i] \in Row /\ snap[i] \in Row
  BY DEF TickInv, TypeOK
<1>2. CASE SeasonElapses
  <2>1. UNCHANGED <<rows, todo, snap, hand, phase, rested, lost>>
    BY <1>2 DEF SeasonElapses, tick
  <2> QED
    BY <2>1, StillRests DEF RestInv, ServedIsFound
<1>3. ASSUME NEW i \in Intents, WaitElapses(i) PROVE Rests
  <2> DEFINE q == [rows[i] EXCEPT !.wait = Due]
  <2>1. rows' = [rows EXCEPT ![i] = q] /\ UNCHANGED <<todo, snap, hand, phase, lost>>
        /\ rested' = [rested EXCEPT ![i] = TRUE]
    BY <1>1, <1>3 DEF WaitElapses, tick
  <2>2. q.state = rows[i].state /\ q.owned = rows[i].owned
    BY <1>1 DEF Row
  <2> HIDE DEF q
  <2> QED
    BY <1>1, <2>1, <2>2, ReachedRests
<1>4. ASSUME NEW i \in Intents, TimePasses(i) PROVE Rests
  <2>1. PICK s \in 0..2 :
          /\ rows' = IF rows[i].stage = s
                     THEN [rows EXCEPT ![i].stage = s + 1,
                                       ![i].wait = IF @ = s + 1 THEN Due ELSE @]
                     ELSE rows
          /\ snap' = IF snap[i].stage = s THEN [snap EXCEPT ![i].stage = s + 1] ELSE snap
          /\ rested' = [rested EXCEPT ![i] = TRUE]
          /\ UNCHANGED <<season, seasonLast, pc, todo, hand, phase, lost, orphans, events>>
    BY <1>4 DEF TimePasses
  <2> DEFINE q == IF rows[i].stage = s
                  THEN [rows[i] EXCEPT !.stage = s + 1, !.wait = IF @ = s + 1 THEN Due ELSE @]
                  ELSE rows[i]
             z == IF snap[i].stage = s THEN [snap[i] EXCEPT !.stage = s + 1] ELSE snap[i]
  <2>2. q.state = rows[i].state /\ q.owned = rows[i].owned
    BY <1>1 DEF Row
  <2>3. rows' = [rows EXCEPT ![i] = q] /\ snap' = [snap EXCEPT ![i] = z]
    BY <1>1, <2>1 DEF Row
  <2> HIDE DEF q, z
  <2>4. /\ rows'[i] = q
        /\ \A j \in Intents \ {i} : rows'[j] = rows[j] /\ snap'[j] = snap[j]
    BY <1>1, <2>3
  <2> QED
    BY <2>1, <2>2, <2>4, ReachedRests
<1> QED
  BY <1>2, <1>3, <1>4 DEF Clock

LEMMA NextRests ==
    ASSUME TickInv, RestInv, Next
    PROVE  Rests
<1>1. CASE TickBegins
  BY <1>1, DemotesRests, SeasonRests, DrainsRests DEF TickBegins
<1>2. CASE SeasonAnswers
  <2>1. PICK have \in SUBSET Episodes : \E listing \in [have -> Stages] : SeasonListed(listing)
    BY <1>2 DEF SeasonAnswers
  <2> QED
    BY <2>1, ListedRests
<1>3. CASE SeasonFails
  BY <1>3, FailsRests
<1>4. ASSUME NEW i \in Intents, TakesUp(i) PROVE Rests
  BY <1>4, LosesRests, SleepsRests, PreparesRests, HoldsRests, PublishesRests, RearmsRests
     DEF TakesUp
<1>5. ASSUME NEW i \in Intents, Answered(i) PROVE Rests
  BY <1>5, AnsweredRests
<1>6. CASE Others
  BY <1>6, OthersRests
<1>7. CASE Clock
  BY <1>7, ClockRests
<1> QED
  BY <1>1, <1>2, <1>3, <1>4, <1>5, <1>6, <1>7 DEF Next, Works

LEMMA RestInvariant == Spec => [](TickInv /\ RestInv)
<1>1. Init => RestInv
  <2> SUFFICES ASSUME Init PROVE RestInv
    OBVIOUS
  <2>1. \A i \in Intents : rows[i] = NoRow /\ i \notin lost /\ i \notin todo
    BY DEF Init
  <2>2. NoRow.state = "absent" /\ ~NoRow.owned /\ Quiet(NoRow)
    BY DEF NoRow, Quiet, DueStates
  <2> QED
    BY <2>1, <2>2 DEF Init, RestInv, Calm, ServedIsFound, AbsentIsFree
<1>2. TickInv /\ RestInv /\ [Next]_vars => RestInv'
  <2>1. CASE Next
    BY <2>1, NextRests DEF Rests
  <2>2. CASE UNCHANGED vars
    BY <2>2 DEF vars, RestInv, Calm, Quiet, Overridden, ReleaseWakes, ServedIsFound, AbsentIsFree
  <2> QED
    BY <2>1, <2>2
<1> QED
  BY <1>1, <1>2, TickInvariant, PTL DEF Spec

(* A row's turn on the providers begins only after it rested since the last
   one: its backoff or park ran out, a stage of its release was reached or
   somebody asked for it. No reconciliation, restart, park, repair or rearm
   of the tick makes a hot loop; only a row still marked 'future' after its
   release is excepted (future-intents.js, due and ensureSeasonEpisode). *)
THEOREM NoRowIsHot == Spec => NoHotLoop
<1>1. TickInv /\ RestInv /\ [Next]_vars =>
        [\A i \in Intents : hand' = i /\ hand # i => rested[i] \/ Overridden(i)]_vars
  BY NextRests DEF Rests, HotFree
<1> QED
  BY <1>1, RestInvariant, PTL DEF Spec, NoHotLoop

(* An exhausted row is taken up again only by somebody else, at its release, or
   for the season that still owns it and then only after it has rested: what
   is found for it in the snapshot is still true of it, and a row that has not
   rested since its last turn is not in the snapshot (isColdRetryEligible,
   scheduler.js:62-90). *)
THEOREM ExhaustedRemains == Spec => ExhaustedRests
<1>1. TickInv /\ RestInv /\ [Next]_vars =>
        [\A i \in Intents :
           /\ Exhausted(rows[i])
           /\ rows'[i].state = "anticipated"
           => \/ UNCHANGED tick
              \/ ReleaseWakes(snap[i])
              \/ Obliged(rows[i]) /\ rested[i]]_vars
  <2> SUFFICES ASSUME TickInv, RestInv, Next, NEW i \in Intents,
                      Exhausted(rows[i]), rows'[i].state = "anticipated",
                      ~UNCHANGED tick, ~ReleaseWakes(snap[i])
               PROVE  Obliged(rows[i]) /\ rested[i]
    OBVIOUS
  <2>1. Obliged(rows[i]) /\ i \in todo /\ hand = None
    BY NextGood DEF Good, LetsRest
  <2>2. ~Overridden(i)
    BY <2>1 DEF Overridden, Obliged
  <2>3. i # None
    BY AnticipationAssumption
  <2>4. ~rested[i] => Calm(i)
    BY DEF RestInv
  <2> QED
    BY <2>1, <2>2, <2>3, <2>4 DEF Calm
<1> QED
  BY <1>1, RestInvariant, PTL DEF Spec, ExhaustedRests
=============================================================================
