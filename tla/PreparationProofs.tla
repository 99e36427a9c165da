-------------------------- MODULE PreparationProofs --------------------------
(***************************************************************************)
(* Theorems of Preparation, for any releases, limits, rows and crashes:    *)
(* its variables keep their types, a release has one preparation at work   *)
(* at a provider, a ready row has its placement, the rows live the life of *)
(* PrepareContract, one that ended is history, and no more of them have a  *)
(* resource than the limit allows.                                         *)
(***************************************************************************)
EXTENDS Preparation, FiniteSetTheorems, TLAPS

-----------------------------------------------------------------------------
(* The inductive invariant. *)

(* The row in hand is where its tick is, and the rows still to be taken up
   are where listDue found them. *)
TickOwns ==
    /\ tick.at \in {"step", "placed"} => rows[tick.row].state = "acquiring"
    /\ tick.at = "requeue" => rows[tick.row].state = "failed_temporary"
    /\ \A i \in tick.todo : rows[i].state \in {"queued", "waiting"}

Placed(i) == \E p \in placements : p.provider = rows[i].provider /\ p.hash = rows[i].hash

(* markReady comes after the placement is on record. *)
PlacedFirst == tick.at = "placed" => Placed(tick.row)

PrepInv == PreparationTypeOK /\ TickOwns /\ PlacedFirst /\ SingleFlight /\ ReadyMeansPlaced

-----------------------------------------------------------------------------
(* The table. *)

LEMMA RowsSeq ==
    ASSUME PreparationTypeOK
    PROVE  /\ Len(rows) \in Nat /\ Ids = 1..Len(rows) /\ Ids \subseteq Id
           /\ rows \in [Ids -> Row] /\ MaxRows \in Nat
<1>1. rows \in Seq(Row) /\ Len(rows) <= MaxRows /\ MaxRows \in Nat
  BY PrepareLimits DEF PreparationTypeOK
<1>2. Len(rows) \in Nat /\ DOMAIN rows = 1..Len(rows) /\ rows \in [1..Len(rows) -> Row]
  BY <1>1
<1> QED
  BY <1>1, <1>2 DEF Ids, Id

(* What a step that replaces one row leaves. *)
LEMMA RowReplaced ==
    ASSUME PreparationTypeOK, NEW i \in Ids, NEW r \in Row, rows' = [rows EXCEPT ![i] = r]
    PROVE  /\ rows' \in Seq(Row) /\ Len(rows') = Len(rows) /\ Ids' = Ids
           /\ rows'[i] = r /\ \A k \in Ids \ {i} : rows'[k] = rows[k]
           /\ StateOf' = [StateOf EXCEPT ![i] = r.state]
<1>1. /\ Len(rows) \in Nat /\ Ids = 1..Len(rows) /\ Ids \subseteq Id
      /\ rows \in [Ids -> Row]
  BY RowsSeq
<1>2. rows' \in [1..Len(rows) -> Row]
  BY <1>1
<1>3. rows' \in Seq(Row) /\ Len(rows') = Len(rows) /\ Ids' = Ids
  BY <1>1, <1>2 DEF Ids
<1>4. rows'[i] = r /\ \A k \in Ids \ {i} : rows'[k] = rows[k]
  BY <1>1
<1>5. StateOf' = [StateOf EXCEPT ![i] = r.state]
  BY <1>1, <1>3, <1>4 DEF StateOf, Ids
<1> QED
  BY <1>3, <1>4, <1>5

(* A row is replaced by one of the same release and provider: single flight
   holds if it is not taken up again, and a ready one needs its placement. *)
LEMMA RowKeeps ==
    ASSUME PrepInv, NEW i \in Ids, NEW r \in Row, rows' = [rows EXCEPT ![i] = r],
           r.hash = rows[i].hash, r.provider = rows[i].provider,
           r.state \in Contract!ActiveStates => Active(i),
           placements \subseteq placements',
           r.state = "ready" => rows[i].state = "ready" \/ Placed(i)
    PROVE  SingleFlight' /\ ReadyMeansPlaced'
<1>1. /\ Ids' = Ids /\ rows'[i] = r
      /\ \A k \in Ids \ {i} : rows'[k] = rows[k]
  BY RowReplaced DEF PrepInv
<1>2. \A k \in Ids : /\ rows'[k].hash = rows[k].hash /\ rows'[k].provider = rows[k].provider
                     /\ (rows'[k].state \in Contract!ActiveStates => Active(k))
                     /\ (rows'[k].state = "ready" => rows[k].state = "ready" \/ Placed(k))
  BY <1>1 DEF Active
<1>3. SingleFlight'
  BY <1>1, <1>2 DEF PrepInv, SingleFlight, Active
<1>4. \A k \in Ids : rows'[k].state = "ready" => Placed(k)
  BY <1>2 DEF PrepInv, ReadyMeansPlaced, Placed
<1>5. ReadyMeansPlaced'
  BY <1>1, <1>2, <1>4 DEF ReadyMeansPlaced, Placed
<1> QED
  BY <1>3, <1>5

(* The row a mark writes. *)
LEMMA MarkedRow ==
    ASSUME PreparationTypeOK, NEW i \in Ids, NEW s \in Contract!States, NEW due \in BOOLEAN
    PROVE  \E r \in Row :
             /\ Mark(i, s, due) = [rows EXCEPT ![i] = r]
             /\ r.state = s /\ r.hash = rows[i].hash /\ r.provider = rows[i].provider
<1>1. rows[i] \in Row /\ rows \in [Ids -> Row]
  BY RowsSeq
<1> DEFINE r == [rows[i] EXCEPT !.state = s, !.due = due]
<1>2. r \in Row /\ r.state = s /\ r.hash = rows[i].hash /\ r.provider = rows[i].provider
  BY <1>1 DEF Row
<1>3. Mark(i, s, due) = [rows EXCEPT ![i] = r]
  BY <1>1 DEF Mark
<1> QED
  BY <1>2, <1>3

(* What a created row leaves. *)
LEMMA RowCreated ==
    ASSUME PreparationTypeOK, NEW h \in Hash, NEW p \in Provider, NEW plan \in SUBSET Provider,
           NEW table \in Seq(Row), Len(table) = Len(rows), Len(rows) < MaxRows,
           rows' = Append(table, NewRow(h, p, plan))
    PROVE  /\ rows' \in Seq(Row) /\ Len(rows') = Len(rows) + 1
           /\ Ids' = Ids \cup {Len(rows) + 1} /\ Len(rows) + 1 \in Id \ Ids
           /\ rows'[Len(rows) + 1] = NewRow(h, p, plan)
           /\ \A k \in Ids : rows'[k] = table[k]
<1>1. Len(rows) \in Nat /\ Ids = 1..Len(rows) /\ MaxRows \in Nat
  BY RowsSeq
<1>2. NewRow(h, p, plan) \in Row
  BY PrepareLimits DEF NewRow, Row, Contract!States, Contract!ActiveStates
<1>3. /\ rows' \in Seq(Row) /\ Len(rows') = Len(rows) + 1
      /\ rows'[Len(rows) + 1] = NewRow(h, p, plan)
      /\ \A k \in 1..Len(rows) : rows'[k] = table[k]
  <2> DEFINE n == NewRow(h, p, plan)
  <2> HIDE DEF n
  <2>1. n \in Row /\ rows' = Append(table, n)
    BY <1>2 DEF n
  <2>2. /\ rows' \in Seq(Row) /\ Len(rows') = Len(rows) + 1
        /\ rows'[Len(rows) + 1] = n
        /\ \A k \in 1..Len(rows) : rows'[k] = table[k]
    BY <1>1, <2>1
  <2> QED
    BY <2>2 DEF n
<1> QED
  BY <1>1, <1>3 DEF Ids, Id

-----------------------------------------------------------------------------
(* The steps. *)

(* What every step is to have: the invariant again, and a step of the life of
   the rows. *)
Good == PrepInv' /\ [Contract!Next]_StateOf

(* The type of everything but the table. *)
TickType ==
    /\ placements \subseteq Placement
    /\ tick \in [ at : {"idle", "loop", "step", "placed", "requeue"},
                 todo : SUBSET Ids, row : {0} \cup Ids ]
    /\ IF tick.at \in {"idle", "loop"} THEN tick.row = 0 ELSE tick.row \in Ids \ tick.todo
    /\ crashes \in 0..MaxCrashes

(* The life of one row, as PrepareContract's actions give it. *)
Life(a, b) ==
    \/ a = b
    \/ a \in {"queued", "waiting"} /\ b = "acquiring"
    \/ a \in {"queued", "acquiring"} /\ b = "waiting"
    \/ a = "acquiring" /\ b = "failed_temporary"
    \/ a = "failed_temporary" /\ b = "queued"
    \/ a = "acquiring" /\ b \in {"ready", "failed_policy", "failed_terminal"}

LEMMA LifeMoves ==
    ASSUME PreparationTypeOK, NEW i \in Ids, NEW b,
           Life(rows[i].state, b), StateOf' = [StateOf EXCEPT ![i] = b]
    PROVE  [Contract!Next]_StateOf
<1>1. i \in Id /\ StateOf[i] = rows[i].state /\ StateOf \in [Id -> {StateOf[k] : k \in Id}]
  BY RowsSeq DEF StateOf
<1>2. CASE rows[i].state = b
  BY <1>1, <1>2
<1>3. CASE rows[i].state # b
  BY <1>1, <1>3 DEF Life, Contract!Next, Contract!Claim, Contract!Wait, Contract!FailTemporary,
                    Contract!Requeue, Contract!Finish, Contract!To
<1> QED
  BY <1>2, <1>3

(* A step that replaces one row. *)
LEMMA RowGood ==
    ASSUME PrepInv, NEW i \in Ids, NEW r \in Row, rows' = [rows EXCEPT ![i] = r],
           r.hash = rows[i].hash, r.provider = rows[i].provider,
           Life(rows[i].state, r.state),
           r.state = "ready" => rows[i].state = "ready" \/ Placed(i),
           placements \subseteq placements',
           TickType', TickOwns', PlacedFirst'
    PROVE  Good
<1>1. r.state \in Contract!ActiveStates => Active(i)
  BY DEF Life, Active, Contract!ActiveStates
<1>2. SingleFlight' /\ ReadyMeansPlaced'
  BY <1>1, RowKeeps
<1>3. rows' \in Seq(Row) /\ Len(rows') = Len(rows) /\ StateOf' = [StateOf EXCEPT ![i] = r.state]
  BY RowReplaced DEF PrepInv
<1>4. PreparationTypeOK'
  BY <1>3 DEF PrepInv, PreparationTypeOK, TickType
<1>5. [Contract!Next]_StateOf
  BY <1>3, LifeMoves DEF PrepInv
<1> QED
  BY <1>2, <1>4, <1>5 DEF Good, PrepInv

(* The tick goes on to the rows it has left. *)
LEMMA LoopGoes ==
    ASSUME PrepInv, NEW todo \in SUBSET tick.todo, tick' = Loop(todo),
           Ids \subseteq Ids', \A k \in todo : rows'[k] = rows[k],
           UNCHANGED <<placements, crashes>>
    PROVE  TickType' /\ TickOwns' /\ PlacedFirst'
<1>1. /\ tick' \in [at : {"idle", "loop"}, todo : {todo}, row : {0}]
      /\ tick'.at \in {"idle", "loop"} /\ tick'.todo = todo /\ tick'.row = 0
  BY DEF Loop, Idle
<1>2. TickType'
  BY <1>1 DEF PrepInv, PreparationTypeOK, TickType
<1>3. TickOwns' /\ PlacedFirst'
  BY <1>1 DEF PrepInv, TickOwns, PlacedFirst
<1> QED
  BY <1>2, <1>3

(* The row in hand is not one the tick has still to take up. *)
LEMMA InHandApart ==
    ASSUME PrepInv, NEW i \in Ids, NEW at \in {"step", "placed", "requeue"}, InHand(at, i)
    PROVE  i \notin tick.todo
BY DEF PrepInv, PreparationTypeOK, InHand

(* A mark with which the tick is done with a row. *)
LEMMA MarkGood ==
    ASSUME PrepInv, NEW i \in Ids, NEW s \in Contract!States \ {"ready"}, NEW due \in BOOLEAN,
           rows' = Mark(i, s, due), Life(rows[i].state, s),
           NEW todo \in SUBSET (tick.todo \ {i}), tick' = Loop(todo),
           UNCHANGED <<placements, crashes>>
    PROVE  Good
<1>1. PICK r \in Row : /\ rows' = [rows EXCEPT ![i] = r]
                       /\ r.state = s /\ r.hash = rows[i].hash /\ r.provider = rows[i].provider
  BY MarkedRow DEF PrepInv
<1>2. Ids' = Ids /\ \A k \in Ids \ {i} : rows'[k] = rows[k]
  BY <1>1, RowReplaced DEF PrepInv
<1>3. todo \subseteq Ids
  BY DEF PrepInv, PreparationTypeOK
<1>4. TickType' /\ TickOwns' /\ PlacedFirst'
  BY <1>2, <1>3, LoopGoes
<1> QED
  BY <1>1, <1>4, RowGood

(* A row is created where the table has none at work for it. *)
LEMMA CreateKeeps ==
    ASSUME PrepInv, NEW h \in Hash, NEW p \in Provider, NEW plan \in SUBSET Provider,
           NEW table \in Seq(Row), Len(table) = Len(rows), Len(rows) < MaxRows,
           rows' = Append(table, NewRow(h, p, plan)), FindActive(h, p) = {},
           \A k \in Ids : /\ table[k].hash = rows[k].hash /\ table[k].provider = rows[k].provider
                          /\ (table[k].state \in Contract!ActiveStates => Active(k))
                          /\ (table[k].state = "ready" => rows[k].state = "ready"),
           UNCHANGED placements
    PROVE  /\ SingleFlight' /\ ReadyMeansPlaced'
           /\ rows' \in Seq(Row) /\ Len(rows') <= MaxRows
<1> DEFINE n == Len(rows) + 1
<1>1. /\ rows' \in Seq(Row) /\ Len(rows') = n
      /\ Ids' = Ids \cup {n} /\ n \in Id \ Ids
      /\ rows'[n] = NewRow(h, p, plan)
      /\ \A k \in Ids : rows'[k] = table[k]
  BY RowCreated DEF PrepInv
<1>2. rows'[n].hash = h /\ rows'[n].provider = p /\ rows'[n].state = "queued"
  BY <1>1 DEF NewRow
<1>3. \A k \in Ids : ~(rows[k].hash = h /\ rows[k].provider = p /\ Active(k))
  BY DEF FindActive
<1> HIDE DEF n
<1>4. \A k \in Ids : /\ rows'[k].hash = rows[k].hash /\ rows'[k].provider = rows[k].provider
                     /\ (rows'[k].state \in Contract!ActiveStates => Active(k))
                     /\ (rows'[k].state = "ready" => rows[k].state = "ready")
  BY <1>1
<1>5. SingleFlight'
  <2> SUFFICES ASSUME NEW j \in Ids', NEW k \in Ids',
                      rows'[j].state \in Contract!ActiveStates,
                      rows'[k].state \in Contract!ActiveStates,
                      rows'[j].hash = rows'[k].hash, rows'[j].provider = rows'[k].provider
               PROVE  j = k
    BY DEF SingleFlight, Active
  <2>1. CASE j \in Ids /\ k \in Ids
    <3>1. /\ Active(j) /\ Active(k) /\ rows[j].hash = rows[k].hash
          /\ rows[j].provider = rows[k].provider
      BY <1>4, <2>1
    <3>2. SingleFlight
      BY DEF PrepInv
    <3> QED
      BY <2>1, <3>1, <3>2 DEF SingleFlight
  <2>2. CASE j = n /\ k \in Ids
    BY <1>2, <1>3, <1>4, <2>2
  <2>3. CASE j \in Ids /\ k = n
    BY <1>2, <1>3, <1>4, <2>3
  <2> QED
    BY <1>1, <2>1, <2>2, <2>3
<1>6. ReadyMeansPlaced'
  <2> SUFFICES ASSUME NEW k \in Ids', rows'[k].state = "ready"
               PROVE  \E q \in placements : q.provider = rows'[k].provider /\ q.hash = rows'[k].hash
    BY DEF ReadyMeansPlaced
  <2>1. k \in Ids
    BY <1>1, <1>2
  <2>2. /\ rows[k].state = "ready" /\ rows'[k].hash = rows[k].hash
        /\ rows'[k].provider = rows[k].provider
    BY <1>4, <2>1
  <2>3. ReadyMeansPlaced
    BY DEF PrepInv
  <2> QED
    BY <2>1, <2>2, <2>3 DEF ReadyMeansPlaced
<1>7. n <= MaxRows
  BY RowsSeq DEF PrepInv, n
<1> QED
  BY <1>1, <1>5, <1>6, <1>7

LEMMA PlanTypes ==
    ASSUME NEW plan \in SUBSET Provider, plan # {}
    PROVE  First(plan) \in plan /\ First(plan) \in Provider
BY DEF First, Provider

LEMMA StutterGood == ASSUME PrepInv, UNCHANGED vars PROVE Good
<1>1. StateOf' = StateOf
  BY DEF vars, StateOf
<1>2. PrepInv'
  BY DEF vars, PrepInv, PreparationTypeOK, TickOwns, PlacedFirst, Placed, SingleFlight,
         ReadyMeansPlaced, Ids, Active
<1> QED
  BY <1>1, <1>2 DEF Good

LEMMA PlayGood == ASSUME PrepInv, NEW h \in Hash, Play(h) PROVE Good
<1> DEFINE p == First(Provider)
           n == Len(rows) + 1
<1>1. /\ Len(rows) < MaxRows /\ rows' = StartOrJoin(rows, h, p, Provider)
      /\ UNCHANGED <<placements, tick, crashes>>
  BY DEF Play
<1>2. p \in Provider /\ Provider \in SUBSET Provider
  BY PlanTypes DEF Provider
<1> HIDE DEF p
<1>3. CASE FindActive(h, p) # {}
  BY <1>1, <1>3, StutterGood DEF StartOrJoin, vars
<1>4. CASE FindActive(h, p) = {}
  <2>1. rows' = Append(rows, NewRow(h, p, Provider)) /\ rows \in Seq(Row)
    BY <1>1, <1>4 DEF StartOrJoin, PrepInv, PreparationTypeOK
  <2>2. /\ SingleFlight' /\ ReadyMeansPlaced'
        /\ rows' \in Seq(Row) /\ Len(rows') <= MaxRows
    BY <1>1, <1>2, <1>4, <2>1, CreateKeeps DEF Active
  <2>3. /\ Ids' = Ids \cup {n} /\ n \in Id \ Ids
        /\ rows'[n] = NewRow(h, p, Provider)
        /\ \A k \in Ids : rows'[k] = rows[k]
    BY <1>1, <1>2, <2>1, RowCreated DEF PrepInv
  <2>4. PreparationTypeOK' /\ TickOwns' /\ PlacedFirst'
    BY <1>1, <2>2, <2>3 DEF PrepInv, PreparationTypeOK, TickOwns, PlacedFirst, Placed
  <2>5. StateOf' = [StateOf EXCEPT ![n] = "queued"] /\ StateOf[n] = "none"
    <3>1. rows'[n].state = "queued"
      BY <2>3 DEF NewRow
    <3> QED
      BY <2>3, <3>1 DEF StateOf, Ids
  <2>6. Contract!Next
    BY <2>3, <2>5 DEF Contract!Next, Contract!Start, Contract!To
  <2> QED
    BY <2>2, <2>4, <2>6 DEF Good, PrepInv
<1> QED
  BY <1>3, <1>4

(* Time passes for one row. *)
LEMMA TimeGood ==
    ASSUME PrepInv, NEW i \in Ids, PollTime(i) \/ Deadline(i)
    PROVE  Good
<1>1. rows[i] \in Row
  BY RowsSeq DEF PrepInv
<1>2. \E r \in Row : /\ rows' = [rows EXCEPT ![i] = r] /\ r.state = rows[i].state
                     /\ r.hash = rows[i].hash /\ r.provider = rows[i].provider
  <2>1. CASE PollTime(i)
    <3> DEFINE r == [rows[i] EXCEPT !.due = TRUE]
    <3>1. r \in Row /\ r.state = rows[i].state
          /\ r.hash = rows[i].hash /\ r.provider = rows[i].provider
      BY <1>1 DEF Row
    <3>2. rows' = [rows EXCEPT ![i] = r]
      BY <2>1 DEF PollTime
    <3> QED  BY <3>1, <3>2
  <2>2. CASE Deadline(i)
    <3> DEFINE r == [rows[i] EXCEPT !.overdue = TRUE]
    <3>1. r \in Row /\ r.state = rows[i].state
          /\ r.hash = rows[i].hash /\ r.provider = rows[i].provider
      BY <1>1 DEF Row
    <3>2. rows' = [rows EXCEPT ![i] = r]
      BY <2>2 DEF Deadline
    <3> QED  BY <3>1, <3>2
  <2> QED  BY <2>1, <2>2
<1>3. PICK r \in Row : /\ rows' = [rows EXCEPT ![i] = r] /\ r.state = rows[i].state
                       /\ r.hash = rows[i].hash /\ r.provider = rows[i].provider
  BY <1>2
<1>4. UNCHANGED <<placements, tick, crashes>>
  BY DEF PollTime, Deadline
<1>5. Ids' = Ids /\ rows'[i] = r /\ \A k \in Ids \ {i} : rows'[k] = rows[k]
  BY <1>3, RowReplaced DEF PrepInv
<1>6. \A k \in Ids : /\ rows'[k].state = rows[k].state /\ rows'[k].hash = rows[k].hash
                     /\ rows'[k].provider = rows[k].provider
  BY <1>3, <1>5
<1>7. TickType' /\ TickOwns' /\ PlacedFirst'
  BY <1>4, <1>5, <1>6 DEF PrepInv, PreparationTypeOK, TickType, TickOwns, PlacedFirst, Placed
<1> QED
  BY <1>3, <1>4, <1>7, RowGood DEF Life

(* The row in hand. *)
LEMMA InHandRow ==
    ASSUME PrepInv, NEW i \in Id, NEW at \in {"step", "placed", "requeue"}, InHand(at, i)
    PROVE  /\ i \in Ids /\ i \notin tick.todo /\ tick.row = i /\ tick.at = at
           /\ (at \in {"step", "placed"} => rows[i].state = "acquiring")
           /\ (at = "requeue" => rows[i].state = "failed_temporary")
           /\ (at = "placed" => Placed(i))
BY DEF PrepInv, PreparationTypeOK, TickOwns, PlacedFirst, InHand

(* A capacity park. *)
LEMMA ParkGood == ASSUME PrepInv, NEW i \in Ids, Park(i) PROVE Good
<1>1. /\ i \in tick.todo /\ rows' = Mark(i, "waiting", FALSE)
      /\ tick' = Loop(tick.todo \ {i}) /\ UNCHANGED <<placements, crashes>>
  BY DEF Park
<1>2. Life(rows[i].state, "waiting")
  BY <1>1 DEF PrepInv, TickOwns, Life
<1>3. "waiting" \in Contract!States \ {"ready"} /\ FALSE \in BOOLEAN
  BY DEF Contract!States, Contract!ActiveStates
<1> QED
  BY <1>1, <1>2, <1>3, MarkGood

LEMMA ClaimGood == ASSUME PrepInv, NEW i \in Ids, Claim(i) PROVE Good
<1>1. /\ tick.at = "loop" /\ i \in tick.todo /\ Claimable(i) /\ rows' = Claimed(i)
      /\ tick' = [at |-> "step", todo |-> tick.todo \ {i}, row |-> i]
      /\ UNCHANGED <<placements, crashes>>
  BY DEF Claim
<1>2. rows[i] \in Row /\ rows \in [Ids -> Row]
  BY RowsSeq DEF PrepInv
<1> DEFINE r == [rows[i] EXCEPT !.state = "acquiring",
                                !.attempts = IF @ < MaxAttempts THEN @ + 1 ELSE @]
<1>3. rows' = [rows EXCEPT ![i] = r]
  BY <1>1, <1>2 DEF Claimed
<1>4. /\ r.state = "acquiring" /\ r.hash = rows[i].hash /\ r.provider = rows[i].provider
      /\ r \in Row
  <2>1. "acquiring" \in Contract!States
    BY DEF Contract!States, Contract!ActiveStates
  <2>2. rows[i].attempts \in 0..MaxAttempts /\ MaxAttempts \in Nat
    BY <1>2, PrepareLimits DEF Row
  <2>3. (IF rows[i].attempts < MaxAttempts THEN rows[i].attempts + 1 ELSE rows[i].attempts)
           \in 0..MaxAttempts
    BY <2>2
  <2> QED
    BY <1>2, <2>1, <2>3 DEF Row
<1> HIDE DEF r
<1>5. Ids' = Ids /\ rows'[i] = r /\ \A k \in Ids \ {i} : rows'[k] = rows[k]
  BY <1>3, <1>4, RowReplaced DEF PrepInv
<1>6. TickType' /\ TickOwns' /\ PlacedFirst'
  BY <1>1, <1>4, <1>5 DEF PrepInv, PreparationTypeOK, TickType, TickOwns, PlacedFirst
<1>7. Life(rows[i].state, r.state)
  BY <1>1, <1>4 DEF Claimable, Life
<1> QED
  BY <1>1, <1>3, <1>4, <1>6, <1>7, RowGood

LEMMA GateRefusedGood == ASSUME PrepInv, NEW i \in Ids, GateRefused(i) PROVE Good
<1>1. /\ InHand("step", i) /\ rows' = Mark(i, "failed_terminal", FALSE)
      /\ tick' = Loop(tick.todo) /\ UNCHANGED <<placements, crashes>>
  BY DEF GateRefused, EndRow
<1>2. i \in Id
  BY RowsSeq DEF PrepInv
<1>3. i \notin tick.todo /\ rows[i].state = "acquiring"
  BY <1>1, <1>2, InHandRow
<1>4. "failed_terminal" \in Contract!States \ {"ready"} /\ FALSE \in BOOLEAN
  BY DEF Contract!States, Contract!TerminalStates
<1>5. Life(rows[i].state, "failed_terminal") /\ tick.todo \in SUBSET (tick.todo \ {i})
  BY <1>3 DEF Life
<1> QED
  BY <1>1, <1>4, <1>5, MarkGood

(* A mark that also sets the resource. *)
LEMMA ResourceMarkGood ==
    ASSUME PrepInv, NEW i \in Ids, NEW s \in Contract!States, NEW b \in BOOLEAN,
           rows' = [Mark(i, s, FALSE) EXCEPT ![i].resource = b],
           rows[i].state = "acquiring", s \in {"ready", "waiting"},
           s = "ready" => Placed(i),
           i \notin tick.todo, EndRow, UNCHANGED <<placements, crashes>>
    PROVE  Good
<1>1. rows[i] \in Row /\ rows \in [Ids -> Row]
  BY RowsSeq DEF PrepInv
<1> DEFINE r == [rows[i] EXCEPT !.state = s, !.due = FALSE, !.resource = b]
<1>2. rows' = [rows EXCEPT ![i] = r]
  BY <1>1 DEF Mark
<1>3. r \in Row /\ r.state = s /\ r.hash = rows[i].hash /\ r.provider = rows[i].provider
  BY <1>1 DEF Row
<1> HIDE DEF r
<1>4. Ids' = Ids /\ \A k \in Ids \ {i} : rows'[k] = rows[k]
  BY <1>2, <1>3, RowReplaced DEF PrepInv
<1>5. tick.todo \subseteq Ids /\ tick' = Loop(tick.todo)
  BY DEF PrepInv, PreparationTypeOK, EndRow
<1>6. TickType' /\ TickOwns' /\ PlacedFirst'
  BY <1>4, <1>5, LoopGoes
<1>7. Life(rows[i].state, r.state)
  BY <1>3 DEF Life
<1> QED
  BY <1>2, <1>3, <1>6, <1>7, RowGood

LEMMA MarkReadyGood == ASSUME PrepInv, NEW i \in Ids, MarkReady(i) PROVE Good
<1>1. /\ InHand("placed", i) /\ EndRow /\ UNCHANGED <<placements, crashes>>
      /\ rows' = [Mark(i, "ready", FALSE) EXCEPT ![i].resource = TRUE]
  BY DEF MarkReady
<1>2. i \in Id
  BY RowsSeq DEF PrepInv
<1>3. i \notin tick.todo /\ rows[i].state = "acquiring" /\ Placed(i)
  BY <1>1, <1>2, InHandRow
<1>4. "ready" \in Contract!States
  BY DEF Contract!States, Contract!TerminalStates
<1> QED
  BY <1>1, <1>3, <1>4, ResourceMarkGood

LEMMA RequeueGood == ASSUME PrepInv, NEW i \in Ids, Requeue(i) PROVE Good
<1>1. /\ InHand("requeue", i) /\ rows' = Mark(i, "queued", FALSE)
      /\ tick' = Loop(tick.todo) /\ UNCHANGED <<placements, crashes>>
  BY DEF Requeue, EndRow
<1>2. i \in Id
  BY RowsSeq DEF PrepInv
<1>3. i \notin tick.todo /\ rows[i].state = "failed_temporary"
  BY <1>1, <1>2, InHandRow
<1>4. "queued" \in Contract!States \ {"ready"} /\ FALSE \in BOOLEAN
  BY DEF Contract!States, Contract!ActiveStates
<1>5. Life(rows[i].state, "queued") /\ tick.todo \in SUBSET (tick.todo \ {i})
  BY <1>3 DEF Life
<1> QED
  BY <1>1, <1>4, <1>5, MarkGood

LEMMA CrashGood == ASSUME PrepInv, Crash PROVE Good
<1>1. tick' = Idle /\ UNCHANGED <<rows, placements>> /\ crashes' \in 0..MaxCrashes
  BY PrepareLimits DEF Crash, PrepInv, PreparationTypeOK
<1>2. StateOf' = StateOf
  BY <1>1 DEF StateOf
<1>3. PrepInv'
  BY <1>1 DEF Idle, PrepInv, PreparationTypeOK, TickOwns, PlacedFirst, SingleFlight,
              ReadyMeansPlaced, Ids, Active
<1> QED
  BY <1>2, <1>3 DEF Good

(* A tick begins: the overdue rows expire, the due ones are listed. *)
LEMMA TickStartGood == ASSUME PrepInv, TickStart PROVE Good
<1> DEFINE S == {k \in Ids : rows[k].state \in {"queued", "acquiring", "waiting"} /\ rows[k].overdue}
           e(k) == [rows[k] EXCEPT !.state = "expired"]
<1>1. rows' = ExpiredRows /\ tick' = Loop(Due(rows')) /\ UNCHANGED <<placements, crashes>>
  BY DEF TickStart
<1>2. /\ Len(rows) \in Nat /\ Ids = 1..Len(rows) /\ Ids \subseteq Id
      /\ rows \in [Ids -> Row]
  BY RowsSeq DEF PrepInv
<1>3. \A k \in Ids : /\ e(k) \in Row /\ e(k).state = "expired"
                     /\ e(k).hash = rows[k].hash /\ e(k).provider = rows[k].provider
  BY <1>2 DEF Row, Contract!States, Contract!TerminalStates
<1>4. rows' = [k \in Ids |-> IF k \in S THEN e(k) ELSE rows[k]]
  BY <1>1 DEF ExpiredRows
<1> HIDE DEF e
<1>5. rows' \in [1..Len(rows) -> Row]
  BY <1>2, <1>3, <1>4
<1>6. rows' \in Seq(Row) /\ Len(rows') = Len(rows) /\ Ids' = Ids
  BY <1>2, <1>5 DEF Ids
<1>7. \A k \in Ids : /\ rows'[k].hash = rows[k].hash /\ rows'[k].provider = rows[k].provider
                     /\ rows'[k].state = (IF k \in S THEN "expired" ELSE rows[k].state)
  BY <1>3, <1>4
<1>8. /\ \A k \in Ids : rows'[k].state \in Contract!ActiveStates => Active(k)
      /\ \A k \in Ids : rows'[k].state = "ready" => rows[k].state = "ready"
  BY <1>7 DEF Active, Contract!ActiveStates
<1>9. SingleFlight' /\ ReadyMeansPlaced'
  BY <1>1, <1>6, <1>7, <1>8 DEF PrepInv, SingleFlight, ReadyMeansPlaced, Active
<1>10. /\ Due(rows') \subseteq Ids'
       /\ \A k \in Due(rows') : rows'[k].state \in {"queued", "waiting"}
  BY DEF Due, Ids
<1>11. /\ tick' \in [at : {"idle", "loop"}, todo : {Due(rows')}, row : {0}]
       /\ tick'.at \in {"idle", "loop"} /\ tick'.todo = Due(rows') /\ tick'.row = 0
  BY <1>1 DEF Loop, Idle
<1>12. PreparationTypeOK' /\ TickOwns' /\ PlacedFirst'
  BY <1>1, <1>6, <1>10, <1>11 DEF PrepInv, PreparationTypeOK, TickOwns, PlacedFirst
<1>13. StateOf' = [k \in Id |-> IF k \in S THEN "expired" ELSE StateOf[k]]
  BY <1>2, <1>6, <1>7 DEF StateOf, Ids
<1>14. S \in SUBSET {k \in Id : StateOf[k] \in {"queued", "acquiring", "waiting"}}
  BY <1>2 DEF StateOf, Ids
<1>15. Contract!Expire
  BY <1>13, <1>14 DEF Contract!Expire
<1> QED
  BY <1>9, <1>12, <1>15 DEF Good, PrepInv, Contract!Next

(* The row waits for its provider. *)
LEMMA AcceptedGood ==
    ASSUME PrepInv, NEW i \in Ids, NEW a \in Answers(i), InHand("step", i), Accepted(i, a)
    PROVE  Good
<1>1. /\ rows' = [Mark(i, "waiting", FALSE) EXCEPT ![i].resource = @ \/ a.id]
      /\ EndRow /\ UNCHANGED <<placements, crashes>>
  BY DEF Accepted
<1>2. i \in Id /\ rows[i] \in Row /\ rows \in [Ids -> Row]
  BY RowsSeq DEF PrepInv
<1>3. i \notin tick.todo /\ rows[i].state = "acquiring"
  BY <1>2, InHandRow
<1> DEFINE b == Mark(i, "waiting", FALSE)[i].resource \/ a.id
<1>4. b \in BOOLEAN
  OBVIOUS
<1>5. rows' = [Mark(i, "waiting", FALSE) EXCEPT ![i].resource = b]
  BY <1>1
<1>6. "waiting" \in Contract!States
  BY DEF Contract!States, Contract!ActiveStates
<1> HIDE DEF b
<1> QED
  BY <1>1, <1>3, <1>4, <1>5, <1>6, ResourceMarkGood

LEMMA PersistGood ==
    ASSUME PrepInv, NEW i \in Ids, NEW a \in Answers(i), InHand("step", i), Persist(i, a)
    PROVE  Good
<1>1. /\ placements' = placements \cup {PlacementOf(i, a)}
      /\ tick' = [tick EXCEPT !.at = "placed"] /\ UNCHANGED <<rows, crashes>>
  BY DEF Persist
<1>2. i \in Id /\ rows[i] \in Row
  BY RowsSeq DEF PrepInv
<1>3. /\ i \notin tick.todo /\ tick.row = i /\ tick.at = "step"
      /\ rows[i].state = "acquiring"
  BY <1>2, InHandRow
<1>4. /\ PlacementOf(i, a) \in Placement
      /\ PlacementOf(i, a).provider = rows[i].provider /\ PlacementOf(i, a).hash = rows[i].hash
  BY <1>2 DEF PlacementOf, Placement, Row
<1>5. /\ tick' \in [at : {"placed"}, todo : SUBSET Ids, row : Ids]
      /\ tick'.todo = tick.todo /\ tick'.row = i
  BY <1>1, <1>3 DEF PrepInv, PreparationTypeOK
<1>6. StateOf' = StateOf
  BY <1>1 DEF StateOf
<1>7. PrepInv'
  BY <1>1, <1>3, <1>4, <1>5 DEF PrepInv, PreparationTypeOK, TickOwns, PlacedFirst, Placed,
     SingleFlight, ReadyMeansPlaced, Ids, Active
<1> QED
  BY <1>6, <1>7 DEF Good

(* A final failure without a successor. *)
LEMMA FailedGood ==
    ASSUME PrepInv, NEW i \in Ids, NEW s \in {"failed_policy", "failed_terminal"},
           InHand("step", i), rows' = Mark(i, s, FALSE), EndRow, UNCHANGED <<placements, crashes>>
    PROVE  Good
<1>1. i \in Id
  BY RowsSeq DEF PrepInv
<1>2. i \notin tick.todo /\ rows[i].state = "acquiring"
  BY <1>1, InHandRow
<1>3. s \in Contract!States \ {"ready"} /\ FALSE \in BOOLEAN
  BY DEF Contract!States, Contract!TerminalStates
<1>4. Life(rows[i].state, s) /\ tick.todo \in SUBSET (tick.todo \ {i}) /\ tick' = Loop(tick.todo)
  BY <1>2 DEF Life, EndRow
<1> QED
  BY <1>3, <1>4, MarkGood

(* A refusal passes the plan on: the row fails as the next one starts. *)
LEMMA ChainGood ==
    ASSUME PrepInv, NEW i \in Ids, NEW s \in {"failed_policy", "failed_terminal"},
           NEW p \in Provider, NEW plan \in SUBSET Provider,
           InHand("step", i), Len(rows) < MaxRows, p # rows[i].provider,
           FindActive(rows[i].hash, p) = {},
           rows' = Append(Mark(i, s, FALSE), NewRow(rows[i].hash, p, plan)),
           EndRow, UNCHANGED <<placements, crashes>>
    PROVE  Good
<1> DEFINE n == Len(rows) + 1
           h == rows[i].hash
           failed == Mark(i, s, FALSE)
<1>1. i \in Id /\ rows[i] \in Row /\ h \in Hash
  BY RowsSeq DEF PrepInv, Row
<1>2. i \notin tick.todo /\ rows[i].state = "acquiring"
  BY <1>1, InHandRow
<1>3. s \in Contract!States /\ FALSE \in BOOLEAN
  BY DEF Contract!States, Contract!TerminalStates
<1>4. PICK r \in Row : /\ failed = [rows EXCEPT ![i] = r]
                       /\ r.state = s /\ r.hash = h /\ r.provider = rows[i].provider
  BY <1>3, MarkedRow DEF PrepInv
<1> HIDE DEF failed, h
<1>5. /\ Len(rows) \in Nat /\ Ids = 1..Len(rows) /\ rows \in [Ids -> Row]
  BY RowsSeq DEF PrepInv
<1>6. failed \in [1..Len(rows) -> Row]
  BY <1>4, <1>5
<1>7. failed \in Seq(Row) /\ Len(failed) = Len(rows)
  BY <1>5, <1>6
<1>8. failed[i] = r /\ \A k \in Ids \ {i} : failed[k] = rows[k]
  BY <1>4, <1>5
<1>9. \A k \in Ids : /\ failed[k].hash = rows[k].hash /\ failed[k].provider = rows[k].provider
                     /\ (failed[k].state \in Contract!ActiveStates => Active(k))
                     /\ (failed[k].state = "ready" => rows[k].state = "ready")
  BY <1>4, <1>8 DEF h, Active, Contract!ActiveStates
<1>10. rows' = Append(failed, NewRow(h, p, plan)) /\ FindActive(h, p) = {}
  BY DEF failed, h
<1>11. /\ SingleFlight' /\ ReadyMeansPlaced'
       /\ rows' \in Seq(Row) /\ Len(rows') <= MaxRows
  BY <1>1, <1>7, <1>9, <1>10, CreateKeeps
<1>12. /\ Ids' = Ids \cup {n} /\ n \in Id \ Ids
       /\ rows'[n] = NewRow(h, p, plan)
       /\ \A k \in Ids : rows'[k] = failed[k]
  BY <1>1, <1>7, <1>10, RowCreated DEF PrepInv
<1>13. tick.todo \in SUBSET tick.todo /\ tick' = Loop(tick.todo) /\ tick.todo \subseteq Ids
  BY DEF EndRow, PrepInv, PreparationTypeOK
<1>14. Ids \subseteq Ids' /\ \A k \in tick.todo : rows'[k] = rows[k]
  BY <1>2, <1>8, <1>12, <1>13
<1>15. TickType' /\ TickOwns' /\ PlacedFirst'
  BY <1>13, <1>14, LoopGoes
<1>16. PrepInv'
  BY <1>11, <1>15 DEF PrepInv, PreparationTypeOK, TickType
<1>17. rows'[n].state = "queued" /\ rows'[i].state = s
  <2> HIDE DEF n
  <2>1. rows'[i].state = s
    BY <1>4, <1>8, <1>12
  <2>2. NewRow(h, p, plan).state = "queued"
    BY DEF NewRow
  <2> QED
    BY <1>12, <2>1, <2>2
<1>18. /\ StateOf[i] = "acquiring" /\ StateOf[n] = "none"
       /\ StateOf' = [StateOf EXCEPT ![i] = s, ![n] = "queued"]
  <2> HIDE DEF n
  <2> QED
    BY <1>1, <1>2, <1>8, <1>12, <1>17 DEF StateOf, Ids
<1>19. Contract!Chain(i, n)
  BY <1>18 DEF Contract!Chain
<1> QED
  BY <1>1, <1>12, <1>16, <1>19 DEF Good, Contract!Next

LEMMA RefusedGood ==
    ASSUME PrepInv, NEW i \in Ids, NEW a, InHand("step", i), Refused(i, a)
    PROVE  Good
<1> DEFINE s == NextState(a)
           rest == Remaining(i)
           p == First(rest)
<1>1. s \in {"failed_policy", "failed_terminal"} /\ EndRow /\ UNCHANGED <<placements, crashes>>
  BY DEF Refused
<1>2. rows[i] \in Row
  BY RowsSeq DEF PrepInv
<1>3. CASE a.outcome \in {"content_blocked", "account_ineligible"} /\ rest # {}
  <2>1. /\ Len(rows) < MaxRows
        /\ rows' = StartOrJoin(Mark(i, s, FALSE), rows[i].hash, p, rest)
    BY <1>3 DEF Refused
  <2>2. rest \in SUBSET Provider /\ p \in Provider /\ p # rows[i].provider
    BY <1>2, <1>3, PlanTypes DEF Remaining, Row
  <2>3. CASE FindActive(rows[i].hash, p) = {}
    <3>1. rows' = Append(Mark(i, s, FALSE), NewRow(rows[i].hash, p, rest))
      BY <2>1, <2>3 DEF StartOrJoin
    <3> HIDE DEF s, rest, p
    <3> QED
      BY <1>1, <2>1, <2>2, <2>3, <3>1, ChainGood
  <2>4. CASE FindActive(rows[i].hash, p) # {}
    <3>1. rows' = Mark(i, s, FALSE)
      BY <2>1, <2>4 DEF StartOrJoin
    <3> HIDE DEF s
    <3> QED
      BY <1>1, <3>1, FailedGood
  <2> QED
    BY <2>3, <2>4
<1>4. CASE ~(a.outcome \in {"content_blocked", "account_ineligible"} /\ rest # {})
  <2>1. rows' = Mark(i, s, FALSE)
    BY <1>4 DEF Refused
  <2> HIDE DEF s
  <2> QED
    BY <1>1, <2>1, FailedGood
<1> QED
  BY <1>3, <1>4

(* The row a mark leaves. *)
LEMMA MarkLeaves ==
    ASSUME PrepInv, NEW i \in Ids, NEW s \in Contract!States, NEW due \in BOOLEAN,
           rows' = Mark(i, s, due)
    PROVE  \E r \in Row : /\ rows' = [rows EXCEPT ![i] = r]
                          /\ r.state = s /\ r.hash = rows[i].hash
                          /\ r.provider = rows[i].provider
BY MarkedRow DEF PrepInv

(* A step to be tried again, before its requeue. *)
LEMMA FailTemporaryGood ==
    ASSUME PrepInv, NEW i \in Ids, NEW s \in {"failed_temporary"}, InHand("step", i),
           rows' = Mark(i, s, FALSE), tick' = [tick EXCEPT !.at = "requeue"],
           UNCHANGED <<placements, crashes>>
    PROVE  Good
<1>1. i \in Id
  BY RowsSeq DEF PrepInv
<1>2. i \notin tick.todo /\ tick.row = i /\ rows[i].state = "acquiring"
  BY <1>1, InHandRow
<1>3. s \in Contract!States /\ FALSE \in BOOLEAN
  BY DEF Contract!States, Contract!ActiveStates
<1>4. PICK r \in Row : /\ rows' = [rows EXCEPT ![i] = r]
                       /\ r.state = s /\ r.hash = rows[i].hash /\ r.provider = rows[i].provider
  BY <1>3, MarkLeaves
<1>5. Ids' = Ids /\ rows'[i] = r /\ \A k \in Ids \ {i} : rows'[k] = rows[k]
  BY <1>4, RowReplaced DEF PrepInv
<1>6. /\ tick' \in [at : {"requeue"}, todo : SUBSET Ids, row : Ids]
      /\ tick'.at = "requeue" /\ tick'.todo = tick.todo /\ tick'.row = i
  BY <1>2 DEF PrepInv, PreparationTypeOK
<1>7. TickType'
  BY <1>2, <1>5, <1>6 DEF PrepInv, PreparationTypeOK, TickType
<1>8. TickOwns' /\ PlacedFirst'
  BY <1>2, <1>4, <1>5, <1>6 DEF PrepInv, PreparationTypeOK, TickOwns, PlacedFirst
<1>9. Life(rows[i].state, r.state)
  BY <1>2, <1>4 DEF Life
<1> QED
  BY <1>4, <1>7, <1>8, <1>9, RowGood

LEMMA RetriedGood ==
    ASSUME PrepInv, NEW i \in Ids, NEW a, InHand("step", i), Retried(i, a)
    PROVE  Good
BY FailedGood, FailTemporaryGood DEF Retried

-----------------------------------------------------------------------------
(* The theorems. *)

LEMMA PrepInit == Init => PrepInv /\ Contract!Init
<1> SUFFICES ASSUME Init PROVE PrepInv /\ Contract!Init
  OBVIOUS
<1>1. rows = <<>> /\ placements = {} /\ tick = Idle /\ crashes = 0
  BY DEF Init
<1>2. Ids = {} /\ rows \in Seq(Row) /\ Len(rows) = 0
  BY <1>1 DEF Ids
<1>3. PrepInv
  BY <1>1, <1>2, PrepareLimits DEF PrepInv, PreparationTypeOK, TickOwns, PlacedFirst,
     SingleFlight, ReadyMeansPlaced, Idle
<1>4. Contract!Init
  BY <1>2 DEF Contract!Init, StateOf, Ids
<1> QED
  BY <1>3, <1>4

LEMMA PrepStep == PrepInv /\ [Next]_vars => Good
<1> SUFFICES ASSUME PrepInv, [Next]_vars PROVE Good
  OBVIOUS
<1>1. ASSUME NEW h \in Hash, Play(h) PROVE Good
  BY <1>1, PlayGood
<1>2. ASSUME NEW i \in Ids, PollTime(i) \/ Deadline(i) PROVE Good
  BY <1>2, TimeGood
<1>3. ASSUME NEW i \in Ids, Step(i) PROVE Good
  <2>1. InHand("step", i)
    BY <1>3 DEF Step
  <2>2. PICK a \in Answers(i) : Accepted(i, a) \/ Persist(i, a) \/ Refused(i, a) \/ Retried(i, a)
    BY <1>3 DEF Step
  <2> QED
    BY <2>1, <2>2, AcceptedGood, PersistGood, RefusedGood, RetriedGood
<1>4. CASE TickStep
  BY <1>3, <1>4, TickStartGood, ParkGood, ClaimGood, GateRefusedGood, MarkReadyGood, RequeueGood
     DEF TickStep
<1>5. CASE UNCHANGED vars
  BY <1>5, StutterGood
<1> QED
  BY <1>1, <1>2, <1>4, <1>5, CrashGood DEF Next

LEMMA PrepInvariant == Spec => []PrepInv
<1>1. Init => PrepInv
  BY PrepInit
<1>2. PrepInv /\ [Next]_vars => PrepInv'
  BY PrepStep DEF Good
<1> QED
  BY <1>1, <1>2, PTL DEF Spec

(* Every variable keeps its type. *)
THEOREM PreparationTypeCorrect == Spec => []PreparationTypeOK
BY PrepInvariant, PTL DEF PrepInv

(* A release has one preparation at work at a provider. *)
THEOREM PreparationSingleFlight == Spec => []SingleFlight
BY PrepInvariant, PTL DEF PrepInv

(* A ready row has its placement on record. *)
THEOREM ReadyIsPlaced == Spec => []ReadyMeansPlaced
BY PrepInvariant, PTL DEF PrepInv

(* The rows live the life of the contract. *)
THEOREM PreparationImplementsContract == Spec => ImplementsContract
<1>1. PrepInv /\ [Next]_vars => [Contract!Next]_StateOf
  BY PrepStep DEF Good
<1>2. Init => Contract!Init
  BY PrepInit
<1> QED
  BY <1>1, <1>2, PrepInvariant, PTL DEF Spec, ImplementsContract, Contract!Spec

(* A row that ended is history: it stays, and stays as it ended. *)
RowsAreHistory ==
    \A i \in Ids : rows[i].state \in Contract!TerminalStates =>
                       i \in Ids' /\ rows'[i].state = rows[i].state

(* No step of the contract takes a row out of a terminal state. *)
LEMMA ContractLeaves ==
    ASSUME [Contract!Next]_StateOf, NEW i \in Id,
           StateOf[i] \in Contract!TerminalStates
    PROVE  StateOf'[i] = StateOf[i]
<1> USE DEF Contract!TerminalStates
<1>1. StateOf = [j \in Id |-> StateOf[j]]
  BY DEF StateOf
<1>2. ASSUME NEW j \in Id,
             \/ Contract!Start(j) \/ Contract!Claim(j) \/ Contract!Wait(j)
             \/ Contract!FailTemporary(j) \/ Contract!Requeue(j) \/ Contract!Finish(j)
      PROVE  StateOf'[i] = StateOf[i]
  <2>1. StateOf[j] \notin Contract!TerminalStates
    BY <1>2 DEF Contract!Start, Contract!Claim, Contract!Wait, Contract!FailTemporary,
       Contract!Requeue, Contract!Finish
  <2>2. \E s : StateOf' = [StateOf EXCEPT ![j] = s]
    BY <1>2 DEF Contract!Start, Contract!Claim, Contract!Wait, Contract!FailTemporary,
       Contract!Requeue, Contract!Finish, Contract!To
  <2> QED
    BY <1>1, <2>1, <2>2
<1>3. ASSUME NEW j \in Id, NEW k \in Id, Contract!Chain(j, k)
      PROVE  StateOf'[i] = StateOf[i]
  <2>1. StateOf[j] \notin Contract!TerminalStates /\ StateOf[k] \notin Contract!TerminalStates
    BY <1>3 DEF Contract!Chain
  <2>2. \E s : StateOf' = [StateOf EXCEPT ![j] = s, ![k] = "queued"]
    BY <1>3 DEF Contract!Chain
  <2> QED
    BY <1>1, <2>1, <2>2
<1>4. CASE Contract!Expire
  BY <1>4 DEF Contract!Expire
<1>5. CASE UNCHANGED StateOf
  BY <1>5
<1> QED
  BY <1>2, <1>3, <1>4, <1>5 DEF Contract!Next

(* A terminal row is history (contract.js, store.js): no poll, claim, crash, retry or
   deadline sweep, and no answer to an await that began before the row ended, revives it. *)
THEOREM TerminalIsHistory == Spec => [][RowsAreHistory]_vars
<1>1. PrepInv /\ [Next]_vars => RowsAreHistory
  <2> SUFFICES ASSUME PrepInv, [Next]_vars,
                      NEW i \in Ids, rows[i].state \in Contract!TerminalStates
               PROVE  i \in Ids' /\ rows'[i].state = rows[i].state
    BY DEF RowsAreHistory
  <2>1. i \in Id /\ StateOf[i] = rows[i].state
    BY RowsSeq DEF PrepInv, StateOf, Ids
  <2>2. StateOf'[i] = rows[i].state
    BY <2>1, PrepStep, ContractLeaves DEF Good
  <2>3. rows[i].state # "none"
    BY DEF Contract!TerminalStates
  <2> QED
    BY <2>1, <2>2, <2>3 DEF StateOf, Ids
<1> QED
  BY <1>1, PrepInvariant, PTL DEF Spec

-----------------------------------------------------------------------------
(* The limit.  A row weighs on it while it is active with a resource, and so *)
(* does the row in hand, which may be given one when its await comes back.   *)
(* The limit is read when a row is claimed: all that weigh then are active.  *)

Awaited == {i \in Ids : Active(i) /\ rows[i].resource}
Working == Awaited \cup ({tick.row} \ {0})

LimitInv == Cardinality(Working) < MaxConcurrentTotal

LEMMA WorkingFinite ==
    ASSUME PreparationTypeOK
    PROVE  Working \subseteq Ids /\ IsFiniteSet(Ids)
<1>1. Working \subseteq Ids
  BY DEF Working, Awaited, PreparationTypeOK
<1>2. IsFiniteSet(Ids)
  BY RowsSeq, FS_Interval
<1> QED
  BY <1>1, <1>2

(* Where fewer rows weigh, the limit still holds. *)
LEMMA FewerKeepLimit ==
    ASSUME PrepInv, LimitInv, Working' \subseteq Working
    PROVE  LimitInv'
<1>1. IsFiniteSet(Working)
  BY WorkingFinite, FS_Subset DEF PrepInv
<1>2. Cardinality(Working') <= Cardinality(Working) /\ IsFiniteSet(Working')
  BY <1>1, FS_Subset
<1>3. Cardinality(Working') \in Nat /\ Cardinality(Working) \in Nat
  BY <1>1, <1>2, FS_CardinalityType
<1> QED
  BY <1>2, <1>3, PrepareLimits DEF LimitInv

(* A row is replaced by one that does not weigh, or that did. *)
LEMMA ReplacedFewer ==
    ASSUME PrepInv, NEW i \in Ids, NEW r \in Row, rows' = [rows EXCEPT ![i] = r],
           r.state \in Contract!ActiveStates /\ r.resource => i \in Working,
           tick'.row \in {0, tick.row}
    PROVE  Working' \subseteq Working
<1>1. Ids' = Ids /\ rows'[i] = r /\ \A k \in Ids \ {i} : rows'[k] = rows[k]
  BY RowReplaced DEF PrepInv
<1>2. Awaited' \subseteq Working
  BY <1>1 DEF Awaited, Working, Active
<1> QED
  BY <1>2 DEF Working

(* A mark leaves the resource as it is. *)
LEMMA MarkFewer ==
    ASSUME PrepInv, NEW i \in Ids, NEW s \in Contract!States, NEW due \in BOOLEAN,
           rows' = Mark(i, s, due), Active(i) \/ s \notin Contract!ActiveStates,
           tick'.row \in {0, tick.row}
    PROVE  Working' \subseteq Working
<1>1. rows[i] \in Row /\ rows \in [Ids -> Row]
  BY RowsSeq DEF PrepInv
<1> DEFINE r == [rows[i] EXCEPT !.state = s, !.due = due]
<1>2. r \in Row /\ r.state = s /\ r.resource = rows[i].resource
  BY <1>1 DEF Row
<1>3. rows' = [rows EXCEPT ![i] = r]
  BY <1>1 DEF Mark
<1> HIDE DEF r
<1>4. r.state \in Contract!ActiveStates /\ r.resource => i \in Working
  BY <1>2 DEF Working, Awaited
<1> QED
  BY <1>2, <1>3, <1>4, ReplacedFewer

(* A row that is created has no resource yet. *)
LEMMA CreateFewer ==
    ASSUME PrepInv, NEW h \in Hash, NEW p \in Provider, NEW plan \in SUBSET Provider,
           NEW table \in Seq(Row), Len(table) = Len(rows), Len(rows) < MaxRows,
           rows' = Append(table, NewRow(h, p, plan)),
           \A k \in Ids : table[k].state \in Contract!ActiveStates /\ table[k].resource
                          => k \in Working,
           tick'.row \in {0, tick.row}
    PROVE  Working' \subseteq Working
<1> DEFINE n == Len(rows) + 1
<1>1. /\ Ids' = Ids \cup {n}
      /\ rows'[n] = NewRow(h, p, plan)
      /\ \A k \in Ids : rows'[k] = table[k]
  BY RowCreated DEF PrepInv
<1> HIDE DEF n
<1>2. ~rows'[n].resource
  <2>1. NewRow(h, p, plan).resource = FALSE
    BY DEF NewRow
  <2>2. rows'[n].resource = FALSE
    BY <1>1, <2>1
  <2> QED
    BY <2>2
<1>3. Awaited' \subseteq Working
  BY <1>1, <1>2 DEF Awaited, Active
<1> QED
  BY <1>3 DEF Working

LEMMA LoopHolds == \A todo : Loop(todo).row = 0
BY DEF Loop, Idle

(* What happens outside the tick, or at its beginning. *)
LEMMA OutsideFewer ==
    ASSUME PrepInv, (\E h \in Hash : Play(h)) \/ (\E i \in Ids : PollTime(i) \/ Deadline(i))
                    \/ TickStart \/ Crash \/ UNCHANGED vars
    PROVE  Working' \subseteq Working
<1> DEFINE Fewer == Working' \subseteq Working
<1>1. ASSUME NEW h \in Hash, Play(h) PROVE Working' \subseteq Working
  <2>1. /\ Len(rows) < MaxRows /\ tick' = tick
        /\ rows' = StartOrJoin(rows, h, First(Provider), Provider)
    BY <1>1 DEF Play
  <2>2. CASE rows' = rows
    BY <2>1, <2>2 DEF Working, Awaited, Ids, Active
  <2>3. CASE rows' = Append(rows, NewRow(h, First(Provider), Provider))
    <3>1. First(Provider) \in Provider /\ Provider \in SUBSET Provider
      BY PlanTypes DEF Provider
    <3>2. rows \in Seq(Row)
      BY DEF PrepInv, PreparationTypeOK
    <3>3. \A k \in Ids : rows[k].state \in Contract!ActiveStates /\ rows[k].resource
                         => k \in Working
      BY DEF Working, Awaited, Active
    <3> QED
      BY <2>1, <2>3, <3>1, <3>2, <3>3, CreateFewer
  <2> QED
    BY <2>1, <2>2, <2>3 DEF StartOrJoin
<1>2. ASSUME NEW i \in Ids, PollTime(i) \/ Deadline(i) PROVE Working' \subseteq Working
  <2>1. rows[i] \in Row /\ rows \in [Ids -> Row]
    BY RowsSeq DEF PrepInv
  <2>2. PICK r \in Row : /\ rows' = [rows EXCEPT ![i] = r]
                         /\ r.state = rows[i].state /\ r.resource = rows[i].resource
    <3>1. CASE PollTime(i)
      <4> DEFINE r == [rows[i] EXCEPT !.due = TRUE]
      <4>1. r \in Row /\ r.state = rows[i].state /\ r.resource = rows[i].resource
        BY <2>1 DEF Row
      <4>2. rows' = [rows EXCEPT ![i] = r]
        BY <2>1, <3>1 DEF PollTime
      <4> QED
        BY <4>1, <4>2
    <3>2. CASE Deadline(i)
      <4> DEFINE r == [rows[i] EXCEPT !.overdue = TRUE]
      <4>1. r \in Row /\ r.state = rows[i].state /\ r.resource = rows[i].resource
        BY <2>1 DEF Row
      <4>2. rows' = [rows EXCEPT ![i] = r]
        BY <2>1, <3>2 DEF Deadline
      <4> QED
        BY <4>1, <4>2
    <3> QED
      BY <1>2, <3>1, <3>2
  <2>3. tick' = tick
    BY <1>2 DEF PollTime, Deadline
  <2>4. r.state \in Contract!ActiveStates /\ r.resource => i \in Working
    BY <2>2 DEF Working, Awaited, Active
  <2> QED
    BY <2>2, <2>3, <2>4, ReplacedFewer
<1>3. CASE TickStart
  <2>1. rows' = ExpiredRows /\ tick'.row = 0
    BY <1>3, LoopHolds DEF TickStart
  <2>2. /\ Ids' = Ids
        /\ \A k \in Ids : rows'[k] = rows[k]
                          \/ rows'[k] = [rows[k] EXCEPT !.state = "expired"]
    BY <2>1 DEF ExpiredRows, Ids
  <2>3. \A k \in Ids : rows[k] \in Row
    BY RowsSeq DEF PrepInv
  <2>4. \A k \in Ids : rows'[k] = rows[k] \/ rows'[k].state = "expired"
    BY <2>2, <2>3 DEF Row
  <2>5. Awaited' \subseteq Awaited
    BY <2>2, <2>4 DEF Awaited, Active, Contract!ActiveStates
  <2> QED
    BY <2>1, <2>5 DEF Working
<1>4. CASE Crash \/ UNCHANGED vars
  <2>1. rows' = rows /\ tick'.row \in {0, tick.row}
    BY <1>4 DEF Crash, Idle, vars
  <2> QED
    BY <2>1 DEF Working, Awaited, Ids, Active
<1>5. Fewer
  <2> HIDE DEF Fewer
  <2> QED
    BY Zenon, <1>1, <1>2, <1>3, <1>4 DEF Fewer
<1> QED
  BY <1>5

(* The steps of the tick, but for the claim. *)
LEMMA TickFewer ==
    ASSUME PrepInv, NEW i \in Ids, Park(i) \/ GateRefused(i) \/ MarkReady(i) \/ Requeue(i)
    PROVE  Working' \subseteq Working
<1>1. rows[i] \in Row /\ rows \in [Ids -> Row] /\ i \in Id
  BY RowsSeq DEF PrepInv
<1>2. tick'.row = 0
  BY LoopHolds DEF Park, GateRefused, MarkReady, Requeue, EndRow
<1>3. /\ {"waiting", "failed_terminal", "queued", "ready"} \subseteq Contract!States
      /\ FALSE \in BOOLEAN
  BY DEF Contract!States, Contract!ActiveStates, Contract!TerminalStates
<1>4. CASE Park(i)
  <2>1. rows' = Mark(i, "waiting", FALSE) /\ Active(i)
    BY <1>4 DEF Park, PrepInv, TickOwns, Active, Contract!ActiveStates
  <2> QED
    BY <1>2, <1>3, <2>1, MarkFewer
<1>5. CASE GateRefused(i)
  <2>1. rows' = Mark(i, "failed_terminal", FALSE) /\ "failed_terminal" \notin Contract!ActiveStates
    BY <1>5 DEF GateRefused, Contract!ActiveStates
  <2> QED
    BY <1>2, <1>3, <2>1, MarkFewer
<1>6. CASE Requeue(i)
  <2>1. rows' = Mark(i, "queued", FALSE) /\ InHand("requeue", i)
    BY <1>6 DEF Requeue
  <2>2. Active(i)
    BY <1>1, <2>1, InHandRow DEF Active, Contract!ActiveStates
  <2> QED
    BY <1>2, <1>3, <2>1, <2>2, MarkFewer
<1>7. CASE MarkReady(i)
  <2> DEFINE r == [rows[i] EXCEPT !.state = "ready", !.due = FALSE, !.resource = TRUE]
  <2>1. r \in Row /\ r.state = "ready"
    BY <1>1, <1>3 DEF Row
  <2>2. rows' = [rows EXCEPT ![i] = r]
    BY <1>1, <1>7 DEF MarkReady, Mark
  <2> HIDE DEF r
  <2>3. "ready" \notin Contract!ActiveStates
    BY DEF Contract!ActiveStates
  <2> QED
    BY <1>2, <2>1, <2>2, <2>3, ReplacedFewer
<1> QED
  BY <1>4, <1>5, <1>6, <1>7

(* The await of the row in hand comes back. *)
LEMMA StepFewer ==
    ASSUME PrepInv, NEW i \in Ids, Step(i)
    PROVE  Working' \subseteq Working
<1>1. rows[i] \in Row /\ rows \in [Ids -> Row] /\ i \in Id /\ rows \in Seq(Row)
      /\ Ids = 1..Len(rows) /\ Len(rows) \in Nat
  BY RowsSeq DEF PrepInv, PreparationTypeOK
<1>2. tick.row = i /\ rows[i].state = "acquiring" /\ InHand("step", i)
  BY <1>1, InHandRow DEF Step
<1>3. Active(i) /\ i \in Working
  BY <1>1, <1>2, RowsSeq DEF Active, Working, Contract!ActiveStates, PrepInv
<1>4. PICK a \in Answers(i) : Accepted(i, a) \/ Persist(i, a) \/ Refused(i, a) \/ Retried(i, a)
  BY DEF Step
<1>5. /\ {"failed_terminal", "failed_policy", "failed_temporary"} \subseteq Contract!States
      /\ FALSE \in BOOLEAN
  BY DEF Contract!States, Contract!ActiveStates, Contract!TerminalStates
<1>6. ASSUME NEW s \in {"failed_terminal", "failed_policy", "failed_temporary"},
             rows' = Mark(i, s, FALSE), tick'.row \in {0, tick.row}
      PROVE  Working' \subseteq Working
  BY <1>3, <1>5, <1>6, MarkFewer
<1>7. CASE Accepted(i, a)
  <2> DEFINE b == rows[i].resource \/ a.id
             r == [rows[i] EXCEPT !.state = "waiting", !.due = FALSE, !.resource = b]
  <2>1. r \in Row
    BY <1>1 DEF Row, Contract!States, Contract!ActiveStates
  <2>2. rows' = [rows EXCEPT ![i] = r]
    BY <1>1, <1>7 DEF Accepted, Mark, Row
  <2>3. tick'.row = 0
    BY <1>7, LoopHolds DEF Accepted, EndRow
  <2> HIDE DEF r
  <2> QED
    BY <1>3, <2>1, <2>2, <2>3, ReplacedFewer
<1>8. CASE Persist(i, a)
  <2>1. rows' = rows /\ tick'.row = tick.row
    BY <1>8 DEF Persist, PrepInv, PreparationTypeOK
  <2> QED
    BY <2>1 DEF Working, Awaited, Ids, Active
<1>9. CASE Retried(i, a)
  <2>1. \/ rows' = Mark(i, "failed_terminal", FALSE) /\ tick'.row = 0
        \/ rows' = Mark(i, "failed_temporary", FALSE) /\ tick'.row = tick.row
    BY <1>9, LoopHolds DEF Retried, EndRow, PrepInv, PreparationTypeOK
  <2> QED
    BY <1>6, <2>1
<1>10. CASE Refused(i, a)
  <2> DEFINE s == NextState(a)
             rest == Remaining(i)
             p == First(rest)
             h == rows[i].hash
             failed == Mark(i, s, FALSE)
  <2>1. s \in {"failed_policy", "failed_terminal"} /\ tick'.row = 0
    BY <1>10, LoopHolds DEF Refused, EndRow
  <2>2. CASE rows' = failed
    <3> HIDE DEF s
    <3> QED
      BY <1>6, <2>1, <2>2
  <2>3. CASE rows' = Append(failed, NewRow(h, p, rest)) /\ rest # {} /\ Len(rows) < MaxRows
    <3>1. rest \in SUBSET Provider /\ p \in Provider /\ h \in Hash
      BY <1>1, <2>3, PlanTypes DEF Remaining, Row
    <3>2. PICK r \in Row : /\ failed = [rows EXCEPT ![i] = r] /\ r.state = s
      <4>1. s \in Contract!States /\ FALSE \in BOOLEAN /\ PreparationTypeOK
        <5> HIDE DEF s
        <5> QED
          BY <1>5, <2>1 DEF PrepInv
      <4> HIDE DEF s, rest, p, h
      <4>2. \E r \in Row : /\ Mark(i, s, FALSE) = [rows EXCEPT ![i] = r]
                           /\ r.state = s /\ r.hash = rows[i].hash
                           /\ r.provider = rows[i].provider
        <5> HIDE DEF failed
        <5> QED
          BY <4>1, MarkedRow
      <4> QED
        BY <4>2
    <3> HIDE DEF failed, s, rest, p, h
    <3>3. failed \in [1..Len(rows) -> Row]
      BY <1>1, <3>2
    <3>4. failed \in Seq(Row) /\ Len(failed) = Len(rows)
      BY <1>1, <3>3
    <3>5. failed[i] = r /\ \A k \in Ids \ {i} : failed[k] = rows[k]
      BY <1>1, <3>2
    <3>6. \A k \in Ids : failed[k].state \in Contract!ActiveStates /\ failed[k].resource
                         => k \in Working
      BY <1>3, <3>5 DEF Working, Awaited, Active
    <3> QED
      BY <2>1, <2>3, <3>1, <3>4, <3>6, CreateFewer
  <2>4. \/ rows' = failed
        \/ rows' = Append(failed, NewRow(h, p, rest)) /\ rest # {} /\ Len(rows) < MaxRows
    <3>1. CASE a.outcome \in {"content_blocked", "account_ineligible"} /\ rest # {}
      BY <1>10, <3>1 DEF Refused, StartOrJoin
    <3>2. CASE ~(a.outcome \in {"content_blocked", "account_ineligible"} /\ rest # {})
      BY <1>10, <3>2 DEF Refused
    <3> QED
      BY <3>1, <3>2
  <2> QED
    BY <2>2, <2>3, <2>4
<1> QED
  BY <1>4, <1>7, <1>8, <1>9, <1>10

(* The claim: what weighs after it is active, and was counted. *)
LEMMA ClaimKeepsLimit ==
    ASSUME PrepInv, NEW i \in Ids, Claim(i)
    PROVE  LimitInv'
<1> DEFINE Counted == {k \in Ids : Active(k)}
<1>1. /\ Claimable(i) /\ rows' = Claimed(i) /\ tick'.row = i /\ ~Limited(rows[i].provider)
  BY DEF Claim
<1>2. rows \in [Ids -> Row] /\ IsFiniteSet(Ids) /\ Ids = 1..Len(rows) /\ Len(rows) \in Nat
  BY RowsSeq, WorkingFinite DEF PrepInv
<1>3. Ids' = Ids /\ \A k \in Ids \ {i} : rows'[k] = rows[k]
  BY <1>1, <1>2 DEF Claimed, Ids
<1>4. i \in Counted
  BY <1>1 DEF Claimable, Active, Contract!ActiveStates
<1>5. Working' \subseteq Counted
  BY <1>1, <1>3, <1>4 DEF Working, Awaited, Active
<1>6. IsFiniteSet(Counted)
  BY <1>2, FS_Subset
<1>7. IsFiniteSet(Working') /\ Cardinality(Working') <= Cardinality(Counted)
  BY <1>5, <1>6, FS_Subset
<1>8. Cardinality(Working') \in Nat /\ Cardinality(Counted) \in Nat
  BY <1>6, <1>7, FS_CardinalityType
<1>9. Cardinality(Counted) < MaxConcurrentTotal
  <2>1. ~(Cardinality(Counted) >= MaxConcurrentTotal)
    BY <1>1 DEF Limited, CountActive
  <2> HIDE DEF Counted
  <2> QED
    BY <1>8, <2>1, PrepareLimits
<1> HIDE DEF Counted
<1> QED
  BY <1>7, <1>8, <1>9, PrepareLimits DEF LimitInv

LEMMA LimitInit == Init => LimitInv
<1> SUFFICES ASSUME Init PROVE LimitInv
  OBVIOUS
<1>1. Working = {}
  BY DEF Init, Idle, Working, Awaited, Ids
<1> QED
  BY <1>1, FS_EmptySet, PrepareLimits DEF LimitInv

LEMMA LimitStep == PrepInv /\ LimitInv /\ [Next]_vars => LimitInv'
<1> SUFFICES ASSUME PrepInv, LimitInv, [Next]_vars PROVE LimitInv'
  OBVIOUS
<1>1. CASE TickStep /\ ~TickStart
  BY <1>1, TickFewer, StepFewer, FewerKeepLimit, ClaimKeepsLimit DEF TickStep
<1>2. CASE \/ \E h \in Hash : Play(h)
           \/ \E i \in Ids : PollTime(i) \/ Deadline(i)
           \/ TickStart \/ Crash \/ UNCHANGED vars
  BY <1>2, OutsideFewer, FewerKeepLimit
<1> QED
  BY <1>1, <1>2 DEF Next

(* Fewer preparations than the limit have a resource of a provider. *)
THEOREM PreparationsLimited == Spec => []ConcurrencyBounded
<1>1. PrepInv /\ LimitInv => ConcurrencyBounded
  <2> SUFFICES ASSUME PrepInv, LimitInv PROVE ConcurrencyBounded
    OBVIOUS
  <2>1. IsFiniteSet(Working) /\ Awaited \subseteq Working
    BY WorkingFinite, FS_Subset DEF PrepInv, Working
  <2>2. IsFiniteSet(Awaited) /\ Cardinality(Awaited) <= Cardinality(Working)
    BY <2>1, FS_Subset
  <2>3. Cardinality(Awaited) \in Nat /\ Cardinality(Working) \in Nat
    BY <2>1, <2>2, FS_CardinalityType
  <2>4. Cardinality(Awaited) < MaxConcurrentTotal
    BY <2>2, <2>3, PrepareLimits DEF LimitInv
  <2> QED
    BY <2>4 DEF ConcurrencyBounded, Awaited
<1> QED
  BY <1>1, LimitInit, LimitStep, PrepInvariant, PTL DEF Spec
=============================================================================
