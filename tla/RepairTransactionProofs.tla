----------------------- MODULE RepairTransactionProofs -----------------------
(***************************************************************************)
(* Theorems of RepairTransaction, for any number of calls and any bounds:  *)
(* the calls of execute() exclude each other by the running step alone,    *)
(* and a step whose outcome is unknown holds its transaction for good.     *)
(***************************************************************************)
EXTENDS RepairTransaction, TLAPS

(* The action a call takes next is one that is left to do. *)
LEMMA ForemostIsTodo ==
    ASSUME NEW A \in SUBSET Action, A # {}
    PROVE  Foremost(A) \in A
<1> DEFINE P(i) == Order[i] \in A /\ \A j \in 1..(i - 1) : Order[j] \notin A
<1>1. Order[1] = "mutate" /\ Order[2] = "observe" /\ Order[3] = "reconcile"
  BY DEF Order
<1>2. \E i \in 1..3 : P(i)
  <2>1. CASE "mutate" \in A
    BY <1>1, <2>1
  <2>2. CASE "mutate" \notin A /\ "observe" \in A
    BY <1>1, <2>2
  <2>3. CASE A = {"reconcile"}
    BY <1>1, <2>3
  <2> QED
    BY <2>1, <2>2, <2>3 DEF Action
<1>3. P(CHOOSE i \in 1..3 : P(i))
  <2> HIDE DEF P
  <2> QED
    BY <1>2
<1> QED
  BY <1>3 DEF Foremost

-----------------------------------------------------------------------------
(* The inductive invariant. *)

(* Attempts are left for the steps in A. *)
Room(t, A) == \A a \in A : t.step[a].n < MaxAttempts

(* What a call's place in the loop says of its transaction: at a turn no    *)
(* step of it is open; while it waits or writes the answer down, its own    *)
(* step is, and no other.                                                   *)
HeldIn(e, t) ==
    /\ e.at = "turn" => Settled(t) /\ Room(t, Todo(t))
    /\ e.at \in {"waiting", "done"} =>
          /\ t.step[e.action].is = "running"
          /\ t.status = "executing"
          /\ \A a \in Action \ {e.action} : t.step[a].is # "running"
          /\ Room(t, Todo(t) \ {e.action})
Held(e) == HeldIn(e, txn[e.key])

(* One call at a time is between two awaits. *)
OneTurn ==
    \A c, d \in Call : exec[c].at \in {"turn", "done"} /\ exec[d].at \in {"turn", "done"} => c = d

IInv ==
    /\ RepairTypeOK
    /\ \A c \in Call : Held(exec[c])
    /\ OneTurn
    /\ OneExecution

(* The forms a call's record has. *)
LEMMA Forms ==
    ASSUME RepairTypeOK, NEW c \in Call
    PROVE  /\ exec[c].at \in {"idle", "turn", "waiting", "done"}
           /\ exec[c].at = "idle" <=> exec[c] = Idle
           /\ exec[c].at # "idle" => exec[c].key \in Key
           /\ exec[c].at = "turn" => exec[c] = [at |-> "turn", key |-> exec[c].key]
           /\ exec[c].at \in {"waiting", "done"} =>
                /\ exec[c].action \in Action
                /\ exec[c] = [at |-> exec[c].at, key |-> exec[c].key, action |-> exec[c].action]
BY DEF RepairTypeOK, Exec, Idle

(* The store's operations keep a transaction's type. *)
LEMMA StepTypes ==
    ASSUME NEW t \in Txn, NEW a \in Action
    PROVE  /\ Resumed(t) \in Txn /\ Closed(t) \in Txn /\ TxnFailed(t) \in Txn
           /\ Succeeded(t, a) \in Txn /\ StepFailed(t, a) \in Txn
           /\ t.step[a].n < MaxAttempts => Started(t, a) \in Txn
<1>1. t.step[a] \in Step /\ t.step \in [Action -> Step]
  BY DEF Txn
<1>2. t.step[a].n \in 0..MaxAttempts
  BY <1>1 DEF Step
<1>3. t.step[a].n < MaxAttempts => Begun(t.step[a]) \in Step
  BY <1>1, <1>2, RepairBounds DEF Step, Begun
<1>4. \A s \in Step : [t EXCEPT !.status = "executing", !.step[a] = s] \in Txn
  BY DEF Txn
<1>5. t.step[a].n < MaxAttempts => Started(t, a) \in Txn
  BY <1>3, <1>4 DEF Started
<1>6. Succeeded(t, a) \in Txn /\ StepFailed(t, a) \in Txn
  BY <1>1 DEF Succeeded, StepFailed, Txn, Step
<1> QED
  BY <1>5, <1>6 DEF Resumed, Closed, TxnFailed, Txn

LEMMA EvidenceTypes ==
    ASSUME facts \in Facts
    PROVE  /\ Later \in 1..MaxEpoch
           /\ \A f \in Facts : Seen(f) => facts' \in Facts
           /\ facts.version < MaxVersion => Reconciled \in Facts
<1>1. MaxVersion \in Nat /\ MaxEpoch \in Nat /\ MaxEpoch >= 1
  BY RepairBounds
<1>2. facts.version \in 1..MaxVersion /\ facts.epoch \in 1..MaxEpoch
  BY DEF Facts
<1>3. Later \in 1..MaxEpoch
  BY <1>1, <1>2 DEF Later
<1>4. \A f \in Facts : Seen(f) => facts' \in Facts
  BY <1>3 DEF Seen, Facts
<1>5. ASSUME facts.version < MaxVersion PROVE Reconciled \in Facts
  <2>1. \A v \in 1..MaxVersion : [facts EXCEPT !.version = v, !.degraded = FALSE] \in Facts
    BY DEF Facts
  <2>2. facts.version + 1 \in 1..MaxVersion
    BY <1>1, <1>2, <1>5
  <2> QED
    BY <1>2, <2>1, <2>2 DEF Reconciled
<1> QED
  BY <1>3, <1>4, <1>5

-----------------------------------------------------------------------------
(* The invariant is preserved. *)

(* A call that stays where it is, on a transaction that stays as it is,     *)
(* holds what it held.                                                      *)
LEMMA HeldFrame ==
    ASSUME IInv, NEW c \in Call, exec'[c] = exec[c],
           exec[c] # Idle => txn'[exec[c].key] = txn[exec[c].key]
    PROVE  Held(exec[c])'
<1>1. Held(exec[c])
  BY DEF IInv
<1>2. CASE exec[c] = Idle
  BY <1>2 DEF Held, HeldIn, Idle
<1>3. CASE exec[c] # Idle
  BY <1>1, <1>3 DEF Held, HeldIn
<1> QED
  BY <1>2, <1>3

(* Other writers of the evidence leave the transactions alone. *)
LEMMA EvidenceStep ==
    ASSUME IInv, Observe \/ Degrade \/ Rebind
    PROVE  IInv'
<1>1. UNCHANGED <<txn, exec, crashes>> /\ facts \in Facts
  BY DEF IInv, RepairTypeOK, Observe, Degrade, Rebind
<1>2. facts' \in Facts
  <2>1. CASE Observe
    BY <1>1, <2>1, EvidenceTypes DEF Observe
  <2>2. CASE Degrade
    BY <1>1, <2>2, EvidenceTypes DEF Degrade, Facts
  <2>3. CASE Rebind
    <3>1. MaxVersion \in Nat
      BY RepairBounds
    <3>2. facts.version + 1 \in 1..MaxVersion
      BY <1>1, <2>3, <3>1 DEF Rebind, Facts
    <3>3. [facts EXCEPT !.version = facts.version + 1, !.degraded = FALSE] \in Facts
      BY <1>1, <3>2 DEF Facts
    <3> QED
      BY <1>1, <2>3, <3>3, EvidenceTypes DEF Rebind
  <2> QED
    BY <2>1, <2>2, <2>3
<1>3. \A c \in Call : Held(exec[c])'
  BY <1>1, HeldFrame
<1> QED
  BY <1>1, <1>2, <1>3 DEF IInv, RepairTypeOK, OneTurn, OneExecution

(* Planning and authorizing: no call is on such a transaction, for the one  *)
(* that waited on it would have it executing.                               *)
LEMMA PlanStep ==
    ASSUME IInv, PersistPlan \/ Authorize
    PROVE  IInv'
<1> DEFINE k == Planned
<1>1. /\ LoopIsFree /\ k \in Key
      /\ txn[k].status \in {"none", "planned", "authorized"}
      /\ UNCHANGED <<facts, exec, crashes>>
      /\ \A j \in Key \ {k} : txn'[j] = txn[j]
  BY DEF PersistPlan, Authorize, IInv, RepairTypeOK
<1>2. txn' \in [Key -> Txn]
  <2>1. txn \in [Key -> Txn] /\ txn[k] \in Txn
    BY <1>1 DEF IInv, RepairTypeOK
  <2>2. [txn[k] EXCEPT !.status = "planned"] \in Txn
    BY <2>1 DEF Txn
  <2>3. \A A \in Authorizable :
           [txn[k] EXCEPT !.status = "authorized", !.allowed = A] \in Txn
    BY <2>1 DEF Txn, Authorizable
  <2>4. CASE PersistPlan
    BY <2>1, <2>2, <2>4 DEF PersistPlan
  <2>5. CASE Authorize
    <3>1. PICK A \in Authorizable :
             txn' = [txn EXCEPT ![k].status = "authorized", ![k].allowed = A]
      BY <2>5 DEF Authorize
    <3>2. txn' = [txn EXCEPT ![k] = [txn[k] EXCEPT !.status = "authorized", !.allowed = A]]
      BY <3>1, <2>1
    <3> QED
      BY <2>1, <2>3, <3>2
  <2> QED
    BY <2>4, <2>5
<1>3. ASSUME NEW c \in Call PROVE Held(exec[c])'
  <2>1. exec[c] # Idle => exec[c].at = "waiting" /\ exec[c].key \in Key
    BY <1>1, Forms DEF IInv, LoopIsFree
  <2>2. exec[c] # Idle => txn[exec[c].key].status = "executing"
    BY <2>1 DEF IInv, Held, HeldIn
  <2> QED
    BY <1>1, <2>1, <2>2, HeldFrame
<1> QED
  BY <1>1, <1>2, <1>3 DEF IInv, RepairTypeOK, OneTurn, OneExecution

(* What one call does to its own transaction does not touch the others. *)
LEMMA OthersHold ==
    ASSUME IInv, NEW c \in Call, NEW k \in Key, NEW e,
           exec' = [exec EXCEPT ![c] = e],
           \A j \in Key \ {k} : txn'[j] = txn[j],
           \A d \in Call \ {c} : exec[d] # Idle => exec[d].key # k
    PROVE  \A d \in Call \ {c} : exec'[d] = exec[d] /\ Held(exec[d])'
<1> TAKE d \in Call \ {c}
<1>1. exec'[d] = exec[d]
  BY DEF IInv, RepairTypeOK
<1>2. exec[d] # Idle => exec[d].key \in Key
  BY Forms DEF IInv
<1> QED
  BY <1>1, <1>2, HeldFrame

LEMMA ExecuteStep ==
    ASSUME IInv, NEW c \in Call, NEW k \in Key, Execute(c, k)
    PROVE  IInv'
<1> DEFINE turn == [at |-> "turn", key |-> k]
           e == IF Current(k) THEN turn ELSE Idle
           t == txn[k]
<1>1. /\ exec[c] = Idle /\ LoopIsFree /\ Executable(t)
      /\ txn' = [txn EXCEPT ![k] = Resumed(t)]
      /\ exec' = [exec EXCEPT ![c] = e]
      /\ UNCHANGED <<facts, crashes>>
  <2>1. exec[c] = Idle => exec = [exec EXCEPT ![c] = Idle]
    BY DEF IInv, RepairTypeOK
  <2>2. exec' = [exec EXCEPT ![c] = e]
    BY <2>1 DEF Execute
  <2> QED
    BY <2>2 DEF Execute
<1>2. t \in Txn /\ Resumed(t) \in Txn /\ txn'[k] = Resumed(t) /\ exec'[c] = e
  <2>1. t \in Txn /\ "mutate" \in Action
    BY DEF IInv, RepairTypeOK, Action
  <2>2. Resumed(t) \in Txn
    BY <2>1, StepTypes
  <2> QED
    BY <1>1, <2>1, <2>2 DEF IInv, RepairTypeOK
<1>3. RepairTypeOK'
  <2>1. e \in Exec
    BY DEF Exec
  <2> HIDE DEF e
  <2> QED
    BY <1>1, <1>2, <2>1 DEF IInv, RepairTypeOK
<1>4. \A d \in Call \ {c} : exec[d] # Idle => exec[d].at = "waiting" /\ exec[d].key # k
  <2> SUFFICES ASSUME NEW d \in Call \ {c}, exec[d] # Idle
               PROVE  exec[d].at = "waiting" /\ exec[d].key # k
    OBVIOUS
  <2>1. exec[d].at = "waiting" /\ exec[d].action \in Action
    BY <1>1, Forms DEF IInv, LoopIsFree
  <2>2. txn[exec[d].key].step[exec[d].action].is = "running"
    BY <2>1 DEF IInv, Held, HeldIn
  <2> QED
    BY <1>1, <2>1, <2>2 DEF Executable, Settled
<1>5. \A d \in Call \ {c} : exec'[d] = exec[d] /\ Held(exec[d])'
  <2> HIDE DEF e
  <2>1. \A j \in Key \ {k} : txn'[j] = txn[j]
    BY <1>1 DEF IInv, RepairTypeOK
  <2> QED
    BY <1>1, <1>4, <2>1, OthersHold
<1>6. Held(exec[c])'
  <2>1. Settled(Resumed(t)) /\ Todo(Resumed(t)) = Todo(t) /\ Resumed(t).step = t.step
    BY <1>1, <1>2 DEF Executable, Settled, Todo, Resumed, Txn
  <2>2. Room(Resumed(t), Todo(Resumed(t)))
    BY <1>1, <2>1 DEF Executable, Room
  <2>3. CASE e = Idle
    BY <1>2, <2>3 DEF Held, HeldIn, Idle
  <2>4. CASE e = turn
    BY <1>2, <2>1, <2>2, <2>4 DEF Held, HeldIn
  <2> QED
    BY <2>3, <2>4
<1>7. OneTurn' /\ OneExecution'
  <2>1. \A d \in Call \ {c} : exec'[d] # Idle => exec'[d].at = "waiting" /\ exec'[d].key # k
    BY <1>4, <1>5
  <2>2. \A d \in Call \ {c} : exec'[d].at \notin {"turn", "done"}
    BY <2>1 DEF Idle
  <2>3. OneTurn'
    BY <2>2 DEF OneTurn
  <2>4. OneExecution'
    BY <1>2, <1>5, <2>1 DEF OneExecution, IInv
  <2> QED
    BY <2>3, <2>4
<1> QED
  BY <1>3, <1>5, <1>6, <1>7 DEF IInv

(* A call under way that ends or goes on, alone on its transaction k. *)
LEMMA CallStep ==
    ASSUME IInv, NEW c \in Call, NEW k \in Key, NEW u \in Txn, NEW e \in Exec,
           exec[c] # Idle, exec[c].key = k,
           exec[c].at \in {"turn", "done"} \/ LoopIsFree,
           txn' = [txn EXCEPT ![k] = u], exec' = [exec EXCEPT ![c] = e],
           facts' \in Facts, UNCHANGED crashes,
           e # Idle => e.key = k,
           HeldIn(e, u)
    PROVE  IInv'
<1>1. txn'[k] = u /\ exec'[c] = e /\ \A j \in Key \ {k} : txn'[j] = txn[j]
  BY DEF IInv, RepairTypeOK
<1>2. RepairTypeOK'
  BY DEF IInv, RepairTypeOK
<1>3. \A d \in Call \ {c} : exec[d] # Idle => exec[d].key # k
  BY DEF IInv, OneExecution
<1>4. \A d \in Call \ {c} : exec'[d] = exec[d] /\ Held(exec[d])'
  BY <1>1, <1>3, OthersHold
<1>5. Held(exec[c])'
  <2>1. CASE e = Idle
    BY <1>1, <2>1 DEF Held, HeldIn, Idle
  <2>2. CASE e # Idle
    BY <1>1, <2>2 DEF Held, HeldIn
  <2> QED
    BY <2>1, <2>2
<1>6. \A d \in Call \ {c} : exec'[d].at \notin {"turn", "done"}
  BY <1>4 DEF IInv, OneTurn, LoopIsFree
<1>7. OneTurn' /\ OneExecution'
  BY <1>1, <1>3, <1>4, <1>6 DEF OneTurn, OneExecution, IInv
<1> QED
  BY <1>2, <1>4, <1>5, <1>7 DEF IInv

LEMMA TurnStep ==
    ASSUME IInv, NEW c \in Call, Turn(c)
    PROVE  IInv'
<1> DEFINE k == exec[c].key
           t == txn[k]
<1>1. /\ exec[c].at = "turn" /\ exec[c] # Idle /\ k \in Key /\ t \in Txn
      /\ UNCHANGED <<facts, crashes>> /\ facts' \in Facts
  BY Forms DEF Turn, IInv, RepairTypeOK, Idle
<1>2. Settled(t) /\ Room(t, Todo(t))
  BY <1>1 DEF IInv, Held, HeldIn
<1>3. Idle \in Exec /\ \A u \in Txn : HeldIn(Idle, u)
  BY DEF Exec, HeldIn, Idle
<1>4. CASE UNCHANGED txn /\ exec' = [exec EXCEPT ![c] = Idle]
  <2>1. txn' = [txn EXCEPT ![k] = t]
    BY <1>1, <1>4 DEF IInv, RepairTypeOK
  <2> HIDE DEF t
  <2> QED
    BY <1>1, <1>3, <1>4, <2>1, CallStep
<1>5. CASE txn' = [txn EXCEPT ![k] = Closed(t)] /\ exec' = [exec EXCEPT ![c] = Idle]
  <2>1. "mutate" \in Action
    BY DEF Action
  <2>2. Closed(t) \in Txn
    BY <1>1, <2>1, StepTypes
  <2> QED
    BY <1>1, <1>3, <1>5, <2>2, CallStep
<1>6. CASE /\ Todo(t) # {}
           /\ LET a == Foremost(Todo(t)) IN
                 /\ txn' = [txn EXCEPT ![k] = Started(t, a)]
                 /\ exec' = [exec EXCEPT ![c] = [at |-> "waiting", key |-> k, action |-> a]]
  <2> DEFINE a == Foremost(Todo(t))
             u == Started(t, a)
             e == [at |-> "waiting", key |-> k, action |-> a]
  <2>1. Todo(t) \in SUBSET Action
    BY <1>1 DEF Todo, Txn
  <2>2. a \in Todo(t) /\ a \in Action
    BY <1>6, <2>1, ForemostIsTodo
  <2> HIDE DEF a
  <2>3. t.step[a].n < MaxAttempts /\ t.step[a].is \notin {"running", "succeeded"}
    BY <1>2, <2>2 DEF Settled, Room, Todo
  <2>4. u \in Txn
    BY <1>1, <2>2, <2>3, StepTypes
  <2>5. u = [t EXCEPT !.status = "executing",
                      !.step[a] = [n |-> t.step[a].n + 1, is |-> "running"]]
    BY <2>3 DEF Started, Begun
  <2>6. /\ u.step[a].is = "running" /\ u.status = "executing"
        /\ \A b \in Action \ {a} : u.step[b] = t.step[b]
        /\ u.allowed = t.allowed
    BY <1>1, <2>2, <2>5 DEF Txn
  <2>7. Room(u, Todo(u) \ {a})
    BY <1>1, <1>2, <2>6 DEF Room, Todo, Txn
  <2>8. HeldIn(e, u)
    <3> HIDE DEF u
    <3> QED
      BY <1>2, <2>6, <2>7 DEF Held, HeldIn, Settled
  <2>9. e \in Exec /\ e # Idle /\ e.key = k
    BY <1>1, <2>2 DEF Exec, Idle
  <2>10. txn' = [txn EXCEPT ![k] = u] /\ exec' = [exec EXCEPT ![c] = e]
    BY <1>6 DEF a
  <2> HIDE DEF u, e
  <2> QED
    BY <1>1, <2>4, <2>8, <2>9, <2>10, CallStep
<1> QED
  BY <1>4, <1>5, <1>6 DEF Turn

LEMMA ReplyStep ==
    ASSUME IInv, NEW c \in Call, Reply(c)
    PROVE  IInv'
<1> DEFINE k == exec[c].key
           a == exec[c].action
           t == txn[k]
<1>1. /\ exec[c].at = "waiting" /\ exec[c] # Idle /\ LoopIsFree
      /\ k \in Key /\ a \in Action /\ t \in Txn /\ facts \in Facts
      /\ exec[c] = [at |-> "waiting", key |-> k, action |-> a]
      /\ UNCHANGED crashes
  BY Forms DEF Reply, IInv, RepairTypeOK, Idle
<1>2. Held(exec[c])
  BY DEF IInv
<1>3. Idle \in Exec /\ \A u \in Txn : HeldIn(Idle, u)
  BY DEF Exec, HeldIn, Idle
<1>4. CASE Works(k, a) /\ exec' = [exec EXCEPT ![c].at = "done"] /\ UNCHANGED txn
  <2> DEFINE e == [at |-> "done", key |-> k, action |-> a]
  <2>1. txn' = [txn EXCEPT ![k] = t]
    BY <1>1, <1>4 DEF IInv, RepairTypeOK
  <2>2. exec' = [exec EXCEPT ![c] = e]
    <3>1. [exec[c] EXCEPT !.at = "done"] = e
      BY <1>1
    <3> QED
      BY <1>4, <3>1
  <2>3. facts' \in Facts
    <3>1. CASE a = "mutate"
      BY <1>1, <1>4, <3>1 DEF Works
    <3>2. CASE a = "observe"
      BY <1>1, <1>4, <3>2, EvidenceTypes DEF Works
    <3>3. CASE a = "reconcile"
      <4>1. facts.version < MaxVersion
        BY <1>1, <1>4, <3>3, RepairBounds DEF Works, Key
      <4> QED
        BY <1>1, <1>4, <3>3, <4>1, EvidenceTypes DEF Works
    <3> QED
      BY <1>1, <3>1, <3>2, <3>3 DEF Action
  <2>4. e \in Exec /\ e # Idle /\ e.key = k
    BY <1>1 DEF Exec, Idle
  <2>5. HeldIn(e, t)
    BY <1>1, <1>2 DEF Held, HeldIn
  <2> HIDE DEF t, e
  <2> QED
    BY <1>1, <2>1, <2>2, <2>3, <2>4, <2>5, CallStep
<1>5. CASE /\ txn' = [txn EXCEPT ![k] = StepFailed(@, a)]
           /\ exec' = [exec EXCEPT ![c] = Idle] /\ UNCHANGED facts
  <2>1. StepFailed(t, a) \in Txn /\ txn' = [txn EXCEPT ![k] = StepFailed(t, a)]
    BY <1>1, <1>5, StepTypes
  <2> QED
    BY <1>1, <1>3, <1>5, <2>1, CallStep
<1>6. CASE /\ txn' = [txn EXCEPT ![k] = TxnFailed(@)]
           /\ exec' = [exec EXCEPT ![c] = Idle] /\ UNCHANGED facts
  <2>1. TxnFailed(t) \in Txn /\ txn' = [txn EXCEPT ![k] = TxnFailed(t)]
    BY <1>1, <1>6, StepTypes
  <2> QED
    BY <1>1, <1>3, <1>6, <2>1, CallStep
<1> QED
  BY <1>4, <1>5, <1>6 DEF Reply

LEMMA CompleteStepStep ==
    ASSUME IInv, NEW c \in Call, CompleteStep(c)
    PROVE  IInv'
<1> DEFINE k == exec[c].key
           a == exec[c].action
           t == txn[k]
           u == Succeeded(t, a)
           e == [at |-> "turn", key |-> k]
<1>1. /\ exec[c].at = "done" /\ exec[c] # Idle
      /\ k \in Key /\ a \in Action /\ t \in Txn
      /\ UNCHANGED <<facts, crashes>> /\ facts' \in Facts
      /\ txn' = [txn EXCEPT ![k] = u] /\ exec' = [exec EXCEPT ![c] = e]
  BY Forms DEF CompleteStep, IInv, RepairTypeOK, Idle
<1>2. Held(exec[c])
  BY DEF IInv
<1>3. u \in Txn
  BY <1>1, StepTypes
<1>4. /\ u.step[a].is = "succeeded" /\ u.allowed = t.allowed
      /\ \A b \in Action \ {a} : u.step[b] = t.step[b]
  <2>1. t.step \in [Action -> Step]
    BY <1>1 DEF Txn
  <2>2. /\ u.step = [t.step EXCEPT ![a] = [@ EXCEPT !.is = "succeeded"]]
        /\ u.allowed = t.allowed
    BY <1>1 DEF Succeeded, Txn
  <2> HIDE DEF u, t
  <2>3. u.step[a] = [t.step[a] EXCEPT !.is = "succeeded"]
    BY <1>1, <2>1, <2>2
  <2>4. u.step[a].is = "succeeded"
    BY <1>1, <2>1, <2>3 DEF Step
  <2>5. \A b \in Action \ {a} : u.step[b] = t.step[b]
    BY <2>1, <2>2
  <2> QED
    BY <2>2, <2>4, <2>5
<1>5. Settled(u) /\ Room(u, Todo(u))
  <2>1. Settled(u)
    <3>1. \A b \in Action \ {a} : t.step[b].is # "running"
      BY <1>1, <1>2 DEF Held, HeldIn
    <3> HIDE DEF u, t
    <3> QED
      BY <1>4, <3>1 DEF Settled
  <2>2. \A b \in Todo(u) : b \in Todo(t) \ {a}
    BY <1>1, <1>4 DEF Todo, Txn
  <2>3. Todo(u) \subseteq Action
    BY <1>3 DEF Todo, Txn
  <2> QED
    BY <1>1, <1>2, <1>4, <2>1, <2>2, <2>3 DEF Held, HeldIn, Room
<1>6. HeldIn(e, u)
  <2> HIDE DEF u
  <2> QED
    BY <1>5 DEF Held, HeldIn
<1>7. e \in Exec /\ e # Idle /\ e.key = k
  BY <1>1 DEF Exec, Idle
<1> HIDE DEF u, e
<1> QED
  BY <1>1, <1>3, <1>6, <1>7, CallStep

LEMMA CrashStep ==
    ASSUME IInv, Crash
    PROVE  IInv'
<1>1. /\ UNCHANGED <<facts, txn>> /\ exec' = [c \in Call |-> Idle]
      /\ crashes' = crashes + 1 /\ crashes < MaxCrashes
  BY DEF Crash
<1>2. RepairTypeOK'
  <2>1. Idle \in Exec /\ crashes \in 0..MaxCrashes /\ MaxCrashes \in Nat
    BY RepairBounds DEF Exec, IInv, RepairTypeOK
  <2> QED
    BY <1>1, <2>1 DEF IInv, RepairTypeOK
<1>3. \A c \in Call : Held(exec[c])'
  BY <1>1 DEF Held, HeldIn, Idle
<1>4. OneTurn' /\ OneExecution'
  BY <1>1 DEF OneTurn, OneExecution, Idle
<1> QED
  BY <1>2, <1>3, <1>4 DEF IInv

LEMMA StepInv ==
    ASSUME IInv, [Next]_vars
    PROVE  IInv'
<1>1. CASE Observe \/ Degrade \/ Rebind
  BY <1>1, EvidenceStep
<1>2. CASE PersistPlan \/ Authorize
  BY <1>2, PlanStep
<1>3. CASE \E c \in Call, k \in Key : Execute(c, k)
  BY <1>3, ExecuteStep
<1>4. CASE \E c \in Call : Turn(c)
  BY <1>4, TurnStep
<1>5. CASE \E c \in Call : Reply(c)
  BY <1>5, ReplyStep
<1>6. CASE \E c \in Call : CompleteStep(c)
  BY <1>6, CompleteStepStep
<1>7. CASE Crash
  BY <1>7, CrashStep
<1>8. CASE UNCHANGED vars
  <2>1. UNCHANGED facts /\ UNCHANGED txn /\ UNCHANGED exec /\ UNCHANGED crashes
    BY <1>8 DEF vars
  <2>2. \A c \in Call : Held(exec[c])'
    BY <2>1, HeldFrame
  <2> QED
    BY <2>1, <2>2 DEF IInv, RepairTypeOK, OneTurn, OneExecution
<1> QED
  BY <1>1, <1>2, <1>3, <1>4, <1>5, <1>6, <1>7, <1>8 DEF Next

LEMMA InitInv == Init => IInv
<1> SUFFICES ASSUME Init PROVE IInv
  OBVIOUS
<1>1. NoTxn \in Txn
  <2>1. 0 \in 0..MaxAttempts
    BY RepairBounds
  <2> QED
    BY <2>1 DEF NoTxn, Txn, Step
<1>2. Idle \in Exec /\ 0 \in 0..MaxCrashes /\ 1 \in 1..MaxVersion /\ 1 \in 1..MaxEpoch
  BY RepairBounds DEF Exec
<1>3. facts \in Facts
  BY <1>2 DEF Init, Facts
<1>4. \A c \in Call : Held(exec[c])
  BY DEF Init, Held, HeldIn, Idle
<1> QED
  BY <1>1, <1>2, <1>3, <1>4 DEF Init, IInv, RepairTypeOK, OneTurn, OneExecution, Idle

(* Every repair transaction, its steps and the calls on them keep their     *)
(* types; no step is attempted more often than it is allowed.               *)
THEOREM RepairTypeCorrect == Spec => []RepairTypeOK
<1>1. Init => IInv
  BY InitInv
<1>2. IInv /\ [Next]_vars => IInv'
  BY StepInv
<1>3. IInv => RepairTypeOK
  BY DEF IInv
<1> QED
  BY <1>1, <1>2, <1>3, PTL DEF Spec

(* Two calls of execute() are never on one transaction, however many calls, *)
(* crashes and resumptions there are: the running step keeps them apart.    *)
THEOREM ExecutionsExclude == Spec => []OneExecution
<1>1. Init => IInv
  BY InitInv
<1>2. IInv /\ [Next]_vars => IInv'
  BY StepInv
<1>3. IInv => OneExecution
  BY DEF IInv
<1> QED
  BY <1>1, <1>2, <1>3, PTL DEF Spec

-----------------------------------------------------------------------------
(* Unknown outcomes. *)

(* A step is only open in a transaction that executes or has failed. *)
OpenWhere == \A k \in Key : Settled(txn[k]) \/ txn[k].status \in {"executing", "failed"}

(* A step of the system either leaves a transaction alone, or plans one     *)
(* that has not begun, or takes up one with nothing open, or is the step of *)
(* the call that is on it.                                                  *)
LEMMA WhoMoves ==
    ASSUME IInv, OpenWhere, [Next]_vars, NEW k \in Key
    PROVE  \/ txn'[k] = txn[k]
           \/ Settled(txn[k]) /\ txn'[k].step = txn[k].step
           \/ /\ \E c \in Call : exec[c] # Idle /\ exec[c].key = k
              /\ Settled(txn'[k]) \/ txn'[k].status \in {"executing", "failed"}
<1> DEFINE Goal == \/ txn'[k] = txn[k]
                   \/ Settled(txn[k]) /\ txn'[k].step = txn[k].step
                   \/ /\ \E c \in Call : exec[c] # Idle /\ exec[c].key = k
                      /\ Settled(txn'[k]) \/ txn'[k].status \in {"executing", "failed"}
<1> USE DEF RepairTypeOK
<1>0. /\ txn \in [Key -> Txn] /\ txn[k] \in Txn
      /\ \A c \in Call : exec[c].at # "idle" => exec[c] # Idle
  BY DEF IInv, Idle
<1>1. CASE UNCHANGED txn
  BY <1>1
<1>2. CASE PersistPlan \/ Authorize
  <2>1. CASE k # Planned
    BY <1>0, <1>2, <2>1 DEF PersistPlan, Authorize
  <2>2. CASE k = Planned
    <3>1. txn'[k].step = txn[k].step
      BY <1>0, <1>2, <2>2 DEF PersistPlan, Authorize, Txn
    <3>2. Settled(txn[k])
      BY <1>2, <2>2 DEF PersistPlan, Authorize, OpenWhere
    <3> QED
      BY <3>1, <3>2
  <2> QED
    BY <2>1, <2>2
<1>3. ASSUME NEW c \in Call, NEW j \in Key, Execute(c, j) PROVE Goal
  <2>1. CASE k # j
    BY <1>0, <1>3, <2>1 DEF Execute
  <2>2. CASE k = j
    BY <1>0, <1>3, <2>2 DEF Execute, Executable, Resumed, Txn
  <2> QED
    BY <2>1, <2>2
<1>4. ASSUME NEW c \in Call, Turn(c) PROVE Goal
  <2> DEFINE j == exec[c].key
             t == txn[j]
  <2>1. exec[c].at = "turn" /\ exec[c] # Idle /\ j \in Key /\ t \in Txn
    BY <1>0, <1>4, Forms DEF Turn, IInv
  <2>2. Settled(t)
    BY <2>1 DEF IInv, Held, HeldIn
  <2>3. CASE k # j
    BY <1>0, <1>4, <2>3 DEF Turn
  <2>4. CASE k = j
    <3>1. CASE UNCHANGED txn
      BY <3>1
    <3>2. CASE txn' = [txn EXCEPT ![j] = Closed(t)]
      BY <1>0, <2>1, <2>2, <2>4, <3>2 DEF Closed, TxnFailed, Txn
    <3>3. CASE txn' = [txn EXCEPT ![j] = Started(t, Foremost(Todo(t)))]
      <4>1. Started(t, Foremost(Todo(t))).status = "executing"
        BY <2>1 DEF Started, Txn
      <4> QED
        BY <1>0, <2>1, <2>4, <3>3, <4>1
    <3> QED
      BY <1>4, <3>1, <3>2, <3>3 DEF Turn
  <2> QED
    BY <2>3, <2>4
<1>5. ASSUME NEW c \in Call, Reply(c) \/ CompleteStep(c) PROVE Goal
  <2> DEFINE j == exec[c].key
             t == txn[j]
             a == exec[c].action
  <2>1. exec[c].at \in {"waiting", "done"} /\ exec[c] # Idle /\ j \in Key /\ t \in Txn
    BY <1>0, <1>5, Forms DEF Reply, CompleteStep, IInv
  <2>2. t.status = "executing"
    BY <2>1 DEF IInv, Held, HeldIn
  <2>3. \/ UNCHANGED txn
        \/ txn' = [txn EXCEPT ![j] = StepFailed(t, a)]
        \/ txn' = [txn EXCEPT ![j] = TxnFailed(t)]
        \/ txn' = [txn EXCEPT ![j] = Succeeded(t, a)]
    BY <1>0, <1>5, <2>1 DEF Reply, CompleteStep
  <2>4. /\ StepFailed(t, a).status = "failed" /\ TxnFailed(t).status = "failed"
        /\ Succeeded(t, a).status = "executing"
    BY <2>1, <2>2 DEF StepFailed, TxnFailed, Succeeded, Txn
  <2> QED
    BY <1>0, <2>1, <2>3, <2>4
<1>6. CASE Observe \/ Degrade \/ Rebind \/ Crash \/ UNCHANGED vars
  BY <1>6, <1>1 DEF Observe, Degrade, Rebind, Crash, vars
<1> QED
  BY <1>2, <1>3, <1>4, <1>5, <1>6 DEF Next

(* No call takes up a transaction with an open step that none is at. *)
LEMMA NobodyTakesUp ==
    ASSUME IInv, [Next]_vars, NEW k \in Key, Ambiguous(k), NEW c \in Call, exec'[c] # Idle
    PROVE  exec'[c].key # k
<1> USE DEF RepairTypeOK
<1>0. exec \in [Call -> Exec] /\ txn \in [Key -> Txn]
  BY DEF IInv
<1>1. exec[c] # Idle => exec[c].key # k
  BY DEF Ambiguous
<1>2. CASE exec'[c] = exec[c]
  BY <1>1, <1>2
<1>3. ASSUME NEW d \in Call, NEW j \in Key, Execute(d, j) PROVE exec'[c].key # k
  <2>1. j # k
    BY <1>3 DEF Execute, Executable, Settled, Ambiguous
  <2>2. CASE c = d /\ Current(j)
    BY <1>0, <1>3, <2>1, <2>2 DEF Execute
  <2>3. CASE c # d \/ ~Current(j)
    BY <1>0, <1>2, <1>3, <2>3 DEF Execute
  <2> QED
    BY <2>2, <2>3
<1>4. ASSUME NEW d \in Call, Turn(d) \/ Reply(d) \/ CompleteStep(d) PROVE exec'[c].key # k
  <2>1. exec[d].at \in {"turn", "waiting", "done"} /\ exec[d] # Idle
    BY <1>4 DEF Turn, Reply, CompleteStep, Idle
  <2>2. CASE c # d
    BY <1>0, <1>2, <1>4, <2>2 DEF Turn, Reply, CompleteStep
  <2>3. CASE c = d
    <3>1. CASE Turn(c)
      BY <1>0, <1>1, <2>1, <2>3, <3>1 DEF Turn
    <3>2. CASE Reply(c)
      BY <1>0, <1>1, <2>1, <2>3, <3>2 DEF Reply, Exec, Idle
    <3>3. CASE CompleteStep(c)
      BY <1>0, <1>1, <2>1, <2>3, <3>3 DEF CompleteStep
    <3> QED
      BY <1>4, <2>3, <3>1, <3>2, <3>3
  <2> QED
    BY <2>2, <2>3
<1>5. CASE PersistPlan \/ Authorize \/ Observe \/ Degrade \/ Rebind \/ UNCHANGED vars
  BY <1>2, <1>5 DEF PersistPlan, Authorize, Observe, Degrade, Rebind, vars
<1>6. CASE Crash
  BY <1>6 DEF Crash
<1> QED
  BY <1>3, <1>4, <1>5, <1>6 DEF Next

(* An unknown outcome fails closed and for good, for any number of calls    *)
(* and crashes: nobody takes the transaction up again, no step of it is     *)
(* sent again, and it never counts as succeeded.                            *)
THEOREM UnknownFailsClosed == Spec => UnknownHolds
<1> DEFINE Hold == \A k \in Key : Ambiguous(k) =>
                      /\ Ambiguous(k)'
                      /\ txn'[k].step = txn[k].step /\ txn'[k].status # "succeeded"
<1>1. Init => IInv /\ OpenWhere
  <2>1. Init => OpenWhere
    BY DEF Init, OpenWhere, Settled, NoTxn
  <2> QED
    BY <2>1, InitInv
<1>2. IInv /\ OpenWhere /\ [Next]_vars => IInv' /\ OpenWhere'
  <2> SUFFICES ASSUME IInv, OpenWhere, [Next]_vars PROVE IInv' /\ OpenWhere'
    OBVIOUS
  <2>1. IInv'
    BY StepInv
  <2>2. ASSUME NEW k \in Key
        PROVE  Settled(txn'[k]) \/ txn'[k].status \in {"executing", "failed"}
    <3>1. txn'[k].step = txn[k].step /\ Settled(txn[k]) => Settled(txn'[k])
      BY DEF Settled
    <3> QED
      BY <3>1, WhoMoves DEF OpenWhere
  <2> QED
    BY <2>1, <2>2 DEF OpenWhere
<1>3. IInv /\ OpenWhere /\ [Next]_vars => Hold
  <2> SUFFICES ASSUME IInv, OpenWhere, [Next]_vars, NEW k \in Key, Ambiguous(k)
               PROVE  /\ Ambiguous(k)'
                      /\ txn'[k].step = txn[k].step /\ txn'[k].status # "succeeded"
    OBVIOUS
  <2>1. txn'[k] = txn[k]
    BY WhoMoves DEF Ambiguous, Settled
  <2>2. txn[k].status \in {"executing", "failed"}
    BY DEF Ambiguous, Settled, OpenWhere
  <2>3. \A c \in Call : exec'[c] # Idle => exec'[c].key # k
    BY NobodyTakesUp
  <2>4. Ambiguous(k)'
    BY <2>1, <2>3 DEF Ambiguous
  <2> QED
    BY <2>1, <2>2, <2>4
<1>4. IInv /\ OpenWhere /\ [Next]_vars => [Hold]_vars
  BY <1>3
<1> QED
  BY <1>1, <1>2, <1>4, PTL DEF Spec, UnknownHolds
=============================================================================
