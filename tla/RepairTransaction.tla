-------------------------- MODULE RepairTransaction --------------------------
(***************************************************************************)
(* Repair transactions of media-search: the durable rows and steps of      *)
(* lib/control-plane/store.js and the executor that works them off,        *)
(* lib/control-plane/repair-executor.js, with the planner's verdict        *)
(* (repair-planner.js) reduced to what the two ask of it.                  *)
(*                                                                         *)
(* One JavaScript thread runs every call of execute(): from one await to   *)
(* the next no other call moves, and LoopIsFree says so.  The store's      *)
(* transactions commit one by one in between, so a crash may fall between  *)
(* any two of them, and other processes may write to the same database.    *)
(***************************************************************************)
EXTENDS Naturals

CONSTANTS
    Call,            \* calls of execute()
    MaxVersion,      \* bound: binding versions; the last one is not planned for
    MaxEpoch,        \* bound: changes of the evidence
    MaxPlans,        \* bound: plans per version, from the first evidences
    MaxAttempts,     \* bound: attempts of a step
    MaxCrashes       \* bound: crashes of the process

ASSUME RepairBounds ==
    /\ {MaxVersion, MaxEpoch, MaxPlans, MaxAttempts} \subseteq Nat \ {0}
    /\ MaxPlans < MaxEpoch /\ MaxCrashes \in Nat

VARIABLES
    facts,     \* the newest binding and the evidence the planner judges
    txn,       \* repair_transactions with their repair_steps
    exec,      \* the calls of execute() under way
    crashes

vars == <<facts, txn, exec, crashes>>

(* The actions a plan permits, in the plan's order: reselecting files and   *)
(* requesting a repair are the provider mutations, the re-observations of   *)
(* provider, metadata and mount are one action.                             *)
Order == <<"mutate", "observe", "reconcile">>
Action == {"mutate", "observe", "reconcile"}
IsProviderMutation(a) == a = "mutate"

(* A plan key names the binding version and the evidence it was made from.  *)
Key == (1..(MaxVersion - 1)) \X (1..MaxPlans)
Planned == <<facts.version, facts.epoch>>

Facts == [ version : 1..MaxVersion,
           degraded : BOOLEAN,        \* its status, active otherwise
           epoch : 1..MaxEpoch,       \* which evidence there is
           sound : BOOLEAN,           \* observations give no trigger
           bound : BOOLEAN ]          \* the bound provider file is observed

Step == [n : 0..MaxAttempts, is : {"none", "running", "succeeded", "failed"}]
Txn == [ status : {"none", "planned", "authorized", "executing", "failed", "succeeded"},
         allowed : SUBSET Action,     \* authorized_actions
         step : [Action -> Step] ]    \* attempts so far and the latest of them

NoTxn == [ status |-> "none", allowed |-> {},
           step |-> [a \in Action |-> [n |-> 0, is |-> "none"]] ]

Idle == [at |-> "idle"]
Exec == {Idle} \cup [at : {"turn"}, key : Key]
               \cup [at : {"waiting", "done"}, key : Key, action : Action]

RepairTypeOK ==
    /\ facts \in Facts
    /\ txn \in [Key -> Txn]
    /\ exec \in [Call -> Exec]
    /\ crashes \in 0..MaxCrashes

Init ==
    /\ facts \in [version : {1}, degraded : BOOLEAN, epoch : {1},
                  sound : {FALSE}, bound : {TRUE}]
    /\ txn = [k \in Key |-> NoTxn]
    /\ exec = [c \in Call |-> Idle]
    /\ crashes = 0

-----------------------------------------------------------------------------
(* The planner's verdict and the store's transactions.                      *)

Healthy == facts.sound /\ facts.bound /\ ~facts.degraded

(* assertCurrentBinding, boundTarget *)
Current(k) == facts.version = k[1] /\ facts.bound

(* Mutants of Settled: checked on a restart's transactions only; and not    *)
(* when a failed transaction is resumed.                                    *)
Settled_OnResume(t) == t.status = "failed" => \A a \in Action : t.step[a].is # "running"
Settled_NotOnResume(t) == t.status # "failed" => \A a \in Action : t.step[a].is # "running"

(* No step of the transaction has an operation whose outcome is open. *)
Settled(t) == \A a \in Action : t.step[a].is # "running"

(* Mutant of Todo: a resumed call replays the steps that succeeded. *)
Todo_Replayed(t) == t.allowed

(* The authorized actions that have not succeeded, and the first of them. *)
Todo(t) == {a \in t.allowed : t.step[a].is # "succeeded"}
Foremost(A) == Order[CHOOSE i \in 1..3 : Order[i] \in A /\ \A j \in 1..(i - 1) : Order[j] \notin A]

(* Authorizing a provider mutation requires the re-observation. *)
Authorizable == {A \in SUBSET Action \ {{}} : "mutate" \in A => "observe" \in A}

(* Mutant of Begun: the attempt is counted where the step starts and again  *)
(* where it is sent.                                                        *)
Begun_Twice(s) == IF s.is \in {"running", "succeeded"} THEN s ELSE [n |-> s.n + 2, is |-> "running"]

(* startRepairStep: a step that succeeded or runs is returned as it is. *)
Begun(s) == IF s.is \in {"running", "succeeded"} THEN s ELSE [n |-> s.n + 1, is |-> "running"]
Started(t, a) == [t EXCEPT !.status = "executing", !.step[a] = Begun(@)]

(* completeRepairStep, failRepairStep, failRepairTransaction *)
Succeeded(t, a) == [t EXCEPT !.step[a].is = "succeeded"]
StepFailed(t, a) == [t EXCEPT !.step[a].is = "failed", !.status = "failed"]
TxnFailed(t) == [t EXCEPT !.status = "failed"]

(* The end of a call with nothing left to do: postconditions, and then      *)
(* completeRepairTransaction, which throws unless the row is executing.     *)
Closed(t) ==
    IF ~Healthy THEN TxnFailed(t)
    ELSE IF t.status = "executing" THEN [t EXCEPT !.status = "succeeded"]
    ELSE t

(* A transaction execute() takes up; a failed one only with resume. *)
Resumed(t) == IF t.status = "failed" THEN [t EXCEPT !.status = "authorized"] ELSE t
Executable(t) ==
    /\ t.status \in {"authorized", "executing", "failed"}
    /\ Settled(t)
    /\ \A a \in Todo(t) : t.step[a].n < MaxAttempts

-----------------------------------------------------------------------------
(* The evidence changes.                                                    *)

Later == IF facts.epoch < MaxEpoch THEN facts.epoch + 1 ELSE MaxEpoch

Seen(f) == \E s, b \in BOOLEAN : facts' = [f EXCEPT !.epoch = Later, !.sound = s, !.bound = b]

(* activateBinding: an active binding of the same file is updated in place, *)
(* a degraded one is superseded by a new version.                           *)
Reconciled == [facts EXCEPT !.version = IF facts.degraded THEN @ + 1 ELSE @,
                            !.degraded = FALSE]

(* Another writer observes, degrades the binding or activates a new one,    *)
(* which may be of another release.                                         *)
Observe == facts.epoch < MaxEpoch /\ Seen(facts) /\ UNCHANGED <<txn, exec, crashes>>

Degrade ==
    /\ ~facts.degraded /\ facts.epoch < MaxEpoch
    /\ facts' = [facts EXCEPT !.degraded = TRUE, !.epoch = Later]
    /\ UNCHANGED <<txn, exec, crashes>>

Rebind ==
    /\ facts.version < MaxVersion /\ facts.epoch < MaxEpoch
    /\ Seen([facts EXCEPT !.version = @ + 1, !.degraded = FALSE])
    /\ UNCHANGED <<txn, exec, crashes>>

-----------------------------------------------------------------------------
(* Plan, authorize, execute.                                                *)

LoopIsFree == \A c \in Call : exec[c].at \notin {"turn", "done"}

PersistPlan ==
    /\ LoopIsFree
    /\ Planned \in Key /\ ~Healthy
    /\ txn[Planned].status = "none"
    /\ txn' = [txn EXCEPT ![Planned].status = "planned"]
    /\ UNCHANGED <<facts, exec, crashes>>

Authorize ==
    /\ LoopIsFree
    /\ Planned \in Key /\ ~Healthy         \* the plan is still the planner's
    /\ txn[Planned].status \in {"planned", "authorized"}
    /\ \E A \in Authorizable :
          txn' = [txn EXCEPT ![Planned].status = "authorized", ![Planned].allowed = A]
    /\ UNCHANGED <<facts, exec, crashes>>

(* A failed transaction is resumed before its binding is checked. *)
Execute(c, k) ==
    /\ exec[c] = Idle /\ LoopIsFree
    /\ Executable(txn[k])
    /\ txn' = [txn EXCEPT ![k] = Resumed(@)]
    /\ exec' = IF Current(k) THEN [exec EXCEPT ![c] = [at |-> "turn", key |-> k]] ELSE exec
    /\ UNCHANGED <<facts, crashes>>

(* One round of the loop: the binding is checked, and the next action is    *)
(* recorded as running and sent.  After the last one the transaction is     *)
(* closed, whatever version its binding has by then.                        *)
Turn(c) ==
    /\ exec[c].at = "turn"
    /\ LET k == exec[c].key  t == txn[k] IN
       \/ /\ ~Current(k) /\ Todo(t) # {}
          /\ exec' = [exec EXCEPT ![c] = Idle]
          /\ UNCHANGED txn
       \/ /\ Current(k) /\ Todo(t) # {}
          /\ LET a == Foremost(Todo(t)) IN
                /\ txn' = [txn EXCEPT ![k] = Started(t, a)]
                /\ exec' = [exec EXCEPT ![c] = [at |-> "waiting", key |-> k, action |-> a]]
       \/ /\ Todo(t) = {}
          /\ txn' = [txn EXCEPT ![k] = Closed(t)]
          /\ exec' = [exec EXCEPT ![c] = Idle]
    /\ UNCHANGED <<facts, crashes>>

(* The action's own effects; reconciling demands the planned version. *)
Works(k, a) ==
    CASE a = "mutate" -> UNCHANGED facts
      [] a = "observe" -> Seen(facts)
      [] a = "reconcile" -> facts.version = k[1] /\ Seen(Reconciled)

Reply(c) ==
    /\ exec[c].at = "waiting" /\ LoopIsFree
    /\ LET k == exec[c].key  a == exec[c].action IN
       \/ /\ Works(k, a)
          /\ exec' = [exec EXCEPT ![c].at = "done"]
          /\ UNCHANGED txn
       \/ /\ txn' = [txn EXCEPT ![k] = StepFailed(@, a)]     \* a definite failure
          /\ exec' = [exec EXCEPT ![c] = Idle]
          /\ UNCHANGED facts
       \/ /\ IsProviderMutation(a)                           \* the outcome is unknown
          /\ txn' = [txn EXCEPT ![k] = TxnFailed(@)]
          /\ exec' = [exec EXCEPT ![c] = Idle]
          /\ UNCHANGED facts
    /\ UNCHANGED crashes

CompleteStep(c) ==
    /\ exec[c].at = "done"
    /\ LET k == exec[c].key  a == exec[c].action IN
          /\ txn[k].status = "executing" /\ txn[k].step[a].is = "running"
          /\ txn' = [txn EXCEPT ![k] = Succeeded(@, a)]
          /\ exec' = [exec EXCEPT ![c] = [at |-> "turn", key |-> k]]
    /\ UNCHANGED <<facts, crashes>>

Crash ==
    /\ crashes < MaxCrashes
    /\ \E c \in Call : exec[c] # Idle
    /\ exec' = [c \in Call |-> Idle]
    /\ crashes' = crashes + 1
    /\ UNCHANGED <<facts, txn>>

Next ==
    \/ Observe \/ Degrade \/ Rebind
    \/ PersistPlan \/ Authorize
    \/ \E c \in Call : \/ \E k \in Key : Execute(c, k)
                       \/ Turn(c) \/ Reply(c) \/ CompleteStep(c)
    \/ Crash

(* The loop runs on, the injected gateway answers or fails, and the event   *)
(* loop delivers an answer however often other calls take their turn.       *)
Fairness == \A c \in Call : WF_vars(Turn(c) \/ CompleteStep(c)) /\ SF_vars(Reply(c))

Spec == Init /\ [][Next]_vars /\ Fairness

-----------------------------------------------------------------------------

(* Two calls of execute() never work on one transaction at a time.  Nothing *)
(* locks the transaction: what keeps a second call out is that the durable  *)
(* running step of the first is on record whenever the first one waits.     *)
OneExecution ==
    \A c, d \in Call : exec[c] # Idle /\ exec[d] # Idle /\ exec[c].key = exec[d].key => c = d

(* A step is left running by a crash or by an error that does not say       *)
(* whether the provider acted: its outcome is unknown.                      *)
Ambiguous(k) ==
    /\ \E a \in Action : txn[k].step[a].is = "running"
    /\ \A c \in Call : exec[c] # Idle => exec[c].key # k

(* An unknown outcome fails closed and for good: no call, resume or restart *)
(* takes the transaction up again, no step of it is sent a second time, and *)
(* it never counts as succeeded.                                            *)
UnknownHolds ==
    [][\A k \in Key : Ambiguous(k) =>
          /\ Ambiguous(k)'
          /\ txn'[k].step = txn[k].step /\ txn'[k].status # "succeeded"]_vars

(* Every call of execute() ends: with the transaction closed, failed or     *)
(* left as it is.                                                           *)
ExecutionsEnd == \A c \in Call : exec[c].at # "idle" ~> exec[c].at = "idle"

(* "failed repair ... can resume without replaying successful steps": a     *)
(* call that finds every authorized step succeeded and the postconditions   *)
(* met leaves the transaction succeeded.                                    *)
FinishedRepairSucceeds ==
    [][\A c \in Call :
          exec[c].at = "turn" /\ exec'[c] = Idle /\ crashes' = crashes
            /\ Healthy /\ Todo(txn[exec[c].key]) = {}
          => txn'[exec[c].key].status = "succeeded"]_vars

=============================================================================
