--------------------------- MODULE PrepareContract ---------------------------
(***************************************************************************)
(* What lib/prepare/contract.js and the header of lib/prepare/store.js     *)
(* promise of a preparation row: the states it has, the outcomes a step    *)
(* may have, the state an outcome leads to, and the life of a row,         *)
(*   queued -> acquiring -> waiting -> ready | failed_* | cancelled |      *)
(*   expired,                                                              *)
(* in which a terminal row is history.  Preparation implements it.         *)
(***************************************************************************)
CONSTANT Id          \* the ids of the rows

VARIABLE state       \* [Id -> "none" or a state]: the column, for every row

ActiveStates == {"queued", "acquiring", "waiting", "failed_temporary"}
TerminalStates == {"ready", "failed_policy", "failed_terminal", "cancelled", "expired"}
States == ActiveStates \cup TerminalStates

Outcomes == {"ready", "accepted", "already_present", "content_blocked",
             "account_ineligible", "rate_limited", "temporary_failure",
             "unsupported", "failed"}

(* The state a step's outcome leads a row in state s to. *)
NextPreparationState(s, outcome) ==
    CASE outcome = "ready" -> "ready"
      [] outcome \in {"accepted", "already_present"} ->
            IF s = "queued" THEN "acquiring" ELSE "waiting"
      [] outcome = "content_blocked" -> "failed_policy"
      [] outcome \in {"account_ineligible", "unsupported", "failed"} -> "failed_terminal"
      [] OTHER -> "failed_temporary"

-----------------------------------------------------------------------------

Init == state = [i \in Id |-> "none"]

To(i, s) == state' = [state EXCEPT ![i] = s]

(* A row is created queued. *)
Start(i) == state[i] = "none" /\ To(i, "queued")

(* A worker takes a row that waits for its turn. *)
Claim(i) == state[i] \in {"queued", "waiting"} /\ To(i, "acquiring")

(* It goes back to waiting, for the provider or for capacity. *)
Wait(i) == state[i] \in {"queued", "acquiring"} /\ To(i, "waiting")

(* A failed step that is owed another one. *)
FailTemporary(i) == state[i] = "acquiring" /\ To(i, "failed_temporary")
Requeue(i) == state[i] = "failed_temporary" /\ To(i, "queued")

(* Only the step in hand makes a row ready or refused. *)
Finish(i) ==
    /\ state[i] = "acquiring"
    /\ \E s \in {"ready", "failed_policy", "failed_terminal"} : To(i, s)

(* The overdue rows of a tick expire together. *)
Expire ==
    \E S \in SUBSET {i \in Id : state[i] \in {"queued", "acquiring", "waiting"}} :
        state' = [i \in Id |-> IF i \in S THEN "expired" ELSE state[i]]

(* A refused provider's row fails as the row for the next provider starts. *)
Chain(i, j) ==
    /\ state[i] = "acquiring" /\ state[j] = "none"
    /\ \E s \in {"failed_policy", "failed_terminal"} :
           state' = [state EXCEPT ![i] = s, ![j] = "queued"]

Next ==
    \/ \E i \in Id : \/ Start(i) \/ Claim(i) \/ Wait(i) \/ FailTemporary(i)
                     \/ Requeue(i) \/ Finish(i)
                     \/ \E j \in Id : Chain(i, j)
    \/ Expire

Spec == Init /\ [][Next]_state
=============================================================================
