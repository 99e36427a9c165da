---------------------------- MODULE BindingHistory ----------------------------
(***************************************************************************)
(* What control-plane/store.js promises of the Bindings of a library item: *)
(* versions are only ever added, at most one is active, a superseded one   *)
(* is history.  Publication implements it.                                 *)
(***************************************************************************)
EXTENDS Naturals, Sequences

CONSTANT TF              \* TorrentFiles a Binding may name

VARIABLE bindings        \* the item's Bindings; the version is the index

Binding == [tf : TF, status : {"active", "superseded"}]

Superseded(b) == [b EXCEPT !.status = "superseded"]
Retired == [v \in DOMAIN bindings |-> Superseded(bindings[v])]

Init == bindings = <<>>

(* A new version takes over from the active one. *)
Activate(t) == bindings' = Append(Retired, [tf |-> t, status |-> "active"])

(* The item is unpublished. *)
Withdraw == bindings' = Retired

Next == (\E t \in TF : Activate(t)) \/ Withdraw

Spec == Init /\ [][Next]_bindings

OneActive ==
    \A v, w \in DOMAIN bindings :
        bindings[v].status = "active" /\ bindings[w].status = "active" => v = w
=============================================================================
