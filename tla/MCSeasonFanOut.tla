--------------------------- MODULE MCSeasonFanOut ---------------------------
(* Two webhooks for one show: the first of two episodes of one season and one *)
(* of another, the second of one episode; somebody else asks for the first    *)
(* season as well.                                                            *)
EXTENDS SeasonFanOut

CONSTANTS
    show, first, second,        \* the media id and the fan-outs
    s1, s2,                     \* directories
    a1, a2, a3, b1, other       \* notifications

MCMediaOf == [x \in Request \cup Scope |-> show]
MCKeyOf == [r \in Request |-> IF r = a3 THEN s2 ELSE s1]
MCChildrenOf == [f \in Scope |-> IF f = first THEN {a1, a2, a3} ELSE {b1}]
=============================================================================
