---------------------------- MODULE MCDemandRead ----------------------------
(* Two demands over two chunks; DemandRead names the fills after them.     *)
EXTENDS DemandRead

CONSTANTS d1, d2

MCFill == Demand \X (0 .. (2 * NumChunks - 1))

(* One player reads the whole file, the other does too or seeks its tail.  *)
MCWindows == [d \in Demand |-> IF d = d1 THEN {<<0, 1>>} ELSE {<<0, 1>>, <<1, 1>>}]

=============================================================================
