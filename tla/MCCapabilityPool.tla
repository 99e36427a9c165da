-------------------------- MODULE MCCapabilityPool --------------------------
(* Two readers of one file placed with two providers.                      *)
EXTENDS CapabilityPool, TLC

CONSTANTS r1, r2

=============================================================================
