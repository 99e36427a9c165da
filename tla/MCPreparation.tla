---------------------------- MODULE MCPreparation ----------------------------
(* Two releases, both providers, room for a chain and a second Play. *)
EXTENDS Preparation
=============================================================================
