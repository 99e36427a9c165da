--------------------------- MODULE MCAnticipation ---------------------------
(* One episode of a requested season and one film, for TLC. *)
EXTENDS Anticipation

CONSTANTS episode, film

MCIntents  == {episode, film}
MCEpisodes == {episode}
MCFilms    == {film}
=============================================================================
