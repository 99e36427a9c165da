------------------------- MODULE MCDownloadHandoff -------------------------
(* Two TorrentFiles the intent may resolve to, one longer than the other. *)
EXTENDS DownloadHandoff

CONSTANTS long, short

Files == {long, short}
Sizes == [f \in Files |-> IF f = long THEN 2 ELSE 1]
=============================================================================
