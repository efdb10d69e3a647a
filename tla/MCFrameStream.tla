--------------------------- MODULE MCFrameStream ---------------------------
(* Four frames, the last of one fragment.  With one incomplete frame left  *)
(* alone instead of three, losing a fragment of each of the first two is   *)
(* enough for the host to throw fragments away.                            *)
EXTENDS FrameStream

Sizes == <<2, 2, 2, 1>>
Pairs == <<2, 2, 2, 2>>
=============================================================================
