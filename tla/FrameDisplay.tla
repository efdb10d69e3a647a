---------------------------- MODULE FrameDisplay ----------------------------
(***************************************************************************)
(* What the path of a picture or a file from the board to the host         *)
(* promises: the host shows frames of the board whole, it may leave frames *)
(* out, and it never goes back to an older one.                            *)
(***************************************************************************)
EXTENDS Integers

VARIABLES
  latest,   \* the last frame the board has made; they are counted from 1
  screen    \* the frame the host has shown last, 0 before the first

vars == <<latest, screen>>

Init == latest = 0 /\ screen = 0

Make == latest' = latest + 1 /\ UNCHANGED screen

Show == screen' \in (1 .. latest) \ (1 .. screen - 1) /\ UNCHANGED latest

Next == Make \/ Show

Spec == Init /\ [][Next]_vars
=============================================================================
