--------------------------- MODULE MCCommandFlow ---------------------------
(* A frame of every kind that differs for the receiver, in any order; two  *)
(* commands that the command thread runs.                                  *)
EXTENDS CommandFlow

CONSTANTS c1, c2, c3, c4, c5, c6, c7

AllCmds == {c1, c2, c3, c4, c5, c6, c7}
AllKinds ==
  [c \in AllCmds |->
     IF c = c3 THEN "elsewhere" ELSE IF c = c4 THEN "reserved"
     ELSE IF c = c5 THEN "bad" ELSE IF c = c6 THEN "broken"
     ELSE IF c = c7 THEN "large" ELSE "command"]

ThreeCmds == {c1, c2, c3}
Valid     == [c \in ThreeCmds |-> AllKinds[c]]

OneBroken == {c1, c6}
Broken    == [c \in OneBroken |-> AllKinds[c]]
=============================================================================
