----------------------------- MODULE MCTcpLink -----------------------------
(* Two large answers, one of the command thread and one of the logger, and *)
(* three descriptors: a reopened socket may get its old number or another, *)
(* also after one has leaked.                                              *)
EXTENDS TcpLink

CONSTANTS b1, b2

TwoBigs       == {b1, b2}
TwoRequesters == [b \in TwoBigs |-> IF b = b1 THEN "COMMAND" ELSE "LOGGER"]
=============================================================================
