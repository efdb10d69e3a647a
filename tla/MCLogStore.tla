----------------------------- MODULE MCLogStore -----------------------------
(* Four log messages, one of them an error, and a table that an earlier run*)
(* has left with three rows.                                               *)
EXTENDS LogStore

CONSTANTS l1, l2, l3, l4, old

FourLogs == {l1, l2, l3, l4}
AllLogs  == FourLogs \cup {old}
ThreeOld == <<old, old, old>>
OneError == {l1}
=============================================================================
