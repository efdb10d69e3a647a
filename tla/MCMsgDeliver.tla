---------------------------- MODULE MCMsgDeliver ----------------------------
(***************************************************************************)
(* Small instances of MsgDeliver.  Two queue entries and three log slots   *)
(* are the tightest sizes SizeAssumption allows: the fourth LOG message    *)
(* takes the first slot again.  One message is more urgent than the LOG    *)
(* messages and overtakes them; the default build is the case of equal     *)
(* priorities, and two LOG messages have equal ones.                       *)
(***************************************************************************)
EXTENDS MsgDeliverRefinement, TLC

CONSTANTS l1, l2, l3, l4, i1, worker

Logs == {l1, l2, l3, l4}
Msgs == Logs \cup {i1}

MCThread == {worker, "deliver"}
MCModule == {"V4L2", "LOGGER"}
FromAll(S) == [m \in S |-> IF m = i1 THEN "V4L2" ELSE "LOGGER"]
ToLogger(S) == [m \in S |-> "LOGGER"]

MCSource == FromAll(Msgs)
MCDest   == ToLogger(Msgs)
MCPrio   == [m \in Msgs |-> IF m = i1 THEN 2 ELSE 1]

(* LOG messages are interchangeable here, so it is enough to send them in  *)
(* one order; unlike SYMMETRY this is sound for liveness too.              *)
LogOrder == <<l1, l2, l3, l4>>
LogsInOrder ==
  \A i \in 1 .. 3 : status'[LogOrder[i + 1]] # "new" => status'[LogOrder[i]] # "new"

MCSpec == Init /\ [][Next /\ LogsInOrder]_vars /\ Fairness
=============================================================================
