------------------------ MODULE MsgDeliverRefinement ------------------------
(***************************************************************************)
(* MsgDeliver implements MsgChannel: the content a queue entry points to   *)
(* at this moment stands for the content the abstract channel carries.     *)
(***************************************************************************)
EXTENDS MsgDeliver

(* What a handler reads through the data pointer of an entry: the log slot *)
(* as it is NOW for a LOG message, the sender's own data for another one.  *)
Content(e) == IF e.msg \in LogMsg THEN log_msg_buffer[e.slot] ELSE e.msg

Carried  == [i \in 1 .. Len(msg_buffer) |-> Content(msg_buffer[i])]
Refused  == {m \in Msg : status[m] = "refused"}
Returned == {m \in Msg : status[m] = "released"}
Used     == {m \in Msg : status[m] # "new"}

Channel == INSTANCE MsgChannel WITH
  Capacity  <- QueueCap,
  channel   <- Carried,
  delivered <- Content(msg),
  refused   <- Refused,
  returned  <- Returned,
  used      <- Used,
  open      <- running

(* The exchange is a bounded channel that passes messages by value, urgent *)
(* ones first, otherwise in order, and gives every one back to its sender  *)
(* once, after the handler of its destination has run.                     *)
ImplementsChannel == Channel!Spec
=============================================================================
