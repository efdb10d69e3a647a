----------------------------- MODULE MsgChannel -----------------------------
(***************************************************************************)
(* What the message exchange promises to the modules of the board program: *)
(* a bounded channel that carries the CONTENT of a message, as if it were  *)
(* passed by value, the urgent ones first and otherwise first in first out.*)
(* A message that does not fit is refused.  The data of a message, refused *)
(* or delivered, is given back to its sender once, and after its delivery. *)
(* Once the channel is closed what it holds may be lost.                   *)
(***************************************************************************)
EXTENDS Naturals, Sequences

CONSTANTS Msg, NoMsg, Prio, Capacity

VARIABLES channel,   \* contents, oldest first
          delivered, \* the content being handled, or NoMsg
          refused,   \* refused and not given back yet
          returned,  \* given back to their senders
          used,      \* ever sent
          open

vars == <<channel, delivered, refused, returned, used, open>>

Init ==
  /\ channel = <<>>
  /\ delivered = NoMsg
  /\ refused = {}
  /\ returned = {}
  /\ used = {}
  /\ open = TRUE

(* Behind what is at least as urgent, in front of what is less.            *)
Accept(m) ==
  /\ m \notin used
  /\ Len(channel) < Capacity
  /\ \E k \in 0 .. Len(channel) :
       /\ \A i \in 1 .. k : Prio[channel[i]] >= Prio[m]
       /\ \A i \in k + 1 .. Len(channel) : Prio[channel[i]] < Prio[m]
       /\ channel' = SubSeq(channel, 1, k) \o <<m>>
                       \o SubSeq(channel, k + 1, Len(channel))
  /\ used' = used \cup {m}
  /\ UNCHANGED <<delivered, refused, returned, open>>

Refuse(m) ==
  /\ m \notin used
  /\ Len(channel) = Capacity
  /\ refused' = refused \cup {m}
  /\ used' = used \cup {m}
  /\ UNCHANGED <<channel, delivered, returned, open>>

Take ==
  /\ delivered = NoMsg
  /\ channel # <<>>
  /\ delivered' = Head(channel)
  /\ channel' = Tail(channel)
  /\ UNCHANGED <<refused, returned, used, open>>

ReturnDelivered ==
  /\ delivered # NoMsg
  /\ returned' = returned \cup {delivered}
  /\ delivered' = NoMsg
  /\ UNCHANGED <<channel, refused, used, open>>

ReturnRefused(m) ==
  /\ m \in refused
  /\ refused' = refused \ {m}
  /\ returned' = returned \cup {m}
  /\ UNCHANGED <<channel, delivered, used, open>>

Close ==
  /\ open
  /\ open' = FALSE
  /\ UNCHANGED <<channel, delivered, refused, returned, used>>

(* A closed channel may keep the data of a message for ever.               *)
LoseDelivered ==
  /\ ~open
  /\ delivered' = NoMsg
  /\ UNCHANGED <<channel, refused, returned, used, open>>

LoseRefused(m) ==
  /\ ~open
  /\ refused' = refused \ {m}
  /\ UNCHANGED <<channel, delivered, returned, used, open>>

LoseAll ==
  /\ ~open
  /\ channel' = <<>>
  /\ UNCHANGED <<delivered, refused, returned, used, open>>

Next ==
  \/ \E m \in Msg : Accept(m) \/ Refuse(m) \/ ReturnRefused(m) \/ LoseRefused(m)
  \/ Take \/ ReturnDelivered \/ Close \/ LoseDelivered \/ LoseAll

Spec == Init /\ [][Next]_vars
=============================================================================
