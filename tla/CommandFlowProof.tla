-------------------------- MODULE CommandFlowProof --------------------------
(***************************************************************************)
(* Proofs about CommandFlow for every number and kind of commands and every*)
(* length of the queue.                                                    *)
(*                                                                         *)
(* json_root is read, replaced and freed by two threads, one of them       *)
(* without the lock.  What keeps them apart is the protocol: while a       *)
(* message of the receiver is queued or being handled (Outstanding), the   *)
(* receiver is in its wait with cmd_msg_received set or about to set it,   *)
(* and json_root belongs to the delivery thread; otherwise it belongs to   *)
(* the receiver.  The wait ends after two seconds, whatever is outstanding,*)
(* so all but type correctness needs ~SlowExchange: the run of the         *)
(* exchange that is too slow (CommandFlow_trees) shows why.                *)
(***************************************************************************)
EXTENDS CommandFlow, SequenceTheorems, TLAPS

Queued(c) == \E i \in 1 .. Len(queue) : queue[i] = c

(* The delivery thread: when it has a message, and when the lock.          *)
ThreadInv ==
  /\ cmd_lock <=> dlv = "unlock"
  /\ dlv = "receive" => hand = NoCmd
  /\ dlv = "handle" => hand # NoCmd
  /\ dlv \in {"release", "unlock"} => hand \in Cmd

(* One message of the receiver at a time, and the receiver waits for it.   *)
OneOutstanding ==
  /\ \A i, j \in 1 .. Len(queue) : queue[i] # Other /\ queue[j] # Other => i = j
  /\ \A i \in 1 .. Len(queue) : queue[i] # Other => hand \notin Cmd
  /\ Outstanding => rx = "mark" \/ (rx = "wait" /\ cmd_msg_received)

HasTree == {"parse", "send", "full"}

(* Whose the tree is: the message's, or the receiver's between the parsing *)
(* and the sending, or nobody's.                                           *)
Ownership ==
  /\ \A c \in Cmd :
       hand = c \/ Queued(c) =>
         /\ json_root = c /\ cmd_msg = c
         /\ tree[c] = IF dlv = "unlock" THEN "freed" ELSE "live"
  /\ rx \in HasTree => /\ rx_cmd \in Cmd /\ json_root = rx_cmd
                       /\ tree[rx_cmd] = "live"
  /\ rx \in {"send", "full"} => cmd_msg = rx_cmd
  /\ rx \notin HasTree /\ ~Outstanding => json_root = NoCmd
  /\ rx \notin {"forget", "clear"}

FInv ==
  /\ TypeOK
  /\ ThreadInv
  /\ OneOutstanding
  /\ Ownership
  /\ NoTreeMisuse
  /\ NoTreeLeak

(* The way of a command, from the wire to command_dispatch.                *)
OnWire(c)    == c \in wire
Received(c)  == rx \in HasTree /\ rx_cmd = c
Delivered(c) == dlv = "handle" /\ hand = c
Pending(c)   == cmd_pending /\ slot = c
Running(c)   == cpt = "run" /\ local_cmd = c
Executed(c)  == executed[c] # 0

(* A command is at one place of its way, and is run at most once there.    *)
AtOnePlace(c) ==
  /\ OnWire(c) => ~(\/ Received(c) \/ Queued(c) \/ Delivered(c) \/ Pending(c)
                    \/ Running(c) \/ Executed(c))
  /\ Received(c) => ~(\/ Queued(c) \/ Delivered(c) \/ Pending(c) \/ Running(c)
                      \/ Executed(c))
  /\ Queued(c) => ~(Delivered(c) \/ Pending(c) \/ Running(c) \/ Executed(c))
  /\ Delivered(c) => ~(Pending(c) \/ Running(c) \/ Executed(c))
  /\ Pending(c) => ~(Running(c) \/ Executed(c))
  /\ Running(c) => ~Executed(c)
  /\ executed[c] <= 1
WayInv ==
  /\ cmd_pending => slot \in Cmd
  /\ cpt = "run" => local_cmd \in Cmd
  /\ \A c \in Cmd : AtOnePlace(c)

-----------------------------------------------------------------------------
(* The queue                                                               *)

Entry == Cmd \cup {Other}

LEMMA AppendQueue ==
  ASSUME TypeOK, NEW m \in Entry, queue' = Append(queue, m)
  PROVE  /\ Len(queue) \in Nat /\ Len(queue') = Len(queue) + 1
         /\ queue' \in Seq(Entry)
         /\ \A i \in 1 .. Len(queue) : queue'[i] = queue[i]
         /\ queue'[Len(queue) + 1] = m
<1>1. queue \in Seq(Entry)
  BY DEF TypeOK, Entry
<1> QED
  BY <1>1, AppendProperties, LenProperties

LEMMA TailQueue ==
  ASSUME TypeOK, queue # <<>>, queue' = Tail(queue)
  PROVE  /\ Len(queue) \in Nat \ {0} /\ Len(queue') = Len(queue) - 1
         /\ queue' \in Seq(Entry)
         /\ Head(queue) = queue[1] /\ queue[1] \in Entry
         /\ \A i \in 1 .. Len(queue) - 1 : queue'[i] = queue[i + 1]
<1>1. queue \in Seq(Entry)
  BY DEF TypeOK, Entry
<1>2. Len(queue) \in Nat \ {0}
  BY <1>1, EmptySeq
<1>3. queue[1] \in Entry /\ Head(queue) = queue[1]
  BY <1>1, <1>2, ElementOfSeq
<1> QED
  BY <1>1, <1>2, <1>3, HeadTailProperties

-----------------------------------------------------------------------------
(* Type correctness                                                        *)

(* What is sent has been received.                                         *)
TInv == TypeOK /\ (rx \in HasTree => rx_cmd \in Cmd)

LEMMA TypeInit == Init => TInv
<1> SUFFICES ASSUME Init PROVE TInv
  OBVIOUS
<1>1. queue \in Seq(Cmd \cup {Other}) /\ Len(queue) <= QueueCap
  BY EmptySeq, FlowAssumption DEF Init
<1> QED
  BY <1>1, FlowAssumption DEF Init, TInv, TypeOK, MaybeCmd, HasTree

LEMMA TypeQueue ==
  ASSUME TInv, Next
  PROVE  queue' \in Seq(Cmd \cup {Other}) /\ Len(queue') <= QueueCap
<1> USE FlowAssumption
<1>1. CASE UNCHANGED queue
  BY <1>1 DEF TInv, TypeOK
<1>2. ASSUME NEW m \in Entry, HasRoom, queue' = Append(queue, m)
      PROVE  queue' \in Seq(Cmd \cup {Other}) /\ Len(queue') <= QueueCap
  BY <1>2, AppendQueue DEF HasRoom, TInv, Entry
<1>3. CASE SendCmd
  BY <1>2, <1>3 DEF SendCmd, TInv, HasTree, Entry
<1>4. CASE OtherSends
  BY <1>2, <1>4 DEF OtherSends, Entry
<1>5. CASE TakeMessage
  <2>1. queue # <<>> /\ queue' = Tail(queue)
    BY <1>5 DEF TakeMessage
  <2>2. TypeOK /\ Len(queue) <= QueueCap
    BY DEF TInv, TypeOK
  <2>3. queue' \in Seq(Entry) /\ Len(queue') = Len(queue) - 1 /\ Len(queue) \in Nat
    BY <2>1, <2>2, TailQueue
  <2> QED
    BY <2>2, <2>3 DEF Entry
<1> QED
  BY <1>1, <1>3, <1>4, <1>5
     DEF Next, Step, ReceiverStep, DeliverStep, CommandStep, CmdReady, CmdTimeout,
         ExpiredTest, ExpiredDelete, ExpiredClear, ParseCmd, SendCmdFull,
         RefusedProcessed, DropReserved, MarkSent, HandleMessage, ReleaseDelete,
         ReleaseClear, TakeCommand, CommandDispatch, ReceiveCmd, SkipFrame,
         BadHeader, SearchFrame, SearchFails

receiverTypes ==
  /\ wire \subseteq Cmd
  /\ json_root \in MaybeCmd
  /\ tree \in [Cmd -> {"none", "live", "freed"}]
  /\ cmd_msg \in MaybeCmd
  /\ cmd_msg_received \in BOOLEAN
  /\ cmd_lock \in BOOLEAN
  /\ rx \in {"wait", "expired", "forget", "clear", "read", "search", "parse",
             "send", "full", "mark"}
  /\ rx_cmd \in MaybeCmd
  /\ rx \in HasTree => rx_cmd \in Cmd
  /\ skipped \subseteq Cmd
  /\ error \in {"none", "double free", "use after free"}
otherTypes ==
  /\ dlv \in {"receive", "handle", "release", "unlock"}
  /\ hand \in MaybeCmd \cup {Other}
  /\ slot \in MaybeCmd
  /\ cmd_pending \in BOOLEAN
  /\ cpt \in {"wait", "run"}
  /\ local_cmd \in MaybeCmd
  /\ executed \in [Cmd -> Nat]

LEMMA TypeParts ==
  TInv <=> /\ receiverTypes /\ otherTypes
           /\ queue \in Seq(Cmd \cup {Other}) /\ Len(queue) <= QueueCap
BY DEF TInv, TypeOK, receiverTypes, otherTypes

LEMMA TypeStep ==
  ASSUME TInv, Next
  PROVE  TInv'
<1> USE FlowAssumption DEF receiverTypes, otherTypes, MaybeCmd, HasTree
<1> SUFFICES receiverTypes' /\ otherTypes'
  BY TypeQueue DEF TInv, TypeOK
<1>0. receiverTypes /\ otherTypes
  BY TypeParts
<1>1. CASE CmdReady \/ CmdTimeout \/ ExpiredTest \/ ExpiredDelete \/ ExpiredClear
  <2>1. receiverTypes'
    BY <1>0, <1>1 DEF CmdReady, CmdTimeout, ExpiredTest, ExpiredDelete,
       ExpiredClear, DeleteTree, commandVars
  <2>2. otherTypes'
    BY <1>0, <1>1 DEF CmdReady, CmdTimeout, ExpiredTest, ExpiredDelete,
       ExpiredClear, deliverVars, commandVars
  <2> QED
    BY <2>1, <2>2
<1>2. CASE ParseCmd \/ SendCmd \/ SendCmdFull
  <2>1. receiverTypes'
    BY <1>0, <1>2 DEF ParseCmd, SendCmd, SendCmdFull, DeleteTree, commandVars
  <2>2. otherTypes'
    BY <1>0, <1>2 DEF ParseCmd, SendCmd, SendCmdFull, deliverVars, commandVars
  <2> QED
    BY <2>1, <2>2
<1>3. CASE RefusedProcessed \/ DropReserved \/ MarkSent
  <2>1. receiverTypes'
    BY <1>0, <1>3 DEF RefusedProcessed, DropReserved, MarkSent, DeleteTree, commandVars
  <2>2. otherTypes'
    BY <1>0, <1>3 DEF RefusedProcessed, DropReserved, MarkSent, deliverVars, commandVars
  <2> QED
    BY <2>1, <2>2
<1>4. CASE SearchFails \/ \E c \in Cmd :
             ReceiveCmd(c) \/ SkipFrame(c) \/ BadHeader(c) \/ SearchFrame(c)
  <2>1. receiverTypes'
    BY <1>0, <1>4 DEF SearchFails, ReceiveCmd, SkipFrame, BadHeader, SearchFrame,
       Parse, commandVars
  <2>2. otherTypes'
    BY <1>0, <1>4 DEF SearchFails, ReceiveCmd, SkipFrame, BadHeader, SearchFrame,
       Parse, deliverVars, commandVars
  <2> QED
    BY <2>1, <2>2
<1>5. CASE TakeMessage
  <2>1. receiverTypes'
    BY <1>0, <1>5 DEF TakeMessage, receiverVars, commandVars
  <2>2. otherTypes'
    <3>1. hand' \in Cmd \cup {Other}
      BY <1>5, TailQueue DEF TakeMessage, TInv, Entry
    <3> QED
      BY <1>0, <1>5, <3>1 DEF TakeMessage, commandVars
  <2> QED
    BY <2>1, <2>2
<1>6. CASE HandleMessage \/ ReleaseDelete \/ ReleaseClear \/ OtherSends
  <2>1. receiverTypes'
    BY <1>0, <1>6 DEF HandleMessage, ReleaseDelete, ReleaseClear, OtherSends,
       DeleteTree, receiverVars, commandVars
  <2>2. otherTypes'
    BY <1>0, <1>6 DEF HandleMessage, ReleaseDelete, ReleaseClear, OtherSends,
       receiverVars, commandVars, deliverVars
  <2> QED
    BY <2>1, <2>2
<1>7. CASE CommandStep
  <2>1. receiverTypes'
    BY <1>0, <1>7 DEF CommandStep, TakeCommand, CommandDispatch, receiverVars
  <2>2. CASE TakeCommand
    BY <1>0, <2>1, <2>2 DEF TakeCommand, deliverVars
  <2>3. CASE CommandDispatch
    <3>1. executed' \in [Cmd -> Nat]
      <4>1. executed \in [Cmd -> Nat]
        BY <1>0
      <4>2. executed' = [executed EXCEPT ![local_cmd] = executed[local_cmd] + 1]
        BY <2>3 DEF CommandDispatch
      <4>3. local_cmd \in Cmd => executed[local_cmd] + 1 \in Nat
        BY <4>1
      <4> QED
        BY ONLY <4>1, <4>2, <4>3
    <3> QED
      BY <1>0, <2>1, <2>3, <3>1 DEF CommandDispatch, deliverVars
  <2> QED
    BY <1>7, <2>1, <2>2, <2>3 DEF CommandStep
<1> QED
  BY <1>1, <1>2, <1>3, <1>4, <1>5, <1>6, <1>7
     DEF Next, Step, ReceiverStep, DeliverStep

LEMMA TypeStutter == TypeOK /\ UNCHANGED vars => TypeOK'
<1> SUFFICES ASSUME TypeOK, UNCHANGED vars PROVE TypeOK'
  OBVIOUS
<1>1. UNCHANGED <<wire, json_root, tree, cmd_msg, cmd_msg_received, cmd_lock, rx, rx_cmd>>
  BY DEF vars
<1>2. UNCHANGED <<queue, dlv, hand, slot, cmd_pending, cpt, local_cmd, skipped,
                  executed, error>>
  BY DEF vars
<1>3. /\ wire' \subseteq Cmd
      /\ json_root' \in MaybeCmd
      /\ tree' \in [Cmd -> {"none", "live", "freed"}]
      /\ cmd_msg' \in MaybeCmd
      /\ cmd_msg_received' \in BOOLEAN
      /\ cmd_lock' \in BOOLEAN
      /\ rx' \in {"wait", "expired", "forget", "clear", "read", "search", "parse",
                  "send", "full", "mark"}
      /\ rx_cmd' \in MaybeCmd
  BY <1>1, Zenon DEF TypeOK
<1>4. /\ queue' \in Seq(Cmd \cup {Other}) /\ Len(queue') <= QueueCap
      /\ dlv' \in {"receive", "handle", "release", "unlock"}
      /\ hand' \in MaybeCmd \cup {Other}
      /\ slot' \in MaybeCmd
      /\ cmd_pending' \in BOOLEAN
      /\ cpt' \in {"wait", "run"}
      /\ local_cmd' \in MaybeCmd
      /\ skipped' \subseteq Cmd
      /\ executed' \in [Cmd -> Nat]
      /\ error' \in {"none", "double free", "use after free"}
  BY <1>2, Zenon DEF TypeOK
<1> QED
  BY <1>3, <1>4, Zenon DEF TypeOK, MaybeCmd

LEMMA TypeInvariant == Spec => []TInv
<1>1. TInv /\ UNCHANGED vars => TInv'
  <2> SUFFICES ASSUME TInv, UNCHANGED vars PROVE TInv'
    OBVIOUS
  <2>1. UNCHANGED <<rx, rx_cmd>>
    BY DEF vars
  <2> QED
    BY <2>1, TypeStutter DEF TInv, HasTree
<1>2. TInv /\ [Next]_vars => TInv'
  BY <1>1, TypeStep
<1> QED
  BY <1>2, TypeInit, PTL DEF Spec

(* Type correctness, whatever the exchange does, the bound of the queue    *)
(* included.                                                               *)
THEOREM TypeCorrect == Spec => []TypeOK
<1>1. TInv => TypeOK
  BY DEF TInv
<1> QED
  BY <1>1, TypeInvariant, PTL

-----------------------------------------------------------------------------
(* The tree and the command it was parsed from                             *)

LEMMA OwnerInit == Init => FInv
<1> SUFFICES ASSUME Init PROVE FInv
  OBVIOUS
<1>1. TypeOK
  BY TypeInit DEF TInv
<1>2. Len(queue) = 0 /\ \A c \in Cmd : ~Queued(c)
  BY EmptySeq DEF Init, Queued
<1> QED
  BY <1>1, <1>2, FlowAssumption
     DEF Init, FInv, ThreadInv, OneOutstanding, Outstanding, Ownership, HasTree,
         NoTreeMisuse, NoTreeLeak

(* The invariant without type correctness, as the steps are shown to keep  *)
(* it.                                                                     *)
Kept == ThreadInv /\ OneOutstanding /\ Ownership /\ NoTreeMisuse /\ NoTreeLeak

(* The receiver while it waits for its command to be processed.            *)
LEMMA WaitKept ==
  ASSUME ~SlowExchange, TypeOK, Kept,
         \/ CmdReady \/ CmdTimeout \/ ExpiredTest \/ ExpiredDelete \/ ExpiredClear
         \/ SearchFails \/ \E c \in Cmd : SkipFrame(c) \/ BadHeader(c)
  PROVE  Kept'
<1> USE DEF CmdReady, CmdTimeout, ExpiredTest, ExpiredDelete, ExpiredClear,
            SearchFails, SkipFrame, BadHeader, Kept
<1>1. /\ UNCHANGED <<json_root, tree, cmd_msg, cmd_lock, rx_cmd, queue, dlv, hand, error>>
      /\ rx \notin HasTree
      /\ rx # "mark" /\ ~Outstanding
  BY DEF deliverVars, commandVars, OneOutstanding, Ownership, HasTree
<1>2. rx' \notin HasTree \cup {"forget", "clear"}
  BY <1>1 DEF HasTree, Ownership
<1>3. ~Outstanding'
  BY <1>1 DEF Outstanding
<1>4. ThreadInv' /\ NoTreeMisuse' /\ NoTreeLeak'
  BY <1>1 DEF ThreadInv, NoTreeMisuse, NoTreeLeak
<1>5. OneOutstanding'
  BY <1>1, <1>3 DEF OneOutstanding
<1>6. Ownership'
  BY <1>1, <1>2, <1>3 DEF Ownership, Queued, HasTree
<1> QED
  BY <1>4, <1>5, <1>6

(* The receiver takes a frame and parses it: nobody has a tree then.       *)
LEMMA ParseKept ==
  ASSUME TypeOK, Kept, NEW c \in Cmd, ReceiveCmd(c) \/ SearchFrame(c)
  PROVE  Kept'
<1> USE DEF ReceiveCmd, SearchFrame, Parse, Kept
<1>1. /\ UNCHANGED <<cmd_msg, cmd_msg_received, cmd_lock, queue, dlv, hand, error>>
      /\ rx \in {"read", "search"}
      /\ ~Outstanding /\ json_root = NoCmd
      /\ \/ UNCHANGED <<rx, rx_cmd, json_root, tree>>
         \/ /\ rx_cmd' = c /\ json_root' = c /\ rx' = "parse"
            /\ tree' = [tree EXCEPT ![c] = "live"]
  BY DEF deliverVars, OneOutstanding, Ownership, HasTree
<1>2. ~Outstanding'
  BY <1>1 DEF Outstanding
<1>3. ThreadInv' /\ NoTreeMisuse' /\ OneOutstanding'
  BY <1>1, <1>2 DEF ThreadInv, NoTreeMisuse, OneOutstanding
<1>4. \A d \in Cmd : hand' # d /\ ~Queued(d)'
  BY <1>1, FlowAssumption DEF Outstanding, Queued
<1>5. CASE UNCHANGED <<rx, rx_cmd, json_root, tree>>
  BY <1>1, <1>2, <1>3, <1>4, <1>5 DEF Ownership, NoTreeLeak, HasTree
<1>6. CASE /\ rx_cmd' = c /\ json_root' = c /\ rx' = "parse"
           /\ tree' = [tree EXCEPT ![c] = "live"]
  <2>1. \A d \in Cmd : tree'[d] = IF d = c THEN "live" ELSE tree[d]
    BY <1>6 DEF TypeOK
  <2>2. \A d \in Cmd : tree[d] # "live"
    BY <1>1, FlowAssumption DEF NoTreeLeak
  <2>3. Ownership' /\ NoTreeLeak'
    BY <1>2, <1>4, <1>6, <2>1, <2>2 DEF Ownership, NoTreeLeak, HasTree
  <2> QED
    BY <1>3, <2>3
<1> QED
  BY <1>1, <1>5, <1>6

(* The tree is freed by the receiver, which has it to itself.              *)
LEMMA DropKept ==
  ASSUME TypeOK, Kept, rx \in HasTree, DeleteTree, json_root' = NoCmd,
         rx' \in {"wait", "mark"},
         UNCHANGED <<cmd_lock, queue, dlv, hand>>
  PROVE  Kept'
<1>1. /\ ~Outstanding /\ json_root \in Cmd /\ tree[json_root] = "live"
      /\ \A d \in Cmd : tree[d] = "live" => d = json_root
  BY DEF Kept, OneOutstanding, Ownership, NoTreeLeak, HasTree
<1>2. /\ \A d \in Cmd : tree'[d] = IF d = json_root THEN "freed" ELSE tree[d]
      /\ error' = error
  BY <1>1, FlowAssumption DEF DeleteTree, TypeOK
<1>3. ~Outstanding'
  BY <1>1 DEF Outstanding
<1>4. \A d \in Cmd : hand' # d /\ ~Queued(d)'
  BY <1>1, FlowAssumption DEF Outstanding, Queued
<1>5. ThreadInv' /\ NoTreeMisuse' /\ OneOutstanding'
  BY <1>1, <1>2, <1>3 DEF Kept, ThreadInv, NoTreeMisuse, OneOutstanding
<1>6. Ownership' /\ NoTreeLeak'
  BY <1>1, <1>2, <1>3, <1>4 DEF Ownership, NoTreeLeak, HasTree
<1> QED
  BY <1>5, <1>6 DEF Kept

(* The receiver checks, sends and marks its command.                       *)
LEMMA SendKept ==
  ASSUME TypeOK, Kept,
         \/ ParseCmd \/ SendCmd \/ SendCmdFull \/ RefusedProcessed
         \/ DropReserved \/ MarkSent
  PROVE  Kept'
<1>0. ThreadInv /\ OneOutstanding /\ Ownership /\ NoTreeMisuse /\ NoTreeLeak
  BY DEF Kept
<1>1. CASE ParseCmd
  <2>1. /\ rx = "parse" /\ rx_cmd \in Cmd /\ json_root = rx_cmd /\ tree[json_root] = "live"
        /\ json_root # NoCmd /\ tree[json_root] # "freed"
        /\ ~Outstanding
        /\ UNCHANGED <<cmd_msg_received, cmd_lock, rx_cmd, queue, dlv, hand>>
    <3>1. rx = "parse" /\ UNCHANGED <<cmd_msg_received, cmd_lock, rx_cmd, queue, dlv, hand>>
      BY <1>1 DEF ParseCmd, deliverVars
    <3>2. rx_cmd \in Cmd /\ json_root = rx_cmd /\ tree[json_root] = "live" /\ ~Outstanding
      BY <1>0, <3>1 DEF Ownership, OneOutstanding, HasTree
    <3> QED
      BY <3>1, <3>2, FlowAssumption
  <2>2. CASE Kind[rx_cmd] = "bad"
    <3>1. DeleteTree /\ json_root' = NoCmd /\ rx' = "wait"
      BY <1>1, <2>1, <2>2 DEF ParseCmd
    <3> QED
      BY <2>1, <3>1, DropKept DEF HasTree
  <2>3. CASE Kind[rx_cmd] # "bad"
    <3>1. cmd_msg' = rx_cmd /\ rx' = "send" /\ UNCHANGED <<json_root, tree, error>>
      BY <1>1, <2>1, <2>3 DEF ParseCmd
    <3>2. ~Outstanding' /\ \A d \in Cmd : hand' # d /\ ~Queued(d)'
      BY <2>1, FlowAssumption DEF Outstanding, Queued
    <3>3. ThreadInv' /\ OneOutstanding' /\ NoTreeMisuse' /\ NoTreeLeak'
      BY <1>0, <2>1, <3>1, <3>2 DEF ThreadInv, OneOutstanding, NoTreeMisuse, NoTreeLeak
    <3>4. Ownership'
      BY <2>1, <3>1, <3>2 DEF Ownership, HasTree
    <3> QED
      BY <3>3, <3>4 DEF Kept
  <2> QED
    BY <2>2, <2>3
<1>2. CASE SendCmd
  <2>1. /\ rx = "send" /\ rx_cmd \in Cmd /\ json_root = rx_cmd /\ tree[rx_cmd] = "live"
        /\ cmd_msg = rx_cmd /\ ~Outstanding
        /\ rx' = "mark" /\ queue' = Append(queue, rx_cmd)
        /\ UNCHANGED <<json_root, tree, cmd_msg, cmd_lock, rx_cmd, dlv, hand, error>>
    BY <1>0, <1>2 DEF SendCmd, Ownership, OneOutstanding, HasTree, deliverVars
  <2>2. /\ Len(queue) \in Nat /\ Len(queue') = Len(queue) + 1
        /\ \A i \in 1 .. Len(queue) : queue'[i] = queue[i]
        /\ queue'[Len(queue) + 1] = rx_cmd
    BY <2>1, AppendQueue DEF Entry
  <2>3. hand \notin Cmd /\ \A i \in 1 .. Len(queue) : queue[i] = Other
    BY <2>1 DEF Outstanding
  <2>4. \A i \in 1 .. Len(queue') : queue'[i] # Other => i = Len(queue) + 1
    BY <2>2, <2>3
  <2>5. \A d \in Cmd : Queued(d)' => d = rx_cmd
    BY <2>2, <2>4, FlowAssumption DEF Queued
  <2>6. dlv # "unlock"
    BY <1>0, <2>3 DEF ThreadInv
  <2>7. ThreadInv' /\ NoTreeMisuse' /\ NoTreeLeak'
    BY <1>0, <2>1 DEF ThreadInv, NoTreeMisuse, NoTreeLeak
  <2>8. OneOutstanding'
    BY <2>1, <2>3, <2>4 DEF OneOutstanding
  <2>9. Outstanding'
    BY <2>1, <2>2, FlowAssumption DEF Outstanding
  <2>10. Ownership'
    BY <2>1, <2>3, <2>5, <2>6, <2>9 DEF Ownership, HasTree
  <2> QED
    BY <2>7, <2>8, <2>10 DEF Kept
<1>3. CASE SendCmdFull
  <2>1. /\ rx = "send" /\ rx' = "full" /\ ~Outstanding
        /\ UNCHANGED <<json_root, tree, cmd_msg, cmd_lock, rx_cmd, queue, dlv, hand, error>>
    BY <1>0, <1>3 DEF SendCmdFull, OneOutstanding, deliverVars
  <2>2. ~Outstanding'
    BY <2>1 DEF Outstanding
  <2>3. ThreadInv' /\ OneOutstanding' /\ NoTreeMisuse' /\ NoTreeLeak'
    BY <1>0, <2>1, <2>2 DEF ThreadInv, OneOutstanding, NoTreeMisuse, NoTreeLeak
  <2>4. Ownership'
    BY <1>0, <2>1, <2>2 DEF Ownership, HasTree, Queued
  <2> QED
    BY <2>3, <2>4 DEF Kept
<1>4. CASE RefusedProcessed \/ DropReserved
  <2>1. /\ rx \in HasTree /\ DeleteTree /\ json_root' = NoCmd /\ rx' = "mark"
        /\ UNCHANGED <<cmd_lock, queue, dlv, hand>>
    BY <1>4 DEF RefusedProcessed, DropReserved, HasTree, deliverVars
  <2> QED
    BY <2>1, DropKept
<1>5. CASE MarkSent
  <2>1. /\ rx = "mark" /\ rx' = "wait" /\ cmd_msg_received'
        /\ UNCHANGED <<json_root, tree, cmd_msg, cmd_lock, rx_cmd, queue, dlv, hand, error>>
    BY <1>5 DEF MarkSent, deliverVars
  <2>2. ThreadInv' /\ OneOutstanding' /\ NoTreeMisuse' /\ NoTreeLeak'
    BY <1>0, <2>1 DEF ThreadInv, OneOutstanding, NoTreeMisuse, NoTreeLeak
  <2>3. Ownership'
    BY <1>0, <2>1 DEF Ownership, HasTree, Queued, Outstanding
  <2> QED
    BY <2>2, <2>3 DEF Kept
<1> QED
  BY <1>1, <1>2, <1>3, <1>4, <1>5

(* The delivery thread takes the message; if it is the receiver's, the tree*)
(* is now its own.                                                         *)
LEMMA TakeKept ==
  ASSUME TypeOK, Kept, TakeMessage
  PROVE  Kept'
<1>0. ThreadInv /\ OneOutstanding /\ Ownership /\ NoTreeMisuse /\ NoTreeLeak
  BY DEF Kept
<1> DEFINE n == Len(queue)
<1>1. /\ n \in Nat \ {0} /\ Len(queue') = n - 1
      /\ \A i \in 1 .. n - 1 : i + 1 \in 1 .. n /\ queue'[i] = queue[i + 1]
      /\ hand' = queue[1] /\ queue[1] \in Entry
  BY TailQueue DEF TakeMessage
<1>2. /\ dlv = "receive" /\ dlv' = "handle" /\ hand = NoCmd
      /\ UNCHANGED <<json_root, tree, cmd_msg, cmd_msg_received, cmd_lock, rx, rx_cmd, error>>
  BY <1>0 DEF TakeMessage, receiverVars, ThreadInv
<1>3. ThreadInv' /\ NoTreeMisuse' /\ NoTreeLeak'
  BY <1>0, <1>1, <1>2, FlowAssumption DEF ThreadInv, NoTreeMisuse, NoTreeLeak, Entry
<1>4. \A i \in 1 .. n - 1 : queue'[i] # Other => queue[1] = Other
  <2> TAKE i \in 1 .. n - 1
  <2>1. 1 \in 1 .. n /\ i + 1 \in 1 .. n /\ i + 1 # 1
    BY <1>1
  <2> QED
    BY <1>0, <1>1, <2>1 DEF OneOutstanding
<1>5. Outstanding' <=> Outstanding
  <2>1. ASSUME Outstanding PROVE Outstanding'
    <3>1. PICK i \in 1 .. n : queue[i] # Other
      BY <1>2, <2>1, FlowAssumption DEF Outstanding
    <3>2. CASE i = 1
      BY <1>1, <3>1, <3>2 DEF Outstanding, Entry
    <3>3. CASE i # 1
      <4>1. i - 1 \in 1 .. n - 1 /\ (i - 1) + 1 = i
        BY <1>1, <3>3
      <4>2. queue'[i - 1] # Other
        BY <1>1, <3>1, <4>1
      <4> QED
        BY <1>1, <4>1, <4>2 DEF Outstanding
    <3> QED
      BY <3>2, <3>3
  <2>2. ASSUME Outstanding' PROVE Outstanding
    <3>1. CASE hand' \in Cmd
      <4>1. 1 \in 1 .. n /\ queue[1] # Other
        BY <1>1, <3>1, FlowAssumption
      <4> QED
        BY <4>1 DEF Outstanding
    <3>2. CASE hand' \notin Cmd
      <4>1. PICK i \in 1 .. n - 1 : queue'[i] # Other
        BY <1>1, <2>2, <3>2 DEF Outstanding
      <4> QED
        BY <1>1, <4>1 DEF Outstanding
    <3> QED
      BY <3>1, <3>2
  <2> QED
    BY <2>1, <2>2
<1>6. OneOutstanding'
  <2>1. ASSUME NEW i \in 1 .. n - 1, NEW j \in 1 .. n - 1,
               queue'[i] # Other, queue'[j] # Other
        PROVE  i = j
    <3>1. i + 1 = j + 1
      BY <1>0, <1>1, <2>1 DEF OneOutstanding
    <3> QED
      BY <3>1
  <2>2. ASSUME NEW i \in 1 .. n - 1, queue'[i] # Other PROVE hand' \notin Cmd
    BY <1>1, <1>4, <2>2, FlowAssumption
  <2> QED
    BY <1>0, <1>1, <1>2, <1>5, <2>1, <2>2 DEF OneOutstanding
<1>7. \A d \in Cmd : hand' = d \/ Queued(d)' => Queued(d)
  BY <1>1 DEF Queued
<1>8. Ownership'
  BY <1>0, <1>2, <1>5, <1>7 DEF Ownership, HasTree
<1> QED
  BY <1>3, <1>6, <1>8 DEF Kept

(* The handler reads; the release handler frees the tree, then forgets it. *)
LEMMA HandleKept ==
  ASSUME TypeOK, Kept, HandleMessage \/ ReleaseDelete \/ ReleaseClear
  PROVE  Kept'
<1>0. ThreadInv /\ OneOutstanding /\ Ownership /\ NoTreeMisuse /\ NoTreeLeak
  BY DEF Kept
<1>1. UNCHANGED <<cmd_msg, rx, rx_cmd, queue>>
  BY DEF HandleMessage, ReleaseDelete, ReleaseClear, receiverVars
<1>2. CASE HandleMessage
  <2>1. /\ UNCHANGED <<json_root, tree, cmd_msg_received, cmd_lock, error>>
        /\ dlv = "handle" /\ hand # NoCmd
        /\ \/ hand = Other /\ dlv' = "receive" /\ hand' = NoCmd
           \/ hand # Other /\ dlv' = "release" /\ hand' = hand
    BY <1>0, <1>2 DEF HandleMessage, ThreadInv
  <2>2. hand \in Cmd <=> hand' \in Cmd
    BY <2>1, FlowAssumption
  <2>3. hand # Other => hand \in Cmd
    BY <2>1 DEF TypeOK, MaybeCmd
  <2>4. ThreadInv' /\ NoTreeMisuse' /\ NoTreeLeak'
    BY <1>0, <2>1, <2>3 DEF ThreadInv, NoTreeMisuse, NoTreeLeak
  <2>5. Outstanding' <=> Outstanding
    BY <1>1, <2>2 DEF Outstanding
  <2>6. OneOutstanding'
    BY <1>0, <1>1, <2>1, <2>2, <2>5 DEF OneOutstanding
  <2>7. \A d \in Cmd : hand' = d \/ Queued(d)' => hand = d \/ Queued(d)
    BY <1>1, <2>1, FlowAssumption DEF Queued
  <2>8. Ownership'
    BY <1>0, <1>1, <2>1, <2>5, <2>7 DEF Ownership, HasTree
  <2> QED
    BY <2>4, <2>6, <2>8 DEF Kept
<1>3. ASSUME hand \in Cmd
      PROVE  /\ Outstanding /\ rx \in {"mark", "wait"} /\ json_root = hand
             /\ \A i \in 1 .. Len(queue) : queue[i] = Other
             /\ \A d \in Cmd : ~Queued(d)
  <2>1. \A i \in 1 .. Len(queue) : queue[i] = Other
    BY <1>0, <1>3 DEF OneOutstanding
  <2> QED
    BY <1>0, <1>3, <2>1, FlowAssumption DEF OneOutstanding, Outstanding, Ownership, Queued
<1>4. CASE ReleaseDelete
  <2>1. /\ dlv = "release" /\ hand \in Cmd /\ DeleteTree /\ cmd_lock' /\ dlv' = "unlock"
        /\ UNCHANGED <<json_root, cmd_msg_received, hand>>
    BY <1>0, <1>4 DEF ReleaseDelete, ThreadInv
  <2>2. json_root = hand /\ tree[hand] = "live"
    BY <1>0, <1>3, <2>1 DEF Ownership
  <2>3. /\ \A d \in Cmd : tree'[d] = IF d = hand THEN "freed" ELSE tree[d]
        /\ error' = error
    BY <2>1, <2>2, FlowAssumption DEF DeleteTree, TypeOK
  <2>4. ThreadInv' /\ NoTreeMisuse' /\ NoTreeLeak'
    BY <1>0, <2>1, <2>3 DEF ThreadInv, NoTreeMisuse, NoTreeLeak
  <2>5. OneOutstanding'
    BY <1>0, <1>1, <2>1 DEF OneOutstanding, Outstanding
  <2>6. Ownership'
    <3>1. \A d \in Cmd : hand' = d \/ Queued(d)' => d = hand
      BY <1>1, <1>3, <2>1 DEF Queued
    <3>2. Outstanding' /\ rx' \in {"mark", "wait"}
      BY <1>1, <1>3, <2>1 DEF Outstanding
    <3> QED
      BY <1>0, <2>1, <2>2, <2>3, <3>1, <3>2, <1>1 DEF Ownership, HasTree
  <2> QED
    BY <2>4, <2>5, <2>6 DEF Kept
<1>5. CASE ReleaseClear
  <2>1. /\ dlv = "unlock" /\ hand \in Cmd /\ dlv' = "receive" /\ ~cmd_lock'
        /\ json_root' = NoCmd /\ hand' = NoCmd
        /\ UNCHANGED <<tree, error>>
    BY <1>0, <1>5 DEF ReleaseClear, ThreadInv
  <2>2. tree[hand] = "freed"
    BY <1>0, <2>1 DEF Ownership
  <2>3. \A d \in Cmd : tree'[d] # "live"
    BY <1>0, <1>3, <2>1, <2>2 DEF NoTreeLeak
  <2>4. ThreadInv' /\ NoTreeMisuse' /\ NoTreeLeak'
    BY <1>0, <2>1, <2>3 DEF ThreadInv, NoTreeMisuse, NoTreeLeak
  <2>5. ~Outstanding' /\ \A d \in Cmd : hand' # d /\ ~Queued(d)'
    BY <1>1, <1>3, <2>1, FlowAssumption DEF Outstanding, Queued
  <2>6. OneOutstanding'
    BY <1>1, <1>3, <2>1, <2>5 DEF OneOutstanding
  <2>7. Ownership'
    BY <1>1, <1>3, <2>1, <2>5 DEF Ownership, HasTree
  <2> QED
    BY <2>4, <2>6, <2>7 DEF Kept
<1> QED
  BY <1>2, <1>4, <1>5

(* Other modules send, and the command thread has its own data.            *)
LEMMA OthersKept ==
  ASSUME TypeOK, Kept, OtherSends \/ CommandStep
  PROVE  Kept'
<1>0. ThreadInv /\ OneOutstanding /\ Ownership /\ NoTreeMisuse /\ NoTreeLeak
  BY DEF Kept
<1>1. UNCHANGED <<json_root, tree, cmd_msg, cmd_msg_received, cmd_lock, rx, rx_cmd,
                  dlv, hand, error>>
  BY DEF OtherSends, CommandStep, TakeCommand, CommandDispatch, receiverVars, deliverVars
<1>2. ThreadInv' /\ NoTreeMisuse' /\ NoTreeLeak'
  BY <1>0, <1>1 DEF ThreadInv, NoTreeMisuse, NoTreeLeak
<1>3. CASE UNCHANGED queue
  <2>1. OneOutstanding' /\ Ownership'
    BY <1>0, <1>1, <1>3 DEF OneOutstanding, Outstanding, Ownership, HasTree, Queued
  <2> QED
    BY <1>2, <2>1 DEF Kept
<1>4. CASE OtherSends
  <2>1. /\ Len(queue) \in Nat /\ Len(queue') = Len(queue) + 1
        /\ \A i \in 1 .. Len(queue) : queue'[i] = queue[i]
        /\ queue'[Len(queue) + 1] = Other
    BY <1>4, AppendQueue DEF OtherSends, Entry
  <2>2. \A i \in 1 .. Len(queue') : queue'[i] # Other =>
          i \in 1 .. Len(queue) /\ queue[i] = queue'[i]
    BY <2>1
  <2>3. Outstanding' <=> Outstanding
    BY <1>1, <2>1, <2>2 DEF Outstanding
  <2>4. OneOutstanding'
    BY <1>0, <1>1, <2>2, <2>3 DEF OneOutstanding
  <2>5. \A d \in Cmd : Queued(d)' => Queued(d)
    BY <2>2, FlowAssumption DEF Queued
  <2>6. Ownership'
    BY <1>0, <1>1, <2>3, <2>5 DEF Ownership, HasTree
  <2> QED
    BY <1>2, <2>4, <2>6 DEF Kept
<1> QED
  BY <1>3, <1>4 DEF CommandStep, TakeCommand, CommandDispatch

LEMMA OwnerStep ==
  ASSUME ~SlowExchange, TInv, FInv, [Next]_vars
  PROVE  FInv'
<1>1. TypeOK /\ Kept
  BY DEF FInv, Kept
<1>2. CASE Next
  <2>1. TypeOK'
    BY <1>2, TypeStep DEF TInv
  <2>2. Kept'
    <3>1. CASE ReceiverStep
      BY <1>1, <3>1, WaitKept, SendKept DEF ReceiverStep
    <3>2. CASE DeliverStep
      BY <1>1, <3>2, TakeKept, HandleKept DEF DeliverStep
    <3>3. CASE CommandStep \/ OtherSends
      BY <1>1, <3>3, OthersKept
    <3>4. CASE SearchFails
      BY <1>1, <3>4, WaitKept
    <3>5. ASSUME NEW c \in Cmd,
                 ReceiveCmd(c) \/ SkipFrame(c) \/ BadHeader(c) \/ SearchFrame(c)
          PROVE  Kept'
      BY <1>1, <3>5, WaitKept, ParseKept
    <3> QED
      BY <1>2, <3>1, <3>2, <3>3, <3>4, <3>5 DEF Next, Step
  <2> QED
    BY <2>1, <2>2 DEF FInv, Kept
<1>3. CASE UNCHANGED vars
  <2>1. TypeOK'
    BY <1>1, <1>3, TypeStutter
  <2>2. Kept'
    BY <1>1, <1>3 DEF vars, Kept, ThreadInv, OneOutstanding, Outstanding, Ownership,
       HasTree, Queued, NoTreeMisuse, NoTreeLeak
  <2> QED
    BY <2>1, <2>2 DEF FInv, Kept
<1> QED
  BY <1>2, <1>3

-----------------------------------------------------------------------------
(* The way of a command                                                    *)

(* The receiver takes a frame, and sends the command or drops it.          *)
LEMMA ReceiverWay ==
  ASSUME TInv, Kept, WayInv,
         \/ ReceiverStep \/ SearchFails
         \/ \E c \in Cmd : ReceiveCmd(c) \/ SkipFrame(c) \/ BadHeader(c) \/ SearchFrame(c)
  PROVE  WayInv'
<1> USE DEF OnWire, Received, Delivered, Pending, Running, Executed
<1>1. UNCHANGED <<dlv, hand, slot, cmd_pending, cpt, local_cmd, executed>>
  BY DEF ReceiverStep, SearchFails, ReceiveCmd, SkipFrame, BadHeader, SearchFrame,
         CmdReady, CmdTimeout, ExpiredTest, ExpiredDelete, ExpiredClear, ParseCmd,
         SendCmd, SendCmdFull, RefusedProcessed, DropReserved, MarkSent, deliverVars,
         commandVars
<1>2. SUFFICES \A c \in Cmd : AtOnePlace(c)'
  BY <1>1 DEF WayInv
<1>3. \A c \in Cmd : AtOnePlace(c)
  BY DEF WayInv
<1>4. ASSUME wire' \subseteq wire, UNCHANGED queue,
             rx' \in HasTree => rx \in HasTree /\ rx_cmd' = rx_cmd
      PROVE  \A c \in Cmd : AtOnePlace(c)'
  BY <1>1, <1>3, <1>4 DEF AtOnePlace, Queued
<1>5. ASSUME NEW c \in Cmd, c \in wire, wire' = wire \ {c}, UNCHANGED queue,
             rx' \in HasTree => rx_cmd' = c
      PROVE  \A d \in Cmd : AtOnePlace(d)'
  BY <1>1, <1>3, <1>5 DEF AtOnePlace, Queued
<1>6. CASE SendCmd
  <2>1. /\ rx \in HasTree /\ rx' \notin HasTree /\ rx_cmd \in Cmd
        /\ queue' = Append(queue, rx_cmd) /\ UNCHANGED wire
    BY <1>6 DEF SendCmd, HasTree, TInv
  <2>2. /\ Len(queue) \in Nat /\ Len(queue') = Len(queue) + 1
        /\ \A i \in 1 .. Len(queue) : queue'[i] = queue[i]
        /\ queue'[Len(queue) + 1] = rx_cmd
    BY <2>1, AppendQueue DEF Entry, TInv
  <2>3. \A c \in Cmd : Queued(c)' => Queued(c) \/ c = rx_cmd
    <3> TAKE c \in Cmd
    <3> HAVE Queued(c)'
    <3>1. PICK i \in 1 .. Len(queue') : queue'[i] = c
      BY DEF Queued
    <3>2. CASE i = Len(queue) + 1
      BY <2>2, <3>1, <3>2
    <3>3. CASE i # Len(queue) + 1
      <4>1. i \in 1 .. Len(queue)
        BY <2>2, <3>3
      <4> QED
        BY <2>2, <3>1, <4>1 DEF Queued
    <3> QED
      BY <3>2, <3>3
  <2> QED
    BY <1>1, <1>3, <2>1, <2>3 DEF AtOnePlace
<1>7. CASE SearchFails \/ CmdReady \/ CmdTimeout \/ ExpiredTest \/ ExpiredDelete
           \/ ExpiredClear \/ ParseCmd \/ SendCmdFull \/ RefusedProcessed
           \/ DropReserved \/ MarkSent
  <2>1. UNCHANGED <<wire, queue>>
    BY <1>7 DEF SearchFails, CmdReady, CmdTimeout, ExpiredTest, ExpiredDelete,
       ExpiredClear, ParseCmd, SendCmdFull, RefusedProcessed, DropReserved, MarkSent
  <2>2. rx' \in HasTree => rx \in HasTree /\ rx_cmd' = rx_cmd
    BY <1>7 DEF SearchFails, CmdReady, CmdTimeout, ExpiredTest, ExpiredDelete,
       ExpiredClear, ParseCmd, SendCmdFull, RefusedProcessed, DropReserved, MarkSent,
       HasTree
  <2> QED
    BY <1>4, <2>1, <2>2
<1>8. ASSUME NEW c \in Cmd,
             ReceiveCmd(c) \/ SkipFrame(c) \/ BadHeader(c) \/ SearchFrame(c)
      PROVE  \A d \in Cmd : AtOnePlace(d)'
  <2>1. /\ c \in wire /\ wire' = wire \ {c} /\ UNCHANGED queue
        /\ rx' \in HasTree => rx_cmd' = c
    BY <1>8 DEF ReceiveCmd, SkipFrame, BadHeader, SearchFrame, Parse, HasTree
  <2> QED
    BY <1>5, <2>1
<1> QED
  BY <1>6, <1>7, <1>8 DEF ReceiverStep

(* The delivery thread hands the command over.                             *)
LEMMA DeliverWay ==
  ASSUME TInv, Kept, WayInv, DeliverStep \/ OtherSends
  PROVE  WayInv'
<1> USE DEF OnWire, Received, Delivered, Pending, Running, Executed
<1>1. UNCHANGED <<wire, rx, rx_cmd, cpt, local_cmd, executed>>
  BY DEF DeliverStep, TakeMessage, HandleMessage, ReleaseDelete, ReleaseClear,
         OtherSends, receiverVars, commandVars
<1>2. \A c \in Cmd : AtOnePlace(c)
  BY DEF WayInv
<1>3. CASE TakeMessage
  <2> DEFINE n == Len(queue)
  <2>1. /\ n \in Nat \ {0} /\ Len(queue') = n - 1
        /\ \A i \in 1 .. n - 1 : i + 1 \in 1 .. n /\ queue'[i] = queue[i + 1]
        /\ hand' = queue[1]
        /\ UNCHANGED <<slot, cmd_pending>>
    BY <1>3, TailQueue DEF TakeMessage, TInv, commandVars
  <2>2. \A c \in Cmd : Queued(c)' \/ Delivered(c)' => Queued(c)
    BY <2>1 DEF Queued
  <2>3. \A c \in Cmd : Queued(c)' => hand' \notin Cmd
    <3>1. OneOutstanding'
      BY <1>3, TakeKept DEF TInv, Kept
    <3> QED
      BY <3>1, FlowAssumption DEF OneOutstanding, Queued
  <2> QED
    BY <1>1, <1>2, <2>1, <2>2, <2>3 DEF WayInv, AtOnePlace
<1>4. CASE HandleMessage
  <2>1. /\ UNCHANGED queue /\ dlv = "handle" /\ dlv' # "handle"
    BY <1>4 DEF HandleMessage
  <2>2. CASE UNCHANGED <<slot, cmd_pending>>
    BY <1>1, <1>2, <2>1, <2>2 DEF WayInv, AtOnePlace, Queued
  <2>3. CASE hand \in Cmd /\ slot' = cmd_msg /\ cmd_pending'
    <3>1. cmd_msg = hand
      BY <2>3 DEF Kept, Ownership
    <3>2. \A c \in Cmd : Pending(c)' => c = hand
      BY <2>3, <3>1
    <3> QED
      BY <1>1, <1>2, <2>1, <2>3, <3>1, <3>2 DEF WayInv, AtOnePlace, Queued
  <2> QED
    BY <1>4, <2>2, <2>3 DEF HandleMessage
<1>5. CASE ReleaseDelete \/ ReleaseClear
  <2>1. UNCHANGED <<queue, slot, cmd_pending>> /\ dlv' # "handle"
    BY <1>5 DEF ReleaseDelete, ReleaseClear, commandVars
  <2> QED
    BY <1>1, <1>2, <2>1 DEF WayInv, AtOnePlace, Queued
<1>6. CASE OtherSends
  <2>1. UNCHANGED <<dlv, hand, slot, cmd_pending>> /\ queue' = Append(queue, Other)
    BY <1>6 DEF OtherSends, deliverVars, commandVars
  <2>2. /\ Len(queue) \in Nat /\ Len(queue') = Len(queue) + 1
        /\ \A i \in 1 .. Len(queue) : queue'[i] = queue[i]
        /\ queue'[Len(queue) + 1] = Other
    BY <2>1, AppendQueue DEF Entry, TInv
  <2>3. \A c \in Cmd : Queued(c)' => Queued(c)
    <3>1. \A i \in 1 .. Len(queue') : queue'[i] # Other =>
            i \in 1 .. Len(queue) /\ queue[i] = queue'[i]
      BY <2>2
    <3> QED
      BY <3>1, FlowAssumption DEF Queued
  <2> QED
    BY <1>1, <1>2, <2>1, <2>3 DEF WayInv, AtOnePlace
<1> QED
  BY <1>3, <1>4, <1>5, <1>6 DEF DeliverStep

(* command_process_thread takes the command and runs it.                   *)
LEMMA CommandWay ==
  ASSUME TInv, WayInv, CommandStep
  PROVE  WayInv'
<1> USE DEF OnWire, Received, Delivered, Pending, Running, Executed
<1>1. UNCHANGED <<wire, rx, rx_cmd, queue, dlv, hand, slot>>
  BY DEF CommandStep, TakeCommand, CommandDispatch, receiverVars, deliverVars
<1>2. \A c \in Cmd : AtOnePlace(c)
  BY DEF WayInv
<1>3. CASE TakeCommand
  <2>1. /\ cmd_pending /\ ~cmd_pending' /\ cpt = "wait" /\ local_cmd' = slot
        /\ slot \in Cmd /\ UNCHANGED executed
    BY <1>3 DEF TakeCommand, WayInv
  <2>2. \A c \in Cmd : ~Pending(c)' /\ (Running(c)' => Pending(c))
    BY <2>1
  <2>3. ASSUME NEW c \in Cmd PROVE AtOnePlace(c)'
    <3>1. /\ OnWire(c)' = OnWire(c) /\ Received(c)' = Received(c)
          /\ Queued(c)' = Queued(c) /\ Delivered(c)' = Delivered(c)
          /\ Executed(c)' = Executed(c) /\ executed'[c] = executed[c]
      BY <1>1, <2>1 DEF Queued
    <3>2. AtOnePlace(c)
      BY <1>2
    <3> QED
      BY <2>2, <3>1, <3>2 DEF AtOnePlace
  <2>4. cmd_pending' => slot' \in Cmd
    BY <2>1
  <2>5. cpt' = "run" => local_cmd' \in Cmd
    BY <2>1
  <2> QED
    BY <2>3, <2>4, <2>5 DEF WayInv
<1>4. CASE CommandDispatch
  <2>1. /\ cpt = "run" /\ cpt' = "wait" /\ local_cmd \in Cmd
        /\ UNCHANGED <<cmd_pending, local_cmd>>
    BY <1>4 DEF CommandDispatch, WayInv
  <2>2. \A c \in Cmd :
          executed'[c] = IF c = local_cmd THEN executed[c] + 1 ELSE executed[c]
    BY <1>4, <2>1 DEF CommandDispatch, TInv, TypeOK
  <2>3. executed[local_cmd] = 0
    BY <1>2, <2>1 DEF AtOnePlace
  <2>4. \A c \in Cmd : Executed(c)' => Executed(c) \/ Running(c)
    BY <2>1, <2>2
  <2>5. \A c \in Cmd : executed'[c] <= 1
    BY <1>2, <2>2, <2>3 DEF AtOnePlace
  <2> QED
    BY <1>1, <1>2, <2>1, <2>4, <2>5 DEF WayInv, AtOnePlace, Queued
<1> QED
  BY <1>3, <1>4 DEF CommandStep

LEMMA WayInit == Init => WayInv
<1> SUFFICES ASSUME Init PROVE WayInv
  OBVIOUS
<1>1. Len(queue) = 0 /\ \A c \in Cmd : ~Queued(c)
  BY EmptySeq DEF Init, Queued
<1>2. /\ rx \notin HasTree /\ dlv = "receive" /\ ~cmd_pending /\ cpt = "wait"
      /\ \A c \in Cmd : executed[c] = 0
  <2>1. rx = "wait" /\ dlv = "receive" /\ cmd_pending = FALSE /\ cpt = "wait"
    BY DEF Init
  <2>2. executed = [c \in Cmd |-> 0]
    BY DEF Init
  <2> QED
    BY <2>1, <2>2 DEF HasTree
<1> QED
  BY <1>1, <1>2 DEF WayInv, AtOnePlace, OnWire, Received, Delivered, Pending, Running,
                    Executed

LEMMA WayStep ==
  ASSUME TInv, FInv, WayInv, [Next]_vars
  PROVE  WayInv'
<1>1. Kept
  BY DEF FInv, Kept
<1>2. CASE Next
  BY <1>1, <1>2, ReceiverWay, DeliverWay, CommandWay DEF Next, Step
<1>3. CASE UNCHANGED vars
  <2>1. UNCHANGED <<wire, rx, rx_cmd, queue, dlv, hand>>
    BY <1>3 DEF vars
  <2>2. UNCHANGED <<cmd_pending, slot, cpt, local_cmd, executed>>
    BY <1>3 DEF vars
  <2> QED
    BY <2>1, <2>2 DEF WayInv, AtOnePlace, Queued, OnWire, Received, Delivered,
       Pending, Running, Executed
<1> QED
  BY <1>2, <1>3

-----------------------------------------------------------------------------
(* What holds while no message of the receiver waits for two seconds       *)

THEOREM Invariance ==
  ASSUME ~SlowExchange
  PROVE  Spec => [](TInv /\ FInv /\ WayInv)
<1>1. Init => TInv /\ FInv /\ WayInv
  BY TypeInit, OwnerInit, WayInit
<1>2. TInv /\ UNCHANGED vars => TInv'
  <2> SUFFICES ASSUME TInv, UNCHANGED vars PROVE TInv'
    OBVIOUS
  <2>1. UNCHANGED <<rx, rx_cmd>>
    BY DEF vars
  <2> QED
    BY <2>1, TypeStutter DEF TInv, HasTree
<1>3. TInv /\ FInv /\ WayInv /\ [Next]_vars => (TInv /\ FInv /\ WayInv)'
  BY <1>2, TypeStep, OwnerStep, WayStep
<1> QED
  BY <1>1, <1>3, PTL DEF Spec

(* The tree of a command is freed once and not touched after that, although*)
(* the receiver never takes the lock the release handler holds.            *)
THEOREM TreeUsedWell ==
  ASSUME ~SlowExchange
  PROVE  Spec => []NoTreeMisuse
<1>1. FInv => NoTreeMisuse
  BY DEF FInv
<1> QED
  BY <1>1, Invariance, PTL

(* No tree is leaked: json_root points to the one that is not freed.       *)
THEOREM TreeNotLeaked ==
  ASSUME ~SlowExchange
  PROVE  Spec => []NoTreeLeak
<1>1. FInv => NoTreeLeak
  BY DEF FInv
<1> QED
  BY <1>1, Invariance, PTL

(* The handler reads the command its message was sent for.                 *)
THEOREM CommandDelivered ==
  ASSUME ~SlowExchange
  PROVE  Spec => []DeliveredAsSent
<1>1. FInv => DeliveredAsSent
  BY DEF FInv, Ownership, DeliveredAsSent
<1> QED
  BY <1>1, Invariance, PTL

(* No command is run twice, although its message carries a pointer.        *)
THEOREM CommandRunOnce ==
  ASSUME ~SlowExchange
  PROVE  Spec => []ExecutedOnce
<1>1. WayInv => ExecutedOnce
  BY DEF WayInv, AtOnePlace, ExecutedOnce
<1> QED
  BY <1>1, Invariance, PTL
=============================================================================
