---------------------------- MODULE TcpLinkProof ----------------------------
(***************************************************************************)
(* Proofs about TcpLink for every set of answers and descriptors, every    *)
(* length of the queue and every number of failures.                       *)
(***************************************************************************)
EXTENDS TcpLink, SequenceTheorems, FiniteSetTheorems, TLAPS

Places == 1 .. Len(queue)
Maker  == {"COMMAND", "LOGGER"}

(* A message to one of the three modules carries an object, and only such a*)
(* message does; what the sender has taken is there, with its maker.       *)
Carries(m) == m.dst # "OTHER" <=> m.big # NoBig

TInv ==
  /\ TypeOK
  /\ \A k \in Places : Carries(queue[k])
  /\ Carries(dlv)
  /\ data_type = "BIG" => src_module \in Maker
  /\ is_sending => data_type = "BIG" /\ p_bigdata_msg \in Big
  /\ tx # "wait" /\ current.big => current.target \in Maker /\ p_bigdata_msg \in Big
  /\ tx \in {"send", "finish"} => is_sending

(* Until the two threads have collided: each closes the socket it has seen,*)
(* or one that is closed, the sender opens one when it has none, and a     *)
(* descriptor that is closed and not yet forgotten is not opened again.    *)
SocketInv ==
  /\ SocketsHeld
  /\ tx \in {"closing", "unset"} => reg \in Fd /\ Sock \in {reg, NoFd}
  /\ tx = "unset" => fd[reg] = "closed"
  /\ tx \in {"mark", "socket", "store"} => Sock = NoFd
  /\ rx \in {"closing", "unset"} => local_sock \in Fd /\ Sock \in {local_sock, NoFd}
  /\ rx = "unset" /\ Sock = local_sock => fd[Sock] = "closed"

(* Until a request has crossed a reconnection: the object that is being    *)
(* sent, the snapshot and src_module are of one request, and a BIG request *)
(* is taken only while there is one.                                       *)
Snapshot ==
  /\ is_sending => src_module = Requester[p_bigdata_msg]
  /\ ~is_sending => p_bigdata_msg = NoBig
  /\ tx # "wait" => (current.big <=> is_sending)
  /\ tx # "wait" /\ current.big => current.target = src_module
HomeInv == AnswersToMaker /\ Snapshot

(* An object is at one place at most, and at none once nobody may use it.  *)
Useable(b) == b \in Big /\ mem[b] = "live" /\ b \notin lost
Sending(b) == is_sending /\ p_bigdata_msg = b

HolderInv ==
  /\ \A k, l \in Places : queue[k].big # NoBig /\ queue[k].big = queue[l].big => k = l
  /\ \A k \in Places : queue[k].big # NoBig =>
       Useable(queue[k].big) /\ queue[k].big # dlv.big /\ ~Sending(queue[k].big)
  /\ dlv.big # NoBig => Useable(dlv.big) /\ ~Sending(dlv.big)
  /\ is_sending => Useable(p_bigdata_msg)
  /\ \A b \in lost : mem[b] # "none"

(* TypeOK in the parts that a step leaves alone or not.                    *)
FdStates  == [Fd -> {"closed", "up", "down", "silent"}]
Snapshots == [big : BOOLEAN, target : Module \cup {"MAX"}, ok : BOOLEAN]
LinkTypes ==
  /\ Sock \in Fd \cup {NoFd} /\ connected \in BOOLEAN
  /\ fd \in FdStates
  /\ drops \in 0 .. MaxDrops
SendTypes ==
  /\ data_type \in {"NORMAL", "BIG"}
  /\ p_bigdata_msg \in Big \cup {NoBig}
  /\ is_sending \in BOOLEAN
  /\ src_module \in Module \cup {"MAX"}
SenderAt  == {"wait", "close", "closing", "unset", "mark", "socket", "store",
              "connect", "confirm", "connected", "check", "send", "finish"}
ThreadTypes ==
  /\ tx \in SenderAt
  /\ current \in Snapshots
  /\ reg \in Fd \cup {NoFd} /\ after \in {"socket", "wait"}
  /\ rx \in {"wait", "recv", "close", "closing", "unset"}
  /\ local_sock \in Fd \cup {NoFd}
HistoryTypes == collided \in BOOLEAN /\ crossed \in BOOLEAN
QueueTypes ==
  /\ queue \in Seq(Message) /\ Len(queue) <= QueueCap
  /\ dlv \in Message
  /\ lost \subseteq Big
BigTypes ==
  /\ mem \in [Big -> {"none", "live", "freed"}]
  /\ status \in [Big -> {"SEND", "RESEND", "DONE", "FILE_DELIVER_ERROR"}]
  /\ error \in {"none", "null pointer", "double free"}

LEMMA TypeParts ==
  /\ TypeOK <=> /\ LinkTypes /\ SendTypes /\ ThreadTypes /\ QueueTypes
                /\ BigTypes /\ HistoryTypes
  /\ TypeOK' <=> /\ LinkTypes' /\ SendTypes' /\ ThreadTypes' /\ QueueTypes'
                 /\ BigTypes' /\ HistoryTypes'
BY Zenon DEF TypeOK, LinkTypes, SendTypes, ThreadTypes, QueueTypes, BigTypes, HistoryTypes,
   Snapshots, FdStates, SenderAt

LEMMA PartsStay ==
  /\ LinkTypes /\ UNCHANGED <<Sock, connected, fd, drops>> => LinkTypes'
  /\ SendTypes /\ UNCHANGED <<data_type, p_bigdata_msg, is_sending, src_module>> => SendTypes'
  /\ ThreadTypes /\ UNCHANGED <<tx, current, reg, after, rx, local_sock>> => ThreadTypes'
  /\ QueueTypes /\ UNCHANGED <<queue, dlv, lost>> => QueueTypes'
  /\ BigTypes /\ UNCHANGED <<mem, status, error>> => BigTypes'
<1>1. LinkTypes /\ UNCHANGED <<Sock, connected, fd, drops>> => LinkTypes'
  BY DEF LinkTypes
<1>2. SendTypes /\ UNCHANGED <<data_type, p_bigdata_msg, is_sending, src_module>> => SendTypes'
  BY DEF SendTypes
<1>3. ThreadTypes /\ UNCHANGED <<tx, current, reg, after, rx, local_sock>> => ThreadTypes'
  BY DEF ThreadTypes
<1>4. QueueTypes /\ UNCHANGED <<queue, dlv, lost>> => QueueTypes'
  BY DEF QueueTypes
<1>5. BigTypes /\ UNCHANGED <<mem, status, error>> => BigTypes'
  BY Zenon DEF BigTypes
<1> QED
  BY <1>1, <1>2, <1>3, <1>4, <1>5, Zenon

-----------------------------------------------------------------------------
(* The queue                                                               *)

LEMMA DispatchProperties ==
  ASSUME TypeOK, NEW d \in Module, NEW b \in Big, Dispatch(d, b)
  PROVE  /\ queue' \in Seq(Message) /\ Len(queue') <= QueueCap /\ Len(queue) \in Nat
         /\ \A k \in 1 .. Len(queue') :
              \/ k \in 1 .. Len(queue) /\ queue'[k] = queue[k]
              \/ k = Len(queue) + 1 /\ queue'[k] = [dst |-> d, big |-> b] /\ lost' = lost
         /\ lost' = lost \/ (lost' = lost \cup {b} /\ queue' = queue)
<1> DEFINE m == [dst |-> d, big |-> b]
<1>1. /\ queue \in Seq(Message) /\ Len(queue) <= QueueCap /\ QueueCap \in Nat
      /\ m \in Message
  BY LinkAssumption DEF TypeOK, Message
<1>2. Len(queue) \in Nat
  BY <1>1, LenProperties
<1>3. /\ Append(queue, m) \in Seq(Message) /\ Len(Append(queue, m)) = Len(queue) + 1
      /\ \A k \in 1 .. Len(queue) : Append(queue, m)[k] = queue[k]
      /\ Append(queue, m)[Len(queue) + 1] = m
  BY <1>1, AppendProperties
<1>4. CASE HasRoom
  <2>1. queue' = Append(queue, m) /\ lost' = lost /\ Len(queue) < QueueCap
    BY <1>4 DEF Dispatch, HasRoom
  <2> HIDE DEF m
  <2>2. Len(queue') <= QueueCap
    BY <1>1, <1>2, <1>3, <2>1
  <2>3. \A k \in 1 .. Len(queue') : \/ k \in 1 .. Len(queue) /\ queue'[k] = queue[k]
                                    \/ k = Len(queue) + 1 /\ queue'[k] = m
    BY <1>2, <1>3, <2>1
  <2> QED
    BY <1>2, <1>3, <2>1, <2>2, <2>3 DEF m
<1>5. CASE ~HasRoom
  <2>1. queue' = queue /\ lost' = lost \cup {b}
    BY <1>5 DEF Dispatch
  <2> QED
    BY <1>1, <1>2, <2>1
<1> QED
  BY <1>4, <1>5

(* What the delivery thread takes was the head of the queue.               *)
LEMMA TakeProperties ==
  ASSUME TypeOK, TakeMessage
  PROVE  /\ Len(queue) \in Nat /\ queue' \in Seq(Message) /\ Len(queue') <= QueueCap
         /\ 1 \in Places /\ dlv' = queue[1] /\ dlv' \in Message
         /\ \A k \in Places' : k \in Nat /\ k + 1 \in Places /\ k + 1 # 1
                               /\ queue'[k] = queue[k + 1]
<1>1. /\ queue \in Seq(Message) /\ Len(queue) <= QueueCap /\ QueueCap \in Nat
      /\ queue # <<>> /\ queue' = Tail(queue) /\ dlv' = Head(queue)
  BY LinkAssumption DEF TypeOK, TakeMessage
<1>2. Len(queue) \in Nat \ {0}
  BY <1>1, EmptySeq
<1>3. queue[1] \in Message /\ Head(queue) = queue[1]
  BY <1>1, <1>2, ElementOfSeq
<1>4. /\ Tail(queue) \in Seq(Message) /\ Len(Tail(queue)) = Len(queue) - 1
      /\ \A k \in 1 .. Len(Tail(queue)) : Tail(queue)[k] = queue[k + 1]
  BY <1>1, HeadTailProperties
<1> QED
  BY <1>1, <1>2, <1>3, <1>4 DEF Places

(* A message of another module carries nothing.                            *)
LEMMA OtherProperties ==
  ASSUME TypeOK, OtherSends
  PROVE  /\ queue' \in Seq(Message) /\ Len(queue') <= QueueCap /\ Len(queue) \in Nat
         /\ \A k \in 1 .. Len(queue') :
              \/ k \in 1 .. Len(queue) /\ queue'[k] = queue[k]
              \/ k = Len(queue) + 1 /\ queue'[k] = Idle
<1>1. /\ queue \in Seq(Message) /\ Idle \in Message /\ QueueCap \in Nat
      /\ queue' = Append(queue, Idle) /\ Len(queue) < QueueCap
  BY LinkAssumption DEF TypeOK, Message, Idle, OtherSends, HasRoom
<1>2. Len(queue) \in Nat
  BY <1>1, LenProperties
<1>3. /\ Append(queue, Idle) \in Seq(Message) /\ Len(Append(queue, Idle)) = Len(queue) + 1
      /\ \A k \in 1 .. Len(queue) : Append(queue, Idle)[k] = queue[k]
      /\ Append(queue, Idle)[Len(queue) + 1] = Idle
  BY <1>1, AppendProperties
<1> QED
  BY <1>1, <1>2, <1>3

-----------------------------------------------------------------------------
(* The steps of the sender that are about the connection only.             *)
ConnectStep ==
  \/ CloseTest \/ CloseSocket \/ UnsetSock \/ MarkClosed
  \/ OpenSocket \/ StoreSock \/ SocketFails \/ ConnectSucceeds \/ ConnectFails
  \/ Confirm \/ MarkConnected \/ CheckSending

LEMMA ConnectLeaves ==
  ASSUME ConnectStep
  PROVE  /\ UNCHANGED <<data_type, p_bigdata_msg, is_sending, src_module, crossed>>
         /\ UNCHANGED <<current, rx, local_sock, queue, dlv, mem, status, lost, error>>
<1>1. UNCHANGED connectSame
  BY Zenon DEF ConnectStep, CloseTest, CloseSocket, UnsetSock, MarkClosed, OpenSocket, StoreSock,
     SocketFails, ConnectSucceeds, ConnectFails, Confirm, MarkConnected, CheckSending
<1> QED
  BY <1>1 DEF connectSame, sendVars, otherVars, rxVars

(* Those of the receiver and of the network.                               *)
SocketStep == ReceiverStep \/ ConnectionBreaks \/ SilenceEnds

LEMMA SocketLeaves ==
  ASSUME SocketStep
  PROVE  /\ UNCHANGED <<data_type, p_bigdata_msg, is_sending, src_module, collided, crossed>>
         /\ UNCHANGED <<tx, current, reg, after, queue, dlv, mem, status, lost, error>>
BY DEF SocketStep, ReceiverStep, ReceiverTakesSock, RecvFails, ReceiverTests, ReceiverCloses,
       ReceiverUnsets, ConnectionBreaks, SilenceEnds, receiverSame, networkSame, sendVars,
       txVars, bigVars, history

(* What the delivery thread and the modules that make objects do is not    *)
(* about the connection.                                                   *)
BigStep == DeliverStep \/ (\E b \in Big : Request(b)) \/ OtherSends

LEMMA BigLeaves ==
  ASSUME BigStep
  PROVE  /\ UNCHANGED <<Sock, connected, fd, drops, collided>>
         /\ UNCHANGED <<tx, current, reg, after, rx, local_sock>>
         /\ UNCHANGED crossed \/ crossed' = (crossed \/ tx # "wait")
BY DEF BigStep, DeliverStep, TakeMessage, AcceptBig, AskResend, FreeBig, Resend, Request,
       OtherSends, handlerSame, linkVars, txVars, rxVars, history

LEMMA Steps ==
  ASSUME [Next]_vars
  PROVE  \/ TakeRequest \/ ConnectStep \/ SendFrame \/ SendFails \/ Finish
         \/ SocketStep \/ BigStep \/ UNCHANGED vars
BY DEF Next, Step, SenderStep, ConnectStep, SocketStep, BigStep

LEMMA VarsLeave ==
  ASSUME UNCHANGED vars
  PROVE  /\ UNCHANGED <<Sock, connected, fd, drops>>
         /\ UNCHANGED <<data_type, p_bigdata_msg, is_sending, src_module>>
         /\ UNCHANGED <<tx, current, reg, after, rx, local_sock>>
         /\ UNCHANGED <<queue, dlv, mem, status, lost, error, collided, crossed>>
BY DEF vars, linkVars, sendVars, txVars, rxVars, bigVars, history

(* The two races are never forgotten, and each has one step that sees it.  *)
LEMMA HistoryStep ==
  ASSUME TInv, [Next]_vars
  PROVE  /\ HistoryTypes'
         /\ collided => collided'
         /\ crossed => crossed'
<1>0. HistoryTypes
  BY TypeParts DEF TInv
<1>1. CASE ConnectStep
  <2>1. UNCHANGED crossed
    BY <1>1, ConnectLeaves
  <2>2. UNCHANGED collided \/ collided' = (collided \/ ~LockFree)
    BY <1>1, Zenon DEF ConnectStep, CloseTest, CloseSocket, UnsetSock, MarkClosed, OpenSocket,
       StoreSock, SocketFails, ConnectSucceeds, ConnectFails, Confirm, MarkConnected, CheckSending
  <2>3. collided' \in BOOLEAN /\ (collided => collided')
    BY <1>0, <2>2, Zenon DEF HistoryTypes
  <2> QED
    BY <1>0, <2>1, <2>3, Zenon DEF HistoryTypes
<1>2. CASE BigStep
  <2>1. UNCHANGED collided /\ (UNCHANGED crossed \/ crossed' = (crossed \/ tx # "wait"))
    BY <1>2, BigLeaves
  <2>2. crossed' \in BOOLEAN /\ (crossed => crossed')
    BY <1>0, <2>1, Zenon DEF HistoryTypes
  <2> QED
    BY <1>0, <2>1, <2>2, Zenon DEF HistoryTypes
<1>3. CASE SocketStep \/ UNCHANGED vars
  BY <1>0, <1>3, SocketLeaves, VarsLeave, Zenon DEF HistoryTypes
<1>4. CASE TakeRequest \/ SendFrame \/ SendFails \/ Finish
  <2>1. UNCHANGED collided /\ UNCHANGED otherVars
    BY <1>4, Zenon DEF TakeRequest, SendFrame, SendFails, Finish
  <2>2. UNCHANGED crossed
    BY <2>1 DEF otherVars
  <2> QED
    BY <1>0, <2>1, <2>2, Zenon DEF HistoryTypes
<1> QED
  BY <1>1, <1>2, <1>3, <1>4, Steps, Zenon

-----------------------------------------------------------------------------
(* Type correctness                                                        *)

LEMMA TypeInit == Init => TInv
<1> SUFFICES ASSUME Init PROVE TInv
  OBVIOUS
<1>1. queue \in Seq(Message) /\ Len(queue) = 0 /\ Len(queue) <= QueueCap
  BY EmptySeq, LinkAssumption DEF Init
<1>2. Sock \in Fd \cup {NoFd} /\ connected \in BOOLEAN
  <2>1. connected \in BOOLEAN /\ Sock \in IF connected THEN Fd ELSE {NoFd}
    BY DEF Init
  <2> QED
    BY <2>1
<1>3. fd \in FdStates /\ drops \in 0 .. MaxDrops
  BY LinkAssumption DEF Init, FdStates
<1>4. dlv \in Message /\ Carries(dlv)
  BY DEF Init, Idle, Message, Carries
<1>5. current \in [big : BOOLEAN, target : Module \cup {"MAX"}, ok : BOOLEAN]
  BY DEF Init
<1>6. /\ mem \in [Big -> {"none", "live", "freed"}] /\ lost \subseteq Big
      /\ status \in [Big -> {"SEND", "RESEND", "DONE", "FILE_DELIVER_ERROR"}]
  BY DEF Init
<1>7. TypeOK
  BY <1>1, <1>2, <1>3, <1>4, <1>5, <1>6 DEF Init, TypeOK, Module, FdStates
<1> QED
  BY <1>1, <1>4, <1>7 DEF Init, TInv, Places

LEMMA ConnectTypes ==
  ASSUME TInv, ConnectStep, [Next]_vars
  PROVE  TInv'
<1> USE LinkAssumption
<1>0. /\ TypeOK /\ LinkTypes /\ SendTypes /\ ThreadTypes /\ QueueTypes /\ BigTypes
      /\ HistoryTypes'
  BY TypeParts, HistoryStep DEF TInv
<1>1. /\ UNCHANGED <<data_type, p_bigdata_msg, is_sending, src_module>>
      /\ UNCHANGED <<current, rx, local_sock, queue, dlv, mem, status, lost, error>>
  BY ConnectLeaves
<1>2. /\ Sock' \in Fd \cup {NoFd} /\ connected' \in BOOLEAN /\ drops' \in 0 .. MaxDrops
      /\ reg' \in Fd \cup {NoFd} /\ after' \in {"socket", "wait"}
  <2>1. /\ UNCHANGED Sock \/ Sock' = NoFd \/ Sock' = reg
        /\ UNCHANGED reg \/ reg' = Sock \/ reg' = NoFd \/ reg' \in Fd
        /\ UNCHANGED after \/ after' = "wait"
    BY DEF ConnectStep, CloseTest, CloseSocket, UnsetSock, MarkClosed, OpenSocket, StoreSock,
       SocketFails, ConnectSucceeds, ConnectFails, Confirm, MarkConnected, CheckSending, linkVars
  <2>2. UNCHANGED connected \/ connected' = FALSE \/ connected' = TRUE
    BY DEF ConnectStep, CloseTest, CloseSocket, UnsetSock, MarkClosed, OpenSocket, StoreSock,
       SocketFails, ConnectSucceeds, ConnectFails, Confirm, MarkConnected, CheckSending, linkVars
  <2>3. UNCHANGED drops \/ (drops < MaxDrops /\ drops' = drops + 1)
    BY DEF ConnectStep, CloseTest, CloseSocket, UnsetSock, MarkClosed, OpenSocket, StoreSock,
       SocketFails, ConnectSucceeds, ConnectFails, Confirm, MarkConnected, CheckSending, linkVars
  <2>4. connected' \in BOOLEAN
    BY <1>0, <2>2, Zenon DEF LinkTypes
  <2>5. drops' \in 0 .. MaxDrops
    BY <1>0, <2>3 DEF LinkTypes
  <2> QED
    BY <1>0, <2>1, <2>4, <2>5, Zenon DEF LinkTypes, ThreadTypes
<1>3. fd' \in FdStates
  <2>1. \/ UNCHANGED fd
        \/ fd' = [fd EXCEPT ![reg] = "closed"]
        \/ fd' = [fd EXCEPT ![Sock] = "up"]
        \/ \E f \in Fd : fd' = [fd EXCEPT ![f] = "down"]
    BY DEF ConnectStep, CloseTest, CloseSocket, UnsetSock, MarkClosed, OpenSocket, StoreSock,
       SocketFails, ConnectSucceeds, ConnectFails, Confirm, MarkConnected, CheckSending, linkVars,
       Closed
  <2> QED
    BY <1>0, <2>1 DEF LinkTypes, FdStates
<1>4. tx' \in SenderAt /\ tx # "wait" /\ (tx' \in {"send", "finish"} => is_sending)
  <2>1. \/ tx' \in {"wait", "close", "closing", "unset", "mark", "store", "connect", "confirm",
                     "connected", "check"}
        \/ tx' = "send" /\ is_sending
        \/ tx' = after
    BY DEF ConnectStep, CloseTest, CloseSocket, UnsetSock, MarkClosed, OpenSocket, StoreSock,
       SocketFails, ConnectSucceeds, ConnectFails, Confirm, MarkConnected, CheckSending
  <2>2. tx # "wait"
    BY DEF ConnectStep, CloseTest, CloseSocket, UnsetSock, MarkClosed, OpenSocket, StoreSock,
       SocketFails, ConnectSucceeds, ConnectFails, Confirm, MarkConnected, CheckSending
  <2> QED
    BY <1>0, <2>1, <2>2 DEF ThreadTypes, SenderAt
<1>5. LinkTypes'
  BY <1>2, <1>3 DEF LinkTypes
<1>6. ThreadTypes'
  BY <1>0, <1>1, <1>2, <1>4 DEF ThreadTypes
<1>7. TypeOK'
  BY <1>0, <1>1, <1>5, <1>6, PartsStay, TypeParts
<1> QED
  BY <1>1, <1>4, <1>7 DEF TInv, Places

LEMMA SocketTypes ==
  ASSUME TInv, SocketStep, [Next]_vars
  PROVE  TInv'
<1> USE LinkAssumption
<1>0. /\ TypeOK /\ LinkTypes /\ SendTypes /\ ThreadTypes /\ QueueTypes /\ BigTypes
      /\ HistoryTypes'
  BY TypeParts, HistoryStep DEF TInv
<1>1. /\ UNCHANGED <<data_type, p_bigdata_msg, is_sending, src_module>>
      /\ UNCHANGED <<tx, current, reg, after, queue, dlv, mem, status, lost, error>>
  BY SocketLeaves
<1>2. /\ Sock' \in Fd \cup {NoFd} /\ connected' \in BOOLEAN /\ drops' \in 0 .. MaxDrops
      /\ rx' \in {"wait", "recv", "close", "closing", "unset"}
      /\ local_sock' \in Fd \cup {NoFd}
  <2>1. /\ UNCHANGED Sock \/ Sock' = NoFd
        /\ UNCHANGED local_sock \/ local_sock' = Sock \/ local_sock' = NoFd
        /\ UNCHANGED rx \/ rx' \in {"wait", "recv", "close", "closing", "unset"}
    BY DEF SocketStep, ReceiverStep, ReceiverTakesSock, RecvFails, ReceiverTests, ReceiverCloses,
       ReceiverUnsets, ConnectionBreaks, SilenceEnds, networkSame, rxVars
  <2>2. UNCHANGED connected \/ connected' = FALSE \/ connected' = (connected /\ Sock # local_sock)
    BY DEF SocketStep, ReceiverStep, ReceiverTakesSock, RecvFails, ReceiverTests, ReceiverCloses,
       ReceiverUnsets, ConnectionBreaks, SilenceEnds, networkSame
  <2>3. UNCHANGED drops \/ (drops < MaxDrops /\ drops' = drops + 1)
    BY DEF SocketStep, ReceiverStep, ReceiverTakesSock, RecvFails, ReceiverTests, ReceiverCloses,
       ReceiverUnsets, ConnectionBreaks, SilenceEnds, receiverSame
  <2>4. connected' \in BOOLEAN
    BY <1>0, <2>2, Zenon DEF LinkTypes
  <2>5. drops' \in 0 .. MaxDrops
    BY <1>0, <2>3 DEF LinkTypes
  <2> QED
    BY <1>0, <2>1, <2>4, <2>5, Zenon DEF LinkTypes, ThreadTypes
<1>3. fd' \in FdStates
  <2>1. \/ UNCHANGED fd
        \/ fd' = [fd EXCEPT ![local_sock] = "closed"]
        \/ \E f \in Fd, state \in {"down", "silent"} : fd' = [fd EXCEPT ![f] = state]
    BY DEF SocketStep, ReceiverStep, ReceiverTakesSock, RecvFails, ReceiverTests, ReceiverCloses,
       ReceiverUnsets, ConnectionBreaks, SilenceEnds, Closed, Up, Silent
  <2> QED
    BY <1>0, <2>1 DEF LinkTypes, FdStates
<1>4. LinkTypes' /\ ThreadTypes'
  BY <1>0, <1>1, <1>2, <1>3 DEF LinkTypes, ThreadTypes
<1>5. TypeOK'
  BY <1>0, <1>1, <1>4, PartsStay, TypeParts
<1> QED
  BY <1>1, <1>5 DEF TInv, Places

LEMMA TakeRequestTypes ==
  ASSUME TInv, TakeRequest, [Next]_vars
  PROVE  TInv'
<1>0. /\ TypeOK /\ LinkTypes /\ SendTypes /\ ThreadTypes /\ QueueTypes /\ BigTypes
      /\ HistoryTypes'
  BY TypeParts, HistoryStep DEF TInv
<1>1. /\ UNCHANGED <<Sock, connected, fd, drops, reg, rx, local_sock>>
      /\ UNCHANGED <<data_type, p_bigdata_msg, is_sending, src_module>>
      /\ UNCHANGED <<queue, dlv, mem, status, lost>>
  BY DEF TakeRequest, linkVars, sendVars, otherVars, rxVars
<1>2. /\ error' \in {"none", "null pointer", "double free"} /\ tx = "wait"
      /\ UNCHANGED after \/ after' = "socket"
      /\ \/ UNCHANGED <<tx, current>>
         \/ /\ tx' \in {"check", "close"}
            /\ current' = [big |-> data_type = "BIG", target |-> src_module, ok |-> FALSE]
            /\ data_type = "BIG" => p_bigdata_msg # NoBig
  BY <1>0 DEF TakeRequest, BigTypes
<1>3. PICK big \in BOOLEAN : big <=> data_type = "BIG"
  OBVIOUS
<1>4. /\ tx' \in {"wait", "check", "close"}
      /\ current' \in Snapshots
      /\ tx' # "wait" /\ current'.big => current'.target \in Maker /\ p_bigdata_msg \in Big
  <2>1. CASE UNCHANGED <<tx, current>>
    BY <1>0, <1>2, <2>1 DEF ThreadTypes
  <2>2. CASE /\ tx' \in {"check", "close"}
             /\ current' = [big |-> data_type = "BIG", target |-> src_module, ok |-> FALSE]
             /\ data_type = "BIG" => p_bigdata_msg # NoBig
    <3>1. current' = [big |-> big, target |-> src_module, ok |-> FALSE]
      BY <1>3, <2>2
    <3>2. src_module \in Module \cup {"MAX"} /\ p_bigdata_msg \in Big \cup {NoBig}
      BY <1>0 DEF SendTypes
    <3>3. current' \in Snapshots
      BY <1>3, <3>1, <3>2 DEF Snapshots
    <3>4. current'.big => data_type = "BIG"
      BY <1>3, <3>1
    <3>5. current'.target = src_module
      BY <3>1
    <3> QED
      BY <2>2, <3>2, <3>3, <3>4, <3>5 DEF TInv
  <2> QED
    BY <1>2, <2>1, <2>2
<1>5. ThreadTypes'
  BY <1>0, <1>1, <1>2, <1>4 DEF ThreadTypes, SenderAt
<1>6. BigTypes'
  BY <1>0, <1>1, <1>2 DEF BigTypes
<1>7. TypeOK'
  BY <1>0, <1>1, <1>5, <1>6, PartsStay, TypeParts
<1> QED
  BY <1>1, <1>4, <1>7 DEF TInv, Places

LEMMA SendTypesStep ==
  ASSUME TInv, SendFrame \/ SendFails, [Next]_vars
  PROVE  TInv'
<1>0. /\ TypeOK /\ LinkTypes /\ SendTypes /\ ThreadTypes /\ QueueTypes /\ BigTypes
      /\ HistoryTypes'
  BY TypeParts, HistoryStep DEF TInv
<1>1. /\ UNCHANGED <<Sock, drops, reg, after, rx, local_sock>>
      /\ UNCHANGED <<data_type, p_bigdata_msg, is_sending, src_module>>
      /\ UNCHANGED <<queue, dlv, mem, status, lost, error>>
      /\ tx = "send" /\ tx' = "finish"
  BY DEF SendFrame, SendFails, sendVars, otherVars, rxVars, linkVars
<1>2. /\ \E ok \in BOOLEAN : current' = [current EXCEPT !.ok = ok]
      /\ UNCHANGED connected \/ connected' = FALSE
      /\ UNCHANGED fd \/ fd' = [fd EXCEPT ![Sock] = "down"]
  BY DEF SendFrame, SendFails, linkVars
<1>3. connected' \in BOOLEAN
  BY <1>0, <1>2, Zenon DEF LinkTypes
<1>4. /\ current' \in Snapshots
      /\ current'.big = current.big /\ current'.target = current.target
  BY <1>0, <1>2 DEF ThreadTypes, Snapshots
<1>5. fd' \in FdStates
  BY <1>0, <1>2 DEF LinkTypes, FdStates
<1>6. LinkTypes' /\ ThreadTypes'
  BY <1>0, <1>1, <1>3, <1>4, <1>5 DEF LinkTypes, ThreadTypes, SenderAt
<1>7. TypeOK'
  BY <1>0, <1>1, <1>6, PartsStay, TypeParts
<1> QED
  BY <1>1, <1>4, <1>7 DEF TInv, Places

LEMMA FinishTypes ==
  ASSUME TInv, Finish, [Next]_vars
  PROVE  TInv'
<1>0. /\ TypeOK /\ LinkTypes /\ SendTypes /\ ThreadTypes /\ QueueTypes /\ BigTypes
      /\ HistoryTypes'
  BY TypeParts, HistoryStep DEF TInv
<1>1. /\ UNCHANGED <<Sock, connected, fd, drops, current, reg, after, rx, local_sock>>
      /\ UNCHANGED <<data_type, src_module, dlv, mem, error>>
      /\ tx = "finish" /\ tx' = "wait" /\ is_sending' = FALSE
  BY DEF Finish, linkVars, otherVars, rxVars
<1>2. CASE current.big
  <2>1. /\ status' = [status EXCEPT ![p_bigdata_msg] =
                        IF current.ok THEN "DONE" ELSE "FILE_DELIVER_ERROR"]
        /\ Dispatch(current.target, p_bigdata_msg)
        /\ p_bigdata_msg' = NoBig
    BY <1>2 DEF Finish
  <2>2. current.target \in Maker /\ p_bigdata_msg \in Big
    BY <1>1, <1>2 DEF TInv
  <2>3. current.target \in Module
    BY <2>2 DEF Maker, Module
  <2>4. /\ queue' \in Seq(Message) /\ Len(queue') <= QueueCap
        /\ \A k \in 1 .. Len(queue') :
             \/ k \in 1 .. Len(queue) /\ queue'[k] = queue[k]
             \/ k = Len(queue) + 1 /\ lost' = lost
                /\ queue'[k] = [dst |-> current.target, big |-> p_bigdata_msg]
        /\ lost' = lost \/ lost' = lost \cup {p_bigdata_msg}
    BY <1>0, <2>1, <2>2, <2>3, DispatchProperties
  <2>5. \A k \in Places' : Carries(queue'[k])
    BY <2>2, <2>4, LinkAssumption DEF TInv, Places, Carries, Maker
  <2>6. status' \in [Big -> {"SEND", "RESEND", "DONE", "FILE_DELIVER_ERROR"}]
    BY <1>0, <2>1 DEF BigTypes
  <2>7. LinkTypes' /\ ThreadTypes'
    BY <1>0, <1>1 DEF LinkTypes, ThreadTypes, SenderAt
  <2>8. SendTypes' /\ QueueTypes' /\ BigTypes'
    BY <1>0, <1>1, <2>1, <2>2, <2>4, <2>6 DEF SendTypes, QueueTypes, BigTypes
  <2>9. TypeOK'
    BY <1>0, <2>7, <2>8, TypeParts
  <2> QED
    BY <1>1, <2>5, <2>9 DEF TInv
<1>3. CASE ~current.big
  <2>1. UNCHANGED <<status, queue, lost, p_bigdata_msg>>
    BY <1>3 DEF Finish
  <2>2. LinkTypes' /\ ThreadTypes' /\ SendTypes'
    BY <1>0, <1>1, <2>1 DEF LinkTypes, ThreadTypes, SendTypes, SenderAt
  <2>3. TypeOK'
    BY <1>0, <1>1, <2>1, <2>2, PartsStay, TypeParts
  <2> QED
    BY <1>1, <2>1, <2>3 DEF TInv, Places
<1> QED
  BY <1>2, <1>3

LEMMA BigStepTypes ==
  ASSUME TInv, BigStep, [Next]_vars
  PROVE  TInv'
<1>0. /\ TypeOK /\ LinkTypes /\ SendTypes /\ ThreadTypes /\ QueueTypes /\ BigTypes
      /\ HistoryTypes'
  BY TypeParts, HistoryStep DEF TInv
<1>1. /\ UNCHANGED <<Sock, connected, fd, drops>>
      /\ UNCHANGED <<tx, current, reg, after, rx, local_sock>>
  BY BigLeaves
<1>2. dlv.dst # "OTHER" => dlv.big \in Big
  BY <1>0 DEF TInv, Carries, TypeOK, Message
<1>3. \A b \in Big : Requester[b] \in Maker /\ Requester[b] \in Module /\ b # NoBig
  BY LinkAssumption DEF Maker, Module
<1>4. Idle \in Message /\ Carries(Idle)
  BY DEF Idle, Message, Carries
<1>5. CASE TakeMessage
  <2>1. UNCHANGED <<data_type, p_bigdata_msg, is_sending, src_module, mem, status, lost, error>>
    BY <1>5 DEF TakeMessage, sendVars, bigVars
  <2>2. /\ queue' \in Seq(Message) /\ Len(queue') <= QueueCap /\ dlv' \in Message
        /\ Carries(dlv') /\ \A k \in Places' : Carries(queue'[k])
    BY <1>0, <1>5, TakeProperties DEF TInv, Carries
  <2>3. TypeOK'
    <3>1. QueueTypes'
      BY <1>0, <2>1, <2>2 DEF QueueTypes
    <3> QED
      BY <1>0, <1>1, <2>1, <3>1, PartsStay, TypeParts
  <2> QED
    BY <1>1, <2>1, <2>2, <2>3 DEF TInv, Carries
<1>6. CASE AcceptBig
  <2>1. /\ UNCHANGED <<queue, mem, status, lost, error>>
        /\ data_type' = "BIG" /\ p_bigdata_msg' = dlv.big /\ is_sending' = TRUE
        /\ src_module' = Requester[dlv.big] /\ dlv' = Idle /\ dlv.big \in Big
    BY <1>2, <1>6 DEF AcceptBig, bigVars
  <2>2. src_module' \in Maker
    BY <1>3, <2>1
  <2>3. TypeOK'
    <3>1. SendTypes'
      BY <1>3, <2>1 DEF SendTypes
    <3>2. QueueTypes'
      BY <1>0, <1>4, <2>1 DEF QueueTypes
    <3> QED
      BY <1>0, <1>1, <2>1, <3>1, <3>2, PartsStay, TypeParts
  <2> QED
    BY <1>1, <1>4, <2>1, <2>2, <2>3 DEF TInv, Places
<1>7. ASSUME NEW d \in Module, NEW b \in Big, Dispatch(d, b), d # "OTHER",
             dlv' \in Message, Carries(dlv'), UNCHANGED error,
             UNCHANGED <<data_type, p_bigdata_msg, is_sending, src_module>>,
             mem' \in [Big -> {"none", "live", "freed"}],
             status' \in [Big -> {"SEND", "RESEND", "DONE", "FILE_DELIVER_ERROR"}]
      PROVE  TInv'
  <2>1. /\ queue' \in Seq(Message) /\ Len(queue') <= QueueCap
        /\ \A k \in 1 .. Len(queue') :
             \/ k \in 1 .. Len(queue) /\ queue'[k] = queue[k]
             \/ k = Len(queue) + 1 /\ queue'[k] = [dst |-> d, big |-> b] /\ lost' = lost
        /\ lost' = lost \/ (lost' = lost \cup {b} /\ queue' = queue)
    BY <1>0, <1>7, DispatchProperties
  <2>2. \A k \in Places' : Carries(queue'[k])
    BY <1>3, <1>7, <2>1 DEF TInv, Places, Carries
  <2>3. TypeOK'
    <3>1. QueueTypes'
      BY <1>0, <1>7, <2>1 DEF QueueTypes
    <3>2. BigTypes'
      BY <1>0, <1>7 DEF BigTypes
    <3> QED
      BY <1>0, <1>1, <1>7, <3>1, <3>2, PartsStay, TypeParts
  <2> QED
    BY <1>1, <1>7, <2>2, <2>3 DEF TInv
<1>8. CASE AskResend
  <2>1. /\ status' = [status EXCEPT ![dlv.big] = "RESEND"]
        /\ Dispatch(Requester[dlv.big], dlv.big) /\ dlv' = Idle /\ dlv.big \in Big
        /\ UNCHANGED <<mem, error, data_type, p_bigdata_msg, is_sending, src_module>>
    BY <1>2, <1>8 DEF AskResend, sendVars
  <2>2. status' \in [Big -> {"SEND", "RESEND", "DONE", "FILE_DELIVER_ERROR"}]
    BY <1>0, <2>1 DEF TypeOK
  <2>3. mem' \in [Big -> {"none", "live", "freed"}] /\ Requester[dlv.big] # "OTHER"
    BY <1>0, <1>3, <2>1 DEF TypeOK, Maker
  <2> QED
    BY <1>3, <1>4, <1>7, <2>1, <2>2, <2>3 DEF Carries
<1>9. CASE Resend
  <2>1. /\ Dispatch("TCP_SEND", dlv.big) /\ dlv' = Idle /\ dlv.big \in Big
        /\ UNCHANGED <<mem, status, error, data_type, p_bigdata_msg, is_sending, src_module>>
    BY <1>2, <1>9 DEF Resend, sendVars
  <2>2. /\ status' \in [Big -> {"SEND", "RESEND", "DONE", "FILE_DELIVER_ERROR"}]
        /\ mem' \in [Big -> {"none", "live", "freed"}] /\ "TCP_SEND" \in Module
    BY <1>0, <2>1 DEF TypeOK, Module
  <2> QED
    BY <1>4, <1>7, <2>1, <2>2 DEF Carries
<1>10. CASE FreeBig
  <2>1. /\ UNCHANGED <<data_type, p_bigdata_msg, is_sending, src_module, queue, status, lost>>
        /\ mem' = [mem EXCEPT ![dlv.big] = "freed"] /\ dlv' = Idle
        /\ error' \in {"none", "null pointer", "double free"}
    BY <1>0, <1>10 DEF FreeBig, sendVars, TypeOK
  <2>2. TypeOK'
    <3>1. QueueTypes'
      BY <1>0, <1>4, <2>1 DEF QueueTypes
    <3>2. BigTypes'
      BY <1>0, <2>1 DEF BigTypes
    <3> QED
      BY <1>0, <1>1, <2>1, <3>1, <3>2, PartsStay, TypeParts
  <2> QED
    BY <1>1, <1>4, <2>1, <2>2 DEF TInv, Places
<1>11. ASSUME NEW b \in Big, Request(b)
       PROVE  TInv'
  <2>1. UNCHANGED <<data_type, p_bigdata_msg, is_sending, src_module, dlv, status, error>>
    BY <1>11 DEF Request, sendVars
  <2>2. /\ mem' \in [Big -> {"none", "live", "freed"}] /\ dlv' \in Message /\ Carries(dlv')
        /\ status' \in [Big -> {"SEND", "RESEND", "DONE", "FILE_DELIVER_ERROR"}]
        /\ "TCP_SEND" \in Module
    BY <1>0, <1>11, <2>1 DEF Request, TypeOK, Module, TInv, Carries
  <2>3. CASE Dispatch("TCP_SEND", b)
    BY <1>7, <2>1, <2>2, <2>3
  <2>4. CASE UNCHANGED <<queue, lost>>
    <3>1. BigTypes'
      BY <1>0, <2>1, <2>2 DEF BigTypes
    <3>2. TypeOK'
      BY <1>0, <1>1, <2>1, <2>4, <3>1, PartsStay, TypeParts
    <3> QED
      BY <1>1, <2>1, <2>4, <3>2 DEF TInv, Places
  <2> QED
    BY <1>11, <2>3, <2>4 DEF Request
<1>12. CASE OtherSends
  <2>1. UNCHANGED <<data_type, p_bigdata_msg, is_sending, src_module, dlv, mem, status, lost,
                    error>>
    BY <1>12 DEF OtherSends, sendVars, bigVars
  <2>2. /\ queue' \in Seq(Message) /\ Len(queue') <= QueueCap
        /\ \A k \in Places' : Carries(queue'[k])
    BY <1>0, <1>4, <1>12, OtherProperties DEF TInv, Places
  <2>3. TypeOK'
    <3>1. QueueTypes'
      BY <1>0, <2>1, <2>2 DEF QueueTypes
    <3> QED
      BY <1>0, <1>1, <2>1, <3>1, PartsStay, TypeParts
  <2> QED
    BY <1>1, <2>1, <2>2, <2>3 DEF TInv
<1> QED
  BY <1>5, <1>6, <1>8, <1>9, <1>10, <1>11, <1>12 DEF BigStep, DeliverStep

LEMMA TypeStep ==
  ASSUME TInv, [Next]_vars
  PROVE  TInv'
<1>1. CASE UNCHANGED vars
  <2>1. TypeOK'
    BY <1>1, VarsLeave, PartsStay, TypeParts, HistoryStep DEF TInv
  <2> QED
    BY <1>1, <2>1, VarsLeave DEF TInv, Places, Carries
<1> QED
  BY <1>1, Steps, ConnectTypes, SocketTypes, TakeRequestTypes, SendTypesStep,
     FinishTypes, BigStepTypes

(* Type correctness, with the bounds of the queue and of the failures.     *)
THEOREM TypeCorrect == Spec => []TypeOK
<1>1. TInv => TypeOK
  BY DEF TInv
<1> QED
  BY <1>1, TypeInit, TypeStep, PTL DEF Spec

-----------------------------------------------------------------------------
(* The descriptors                                                         *)

LEMMA SocketInit == Init => SocketInv
<1> SUFFICES ASSUME Init PROVE SocketInv
  OBVIOUS
<1>1. \A f \in Open : f = Sock
  BY DEF Init, Open
<1> QED
  BY <1>1 DEF Init, SocketInv, SocketsHeld

LEMMA SocketInvStep ==
  ASSUME TInv, SocketInv, [Next]_vars, ~collided'
  PROVE  SocketInv'
<1>0. /\ fd \in [Fd -> {"closed", "up", "down", "silent"}] /\ Sock \in Fd \cup {NoFd}
      /\ NoFd \notin Fd /\ reg \in Fd \cup {NoFd} /\ local_sock \in Fd \cup {NoFd}
      /\ after \in {"socket", "wait"}
  BY LinkAssumption DEF TInv, TypeOK
<1>c. CASE ConnectStep
  <2>0. UNCHANGED <<rx, local_sock>>
    BY <1>c, ConnectLeaves
  <2>1. CASE CloseTest
    <3>1. /\ UNCHANGED <<Sock, fd>> /\ reg' = Sock
          /\ tx' = IF Sock = NoFd THEN "mark" ELSE "closing"
          /\ tx = "close"
      BY <2>1 DEF CloseTest, linkVars
    <3> QED
      BY <1>0, <2>0, <3>1 DEF SocketInv, SocketsHeld, Open
  <2>2. CASE CloseSocket
    <3>1. /\ UNCHANGED <<Sock, reg>> /\ fd' = [fd EXCEPT ![reg] = "closed"]
          /\ tx = "closing" /\ tx' = "unset"
      BY <2>2 DEF CloseSocket, Closed
    <3> QED
      BY <1>0, <2>0, <3>1 DEF SocketInv, SocketsHeld, Open
  <2>3. CASE UnsetSock
    <3>1. /\ UNCHANGED <<fd, reg>> /\ Sock' = NoFd /\ tx = "unset" /\ tx' = "mark"
      BY <2>3 DEF UnsetSock
    <3> QED
      BY <1>0, <2>0, <3>1 DEF SocketInv, SocketsHeld, Open
  <2>4. CASE MarkClosed
    <3>1. /\ UNCHANGED <<fd, Sock>> /\ tx = "mark" /\ tx' \in {"socket", "wait"}
      BY <1>0, <2>4 DEF MarkClosed
    <3> QED
      BY <1>0, <2>0, <3>1 DEF SocketInv, SocketsHeld, Open
  <2>5. CASE OpenSocket
    <3>1. PICK f \in Fd : fd' = [fd EXCEPT ![f] = "down"] /\ reg' = f
      BY <2>5 DEF OpenSocket, Open
    <3>2. UNCHANGED Sock /\ tx = "socket" /\ tx' = "store"
      BY <2>5 DEF OpenSocket
    <3>3. Sock = NoFd /\ \A g \in Fd : fd[g] = "closed"
      BY <1>0, <3>2 DEF SocketInv, SocketsHeld, Open
    <3> QED
      BY <1>0, <2>0, <3>1, <3>2, <3>3 DEF SocketInv, SocketsHeld, Open
  <2>6. CASE StoreSock
    <3>1. /\ UNCHANGED fd /\ Sock' = reg /\ tx = "store" /\ tx' = "connect"
          /\ collided' = (collided \/ ~LockFree)
      BY <2>6 DEF StoreSock
    <3>2. rx \notin {"closing", "unset"}
      BY <3>1 DEF LockFree
    <3> QED
      BY <1>0, <2>0, <3>1, <3>2 DEF SocketInv, SocketsHeld, Open
  <2>7. CASE ConnectSucceeds
    <3>1. /\ UNCHANGED Sock /\ fd' = [fd EXCEPT ![Sock] = "up"] /\ fd[Sock] # "closed"
          /\ Sock \in Fd /\ tx = "connect" /\ tx' = "confirm"
      BY <2>7 DEF ConnectSucceeds, Open
    <3> QED
      BY <1>0, <2>0, <3>1 DEF SocketInv, SocketsHeld, Open
  <2>8. CASE SocketFails \/ ConnectFails \/ Confirm \/ MarkConnected \/ CheckSending
    <3>1. /\ UNCHANGED <<Sock, fd>> /\ tx # "store"
          /\ tx' \in {"wait", "close", "connected", "check", "send"}
      BY <2>8 DEF SocketFails, ConnectFails, Confirm, MarkConnected, CheckSending, linkVars
    <3> QED
      BY <1>0, <2>0, <3>1 DEF SocketInv, SocketsHeld, Open
  <2> QED
    BY <1>c, <2>1, <2>2, <2>3, <2>4, <2>5, <2>6, <2>7, <2>8 DEF ConnectStep
<1>1. CASE TakeRequest \/ SendFrame \/ Finish
  <2>1. /\ UNCHANGED <<Sock, fd, reg, rx, local_sock>> /\ tx # "store"
        /\ tx' = tx \/ tx' \in {"check", "close", "finish", "wait"}
    BY <1>1 DEF TakeRequest, SendFrame, Finish, linkVars, otherVars, rxVars
  <2> QED
    BY <1>0, <2>1 DEF SocketInv, SocketsHeld, Open
<1>2. CASE SendFails
  <2>1. /\ UNCHANGED <<Sock, reg, rx, local_sock>> /\ tx = "send" /\ tx' = "finish"
        /\ UNCHANGED fd \/ (Sock \in Fd /\ fd[Sock] # "closed" /\ fd' = [fd EXCEPT ![Sock] = "down"])
    BY <1>2 DEF SendFails, otherVars, rxVars, Silent
  <2> QED
    BY <1>0, <2>1 DEF SocketInv, SocketsHeld, Open
<1>s. CASE SocketStep
  <2>0. UNCHANGED <<tx, reg>>
    BY <1>s, SocketLeaves
  <2>1. CASE ReceiverTakesSock \/ RecvFails
    <3>1. UNCHANGED <<Sock, fd>> /\ rx' \in {"recv", "close"}
      BY <2>1 DEF ReceiverTakesSock, RecvFails
    <3> QED
      BY <1>0, <2>0, <3>1 DEF SocketInv, SocketsHeld, Open
  <2>2. CASE ReceiverTests
    <3>1. /\ UNCHANGED <<Sock, fd>>
          /\ \/ rx' = "closing" /\ UNCHANGED local_sock /\ Sock = local_sock /\ Sock # NoFd
             \/ rx' = "wait"
      BY <2>2 DEF ReceiverTests
    <3> QED
      BY <1>0, <2>0, <3>1 DEF SocketInv, SocketsHeld, Open
  <2>3. CASE ReceiverCloses
    <3>1. /\ UNCHANGED <<Sock, local_sock>> /\ fd' = [fd EXCEPT ![local_sock] = "closed"]
          /\ rx = "closing" /\ rx' = "unset"
      BY <2>3 DEF ReceiverCloses, Closed
    <3> QED
      BY <1>0, <2>0, <3>1 DEF SocketInv, SocketsHeld, Open
  <2>4. CASE ReceiverUnsets
    <3>1. UNCHANGED fd /\ Sock' = NoFd /\ rx = "unset" /\ rx' = "wait"
      BY <2>4 DEF ReceiverUnsets
    <3> QED
      BY <1>0, <2>0, <3>1 DEF SocketInv, SocketsHeld, Open
  <2>5. CASE ConnectionBreaks \/ SilenceEnds
    <3>1. UNCHANGED <<Sock, rx, local_sock>>
      BY <2>5 DEF ConnectionBreaks, SilenceEnds, networkSame, rxVars
    <3>2. PICK f \in Open, state \in {"down", "silent"} : fd' = [fd EXCEPT ![f] = state]
      BY <2>5 DEF ConnectionBreaks, SilenceEnds, Up, Silent, Open
    <3>3. f \in Fd /\ fd[f] # "closed" /\ state # "closed"
      BY DEF Open
    <3> QED
      BY <1>0, <2>0, <3>1, <3>2, <3>3 DEF SocketInv, SocketsHeld, Open
  <2> QED
    BY <1>s, <2>1, <2>2, <2>3, <2>4, <2>5 DEF SocketStep, ReceiverStep
<1>3. CASE BigStep \/ UNCHANGED vars
  <2>1. UNCHANGED <<Sock, fd, tx, reg, rx, local_sock>>
    BY <1>3, BigLeaves, VarsLeave
  <2> QED
    BY <2>1 DEF SocketInv, SocketsHeld, Open
<1> QED
  BY <1>c, <1>1, <1>2, <1>s, <1>3, Steps

(* No descriptor leaks, though both threads close the socket and the sender*)
(* does so without the lock, until the sender stores a new one between the *)
(* receiver's test and its Sock = -1: that race is the only way to a leak. *)
THEOREM SocketNotLeaked == Spec => []NoSocketLeak
<1> DEFINE I == TInv /\ (~collided => SocketInv)
<1>1. Init => I
  BY TypeInit, SocketInit
<1>2. I /\ [Next]_vars => I'
  BY TypeStep, HistoryStep, SocketInvStep
<1>3. I => NoSocketLeak
  BY DEF SocketInv, NoSocketLeak
<1> QED
  BY <1>1, <1>2, <1>3, PTL DEF Spec

-----------------------------------------------------------------------------
(* The answers, until a request has crossed a reconnection                 *)

LEMMA HomeInit == Init => HomeInv
<1> SUFFICES ASSUME Init PROVE HomeInv
  OBVIOUS
<1>1. Len(queue) = 0
  BY EmptySeq DEF Init
<1> QED
  BY <1>1 DEF Init, HomeInv, Snapshot, AnswersToMaker

LEMMA HomeStep ==
  ASSUME TInv, HomeInv, [Next]_vars, ~crossed'
  PROVE  HomeInv'
<1>0. TypeOK /\ Snapshot /\ AnswersToMaker
  BY DEF TInv, HomeInv
<1>1. CASE ConnectStep
  <2>1. /\ UNCHANGED <<data_type, p_bigdata_msg, is_sending, src_module>>
        /\ UNCHANGED <<current, queue>>
    BY <1>1, ConnectLeaves
  <2>2. tx # "wait"
    BY <1>1 DEF ConnectStep, CloseTest, CloseSocket, UnsetSock, MarkClosed, OpenSocket, StoreSock,
       SocketFails, ConnectSucceeds, ConnectFails, Confirm, MarkConnected, CheckSending
  <2> QED
    BY <1>0, <2>1, <2>2 DEF HomeInv, Snapshot, AnswersToMaker
<1>2. CASE SocketStep
  <2>1. /\ UNCHANGED <<data_type, p_bigdata_msg, is_sending, src_module>>
        /\ UNCHANGED <<tx, current, queue>>
    BY <1>2, SocketLeaves
  <2> QED
    BY <1>0, <2>1 DEF HomeInv, Snapshot, AnswersToMaker
<1>3. CASE TakeRequest
  <2>1. UNCHANGED <<queue, data_type, p_bigdata_msg, is_sending, src_module>>
    BY <1>3 DEF TakeRequest, sendVars
  <2>2. /\ tx = "wait"
        /\ \/ UNCHANGED <<tx, current>>
           \/ /\ current' = [big |-> data_type = "BIG", target |-> src_module, ok |-> FALSE]
              /\ data_type = "BIG" => p_bigdata_msg # NoBig
    BY <1>3 DEF TakeRequest
  <2>3. PICK big \in BOOLEAN : big <=> data_type = "BIG"
    OBVIOUS
  <2>4. tx' # "wait" => /\ current'.target = src_module /\ (current'.big <=> data_type = "BIG")
                        /\ data_type = "BIG" => p_bigdata_msg # NoBig
    <3>1. tx' # "wait" => /\ current' = [big |-> big, target |-> src_module, ok |-> FALSE]
                          /\ data_type = "BIG" => p_bigdata_msg # NoBig
      BY <2>2, <2>3
    <3> QED
      BY <2>3, <3>1
  <2>5. data_type = "BIG" /\ p_bigdata_msg # NoBig <=> is_sending
    BY <1>0, LinkAssumption DEF Snapshot, TInv
  <2>6. Snapshot'
    BY <1>0, <2>1, <2>4, <2>5 DEF Snapshot
  <2> QED
    BY <1>0, <2>1, <2>6 DEF HomeInv, AnswersToMaker
<1>4. CASE SendFrame \/ SendFails
  <2>1. /\ UNCHANGED <<queue, data_type, p_bigdata_msg, is_sending, src_module>>
        /\ tx = "send" /\ tx' = "finish"
    BY <1>4 DEF SendFrame, SendFails, sendVars
  <2>2. PICK ok \in BOOLEAN : current' = [current EXCEPT !.ok = ok]
    BY <1>4 DEF SendFrame, SendFails
  <2>3. current'.big = current.big /\ current'.target = current.target
    BY <1>0, <2>2 DEF TypeOK
  <2> QED
    BY <1>0, <2>1, <2>3 DEF HomeInv, Snapshot, AnswersToMaker
<1>5. CASE Finish
  <2>1. tx = "finish" /\ tx' = "wait" /\ is_sending' = FALSE
    BY <1>5 DEF Finish
  <2>2. current.big /\ is_sending /\ p_bigdata_msg \in Big
    BY <1>0, <2>1 DEF TInv, Snapshot
  <2>3. /\ Dispatch(current.target, p_bigdata_msg) /\ p_bigdata_msg' = NoBig
        /\ current.target = Requester[p_bigdata_msg]
    BY <1>0, <1>5, <2>1, <2>2 DEF Finish, Snapshot
  <2>4. current.target \in Module
    BY <2>2, <2>3, LinkAssumption DEF Module
  <2>5. \A k \in 1 .. Len(queue') :
          \/ k \in 1 .. Len(queue) /\ queue'[k] = queue[k]
          \/ queue'[k] = [dst |-> current.target, big |-> p_bigdata_msg]
    BY <1>0, <2>2, <2>3, <2>4, DispatchProperties
  <2>6. AnswersToMaker'
    BY <1>0, <2>3, <2>5 DEF AnswersToMaker
  <2>7. Snapshot'
    BY <2>1, <2>3 DEF Snapshot
  <2> QED
    BY <2>6, <2>7 DEF HomeInv
<1>6. CASE BigStep
  <2>1. UNCHANGED <<tx, current>>
    BY <1>6, BigLeaves
  <2>3. dlv.dst # "OTHER" => dlv.big \in Big
    BY <1>0 DEF TInv, Carries, TypeOK, Message
  <2>4. Snapshot'
    <3>1. CASE AcceptBig
      <4>1. /\ ~is_sending /\ data_type' = "BIG" /\ is_sending' = TRUE
            /\ p_bigdata_msg' = dlv.big /\ src_module' = Requester[dlv.big]
            /\ tx = "wait"
        BY <3>1 DEF AcceptBig
      <4> QED
        BY <1>0, <2>1, <4>1 DEF Snapshot
    <3>2. CASE ~AcceptBig
      <4>1. UNCHANGED <<data_type, p_bigdata_msg, is_sending, src_module>>
        BY <1>6, <3>2 DEF BigStep, DeliverStep, TakeMessage, AskResend, FreeBig, Resend, Request,
           OtherSends, sendVars
      <4> QED
        BY <1>0, <2>1, <4>1 DEF Snapshot
    <3> QED
      BY <3>1, <3>2
  <2>5. ASSUME NEW d \in Module, NEW b \in Big, Dispatch(d, b), d \in {"TCP_SEND", Requester[b]}
        PROVE  AnswersToMaker'
    <3>1. \A k \in 1 .. Len(queue') :
            \/ k \in 1 .. Len(queue) /\ queue'[k] = queue[k]
            \/ queue'[k] = [dst |-> d, big |-> b]
      BY <1>0, <2>5, DispatchProperties
    <3> QED
      BY <1>0, <2>5, <3>1 DEF AnswersToMaker
  <2>6. ASSUME TakeMessage PROVE AnswersToMaker'
    <3>1. \A k \in Places' : k + 1 \in Places /\ queue'[k] = queue[k + 1]
      BY <1>0, <2>6, TakeProperties
    <3> QED
      BY <1>0, <3>1 DEF AnswersToMaker, Places
  <2>7. ASSUME AcceptBig \/ FreeBig PROVE AnswersToMaker'
    <3>1. UNCHANGED queue
      BY <2>7 DEF AcceptBig, FreeBig
    <3> QED
      BY <1>0, <3>1 DEF AnswersToMaker
  <2>8. ASSUME AskResend PROVE AnswersToMaker'
    <3>1. Dispatch(Requester[dlv.big], dlv.big) /\ dlv.big \in Big
      BY <2>3, <2>8 DEF AskResend
    <3>2. Requester[dlv.big] \in Module
      BY <3>1, LinkAssumption DEF Module
    <3> QED
      BY ONLY <2>5, <3>1, <3>2, Zenon
  <2>9. ASSUME Resend PROVE AnswersToMaker'
    <3>1. Dispatch("TCP_SEND", dlv.big) /\ dlv.big \in Big
      BY <2>3, <2>9 DEF Resend
    <3>2. "TCP_SEND" \in Module
      BY DEF Module
    <3> QED
      BY ONLY <2>5, <3>1, <3>2, Zenon
  <2>10. ASSUME NEW b \in Big, Request(b)
         PROVE  AnswersToMaker'
    <3>1. CASE Dispatch("TCP_SEND", b)
      BY <2>5, <3>1 DEF Module
    <3>2. CASE UNCHANGED queue
      BY <1>0, <3>2 DEF AnswersToMaker
    <3> QED
      BY <2>10, <3>1, <3>2 DEF Request
  <2>11. ASSUME OtherSends PROVE AnswersToMaker'
    <3>1. \A k \in 1 .. Len(queue') :
            \/ k \in 1 .. Len(queue) /\ queue'[k] = queue[k]
            \/ queue'[k] = Idle
      BY <1>0, <2>11, OtherProperties
    <3> QED
      BY <1>0, <3>1 DEF AnswersToMaker, Idle
  <2>12. AnswersToMaker'
    BY <1>6, <2>6, <2>7, <2>8, <2>9, <2>10, <2>11 DEF BigStep, DeliverStep
  <2> QED
    BY <2>4, <2>12 DEF HomeInv
<1>7. CASE UNCHANGED vars
  BY <1>0, <1>7, VarsLeave DEF HomeInv, Snapshot, AnswersToMaker
<1> QED
  BY <1>1, <1>2, <1>3, <1>4, <1>5, <1>6, <1>7, Steps

(* However often the link fails, an answer is addressed to the module that *)
(* made the object, until a request is taken over while the sender is      *)
(* connecting again with nothing to send: that is the only way to a wrong  *)
(* answer.                                                                 *)
THEOREM AnswersGoToTheMaker == Spec => []AnswersGoHome
<1> DEFINE I == TInv /\ (~crossed => HomeInv)
<1>1. Init => I
  BY TypeInit, HomeInit
<1>2. I /\ [Next]_vars => I'
  BY TypeStep, HistoryStep, HomeStep
<1>3. I => AnswersGoHome
  BY DEF HomeInv, AnswersGoHome
<1> QED
  BY <1>1, <1>2, <1>3, PTL DEF Spec

-----------------------------------------------------------------------------
(* One holder                                                              *)

LEMMA HolderInit == Init => HolderInv
<1> SUFFICES ASSUME Init PROVE HolderInv
  OBVIOUS
<1>1. Len(queue) = 0
  BY EmptySeq DEF Init
<1> QED
  BY <1>1 DEF Init, HolderInv, Places, Idle

(* The one that sends b has it, or makes it, and does not keep it.         *)
LEMMA DispatchHolder ==
  ASSUME TypeOK, HolderInv, NEW d \in Module, NEW b \in Big, Dispatch(d, b),
         b \notin lost, mem'[b] = "live", \A c \in Big \ {b} : mem'[c] = mem[c],
         \A k \in Places : queue[k].big # b,
         dlv'.big \in {dlv.big, NoBig}, dlv'.big # b,
         is_sending' => is_sending /\ p_bigdata_msg' = p_bigdata_msg /\ p_bigdata_msg # b
  PROVE  HolderInv'
<1> DEFINE Useable1(c) == c \in Big /\ mem'[c] = "live" /\ c \notin lost'
           Sending1(c) == is_sending' /\ p_bigdata_msg' = c
<1>1. /\ Len(queue) \in Nat
      /\ \A k \in Places' :
           \/ k \in Places /\ queue'[k] = queue[k]
           \/ k = Len(queue) + 1 /\ queue'[k] = [dst |-> d, big |-> b] /\ lost' = lost
      /\ lost' = lost \/ (lost' = lost \cup {b} /\ queue' = queue)
  BY DispatchProperties DEF Places
<1>2. \A k \in Places' :
        \/ k \in Places /\ queue'[k].big = queue[k].big /\ queue[k].big # b
        \/ k = Len(queue) + 1 /\ queue'[k].big = b /\ lost' = lost
  BY <1>1
<1>3. \A c : Useable(c) /\ c # b => Useable1(c)
  BY <1>1 DEF Useable
<1>4. (lost' = lost => Useable1(b)) /\ ~Sending1(b) /\ b # NoBig
  BY LinkAssumption
<1>5. \A c : Sending1(c) => Sending(c)
  BY DEF Sending
<1>6. \A k, l \in Places' : queue'[k].big # NoBig /\ queue'[k].big = queue'[l].big => k = l
  BY <1>2 DEF HolderInv
<1>7. \A k \in Places' : queue'[k].big # NoBig =>
        Useable1(queue'[k].big) /\ queue'[k].big # dlv'.big /\ ~Sending1(queue'[k].big)
  <2> SUFFICES ASSUME NEW k \in Places', queue'[k].big # NoBig
               PROVE  /\ Useable1(queue'[k].big) /\ queue'[k].big # dlv'.big
                      /\ ~Sending1(queue'[k].big)
    OBVIOUS
  <2>1. CASE k \in Places /\ queue'[k].big = queue[k].big /\ queue[k].big # b
    <3>1. Useable(queue[k].big) /\ queue[k].big # dlv.big /\ ~Sending(queue[k].big)
      BY <2>1 DEF HolderInv
    <3> HIDE DEF Useable1, Sending1
    <3> QED
      BY <1>3, <1>5, <2>1, <3>1
  <2>2. CASE k = Len(queue) + 1 /\ queue'[k].big = b /\ lost' = lost
    <3> HIDE DEF Useable1, Sending1
    <3> QED
      BY <1>4, <2>2
  <2> QED
    BY <1>2, <2>1, <2>2
<1>8. dlv'.big # NoBig => Useable1(dlv'.big) /\ ~Sending1(dlv'.big)
  <2> HIDE DEF Useable1, Sending1
  <2> QED
    BY <1>3, <1>5 DEF HolderInv
<1>9. is_sending' => Useable1(p_bigdata_msg')
  <2> HIDE DEF Useable1, Sending1
  <2> QED
    BY <1>3 DEF HolderInv
<1>10. \A c \in lost' : mem'[c] # "none"
  BY <1>1 DEF HolderInv, TypeOK
<1> QED
  BY <1>6, <1>7, <1>8, <1>9, <1>10 DEF HolderInv, Useable, Sending

LEMMA HolderStep ==
  ASSUME TInv, HolderInv, [Next]_vars
  PROVE  HolderInv'
<1>0. TypeOK /\ dlv.big \in Big \cup {NoBig} /\ NoBig \notin Big
  BY LinkAssumption DEF TInv, TypeOK, Message
<1>i. Idle.big = NoBig
  BY DEF Idle
<1>1. CASE \/ TakeRequest \/ ConnectStep \/ SendFrame \/ SendFails \/ SocketStep
           \/ UNCHANGED vars
  <2>1. UNCHANGED <<p_bigdata_msg, is_sending, queue, dlv, mem, lost>>
    BY <1>1, ConnectLeaves, SocketLeaves, VarsLeave
       DEF TakeRequest, SendFrame, SendFails, sendVars, otherVars
  <2> QED
    BY <2>1 DEF HolderInv, Places, Useable, Sending
<1>2. CASE Finish
  <2>1. UNCHANGED <<dlv, mem>> /\ is_sending' = FALSE /\ is_sending
    BY <1>2 DEF Finish, otherVars, TInv
  <2>2. CASE ~current.big
    <3>1. UNCHANGED <<queue, lost>>
      BY <1>2, <2>2 DEF Finish
    <3> QED
      BY <2>1, <3>1 DEF HolderInv, Places, Useable, Sending
  <2>3. CASE current.big
    <3>1. Dispatch(current.target, p_bigdata_msg) /\ p_bigdata_msg \in Big
          /\ current.target \in Module
      BY <1>2, <2>3 DEF Finish, TInv, Maker, Module
    <3>2. p_bigdata_msg \notin lost /\ mem[p_bigdata_msg] = "live"
      BY <2>1 DEF HolderInv, Useable
    <3>3. /\ \A k \in Places : queue[k].big # p_bigdata_msg
          /\ dlv.big # p_bigdata_msg
      BY <1>0, <2>1, <3>1 DEF HolderInv, Sending
    <3> QED
      BY <1>0, <2>1, <3>1, <3>2, <3>3, DispatchHolder
  <2> QED
    BY <2>2, <2>3
<1>3. CASE TakeMessage
  <2>1. UNCHANGED <<p_bigdata_msg, is_sending, mem, lost>> /\ dlv.big = NoBig
    BY <1>i, <1>3 DEF TakeMessage, sendVars, bigVars
  <2>2. /\ 1 \in Places /\ dlv' = queue[1] /\ Len(queue) \in Nat
        /\ \A k \in Places' : k \in Nat /\ k + 1 \in Places /\ k + 1 # 1
                              /\ queue'[k] = queue[k + 1]
    BY <1>0, <1>3, TakeProperties
  <2>3. \A k, l \in Places' : queue'[k].big # NoBig /\ queue'[k].big = queue'[l].big => k = l
    <3> SUFFICES ASSUME NEW k \in Places', NEW l \in Places',
                        queue'[k].big # NoBig, queue'[k].big = queue'[l].big
                 PROVE  k = l
      OBVIOUS
    <3>1. k + 1 = l + 1
      BY <2>2 DEF HolderInv
    <3> QED
      BY <2>2, <3>1
  <2>4. \A k \in Places' : queue'[k].big # NoBig =>
          Useable(queue'[k].big) /\ queue'[k].big # dlv'.big /\ ~Sending(queue'[k].big)
    BY <2>2 DEF HolderInv
  <2>5. dlv'.big # NoBig => Useable(dlv'.big) /\ ~Sending(dlv'.big)
    BY <2>2 DEF HolderInv
  <2> QED
    BY <2>1, <2>3, <2>4, <2>5 DEF HolderInv, Useable, Sending
<1>4. CASE AcceptBig
  <2>1. /\ UNCHANGED <<queue, mem, lost>> /\ ~is_sending /\ is_sending' = TRUE
        /\ p_bigdata_msg' = dlv.big /\ dlv'.big = NoBig /\ dlv.dst = "TCP_SEND"
    BY <1>i, <1>4 DEF AcceptBig, bigVars
  <2>2. dlv.big # NoBig
    BY <2>1 DEF TInv, Carries
  <2> QED
    BY <2>1, <2>2 DEF HolderInv, Places, Useable, Sending
<1>5. CASE AskResend \/ Resend
  <2>1. PICK d \in Module : Dispatch(d, dlv.big)
    <3>1. dlv.dst # "OTHER"
      BY <1>5 DEF AskResend, Resend
    <3>2. dlv.big \in Big
      BY <1>0, <3>1 DEF TInv, Carries
    <3>3. Requester[dlv.big] \in Module /\ "TCP_SEND" \in Module
      BY <3>2, LinkAssumption DEF Module
    <3> QED
      BY <1>5, <3>3 DEF AskResend, Resend
  <2>2. /\ UNCHANGED <<p_bigdata_msg, is_sending, mem>> /\ dlv'.big = NoBig
        /\ dlv.big \in Big
    BY <1>0, <1>i, <1>5 DEF AskResend, Resend, sendVars, TInv, Carries
  <2>3. /\ dlv.big \notin lost /\ mem[dlv.big] = "live"
        /\ \A k \in Places : queue[k].big # dlv.big
        /\ is_sending => p_bigdata_msg # dlv.big
    BY <1>0, <2>2 DEF HolderInv, Useable, Sending
  <2> QED
    BY <1>0, <2>1, <2>2, <2>3, DispatchHolder
<1>6. CASE FreeBig
  <2>1. /\ UNCHANGED <<p_bigdata_msg, is_sending, queue, lost>> /\ dlv'.big = NoBig
        /\ mem' = [mem EXCEPT ![dlv.big] = "freed"] /\ dlv.big \in Big
    BY <1>0, <1>i, <1>6 DEF FreeBig, sendVars, TInv, Carries
  <2>2. /\ \A c \in Big : c # dlv.big => mem'[c] = mem[c]
        /\ mem'[dlv.big] = "freed" /\ lost \subseteq Big
    BY <1>0, <2>1 DEF TypeOK
  <2>4. \A k \in Places : queue[k].big # NoBig =>
          Useable(queue[k].big)' /\ ~Sending(queue[k].big)
    <3> SUFFICES ASSUME NEW k \in Places, queue[k].big # NoBig
                 PROVE  Useable(queue[k].big)' /\ ~Sending(queue[k].big)
      OBVIOUS
    <3>1. Useable(queue[k].big) /\ queue[k].big # dlv.big /\ ~Sending(queue[k].big)
      BY DEF HolderInv
    <3> QED
      BY <2>1, <2>2, <3>1 DEF Useable
  <2>5. is_sending => Useable(p_bigdata_msg)'
    <3>1. is_sending => Useable(p_bigdata_msg) /\ p_bigdata_msg # dlv.big
      BY <1>0, <2>1 DEF HolderInv, Sending
    <3> QED
      BY <2>1, <2>2, <3>1 DEF Useable
  <2>6. \A c \in lost : mem'[c] # "none"
    BY <2>2 DEF HolderInv
  <2> QED
    BY <2>1, <2>4, <2>5, <2>6 DEF HolderInv, Places, Useable, Sending
<1>7. ASSUME NEW b \in Big, Request(b)
      PROVE  HolderInv'
  <2>1. UNCHANGED <<p_bigdata_msg, is_sending, dlv>> /\ mem[b] = "none"
    BY <1>7 DEF Request, sendVars
  <2>2. ~Useable(b) /\ b \notin lost
    BY <2>1 DEF HolderInv, Useable
  <2>3. /\ \A k \in Places : queue[k].big # b
        /\ dlv.big # b /\ (is_sending => p_bigdata_msg # b)
    BY <1>0, <2>2 DEF HolderInv
  <2>4. CASE mem' = [mem EXCEPT ![b] = "freed"] /\ UNCHANGED <<queue, lost>>
    <3>1. (\A c \in Big : c # b => mem'[c] = mem[c]) /\ lost \subseteq Big
      BY <1>0, <2>4 DEF TypeOK
    <3>3. \A k \in Places : queue[k].big # NoBig => Useable(queue[k].big)'
      BY <2>2, <2>4, <3>1 DEF HolderInv, Useable
    <3>4. dlv.big # NoBig => Useable(dlv.big)'
      BY <2>1, <2>2, <2>4, <3>1 DEF HolderInv, Useable
    <3>5. is_sending => Useable(p_bigdata_msg)'
      BY <2>1, <2>2, <2>4, <3>1 DEF HolderInv, Useable
    <3>6. \A c \in lost : mem'[c] # "none"
      BY <2>2, <3>1 DEF HolderInv
    <3> QED
      BY <2>1, <2>4, <3>3, <3>4, <3>5, <3>6 DEF HolderInv, Places, Useable, Sending
  <2>5. CASE mem' = [mem EXCEPT ![b] = "live"] /\ Dispatch("TCP_SEND", b)
    <3>1. mem'[b] = "live" /\ \A c \in Big \ {b} : mem'[c] = mem[c]
      BY <1>0, <2>5 DEF TypeOK
    <3>2. "TCP_SEND" \in Module
      BY DEF Module
    <3> QED
      BY <1>0, <2>1, <2>2, <2>3, <2>5, <3>1, <3>2, DispatchHolder
  <2> QED
    BY <1>7, <2>4, <2>5 DEF Request
<1>8. CASE OtherSends
  <2>1. UNCHANGED <<p_bigdata_msg, is_sending, dlv, mem, lost>>
    BY <1>8 DEF OtherSends, sendVars, bigVars
  <2>2. \A k \in Places' : \/ k \in Places /\ queue'[k] = queue[k]
                           \/ queue'[k].big = NoBig
    BY <1>0, <1>i, <1>8, OtherProperties DEF Places
  <2> QED
    BY <2>1, <2>2 DEF HolderInv, Useable, Sending
<1> QED
  BY <1>1, <1>2, <1>3, <1>4, <1>5, <1>6, <1>7, <1>8, Steps DEF BigStep, DeliverStep

(* No two places hold an object, and none holds one that is freed or given *)
(* up: requests, answers and resends never free it under somebody.         *)
THEOREM AtMostOneHolder == Spec => []OneHolder
<1>1. Init => TInv /\ HolderInv
  BY TypeInit, HolderInit
<1>2. TInv /\ HolderInv /\ [Next]_vars => (TInv /\ HolderInv)'
  BY TypeStep, HolderStep
<1>3. HolderInv => OneHolder
  <2> SUFFICES ASSUME HolderInv, NEW b \in Big
               PROVE  Holders(b) <= IF mem[b] = "live" /\ b \notin lost THEN 1 ELSE 0
    BY DEF OneHolder
  <2> DEFINE S == {i \in 1 .. Len(queue) : queue[i].big = b}
  <2>0. b # NoBig
    BY LinkAssumption
  <2>1. CASE S = {}
    <3>1. Cardinality(S) = 0
      BY <2>1, FS_EmptySet
    <3>2. ~Useable(b) => dlv.big # b /\ ~(is_sending /\ p_bigdata_msg = b)
      BY <2>0 DEF HolderInv
    <3>3. ~(dlv.big = b /\ is_sending /\ p_bigdata_msg = b)
      BY <2>0 DEF HolderInv, Sending
    <3> QED
      BY <3>1, <3>2, <3>3 DEF Holders, Useable
  <2>2. CASE S # {}
    <3>1. PICK k \in Places : queue[k].big = b
      BY <2>2 DEF Places
    <3>2. S = {k}
      BY <2>0, <3>1 DEF HolderInv, Places
    <3>3. Cardinality(S) = 1
      BY <3>2, FS_Singleton
    <3>4. Useable(b) /\ dlv.big # b /\ ~(is_sending /\ p_bigdata_msg = b)
      BY <2>0, <3>1 DEF HolderInv, Sending
    <3> QED
      BY <3>3, <3>4 DEF Holders, Useable
  <2> QED
    BY <2>1, <2>2
<1> QED
  BY <1>1, <1>2, <1>3, PTL DEF Spec
=============================================================================
