------------------------------ MODULE TcpLink ------------------------------
(***************************************************************************)
(* The TCP connection to the host and the large answers it carries:        *)
(*   src/src/net/tcp_send.c    opens and re-opens the connection, sends one*)
(*                             BIGDATA message at a time                   *)
(*   src/src/net/tcp_recv.c    reads from the same socket and closes it    *)
(*                             when it breaks                              *)
(*   src/src/json/json_about.c, src/src/log/log.c, src/src/command         *)
(*                             make the messages and free them once the    *)
(*                             sender has answered DONE or ERROR, or send  *)
(*                             them again on RESEND.                       *)
(*                                                                         *)
(* link.lock protects Sock and connected for the receiver; the sender opens*)
(* and closes the socket without it.  A section under the lock is one step *)
(* where it touches nothing the other side touches without it: so all but  *)
(* the one in which the receiver closes the socket, which keeps the lock   *)
(* for several.  What the receiver does with a command is in module        *)
(* CommandFlow.                                                            *)
(* Nobody sends a MSG_TYPE_IMAGE message to TCP_SEND, so its case in the   *)
(* handler is left out; the program runs throughout.                       *)
(***************************************************************************)
EXTENDS Naturals, Sequences, FiniteSets

CONSTANTS Big,            \* the BigData_Msg_t objects of a behaviour
          Requester,      \* who makes each: "COMMAND" or "LOGGER"
          NoBig,
          Fd,             \* file descriptors socket() may return
          NoFd,           \* -1
          MaxDrops,       \* how often the host, the network or socket() fails
          QueueCap

ASSUME LinkAssumption ==
  /\ Requester \in [Big -> {"COMMAND", "LOGGER"}]
  /\ NoBig \notin Big /\ NoFd \notin Fd
  /\ Fd # {}
  /\ MaxDrops \in Nat
  /\ QueueCap \in Nat \ {0}

VARIABLES
  Sock, connected,  \* tcp_data_buffer.link
  fd,               \* each descriptor: "closed", "up", "down" or "silent":
                    \* the host has vanished without a word
  drops,            \* failures so far
  data_type, p_bigdata_msg, is_sending, src_module,  \* tcp_data_buffer
  tx,               \* tcp_send_thread
  current,          \* its current_data_type and target_module
  reg,              \* the descriptor it is about to close or to store
  after,            \* where it goes on after Tcp_Close_Socket
  rx, local_sock,   \* tcp_recv_thread
  queue,
  dlv,              \* the message the delivery thread handles
  mem,              \* each object: "none", "live" or "freed"
  status,           \* its status field
  lost,             \* ghost: nobody will ever free these
  error,            \* ghost: undefined behaviour the process has met
  collided,         \* history: the sender has stored a new socket while the
                    \* receiver was closing the old one
  crossed           \* history: a request was taken over while the sender was
                    \* connecting again with nothing to send

linkVars  == <<Sock, connected, fd, drops>>
sendVars  == <<data_type, p_bigdata_msg, is_sending, src_module>>
txVars    == <<tx, current, reg, after>>
rxVars    == <<rx, local_sock>>
bigVars   == <<mem, status, lost>>
history   == <<collided, crossed>>
vars == <<linkVars, sendVars, txVars, rxVars, queue, dlv, bigVars, error,
          history>>

Up      == {f \in Fd : fd[f] = "up"}
Silent  == {f \in Fd : fd[f] = "silent"}
Open    == {f \in Fd : fd[f] # "closed"}
Module  == {"COMMAND", "LOGGER", "TCP_SEND"}
Message == [dst : Module \cup {"OTHER"}, big : Big \cup {NoBig}]
Idle    == [dst |-> "OTHER", big |-> NoBig]

TypeOK ==
  /\ Sock \in Fd \cup {NoFd} /\ connected \in BOOLEAN
  /\ fd \in [Fd -> {"closed", "up", "down", "silent"}]
  /\ drops \in 0 .. MaxDrops
  /\ data_type \in {"NORMAL", "BIG"}
  /\ p_bigdata_msg \in Big \cup {NoBig}
  /\ is_sending \in BOOLEAN
  /\ src_module \in Module \cup {"MAX"}
  /\ tx \in {"wait", "close", "closing", "unset", "mark", "socket", "store",
             "connect", "confirm", "connected", "check", "send", "finish"}
  /\ current \in [big : BOOLEAN, target : Module \cup {"MAX"}, ok : BOOLEAN]
  /\ reg \in Fd \cup {NoFd} /\ after \in {"socket", "wait"}
  /\ rx \in {"wait", "recv", "close", "closing", "unset"}
  /\ local_sock \in Fd \cup {NoFd}
  /\ queue \in Seq(Message) /\ Len(queue) <= QueueCap
  /\ dlv \in Message
  /\ mem \in [Big -> {"none", "live", "freed"}]
  /\ status \in [Big -> {"SEND", "RESEND", "DONE", "FILE_DELIVER_ERROR"}]
  /\ lost \subseteq Big
  /\ error \in {"none", "null pointer", "double free"}
  /\ collided \in BOOLEAN /\ crossed \in BOOLEAN

(* After Tcp_Init, which has connected or not, and Tcp_Shared_Post_Link.   *)
Init ==
  /\ connected \in BOOLEAN
  /\ Sock \in IF connected THEN Fd ELSE {NoFd}
  /\ fd = [f \in Fd |-> IF f = Sock THEN "up" ELSE "closed"]
  /\ drops = 0
  /\ data_type = "NORMAL"
  /\ p_bigdata_msg = NoBig
  /\ is_sending = FALSE
  /\ src_module = "MAX"
  /\ tx = "wait"
  /\ current = [big |-> FALSE, target |-> "MAX", ok |-> FALSE]
  /\ reg = NoFd /\ after = "wait"
  /\ rx = "wait"
  /\ local_sock = NoFd
  /\ queue = <<>>
  /\ dlv = Idle
  /\ mem = [b \in Big |-> "none"]
  /\ status = [b \in Big |-> "SEND"]
  /\ lost = {}
  /\ error = "none"
  /\ collided = FALSE /\ crossed = FALSE

(* link.lock is the receiver's while it closes the socket.                 *)
LockFree == rx \notin {"closing", "unset"}

-----------------------------------------------------------------------------
(* The message queue: a message for dst that carries object b.  The release*)
(* handlers of these modules do nothing, so an object whose message is     *)
(* refused stays allocated.                                                *)

HasRoomOffByOne == Len(queue) <= QueueCap   \* mutant

HasRoom == Len(queue) < QueueCap

Dispatch(dst, b) ==
  IF HasRoom
    THEN queue' = Append(queue, [dst |-> dst, big |-> b]) /\ UNCHANGED lost
    ELSE lost' = lost \cup {b} /\ UNCHANGED queue

OtherSends ==
  /\ HasRoom
  /\ queue' = Append(queue, Idle)
  /\ UNCHANGED <<linkVars, sendVars, txVars, rxVars, dlv, bigVars, error,
                 history>>

(* json_send_response and export_logs_on_demand.  When the queue is full   *)
(* the first frees the object, the second does not look at the result.     *)
Request(b) ==
  /\ mem[b] = "none"
  /\ IF ~HasRoom /\ Requester[b] = "COMMAND"
       THEN mem' = [mem EXCEPT ![b] = "freed"] /\ UNCHANGED <<queue, lost>>
       ELSE mem' = [mem EXCEPT ![b] = "live"] /\ Dispatch("TCP_SEND", b)
  /\ UNCHANGED <<linkVars, sendVars, txVars, rxVars, dlv, status, error,
                 history>>

-----------------------------------------------------------------------------
(* tcp_send_thread                                                         *)

otherVars == <<rxVars, dlv, mem, crossed>>

(* There is something to send, or five seconds have passed and the link is *)
(* down.  The lock is held while the request is copied; a BIG request is   *)
(* read through p_bigdata_msg.                                             *)
TakeRequest ==
  /\ tx = "wait" /\ LockFree
  /\ is_sending \/ ~connected
  /\ IF data_type = "BIG" /\ p_bigdata_msg = NoBig
       THEN error' = "null pointer" /\ UNCHANGED <<tx, current, after>>
       ELSE /\ current' = [big    |-> data_type = "BIG",
                           target |-> src_module, ok |-> FALSE]
            /\ tx' = IF connected THEN "check" ELSE "close"
            /\ after' = IF connected THEN after ELSE "socket"
            /\ UNCHANGED error
  /\ UNCHANGED <<linkVars, sendVars, reg, otherVars, queue, status, lost,
                 collided>>

(* What the steps on the connection leave alone.                           *)
connectSame == <<sendVars, current, otherVars, queue, status, lost, error>>

(* Tcp_Close_Socket, without the lock, before a connection is tried and    *)
(* after one has failed.  Sock is tested ...                               *)
CloseTest ==
  /\ tx = "close"
  /\ reg' = Sock
  /\ tx' = IF Sock = NoFd THEN "mark" ELSE "closing"
  /\ UNCHANGED <<linkVars, after, collided, connectSame>>

ClosedNot(f) == fd   \* mutant: no close()

Closed(f) == [fd EXCEPT ![f] = "closed"]

(* ... closed, which does nothing if the receiver has done it ...          *)
CloseSocket ==
  /\ tx = "closing"
  /\ fd' = Closed(reg)
  /\ tx' = "unset"
  /\ UNCHANGED <<Sock, connected, drops, reg, after, collided, connectSame>>

(* ... set to -1 ...                                                       *)
UnsetSock ==
  /\ tx = "unset"
  /\ Sock' = NoFd
  /\ tx' = "mark"
  /\ UNCHANGED <<connected, fd, drops, reg, after, collided, connectSame>>

(* ... and the link marked.                                                *)
MarkClosed ==
  /\ tx = "mark"
  /\ connected' = FALSE
  /\ reg' = NoFd
  /\ tx' = after
  /\ UNCHANGED <<Sock, fd, drops, after, collided, connectSame>>

(* socket() ...                                                            *)
OpenSocket ==
  /\ tx = "socket"
  /\ \E f \in Fd \ Open : reg' = f /\ fd' = [fd EXCEPT ![f] = "down"]
  /\ tx' = "store"
  /\ UNCHANGED <<Sock, connected, drops, after, collided, connectSame>>

(* ... whose descriptor is stored in Sock ...                              *)
StoreSock ==
  /\ tx = "store"
  /\ Sock' = reg
  /\ reg' = NoFd
  /\ tx' = "connect"
  /\ collided' = (collided \/ ~LockFree)
  /\ UNCHANGED <<connected, fd, drops, after, connectSame>>

(* ... or there is none: Sock is -1 already.                               *)
SocketFails ==
  /\ tx = "socket"
  /\ \/ Open = Fd /\ UNCHANGED drops
     \/ drops < MaxDrops /\ drops' = drops + 1
  /\ tx' = "wait"
  /\ UNCHANGED <<Sock, connected, fd, reg, after, collided, connectSame>>

(* connect() and the checks around it, through link.Sock, succeed ...      *)
ConnectSucceeds ==
  /\ tx = "connect"
  /\ Sock \in Open
  /\ fd' = [fd EXCEPT ![Sock] = "up"]
  /\ tx' = "confirm"
  /\ UNCHANGED <<Sock, connected, drops, reg, after, collided, connectSame>>

(* ... or the host is not there, or the receiver has closed the socket.    *)
ConnectFails ==
  /\ tx = "connect"
  /\ \/ Sock \notin Open /\ UNCHANGED drops
     \/ drops < MaxDrops /\ drops' = drops + 1
  /\ tx' = "close"
  /\ after' = "wait"
  /\ UNCHANGED <<Sock, connected, fd, reg, collided, connectSame>>

(* The last fcntl().                                                       *)
Confirm ==
  /\ tx = "confirm"
  /\ IF Sock \in Open THEN tx' = "connected" /\ UNCHANGED after
                      ELSE tx' = "close" /\ after' = "wait"
  /\ UNCHANGED <<linkVars, reg, collided, connectSame>>

MarkConnected ==
  /\ tx = "connected" /\ LockFree
  /\ connected' = TRUE
  /\ tx' = "check"
  /\ UNCHANGED <<Sock, fd, drops, reg, after, collided, connectSame>>

(* Without the lock: nothing to send, it was the five seconds.             *)
CheckSending ==
  /\ tx = "check"
  /\ tx' = IF is_sending THEN "send" ELSE "wait"
  /\ UNCHANGED <<linkVars, reg, after, collided, connectSame>>

(* Tcp_Send_Frame, through link.Sock as it is now.  A normal request is    *)
(* empty, since no image ever comes: nothing is sent and all is well.  What*)
(* is written to a connection that has just broken, or whose host is not   *)
(* there any more, may seem to be sent ...                                 *)
SendFrame ==
  /\ tx = "send"
  /\ current.big => Sock \in Open
  /\ current' = [current EXCEPT !.ok = TRUE]
  /\ tx' = "finish"
  /\ UNCHANGED <<linkVars, sendVars, reg, after, otherVars, queue, status,
                 lost, error, collided>>

(* ... and if not, the link is marked under the lock.  The host that has   *)
(* vanished is then known to be gone.                                      *)
SendFails ==
  /\ tx = "send" /\ LockFree
  /\ current.big
  /\ Sock \notin Up
  /\ fd' = IF Sock \in Silent THEN [fd EXCEPT ![Sock] = "down"] ELSE fd
  /\ connected' = FALSE
  /\ current' = [current EXCEPT !.ok = FALSE]
  /\ tx' = "finish"
  /\ UNCHANGED <<Sock, drops, sendVars, reg, after, otherVars, queue, status,
                 lost, error, collided>>

(* Mutant: after a failure the object is answered and kept for a retry.    *)
FinishRetries ==
  /\ tx = "finish" /\ LockFree
  /\ current.big
  /\ status' = [status EXCEPT ![p_bigdata_msg] =
                   IF current.ok THEN "DONE" ELSE "FILE_DELIVER_ERROR"]
  /\ Dispatch(current.target, p_bigdata_msg)
  /\ p_bigdata_msg' = IF current.ok THEN NoBig ELSE p_bigdata_msg
  /\ is_sending' = ~current.ok
  /\ tx' = "wait"
  /\ UNCHANGED <<linkVars, data_type, src_module, current, reg, after,
                 otherVars, error, collided>>

(* Under the lock: the answer to the module that asked, by its snapshot.   *)
Finish ==
  /\ tx = "finish" /\ LockFree
  /\ IF current.big
       THEN /\ status' = [status EXCEPT ![p_bigdata_msg] =
                            IF current.ok THEN "DONE" ELSE "FILE_DELIVER_ERROR"]
            /\ Dispatch(current.target, p_bigdata_msg)
            /\ p_bigdata_msg' = NoBig
       ELSE UNCHANGED <<status, queue, lost, p_bigdata_msg>>
  /\ is_sending' = FALSE
  /\ tx' = "wait"
  /\ UNCHANGED <<linkVars, data_type, src_module, current, reg, after,
                 otherVars, error, collided>>

-----------------------------------------------------------------------------
(* tcp_recv_thread                                                         *)

receiverSame == <<drops, sendVars, txVars, queue, dlv, bigVars, error,
                  history>>

(* Under the lock: wait for the connection, take its socket, which may be  *)
(* -1 after the two threads have collided.                                 *)
ReceiverTakesSock ==
  /\ rx = "wait"
  /\ connected
  /\ local_sock' = Sock
  /\ rx' = "recv"
  /\ UNCHANGED <<Sock, connected, fd, receiverSame>>

(* recv returns 0 or fails.  A host that has vanished only makes it time   *)
(* out, and it is called again.                                            *)
RecvFails ==
  /\ rx = "recv"
  /\ local_sock \notin Up \cup Silent
  /\ rx' = "close"
  /\ UNCHANGED <<Sock, connected, fd, local_sock, receiverSame>>

(* Mutant: the socket is left to the sender and the link is not marked.    *)
ReceiverLeavesSock ==
  /\ rx = "close"
  /\ rx' = "wait"
  /\ local_sock' = NoFd
  /\ UNCHANGED <<Sock, connected, fd, receiverSame>>

(* Takes the lock: is the socket still the one of the link? ...            *)
ReceiverTests ==
  /\ rx = "close"
  /\ IF Sock = local_sock /\ local_sock # NoFd
       THEN rx' = "closing" /\ UNCHANGED <<connected, local_sock>>
       ELSE /\ rx' = "wait"
            /\ local_sock' = NoFd
            /\ connected' = (connected /\ Sock # local_sock)
  /\ UNCHANGED <<Sock, fd, receiverSame>>

(* ... then it is closed ...                                               *)
ReceiverCloses ==
  /\ rx = "closing"
  /\ fd' = Closed(local_sock)
  /\ rx' = "unset"
  /\ UNCHANGED <<Sock, connected, local_sock, receiverSame>>

(* ... and set to -1, whatever the sender has stored meanwhile; the lock is*)
(* released.  Nobody reads connected before that.                          *)
ReceiverUnsets ==
  /\ rx = "unset"
  /\ Sock' = NoFd
  /\ connected' = FALSE
  /\ rx' = "wait"
  /\ local_sock' = NoFd
  /\ UNCHANGED <<fd, receiverSame>>

-----------------------------------------------------------------------------
(* The host and the network                                                *)

networkSame == <<Sock, connected, sendVars, txVars, rxVars, queue, dlv,
                 bigVars, error, history>>

(* The host goes away, sends what the receiver gives the connection up for,*)
(* or vanishes.                                                            *)
ConnectionBreaks ==
  /\ drops < MaxDrops
  /\ \E f \in Up : \E state \in {"down", "silent"} :
       fd' = [fd EXCEPT ![f] = state]
  /\ drops' = drops + 1
  /\ UNCHANGED networkSame

(* A host that has vanished is back and knows nothing of the connection, or*)
(* what was sent to it stays unanswered for too long; or neither, ever.    *)
SilenceEnds ==
  /\ \E f \in Silent : fd' = [fd EXCEPT ![f] = "down"]
  /\ UNCHANGED <<drops, networkSame>>

-----------------------------------------------------------------------------
(* The delivery thread                                                     *)

handlerSame == <<linkVars, txVars, rxVars, collided>>

TakeMessage ==
  /\ dlv = Idle
  /\ queue # <<>>
  /\ dlv' = Head(queue)
  /\ queue' = Tail(queue)
  /\ UNCHANGED <<handlerSame, crossed, sendVars, bigVars, error>>

(* Mutant: src_module is not set.                                         *)
AcceptBigAnonymous ==
  /\ dlv.dst = "TCP_SEND" /\ LockFree
  /\ ~is_sending
  /\ data_type' = "BIG"
  /\ p_bigdata_msg' = dlv.big
  /\ is_sending' = TRUE
  /\ crossed' = (crossed \/ tx # "wait")
  /\ dlv' = Idle
  /\ UNCHANGED <<handlerSame, queue, src_module, bigVars, error>>

(* tcp_send_msg_handler: take the object if nothing is being sent ...      *)
AcceptBig ==
  /\ dlv.dst = "TCP_SEND" /\ LockFree
  /\ ~is_sending
  /\ data_type' = "BIG"
  /\ p_bigdata_msg' = dlv.big
  /\ is_sending' = TRUE
  /\ src_module' = Requester[dlv.big]
  /\ crossed' = (crossed \/ tx # "wait")
  /\ dlv' = Idle
  /\ UNCHANGED <<handlerSame, queue, bigVars, error>>

(* ... or ask for it to be sent again.                                     *)
AskResend ==
  /\ dlv.dst = "TCP_SEND" /\ LockFree
  /\ is_sending
  /\ status' = [status EXCEPT ![dlv.big] = "RESEND"]
  /\ Dispatch(Requester[dlv.big], dlv.big)
  /\ dlv' = Idle
  /\ UNCHANGED <<handlerSame, crossed, sendVars, mem, error>>

(* command_msg_handler and logger_msg_handler: free the object ...         *)
FreeBig ==
  /\ dlv.dst \in {"COMMAND", "LOGGER"}
  /\ status[dlv.big] \in {"DONE", "FILE_DELIVER_ERROR"}
  /\ mem' = [mem EXCEPT ![dlv.big] = "freed"]
  /\ error' = IF mem[dlv.big] = "freed" THEN "double free" ELSE error
  /\ dlv' = Idle
  /\ UNCHANGED <<handlerSame, crossed, sendVars, queue, status, lost>>

(* Mutant: RESEND is not handled.                                          *)
ResendIgnored ==
  /\ dlv.dst \in {"COMMAND", "LOGGER"}
  /\ status[dlv.big] = "RESEND"
  /\ dlv' = Idle
  /\ UNCHANGED <<handlerSame, crossed, sendVars, queue, bigVars, error>>

(* ... or send it again.                                                   *)
Resend ==
  /\ dlv.dst \in {"COMMAND", "LOGGER"}
  /\ status[dlv.big] = "RESEND"
  /\ Dispatch("TCP_SEND", dlv.big)
  /\ dlv' = Idle
  /\ UNCHANGED <<handlerSame, crossed, sendVars, mem, status, error>>

SenderStep ==
  \/ TakeRequest \/ CloseTest \/ CloseSocket \/ UnsetSock \/ MarkClosed
  \/ OpenSocket \/ StoreSock \/ SocketFails \/ ConnectSucceeds \/ ConnectFails
  \/ Confirm \/ MarkConnected \/ CheckSending \/ SendFrame \/ SendFails
  \/ Finish

ReceiverStep ==
  \/ ReceiverTakesSock \/ RecvFails \/ ReceiverTests \/ ReceiverCloses
  \/ ReceiverUnsets

DeliverStep == TakeMessage \/ AcceptBig \/ AskResend \/ FreeBig \/ Resend

Step ==
  \/ SenderStep \/ ReceiverStep \/ DeliverStep
  \/ \E b \in Big : Request(b)
  \/ OtherSends \/ ConnectionBreaks \/ SilenceEnds

Next == error = "none" /\ Step

Spec == Init /\ [][Next]_vars

(* The three threads are scheduled.  The host fails MaxDrops times at most *)
(* and answers otherwise.                                                  *)
Fairness ==
  /\ WF_vars(error = "none" /\ SenderStep)
  /\ WF_vars(error = "none" /\ ReceiverStep)
  /\ WF_vars(error = "none" /\ DeliverStep)

FairSpec == Spec /\ Fairness

-----------------------------------------------------------------------------
(* Properties                                                              *)

(* The places that hold an object and will still do something with it.     *)
Holders(b) ==
  Cardinality({i \in 1 .. Len(queue) : queue[i].big = b})
  + (IF dlv.big = b THEN 1 ELSE 0)
  + (IF is_sending /\ p_bigdata_msg = b THEN 1 ELSE 0)

(* An object never has two holders, one of which could free it under the   *)
(* other, and one that has been freed or given up has none: neither        *)
(* requests, answers and resends in any order nor a full queue break it.   *)
OneHolder ==
  \A b \in Big : Holders(b) <= IF mem[b] = "live" /\ b \notin lost THEN 1 ELSE 0

(* An answer goes to the module that made the object, the only one that    *)
(* knows how to free it.  This is what tcp_send.c:322 says.                *)
AnswersToMaker ==
  \A i \in 1 .. Len(queue) :
    queue[i].big # NoBig =>
      queue[i].dst \in {"TCP_SEND", Requester[queue[i].big]}

(* It is so however often the link fails, until a request comes while the  *)
(* sender is connecting again with nothing to send.                        *)
AnswersGoHome == ~crossed => AnswersToMaker

(* A descriptor that is open is the one of the link, or about to be.       *)
SocketsHeld ==
  \A f \in Open : f = Sock \/ (tx = "store" /\ f = reg)

(* None leaks, whoever of the two threads closes it, until the sender      *)
(* stores a new one while the receiver closes the old.                     *)
NoSocketLeak == ~collided => SocketsHeld

(* The sender does not read a request through a null pointer.              *)
NoNullRequest == error # "null pointer"

(* Every object is answered, and freed, whatever else is being sent, unless*)
(* the queue was full when one of its messages was due.                    *)
EveryBigAnswered ==
  \A b \in Big : mem[b] = "live" ~> (mem[b] = "freed" \/ b \in lost \/ error # "none")

(* The same, unless it came while the sender was connecting again.         *)
AnsweredUnlessCrossed ==
  \A b \in Big : mem[b] = "live" ~>
    (mem[b] = "freed" \/ b \in lost \/ crossed \/ error # "none")

(* Once the host stops failing, the link comes up again and stays up, and  *)
(* the receiver reads from the socket the sender writes to: two threads    *)
(* that close and reopen one socket agree in the end, also after they have *)
(* collided.  Unless the host has vanished without a word: without         *)
(* keepalive nobody notices as long as nothing is sent.                    *)
LinkRecovers ==
  <>[](\/ error # "none"
       \/ /\ connected /\ Sock \in Up \cup Silent
          /\ rx = "recv" /\ local_sock = Sock)
=============================================================================
