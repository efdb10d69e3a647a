---------------------------- MODULE FrameStream ----------------------------
(***************************************************************************)
(* Frames on their way from the board to the screen of the host:           *)
(*   src/src/net/udp_send.c            handler, thread, fragments          *)
(*   src/src/net/tcp_send.c            the same for files, on a connection *)
(*   src/QT/Desktop/src/net            UdpReceiverWorker, TcpControlWorker:*)
(*                                     putting the fragments together      *)
(*   src/QT/Desktop/src/widget/VideoPage.cpp  pauses the UDP receiver      *)
(*                                                                         *)
(* A behaviour uses one transport.  Over UDP datagrams are lost, doubled   *)
(* and overtaken; over TCP they arrive in order until the connection       *)
(* breaks.  Frames are numbered in the order the camera (or, over TCP, the *)
(* module that sends a file) makes them.  A fragment is named after the    *)
(* frame that was in the buffer when it was sent and its place in it; a    *)
(* datagram whose header fails its check counts as lost.  Empty frames are *)
(* left out: a picture has data, an empty file is refused.                 *)
(***************************************************************************)
EXTENDS Integers, Sequences, FiniteSets

CONSTANTS Frames,      \* how many frames are made
          PkgCnt,      \* fragments of each
          IdMod,       \* 2^32, the range of frame_id
          Kept,        \* 3: incomplete frames that are left alone
          NetCap,      \* datagrams on their way at a time
          Window,      \* how far a datagram may be overtaken, over UDP
          Transport,   \* "UDP", "TCP" or both
          MaxFaults,   \* losses, duplicates, breaks, restarts and pauses
          MayRestart   \* transports during which the board may restart

ASSUME StreamAssumption ==
  /\ Frames \in Nat
  /\ PkgCnt \in [1 .. Frames -> Nat \ {0}]
  /\ IdMod \in Nat /\ IdMod > Frames
  /\ Kept \in Nat \ {0}
  /\ NetCap \in Nat \ {0} /\ Window \in Nat \ {0}
  /\ MayRestart \subseteq Transport /\ Transport \subseteq {"UDP", "TCP"}
  /\ MaxFaults \in Nat

VARIABLES
  transport,
  made,                      \* the last frame made
  current_frame_id, is_sending, send_buf,   \* udp_send_buffer, tcp_data_buffer
  tx, frame_len, i,          \* the thread: the frame whose length it has
                             \* read, the fragment it sends next
  link,                      \* the connection of the board: "up", "broken"
                             \* without its knowing, or "down"; always "up"
                             \* over UDP
  net,
  m_socket,                  \* the host has a connection, or a bound socket
  m_frameBuffer,             \* frame_id -> (pkg_id -> data)
  m_lastCompleteFrameId,
  screen,                    \* what the host has dispatched last
  faults,
  shown,                     \* ghost: frames dispatched whole so far
  damaged,                   \* ghost: frames some part of which got lost
  overtaken                  \* ghost: has a datagram been overtaken?

sendVars  == <<current_frame_id, is_sending, send_buf, tx, frame_len, i>>
hostVars  == <<m_frameBuffer, m_lastCompleteFrameId, screen, shown>>
linkVars  == <<link, m_socket>>
ghostVars == <<damaged, overtaken>>
vars == <<transport, made, sendVars, linkVars, net, hostVars, faults, ghostVars>>

Id       == 0 .. IdMod - 1
Data     == [frame : 1 .. Frames, pkg : Nat]
NoData   == [frame |-> 0, pkg |-> 0]
Datagram == [frame_id : Id, pkg_cnt : Nat, pkg_id : Nat, data : Data]

TypeOK ==
  /\ transport \in Transport
  /\ made \in 0 .. Frames
  /\ current_frame_id \in Id /\ is_sending \in BOOLEAN
  /\ send_buf \in 0 .. Frames /\ frame_len \in 0 .. Frames
  /\ tx \in {"wait", "send"}
  /\ i \in Nat /\ (frame_len # 0 => i <= PkgCnt[frame_len])
  /\ link \in {"up", "broken", "down"} /\ m_socket \in BOOLEAN
  /\ net \in Seq(Datagram) /\ Len(net) <= NetCap + 1
  /\ DOMAIN m_frameBuffer \subseteq Id
  /\ \A id \in DOMAIN m_frameBuffer :
       \A p \in DOMAIN m_frameBuffer[id] : m_frameBuffer[id][p] \in Data
  /\ m_lastCompleteFrameId \in Id
  /\ screen \in Seq(Data \cup {NoData})
  /\ faults \in 0 .. MaxFaults
  /\ shown \subseteq 1 .. Frames /\ damaged \subseteq 1 .. Frames
  /\ overtaken \in BOOLEAN

(* Both ends are up, nothing has been sent.                                *)
Init ==
  /\ transport \in Transport
  /\ made = 0
  /\ current_frame_id = 0 /\ is_sending = FALSE
  /\ send_buf = 0 /\ frame_len = 0
  /\ tx = "wait" /\ i = 0
  /\ link = "up" /\ m_socket = TRUE
  /\ net = <<>>
  /\ m_frameBuffer = <<>>
  /\ m_lastCompleteFrameId = 0
  /\ screen = <<>>
  /\ faults = 0
  /\ shown = {} /\ damaged = {} /\ overtaken = FALSE

-----------------------------------------------------------------------------
(* The board                                                               *)

boardSame == <<transport, linkVars, hostVars, faults, overtaken>>

(* Mutant: is_sending is not looked at.                                    *)
BufferFreeAlways == TRUE

BufferFree == ~is_sending

(* udp_msg_handler, tcp_send_msg_handler: a frame is copied if the last one*)
(* has been sent.  Otherwise a picture is dropped; a file is asked for     *)
(* again later, as a new frame, see TcpLink.                               *)
HandleFrame ==
  /\ made < Frames
  /\ made' = made + 1
  /\ IF BufferFree
       THEN send_buf' = made + 1 /\ is_sending' = TRUE
       ELSE UNCHANGED <<send_buf, is_sending>>
  /\ UNCHANGED <<current_frame_id, tx, frame_len, i, net, damaged, boardSame>>

(* The thread leaves its wait, over TCP when it believes in the connection.*)
TakeFrame ==
  /\ tx = "wait"
  /\ is_sending
  /\ link # "down"
  /\ tx' = "send"
  /\ frame_len' = send_buf
  /\ i' = 0
  /\ UNCHANGED <<made, current_frame_id, is_sending, send_buf, net, damaged,
                 boardSame>>

(* Mutant: one fragment too many.                                          *)
MoreFragmentsOffByOne == i <= PkgCnt[frame_len]

MoreFragments == i < PkgCnt[frame_len]

Fragment == [frame_id |-> current_frame_id, pkg_cnt |-> PkgCnt[frame_len],
             pkg_id |-> i, data |-> [frame |-> send_buf, pkg |-> i]]

(* Udp_Send_Frame, Tcp_Send_Frame: the next fragment.                      *)
SendFragment ==
  /\ tx = "send"
  /\ MoreFragments
  /\ link = "up"
  /\ Len(net) < NetCap
  /\ net' = Append(net, Fragment)
  /\ i' = i + 1
  /\ UNCHANGED <<made, current_frame_id, is_sending, send_buf, tx, frame_len,
                 damaged, boardSame>>

(* What is written to a broken connection may seem to be sent, ...         *)
SendIntoVoid ==
  /\ tx = "send"
  /\ MoreFragments
  /\ link = "broken"
  /\ damaged' = damaged \cup {frame_len}
  /\ i' = i + 1
  /\ UNCHANGED <<made, current_frame_id, is_sending, send_buf, tx, frame_len,
                 net, boardSame>>

(* ... or send() fails, the file is given up and the id is kept.           *)
SendFails ==
  /\ tx = "send"
  /\ MoreFragments
  /\ link # "up"
  /\ damaged' = damaged \cup {frame_len}
  /\ is_sending' = FALSE
  /\ tx' = "wait"
  /\ link' = "down"
  /\ UNCHANGED <<transport, made, current_frame_id, send_buf, frame_len, i, net,
                 m_socket, hostVars, faults, overtaken>>

NextFrameId == (current_frame_id + 1) % IdMod

(* The whole frame is sent: next id, and the buffer is free again.         *)
FinishFrame ==
  /\ tx = "send"
  /\ ~MoreFragments
  /\ current_frame_id' = NextFrameId
  /\ is_sending' = FALSE
  /\ tx' = "wait"
  /\ UNCHANGED <<made, send_buf, frame_len, i, net, damaged, boardSame>>

-----------------------------------------------------------------------------
(* The host                                                                *)

hostSame == <<transport, made, sendVars, linkVars, faults>>

(* A QMap without the keys K, with value v at key k.                       *)
Without(f, K) == [k \in DOMAIN f \ K |-> f[k]]
With(f, k, v) == [x \in DOMAIN f \cup {k} |-> IF x = k THEN v ELSE f[x]]

(* Mutant: nothing is ever removed.                                        *)
ExpiredNone(id) == {}

(* cleanExpiredFrames: id < currentFrameId - 3, an unsigned subtraction.   *)
Expired(id) ==
  IF Cardinality(DOMAIN m_frameBuffer) <= Kept THEN {}
    ELSE {k \in DOMAIN m_frameBuffer : k < (id - Kept) % IdMod}

(* m_frameBuffer[id] after a fragment has been put into it.                *)
Packets(d) ==
  LET kept == Without(m_frameBuffer, Expired(d.frame_id))
  IN  With(IF d.frame_id \in DOMAIN kept THEN kept[d.frame_id] ELSE <<>>,
           d.pkg_id, d.data)

(* The fragments in the order of their numbers; value(i) of one that is    *)
(* missing is empty.                                                       *)
Assembled(p, n) ==
  [k \in 1 .. n |-> IF k - 1 \in DOMAIN p THEN p[k - 1] ELSE NoData]

Whole(s) ==
  /\ s # <<>> /\ s[1].frame # 0
  /\ s = [k \in 1 .. PkgCnt[s[1].frame] |->
            [frame |-> s[1].frame, pkg |-> k - 1]]

Dispatch(s, id) ==
  /\ screen' = s
  /\ m_lastCompleteFrameId' = id
  /\ shown' = IF Whole(s) THEN shown \cup {s[1].frame} ELSE shown

TooOld(id) == m_lastCompleteFrameId > 0 /\ id < m_lastCompleteFrameId

(* onReadyRead, processBuffer: one datagram.                               *)
Receive(d) ==
  IF TooOld(d.frame_id)
    THEN UNCHANGED hostVars
    ELSE LET kept == Without(m_frameBuffer, Expired(d.frame_id))
             p    == Packets(d)
         IN  IF d.pkg_cnt <= 1
               THEN /\ Dispatch(<<d.data>>, d.frame_id)
                    /\ m_frameBuffer' = kept
               ELSE IF Cardinality(DOMAIN p) = d.pkg_cnt
                 THEN /\ Dispatch(Assembled(p, d.pkg_cnt), d.frame_id)
                      /\ m_frameBuffer' = Without(kept, {d.frame_id})
                 ELSE /\ m_frameBuffer' = With(kept, d.frame_id, p)
                      /\ UNCHANGED <<screen, m_lastCompleteFrameId, shown>>

Deliver ==
  /\ m_socket
  /\ \E k \in 1 .. Len(net) :
       /\ transport = "TCP" => k = 1
       /\ k <= Window
       /\ Receive(net[k])
       /\ net' = SubSeq(net, 1, k - 1) \o SubSeq(net, k + 1, Len(net))
       /\ overtaken' = (overtaken \/ k > 1)
  /\ UNCHANGED <<hostSame, damaged>>

-----------------------------------------------------------------------------
(* The network and its faults                                              *)

FramesOf(s) == {s[k].data.frame : k \in 1 .. Len(s)}

Fault == faults < MaxFaults /\ faults' = faults + 1

Lose ==
  /\ transport = "UDP"
  /\ Fault
  /\ \E k \in 1 .. Len(net) :
       /\ net' = SubSeq(net, 1, k - 1) \o SubSeq(net, k + 1, Len(net))
       /\ damaged' = damaged \cup {net[k].data.frame}
  /\ UNCHANGED <<transport, made, sendVars, linkVars, hostVars, overtaken>>

Duplicate ==
  /\ transport = "UDP"
  /\ Fault
  /\ Len(net) <= NetCap
  /\ \E k \in 1 .. Len(net) : net' = SubSeq(net, 1, k) \o SubSeq(net, k, Len(net))
  /\ UNCHANGED <<transport, made, sendVars, linkVars, hostVars, ghostVars>>

(* A connection breaks.  Some of what is on its way still arrives.         *)
Break ==
  /\ transport = "TCP"
  /\ link = "up"
  /\ Fault
  /\ link' = "broken"
  /\ \E k \in 0 .. Len(net) :
       /\ net' = SubSeq(net, 1, k)
       /\ damaged' = damaged \cup FramesOf(SubSeq(net, k + 1, Len(net)))
  /\ UNCHANGED <<transport, made, sendVars, m_socket, hostVars, overtaken>>

(* The receiver thread of the board notices.                               *)
BoardNotices ==
  /\ link = "broken"
  /\ link' = "down"
  /\ UNCHANGED <<transport, made, sendVars, net, m_socket, hostVars, faults,
                 ghostVars>>

PartlyReceived ==
  UNION {{m_frameBuffer[id][p].frame : p \in DOMAIN m_frameBuffer[id]} :
           id \in DOMAIN m_frameBuffer}

hostForgets ==
  /\ m_socket
  /\ m_socket' = FALSE
  /\ m_frameBuffer' = <<>>
  /\ UNCHANGED <<transport, made, sendVars, link, m_lastCompleteFrameId, screen,
                 shown, overtaken>>

(* onDisconnected: what was on its way has been read or is lost.           *)
onDisconnected ==
  /\ transport = "TCP"
  /\ link # "up"
  /\ hostForgets
  /\ net' = <<>>
  /\ damaged' = damaged \cup FramesOf(net) \cup PartlyReceived
  /\ UNCHANGED faults


ForgetId == m_lastCompleteFrameId' = 0

(* The sender connects again and the host accepts: onNewConnection.  It    *)
(* refuses while it still has the old connection.                          *)
onNewConnection ==
  /\ transport = "TCP"
  /\ tx = "wait"
  /\ link = "down" /\ ~m_socket
  /\ link' = "up" /\ m_socket' = TRUE
  /\ m_frameBuffer' = <<>>
  /\ ForgetId
  /\ UNCHANGED <<transport, made, sendVars, net, screen, shown, faults,
                 ghostVars>>

(* The video page is left: closeSocket ...                                 *)
closeSocket ==
  /\ transport = "UDP"
  /\ Fault
  /\ hostForgets
  /\ damaged' = damaged \cup PartlyReceived
  /\ UNCHANGED net

(* ... nobody listens ...                                                  *)
NobodyListens ==
  /\ transport = "UDP"
  /\ ~m_socket
  /\ net # <<>>
  /\ net' = Tail(net)
  /\ damaged' = damaged \cup {Head(net).data.frame}
  /\ UNCHANGED <<hostSame, hostVars, overtaken>>

(* ... and shown again: initSocket.                                        *)
initSocket ==
  /\ transport = "UDP"
  /\ ~m_socket
  /\ m_socket' = TRUE
  /\ UNCHANGED <<transport, made, sendVars, link, net, hostVars, faults,
                 ghostVars>>

(* The board program starts again, Udp_Init and Tcp_Init: frames are       *)
(* counted from 0.                                                         *)
BoardRestarts ==
  /\ transport \in MayRestart
  /\ Fault
  /\ current_frame_id' = 0 /\ is_sending' = FALSE
  /\ send_buf' = 0 /\ frame_len' = 0
  /\ tx' = "wait" /\ i' = 0
  /\ damaged' = damaged \cup
        (IF is_sending THEN {send_buf} \cup ({frame_len} \ {0}) ELSE {})
  /\ link' = IF transport = "TCP" THEN "down" ELSE link
  /\ UNCHANGED <<transport, made, m_socket, net, hostVars, overtaken>>

Sender == TakeFrame \/ SendFragment \/ SendIntoVoid \/ SendFails \/ FinishFrame

Host == Deliver \/ NobodyListens \/ onDisconnected

Next ==
  \/ HandleFrame \/ Sender \/ BoardNotices \/ onNewConnection
  \/ Host \/ closeSocket \/ initSocket
  \/ Lose \/ Duplicate \/ Break \/ BoardRestarts

Spec == Init /\ [][Next]_vars

(* The sender is scheduled and reconnects; what is on its way arrives or is*)
(* lost; the host runs.                                                    *)
Fairness ==
  /\ WF_vars(Sender) /\ WF_vars(BoardNotices) /\ WF_vars(onNewConnection)
  /\ WF_vars(Host)

FairSpec == Spec /\ Fairness

-----------------------------------------------------------------------------
(* Properties                                                              *)

Torn == -1

(* The frame on the screen.                                                *)
Shown == IF screen = <<>> THEN 0
         ELSE IF Whole(screen) THEN screen[1].frame ELSE Torn

Display == INSTANCE FrameDisplay WITH latest <- made, screen <- Shown

(* The host shows only whole frames, never a mixture of two or a frame with*)
(* a hole, and never goes back, whatever the network and the buffer of the *)
(* sender do.                                                              *)
ImplementsDisplay == Display!Spec


(* UdpReceiverWorker.cpp:97, "丢弃积压的过期帧": what the host throws away   *)
(* unfinished is older than something it has kept or shown.                *)
OnlyExpiredDropped ==
  [][m_socket /\ m_socket' =>
       \A id \in DOMAIN m_frameBuffer \ DOMAIN m_frameBuffer' :
         \/ id = m_lastCompleteFrameId'
         \/ \E later \in DOMAIN m_frameBuffer' \cup {m_lastCompleteFrameId'} :
              id < later]_vars

(* The host keeps the fragments of four frames at most, whatever is lost,  *)
(* unless a datagram is overtaken.                                         *)
FewPending == ~overtaken => Cardinality(DOMAIN m_frameBuffer) <= Kept + 1
=============================================================================
