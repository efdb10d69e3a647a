-------------------------- MODULE FrameStreamProof --------------------------
(***************************************************************************)
(* Proofs about FrameStream for every number and size of frames, every     *)
(* number of fragments under way, of faults, and of places by which a      *)
(* datagram is overtaken.                                                  *)
(*                                                                         *)
(* A frame has no name on its way but its id, which the sender counts      *)
(* separately from the buffer it copies from, and which starts again with  *)
(* the board.  The argument is about the pairs of an id and a frame that   *)
(* are on their way or with the host (Under): such pairs have the same     *)
(* order on both sides (Ordered), and what the sender is about to send is  *)
(* newer than all of them (Coming).                                        *)
(***************************************************************************)
EXTENDS FrameStream, SequenceTheorems, FiniteSetTheorems, TLAPS

(* A fragment of frame f is on its way, or with the host, under id.        *)
Arriving(id, f) ==
  \E k \in 1 .. Len(net) : net[k].frame_id = id /\ net[k].data.frame = f
Pending(id, f) ==
  /\ id \in DOMAIN m_frameBuffer
  /\ \E p \in DOMAIN m_frameBuffer[id] : m_frameBuffer[id][p].frame = f
Under(id, f) == Arriving(id, f) \/ Pending(id, f)

(* The sender between taking a frame over and being done with it.  The id  *)
(* does not overflow: frames are counted faster.                           *)
Sending ==
  /\ send_buf <= made
  /\ is_sending => send_buf # 0
  /\ tx = "send" => is_sending /\ frame_len = send_buf
  /\ current_frame_id + (IF is_sending THEN 1 ELSE 0) <= made
  /\ transport = "UDP" => link = "up"

(* A connection the host has closed carries nothing any more.              *)
Closed == transport = "TCP" /\ ~m_socket => net = <<>> /\ link # "up"

TInv == TypeOK /\ Sending /\ Closed

(* A fragment says of itself what it is.                                   *)
Genuine ==
  /\ \A k \in 1 .. Len(net) :
       /\ net[k].pkg_cnt = PkgCnt[net[k].data.frame]
       /\ net[k].pkg_id = net[k].data.pkg
       /\ net[k].pkg_id < net[k].pkg_cnt
  /\ \A id \in DOMAIN m_frameBuffer : \A p \in DOMAIN m_frameBuffer[id] :
       /\ m_frameBuffer[id][p].pkg = p
       /\ p < PkgCnt[m_frameBuffer[id][p].frame]

Ordered ==
  \A a, b \in Id : \A f, g \in 1 .. Frames :
    Under(a, f) /\ Under(b, g) => (a < b => f < g) /\ (a = b => f = g)

Coming ==
  \A id \in Id : \A f \in 1 .. Frames :
    Under(id, f) =>
      /\ f <= made
      /\ is_sending => f <= send_buf
      /\ is_sending /\ tx = "wait" => f < send_buf
      /\ link = "up" =>
           /\ id <= current_frame_id
           /\ id = current_frame_id => tx = "send" /\ f = send_buf
           /\ id < current_frame_id /\ tx = "send" => f < send_buf

(* What the host still accepts is not older than what it shows.            *)
Newer ==
  /\ Shown \in 0 .. made
  /\ is_sending => Shown <= send_buf
  /\ is_sending /\ tx = "wait" => Shown < send_buf
  /\ \A id \in Id : \A f \in 1 .. Frames :
       Under(id, f) /\ id >= m_lastCompleteFrameId => f >= Shown

WInv == Genuine /\ Ordered /\ Coming /\ Newer

(* Unless they are overtaken, ids arrive in order.                         *)
InSequence ==
  /\ \A k, l \in 1 .. Len(net) : k < l => net[k].frame_id <= net[l].frame_id
  /\ \A id \in DOMAIN m_frameBuffer :
       /\ \A k \in 1 .. Len(net) : id <= net[k].frame_id
       /\ link = "up" => id <= current_frame_id

SInv == ~overtaken => InSequence /\ Cardinality(DOMAIN m_frameBuffer) <= Kept + 1

-----------------------------------------------------------------------------
(* Sequences                                                               *)

LEMMA PartIs ==
  ASSUME NEW T, NEW s \in Seq(T), NEW a \in 1 .. Len(s) + 1, NEW b \in 0 .. Len(s),
         a <= b + 1
  PROVE  /\ SubSeq(s, a, b) \in Seq(T) /\ Len(SubSeq(s, a, b)) = b - a + 1
         /\ \A j \in 1 .. b - a + 1 : SubSeq(s, a, b)[j] = s[a + j - 1]
<1>1. Len(s) \in Nat /\ a \in Int /\ b \in Int
  BY LenProperties
<1>2. \A j \in a .. b : s[j] \in T
  <2> TAKE j \in a .. b
  <2>1. j \in 1 .. Len(s)
    BY <1>1
  <2> QED
    BY <2>1, ElementOfSeq
<1>3. /\ SubSeq(s, a, b) \in Seq(T)
      /\ Len(SubSeq(s, a, b)) = IF a <= b THEN b - a + 1 ELSE 0
      /\ \A j \in 1 .. b - a + 1 : SubSeq(s, a, b)[j] = s[a + j - 1]
  BY <1>1, <1>2, SubSeqProperties
<1> QED
  BY <1>1, <1>3

(* A datagram leaves the network from any place.                           *)
LEMMA RemovedIs ==
  ASSUME NEW T, NEW s \in Seq(T), NEW k \in 1 .. Len(s), NEW t,
         t = SubSeq(s, 1, k - 1) \o SubSeq(s, k + 1, Len(s))
  PROVE  /\ t \in Seq(T) /\ Len(s) \in Nat /\ Len(t) = Len(s) - 1
         /\ \A j \in 1 .. Len(s) - 1 : t[j] = IF j < k THEN s[j] ELSE s[j + 1]
<1> DEFINE a == SubSeq(s, 1, k - 1)
           b == SubSeq(s, k + 1, Len(s))
<1>1. Len(s) \in Nat /\ k \in Nat
  BY LenProperties
<1>2. /\ a \in Seq(T) /\ Len(a) = k - 1
      /\ \A j \in 1 .. k - 1 : a[j] = s[j]
  <2>1. /\ SubSeq(s, 1, k - 1) \in Seq(T) /\ Len(SubSeq(s, 1, k - 1)) = (k - 1) - 1 + 1
        /\ \A j \in 1 .. (k - 1) - 1 + 1 : SubSeq(s, 1, k - 1)[j] = s[1 + j - 1]
    BY <1>1, PartIs
  <2> QED
    BY <1>1, <2>1
<1>3. /\ b \in Seq(T) /\ Len(b) = Len(s) - k
      /\ \A j \in 1 .. Len(s) - k : b[j] = s[k + j]
  <2>1. /\ SubSeq(s, k + 1, Len(s)) \in Seq(T)
        /\ Len(SubSeq(s, k + 1, Len(s))) = Len(s) - (k + 1) + 1
        /\ \A j \in 1 .. Len(s) - (k + 1) + 1 :
             SubSeq(s, k + 1, Len(s))[j] = s[(k + 1) + j - 1]
    BY <1>1, PartIs
  <2> QED
    BY <1>1, <2>1
<1> HIDE DEF a, b
<1>4. /\ a \o b \in Seq(T) /\ Len(a \o b) = Len(a) + Len(b)
      /\ \A j \in 1 .. Len(a) + Len(b) :
           (a \o b)[j] = IF j <= Len(a) THEN a[j] ELSE b[j - Len(a)]
  BY ONLY <1>2, <1>3, ConcatProperties, Zenon
<1>5. t = a \o b
  BY DEF a, b
<1>6. \A j \in 1 .. Len(s) - 1 : (a \o b)[j] = IF j < k THEN s[j] ELSE s[j + 1]
  <2> SUFFICES ASSUME NEW j \in 1 .. Len(s) - 1
               PROVE  (a \o b)[j] = IF j < k THEN s[j] ELSE s[j + 1]
    OBVIOUS
  <2>1. (a \o b)[j] = IF j <= k - 1 THEN a[j] ELSE b[j - (k - 1)]
    BY ONLY <1>1, <1>2, <1>3, <1>4
  <2>2. CASE j < k
    <3>1. j \in 1 .. k - 1
      BY ONLY <1>1, <2>2
    <3> QED
      BY ONLY <1>1, <1>2, <2>1, <2>2, <3>1
  <2>3. CASE j >= k
    <3>1. j - (k - 1) \in 1 .. Len(s) - k /\ k + (j - (k - 1)) = j + 1
      BY ONLY <1>1, <2>3
    <3> QED
      BY ONLY <1>1, <1>3, <2>1, <2>3, <3>1
  <2>4. j < k \/ j >= k
    BY <1>1
  <2> QED
    BY ONLY <2>2, <2>3, <2>4, Zenon
<1>7. Len(a) + Len(b) = Len(s) - 1
  BY ONLY <1>1, <1>2, <1>3
<1> QED
  BY ONLY <1>1, <1>4, <1>5, <1>6, <1>7

(* A copy follows its datagram.                                            *)
LEMMA DuplicateIs ==
  ASSUME NEW T, NEW s \in Seq(T), NEW k \in 1 .. Len(s), NEW t,
         t = SubSeq(s, 1, k) \o SubSeq(s, k, Len(s))
  PROVE  /\ t \in Seq(T) /\ Len(s) \in Nat /\ Len(t) = Len(s) + 1
         /\ \A j \in 1 .. Len(s) + 1 : t[j] = IF j <= k THEN s[j] ELSE s[j - 1]
<1> DEFINE a == SubSeq(s, 1, k)
           b == SubSeq(s, k, Len(s))
<1>1. Len(s) \in Nat /\ k \in Nat
  BY LenProperties
<1>2. /\ a \in Seq(T) /\ Len(a) = k
      /\ \A j \in 1 .. k : a[j] = s[j]
  <2>1. /\ SubSeq(s, 1, k) \in Seq(T) /\ Len(SubSeq(s, 1, k)) = k - 1 + 1
        /\ \A j \in 1 .. k - 1 + 1 : SubSeq(s, 1, k)[j] = s[1 + j - 1]
    BY <1>1, PartIs
  <2> QED
    BY <1>1, <2>1
<1>3. /\ b \in Seq(T) /\ Len(b) = Len(s) - k + 1
      /\ \A j \in 1 .. Len(s) - k + 1 : b[j] = s[k + j - 1]
  BY <1>1, PartIs
<1> HIDE DEF a, b
<1>4. /\ a \o b \in Seq(T) /\ Len(a \o b) = Len(a) + Len(b)
      /\ \A j \in 1 .. Len(a) + Len(b) :
           (a \o b)[j] = IF j <= Len(a) THEN a[j] ELSE b[j - Len(a)]
  BY ONLY <1>2, <1>3, ConcatProperties, Zenon
<1>5. t = a \o b
  BY DEF a, b
<1>6. ASSUME NEW j \in 1 .. Len(s) + 1 PROVE t[j] = IF j <= k THEN s[j] ELSE s[j - 1]
  <2>1. CASE j <= k
    BY <1>1, <1>2, <1>3, <1>4, <1>5, <2>1
  <2>2. CASE j > k
    <3>1. j - k \in 1 .. Len(s) - k + 1 /\ k + (j - k) - 1 = j - 1
      BY <1>1, <2>2
    <3> QED
      BY <1>1, <1>2, <1>3, <1>4, <1>5, <2>2, <3>1
  <2> QED
    BY <1>1, <2>1, <2>2
<1> QED
  BY <1>1, <1>2, <1>3, <1>4, <1>5, <1>6

LEMMA AppendIs ==
  ASSUME NEW T, NEW s \in Seq(T), NEW x \in T
  PROVE  /\ Append(s, x) \in Seq(T) /\ Len(Append(s, x)) = Len(s) + 1 /\ Len(s) \in Nat
         /\ \A j \in 1 .. Len(s) : Append(s, x)[j] = s[j]
         /\ Append(s, x)[Len(s) + 1] = x
BY LenProperties, AppendProperties

-----------------------------------------------------------------------------
(* Type correctness                                                        *)

BoardTypes ==
  /\ made \in 0 .. Frames
  /\ current_frame_id \in Id /\ is_sending \in BOOLEAN
  /\ send_buf \in 0 .. Frames /\ frame_len \in 0 .. Frames
  /\ tx \in {"wait", "send"}
  /\ i \in Nat /\ (frame_len # 0 => i <= PkgCnt[frame_len])
LinkTypes ==
  /\ transport \in Transport
  /\ link \in {"up", "broken", "down"} /\ m_socket \in BOOLEAN
  /\ faults \in 0 .. MaxFaults
  /\ overtaken \in BOOLEAN
NetTypes == net \in Seq(Datagram) /\ Len(net) <= NetCap + 1
HostTypes ==
  /\ DOMAIN m_frameBuffer \subseteq Id
  /\ \A id \in DOMAIN m_frameBuffer :
       \A p \in DOMAIN m_frameBuffer[id] : m_frameBuffer[id][p] \in Data
  /\ m_lastCompleteFrameId \in Id
  /\ screen \in Seq(Data \cup {NoData})
  /\ shown \subseteq 1 .. Frames
DamageTypes == damaged \subseteq 1 .. Frames

LEMMA TypeParts ==
  /\ TypeOK <=> BoardTypes /\ LinkTypes /\ NetTypes /\ HostTypes /\ DamageTypes
  /\ TypeOK' <=> BoardTypes' /\ LinkTypes' /\ NetTypes' /\ HostTypes' /\ DamageTypes'
BY DEF TypeOK, BoardTypes, LinkTypes, NetTypes, HostTypes, DamageTypes

LEMMA TypeInit == Init => TInv
<1> SUFFICES ASSUME Init PROVE TInv
  OBVIOUS
<1>1. net \in Seq(Datagram) /\ Len(net) = 0 /\ screen \in Seq(Data \cup {NoData})
  BY EmptySeq DEF Init
<1>2. DOMAIN m_frameBuffer = {}
  BY DEF Init
<1>3. 0 \in Id
  BY StreamAssumption DEF Id
<1>4. BoardTypes
  <2>1. /\ made = 0 /\ current_frame_id = 0 /\ is_sending = FALSE
        /\ send_buf = 0 /\ frame_len = 0 /\ tx = "wait" /\ i = 0
    BY DEF Init
  <2>2. 0 \in 0 .. Frames
    BY StreamAssumption
  <2> QED
    BY ONLY <1>3, <2>1, <2>2 DEF BoardTypes
<1>l. LinkTypes
  <2>1. 0 \in 0 .. MaxFaults
    BY StreamAssumption
  <2>2. /\ transport \in Transport /\ link = "up" /\ m_socket = TRUE
        /\ faults = 0 /\ overtaken = FALSE
    BY DEF Init
  <2> QED
    BY ONLY <2>1, <2>2, Zenon DEF LinkTypes
<1>5. NetTypes
  BY <1>1, StreamAssumption DEF Init, NetTypes
<1>6. HostTypes /\ DamageTypes
  BY <1>1, <1>2, <1>3 DEF Init, HostTypes, DamageTypes
<1>7. Sending /\ Closed
  BY DEF Init, Sending, Closed
<1> QED
  BY <1>4, <1>l, <1>5, <1>6, <1>7, TypeParts DEF TInv

(* Who leaves the sender alone, and the links.                             *)
HostStep ==
  Deliver \/ NobodyListens \/ onDisconnected \/ onNewConnection \/ BoardNotices
    \/ closeSocket \/ initSocket \/ Lose \/ Duplicate \/ Break

LEMMA HostLeaves == HostStep \/ UNCHANGED vars => UNCHANGED <<made, sendVars>>
BY DEF HostStep, Deliver, NobodyListens, onDisconnected, onNewConnection, BoardNotices,
   closeSocket, initSocket, Lose, Duplicate, Break, hostForgets, hostSame, vars, sendVars

LEMMA Steps ==
  Next <=> \/ HandleFrame \/ TakeFrame \/ SendFragment \/ SendIntoVoid \/ SendFails
           \/ FinishFrame \/ BoardRestarts \/ HostStep
BY DEF Next, Sender, Host, HostStep

(* The id does not wrap.                                                   *)
LEMMA NextIdIs ==
  ASSUME TInv, is_sending
  PROVE  /\ NextFrameId = current_frame_id + 1 /\ NextFrameId \in Id
         /\ current_frame_id + 1 <= made
<1>1. /\ current_frame_id \in Nat /\ made \in Nat /\ made <= Frames /\ Frames \in Nat
      /\ IdMod \in Nat /\ IdMod > Frames /\ current_frame_id + 1 <= made
  BY StreamAssumption DEF TInv, TypeOK, Sending, Id
<1>2. \A n, m \in Nat : n < m => n % m = n
  OBVIOUS
<1>3. (current_frame_id + 1) % IdMod = current_frame_id + 1
  BY <1>1, <1>2
<1> QED
  BY <1>1, <1>3 DEF NextFrameId, Id

LEMMA SenderStep ==
  ASSUME TInv, [Next]_vars
  PROVE  BoardTypes' /\ Sending'
<1>0. /\ BoardTypes /\ LinkTypes /\ Sending
      /\ Frames \in Nat /\ \A f \in 1 .. Frames : PkgCnt[f] \in Nat \ {0}
      /\ Transport \subseteq {"UDP", "TCP"} /\ 0 \in Id
      /\ current_frame_id \in Nat /\ made \in Nat
      /\ 0 \in 0 .. Frames
  BY TypeParts, StreamAssumption DEF TInv, BoardTypes, Id
<1>t. transport' = transport
  BY DEF Next, Sender, Host, HandleFrame, TakeFrame, SendFragment, SendIntoVoid,
     SendFails, FinishFrame, boardSame, Deliver, NobodyListens, onDisconnected, hostSame,
     onNewConnection, BoardNotices, closeSocket, initSocket, hostForgets, Lose, Duplicate,
     Break, BoardRestarts, vars
<1>1. CASE HandleFrame
  <2>1. /\ UNCHANGED <<current_frame_id, tx, frame_len, i, link>>
        /\ made' = made + 1 /\ made < Frames
        /\ \/ ~is_sending /\ send_buf' = made + 1 /\ is_sending' = TRUE
           \/ is_sending /\ UNCHANGED <<send_buf, is_sending>>
    BY <1>1 DEF HandleFrame, BufferFree, boardSame, linkVars
  <2>2. BoardTypes'
    <3>1. made' \in 0 .. Frames
      BY ONLY <1>0, <2>1 DEF BoardTypes
    <3>2. send_buf' \in 0 .. Frames
      BY ONLY <1>0, <2>1, <3>1 DEF BoardTypes
    <3>3. is_sending' \in BOOLEAN
      BY ONLY <1>0, <2>1, Zenon DEF BoardTypes
    <3> QED
      BY ONLY <1>0, <2>1, <3>1, <3>2, <3>3 DEF BoardTypes
  <2> QED
    BY <1>0, <1>t, <2>1, <2>2 DEF Sending, BoardTypes
<1>2. CASE TakeFrame
  <2>1. /\ UNCHANGED <<made, current_frame_id, is_sending, send_buf, link>>
        /\ is_sending /\ tx' = "send" /\ frame_len' = send_buf /\ i' = 0
    BY <1>2 DEF TakeFrame, boardSame, linkVars
  <2>2. PkgCnt[send_buf] \in Nat
    BY <1>0, <2>1 DEF Sending, BoardTypes
  <2> QED
    BY <1>0, <1>t, <2>1, <2>2 DEF Sending, BoardTypes
<1>3. CASE SendFragment \/ SendIntoVoid
  <2>1. /\ UNCHANGED <<made, current_frame_id, is_sending, send_buf, tx, frame_len, link>>
        /\ i < PkgCnt[frame_len] /\ i' = i + 1 /\ tx = "send"
    BY <1>3 DEF SendFragment, SendIntoVoid, MoreFragments, boardSame, linkVars
  <2>2. PkgCnt[frame_len] \in Nat
    BY <1>0, <2>1 DEF Sending, BoardTypes
  <2> QED
    BY <1>0, <1>t, <2>1, <2>2 DEF Sending, BoardTypes
<1>4. CASE SendFails
  <2>1. /\ UNCHANGED <<made, current_frame_id, send_buf, frame_len, i>>
        /\ is_sending' = FALSE /\ tx' = "wait" /\ link # "up"
    BY <1>4 DEF SendFails
  <2>2. BoardTypes'
    BY <1>0, <2>1 DEF BoardTypes
  <2> QED
    BY <1>0, <1>t, <2>1, <2>2 DEF Sending
<1>5. CASE FinishFrame
  <2>1. /\ UNCHANGED <<made, send_buf, frame_len, i, link>> /\ tx = "send"
        /\ is_sending' = FALSE /\ tx' = "wait" /\ current_frame_id' = NextFrameId
    BY <1>5 DEF FinishFrame, boardSame, linkVars
  <2>2. /\ NextFrameId = current_frame_id + 1 /\ NextFrameId \in Id
        /\ current_frame_id + 1 <= made
    BY <1>0, <2>1, NextIdIs DEF Sending
  <2>3. BoardTypes'
    BY <1>0, <2>1, <2>2 DEF BoardTypes
  <2> QED
    BY <1>0, <1>t, <2>1, <2>2, <2>3 DEF Sending
<1>6. CASE BoardRestarts
  <2>1. /\ UNCHANGED made
        /\ current_frame_id' = 0 /\ is_sending' = FALSE /\ send_buf' = 0
        /\ frame_len' = 0 /\ tx' = "wait" /\ i' = 0
        /\ link' = IF transport = "TCP" THEN "down" ELSE link
    BY <1>6 DEF BoardRestarts
  <2>2. BoardTypes'
    BY ONLY <1>0, <2>1 DEF BoardTypes
  <2> QED
    BY <1>0, <1>t, <2>1, <2>2 DEF Sending, BoardTypes, LinkTypes
<1>7. CASE HostStep \/ UNCHANGED vars
  <2>1. UNCHANGED <<made, current_frame_id, is_sending, send_buf, tx, frame_len, i>>
    BY <1>7, HostLeaves DEF sendVars
  <2>2. transport = "UDP" => link' = link
    BY <1>0, <1>7 DEF Sending, HostStep, Deliver, NobodyListens, onDisconnected,
       onNewConnection, BoardNotices, closeSocket, initSocket, Lose, Duplicate, Break,
       hostForgets, hostSame, linkVars, vars
  <2>3. BoardTypes'
    BY <1>0, <2>1 DEF BoardTypes
  <2> QED
    BY <1>0, <1>t, <2>1, <2>2, <2>3 DEF Sending
<1> QED
  BY <1>1, <1>2, <1>3, <1>4, <1>5, <1>6, <1>7, Steps

LEMMA LinkStep ==
  ASSUME TInv, [Next]_vars
  PROVE  LinkTypes'
<1>0. LinkTypes /\ MaxFaults \in Nat
  BY TypeParts, StreamAssumption DEF TInv
<1>1. UNCHANGED faults \/ Fault
  BY DEF Next, Sender, Host, HandleFrame, TakeFrame, SendFragment, SendIntoVoid,
     SendFails, FinishFrame, boardSame, Deliver, NobodyListens, onDisconnected, hostSame,
     onNewConnection, BoardNotices, closeSocket, initSocket, hostForgets, Lose, Duplicate,
     Break, BoardRestarts, vars
<1>f. faults' \in 0 .. MaxFaults
  BY <1>0, <1>1 DEF Fault, LinkTypes
<1>2. transport' = transport /\ overtaken' \in BOOLEAN
  BY <1>0 DEF LinkTypes, Next, Sender, Host, HandleFrame, TakeFrame, SendFragment, SendIntoVoid,
     SendFails, FinishFrame, boardSame, Deliver, NobodyListens, onDisconnected, hostSame,
     onNewConnection, BoardNotices, closeSocket, initSocket, hostForgets, Lose, Duplicate,
     Break, BoardRestarts, ghostVars, vars
<1>3. link' \in {"up", "broken", "down"} /\ m_socket' \in BOOLEAN
  BY <1>0 DEF LinkTypes, Next, Sender, Host, HandleFrame, TakeFrame, SendFragment, SendIntoVoid,
     SendFails, FinishFrame, boardSame, Deliver, NobodyListens, onDisconnected, hostSame,
     onNewConnection, BoardNotices, closeSocket, initSocket, hostForgets, Lose, Duplicate,
     Break, BoardRestarts, linkVars, vars
<1> QED
  BY <1>0, <1>f, <1>2, <1>3 DEF LinkTypes

LEMMA ClosedStep ==
  ASSUME TInv, [Next]_vars
  PROVE  Closed'
<1>0. Closed /\ transport' = transport
  BY DEF TInv, Next, Sender, Host, HandleFrame, TakeFrame, SendFragment, SendIntoVoid,
     SendFails, FinishFrame, boardSame, Deliver, NobodyListens, onDisconnected, hostSame,
     onNewConnection, BoardNotices, closeSocket, initSocket, hostForgets, Lose, Duplicate,
     Break, BoardRestarts, vars
<1>1. CASE \/ HandleFrame \/ TakeFrame \/ SendIntoVoid \/ SendFails \/ FinishFrame
           \/ BoardNotices \/ BoardRestarts \/ UNCHANGED vars
  <2>1. UNCHANGED <<m_socket, net>> /\ (link' = link \/ link' = "down")
    BY <1>1 DEF HandleFrame, TakeFrame, SendIntoVoid, SendFails, FinishFrame, BoardNotices,
       BoardRestarts, boardSame, linkVars, vars
  <2> QED
    BY <1>0, <2>1 DEF Closed
<1>2. CASE SendFragment
  <2>1. UNCHANGED <<m_socket, link>> /\ link = "up"
    BY <1>2 DEF SendFragment, boardSame, linkVars
  <2> QED
    BY <1>0, <2>1 DEF Closed
<1>3. CASE \/ Deliver \/ NobodyListens \/ closeSocket \/ initSocket \/ Lose \/ Duplicate
           \/ onNewConnection
  <2>1. CASE Deliver
    <3>1. m_socket /\ m_socket' = m_socket
      BY <2>1 DEF Deliver, hostSame, linkVars
    <3> QED
      BY <3>1 DEF Closed
  <2>2. CASE onNewConnection
    BY <2>2 DEF onNewConnection, Closed
  <2>3. CASE NobodyListens \/ closeSocket \/ initSocket \/ Lose \/ Duplicate
    <3>1. transport = "UDP"
      BY <2>3 DEF NobodyListens, closeSocket, initSocket, Lose, Duplicate
    <3> QED
      BY <1>0, <3>1 DEF Closed
  <2> QED
    BY <1>3, <2>1, <2>2, <2>3
<1>4. CASE onDisconnected
  BY <1>4 DEF onDisconnected, hostForgets, Closed
<1>5. CASE Break
  <2>1. link = "up" /\ UNCHANGED m_socket
    BY <1>5 DEF Break
  <2> QED
    BY <1>0, <2>1 DEF Closed
<1> QED
  BY <1>1, <1>2, <1>3, <1>4, <1>5, Steps DEF HostStep

-----------------------------------------------------------------------------
(* The network                                                             *)

(* What is in the network was in it before, in the same order, or has just *)
(* been sent.                                                              *)
Chosen(h) ==
  /\ h \in [1 .. Len(net') -> 1 .. Len(net)]
  /\ \A j \in 1 .. Len(net') : net'[j] = net[h[j]]
  /\ \A j, l \in 1 .. Len(net') : j <= l => h[j] <= h[l]

NetIs ==
  /\ net' \in Seq(Datagram) /\ Len(net') <= NetCap + 1
  /\ (SendFragment /\ net' = Append(net, Fragment)) \/ \E h : Chosen(h)

LEMMA FragmentIs ==
  ASSUME TInv, SendFragment
  PROVE  /\ Fragment \in Datagram
         /\ Fragment.frame_id = current_frame_id /\ Fragment.data.frame = send_buf
         /\ Fragment.pkg_cnt = PkgCnt[send_buf] /\ Fragment.pkg_id = Fragment.data.pkg
         /\ Fragment.pkg_id < Fragment.pkg_cnt
         /\ send_buf \in 1 .. Frames
<1>1. /\ send_buf \in 1 .. Frames /\ frame_len = send_buf /\ i < PkgCnt[send_buf]
      /\ i \in Nat /\ current_frame_id \in Id
  BY DEF TInv, TypeOK, Sending, SendFragment, MoreFragments
<1>2. PkgCnt[send_buf] \in Nat
  BY <1>1, StreamAssumption
<1> QED
  BY <1>1, <1>2 DEF Fragment, Datagram, Data

LEMMA NetStep ==
  ASSUME TInv, [Next]_vars
  PROVE  NetIs
<1>0. /\ net \in Seq(Datagram) /\ Len(net) <= NetCap + 1 /\ Len(net) \in Nat
      /\ NetCap \in Nat \ {0}
  BY LenProperties, StreamAssumption DEF TInv, TypeOK
<1>h. ASSUME NEW h, net' \in Seq(Datagram), Len(net') <= NetCap + 1, Chosen(h)
      PROVE  NetIs
  BY <1>h DEF NetIs
<1>1. CASE UNCHANGED net
  <2> DEFINE h == [j \in 1 .. Len(net) |-> j]
  <2>1. Chosen(h)
    BY <1>0, <1>1 DEF Chosen
  <2> QED
    BY <1>0, <1>1, <1>h, <2>1
<1>2. CASE SendFragment
  <2>1. net' = Append(net, Fragment) /\ Len(net) < NetCap /\ Fragment \in Datagram
    BY <1>2, FragmentIs DEF SendFragment
  <2>2. net' \in Seq(Datagram) /\ Len(net') = Len(net) + 1
    BY <1>0, <2>1, AppendIs
  <2>3. Len(net') <= NetCap + 1
    BY <1>0, <2>1, <2>2
  <2> QED
    BY <1>2, <2>1, <2>2, <2>3 DEF NetIs
<1>3. ASSUME NEW k \in 1 .. Len(net),
             net' = SubSeq(net, 1, k - 1) \o SubSeq(net, k + 1, Len(net))
      PROVE  NetIs
  <2> DEFINE h == [j \in 1 .. Len(net) - 1 |-> IF j < k THEN j ELSE j + 1]
  <2>1. /\ net' \in Seq(Datagram) /\ Len(net') = Len(net) - 1
        /\ \A j \in 1 .. Len(net) - 1 : net'[j] = IF j < k THEN net[j] ELSE net[j + 1]
    <3>1. net \in Seq(Datagram) /\ k \in 1 .. Len(net)
      BY <1>0
    <3> QED
      BY ONLY <3>1, <1>3, RemovedIs, Zenon
  <2>2. Chosen(h)
    BY <1>0, <2>1 DEF Chosen
  <2>3. Len(net') <= NetCap + 1
    BY <1>0, <2>1
  <2> QED
    BY <1>h, <2>1, <2>2, <2>3
<1>4. ASSUME NEW k \in 1 .. Len(net), Len(net) <= NetCap,
             net' = SubSeq(net, 1, k) \o SubSeq(net, k, Len(net))
      PROVE  NetIs
  <2> DEFINE h == [j \in 1 .. Len(net) + 1 |-> IF j <= k THEN j ELSE j - 1]
  <2>1. /\ net' \in Seq(Datagram) /\ Len(net') = Len(net) + 1
        /\ \A j \in 1 .. Len(net) + 1 : net'[j] = IF j <= k THEN net[j] ELSE net[j - 1]
    <3>1. net \in Seq(Datagram) /\ k \in 1 .. Len(net)
      BY <1>0
    <3>2. net' = SubSeq(net, 1, k) \o SubSeq(net, k, Len(net))
      BY <1>4
    <3> QED
      BY ONLY <3>1, <3>2, DuplicateIs, Zenon
  <2>2. Chosen(h)
    BY <1>0, <2>1 DEF Chosen
  <2>3. Len(net') <= NetCap + 1
    BY <1>0, <1>4, <2>1
  <2> QED
    BY <1>h, <2>1, <2>2, <2>3
<1>5. ASSUME NEW k \in 0 .. Len(net), net' = SubSeq(net, 1, k)
      PROVE  NetIs
  <2> DEFINE h == [j \in 1 .. k |-> j]
  <2>1. /\ net' \in Seq(Datagram) /\ Len(net') = k
        /\ \A j \in 1 .. k : net'[j] = net[j]
    <3>1. /\ SubSeq(net, 1, k) \in Seq(Datagram) /\ Len(SubSeq(net, 1, k)) = k - 1 + 1
          /\ \A j \in 1 .. k - 1 + 1 : SubSeq(net, 1, k)[j] = net[1 + j - 1]
      BY <1>0, PartIs
    <3> QED
      BY <1>0, <1>5, <3>1
  <2>2. Chosen(h)
    BY <1>0, <2>1 DEF Chosen
  <2>3. Len(net') <= NetCap + 1
    BY <1>0, <2>1
  <2> QED
    BY <1>h, <2>1, <2>2, <2>3
<1>6. CASE NobodyListens
  <2> DEFINE h == [j \in 1 .. Len(net) - 1 |-> j + 1]
  <2>1. net # <<>> /\ net' = Tail(net)
    BY <1>6 DEF NobodyListens
  <2>2. /\ net' \in Seq(Datagram) /\ Len(net') = Len(net) - 1
        /\ \A j \in 1 .. Len(net') : net'[j] = net[j + 1]
    BY <1>0, <2>1, HeadTailProperties
  <2>3. Chosen(h)
    BY <1>0, <2>2 DEF Chosen
  <2>4. Len(net') <= NetCap + 1
    BY <1>0, <2>2
  <2> QED
    BY <1>h, <2>2, <2>3, <2>4
<1>7. CASE onDisconnected
  <2> DEFINE h == [j \in 1 .. 0 |-> j]
  <2>1. net' = <<>> /\ <<>> \in Seq(Datagram) /\ Len(<<>>) = 0
    BY <1>7, EmptySeq DEF onDisconnected
  <2>2. Chosen(h)
    BY <1>0, <2>1 DEF Chosen
  <2>3. Len(net') <= NetCap + 1
    BY <1>0, <2>1
  <2> QED
    BY <1>h, <2>1, <2>2, <2>3
<1>8. CASE Deliver \/ Lose
  <2>1. PICK k \in 1 .. Len(net) :
          net' = SubSeq(net, 1, k - 1) \o SubSeq(net, k + 1, Len(net))
    BY <1>8 DEF Deliver, Lose
  <2> QED
    BY <1>3, <2>1
<1>9. CASE Duplicate
  BY <1>4, <1>9 DEF Duplicate
<1>10. CASE Break
  BY <1>5, <1>10 DEF Break
<1>11. CASE \/ HandleFrame \/ TakeFrame \/ SendIntoVoid \/ SendFails \/ FinishFrame
            \/ BoardNotices \/ BoardRestarts \/ onNewConnection \/ closeSocket \/ initSocket
            \/ UNCHANGED vars
  BY <1>1, <1>11 DEF HandleFrame, TakeFrame, SendIntoVoid, SendFails, FinishFrame,
     BoardNotices, BoardRestarts, onNewConnection, closeSocket, initSocket, vars
<1> QED
  BY <1>2, <1>6, <1>7, <1>8, <1>9, <1>10, <1>11, Steps DEF HostStep

LEMMA CameFrom ==
  ASSUME TInv, [Next]_vars, NEW k \in 1 .. Len(net')
  PROVE  \/ \E l \in 1 .. Len(net) : net'[k] = net[l]
         \/ SendFragment /\ net'[k] = Fragment
<1>1. CASE \E h : Chosen(h)
  <2>1. PICK h : Chosen(h)
    BY <1>1
  <2> QED
    BY <2>1 DEF Chosen
<1>2. CASE SendFragment /\ net' = Append(net, Fragment)
  <2>1. net \in Seq(Datagram) /\ Fragment \in Datagram
    BY <1>2, FragmentIs DEF TInv, TypeOK
  <2>2. /\ Len(net') = Len(net) + 1 /\ Len(net) \in Nat
        /\ \A j \in 1 .. Len(net) : net'[j] = net[j]
        /\ net'[Len(net) + 1] = Fragment
    BY <1>2, <2>1, AppendIs
  <2>3. k \in 1 .. Len(net) \/ k = Len(net) + 1
    BY <2>2
  <2> QED
    BY <1>2, <2>2, <2>3
<1> QED
  BY <1>1, <1>2, NetStep DEF NetIs

-----------------------------------------------------------------------------
(* The buffer of the host                                                  *)

(* What is in the buffer for frame id after the step was there, or is d.   *)
Had(id, q, v) ==
  id \in DOMAIN m_frameBuffer /\ q \in DOMAIN m_frameBuffer[id] /\ v = m_frameBuffer[id][q]
Got(d, id, q, v) == id = d.frame_id /\ q = d.pkg_id /\ v = d.data

LEMMA PacketsAre ==
  ASSUME NEW d, NEW q \in DOMAIN Packets(d)
  PROVE  \/ Had(d.frame_id, q, Packets(d)[q])
         \/ Got(d, d.frame_id, q, Packets(d)[q])
<1> DEFINE kept == Without(m_frameBuffer, Expired(d.frame_id))
           old  == IF d.frame_id \in DOMAIN kept THEN kept[d.frame_id] ELSE <<>>
<1>1. Packets(d) = With(old, d.pkg_id, d.data)
  BY DEF Packets
<1>2. d.frame_id \in DOMAIN kept => d.frame_id \in DOMAIN m_frameBuffer
                                    /\ old = m_frameBuffer[d.frame_id]
  BY DEF Without
<1>3. d.frame_id \notin DOMAIN kept => DOMAIN old = {}
  OBVIOUS
<1> HIDE DEF old, kept
<1>4. /\ DOMAIN With(old, d.pkg_id, d.data) = DOMAIN old \cup {d.pkg_id}
      /\ With(old, d.pkg_id, d.data)[d.pkg_id] = d.data
      /\ \A x \in DOMAIN old : x # d.pkg_id => With(old, d.pkg_id, d.data)[x] = old[x]
  BY ONLY DEF With
<1>5. CASE q = d.pkg_id
  BY <1>1, <1>4, <1>5 DEF Got
<1>6. CASE q # d.pkg_id
  <2>1. q \in DOMAIN old /\ Packets(d)[q] = old[q]
    BY <1>1, <1>4, <1>6
  <2> QED
    BY <1>2, <1>3, <2>1 DEF Had
<1> QED
  BY <1>5, <1>6

LEMMA ReceivedIs ==
  ASSUME NEW d, Receive(d)
  PROVE  \A id \in DOMAIN m_frameBuffer' :
           /\ id \in DOMAIN m_frameBuffer \/ id = d.frame_id
           /\ \A q \in DOMAIN m_frameBuffer'[id] :
                \/ Had(id, q, m_frameBuffer'[id][q])
                \/ Got(d, id, q, m_frameBuffer'[id][q])
<1> DEFINE kept == Without(m_frameBuffer, Expired(d.frame_id))
           p    == Packets(d)
<1> SUFFICES ASSUME NEW id \in DOMAIN m_frameBuffer'
             PROVE  /\ id \in DOMAIN m_frameBuffer \/ id = d.frame_id
                    /\ \A q \in DOMAIN m_frameBuffer'[id] :
                         \/ Had(id, q, m_frameBuffer'[id][q])
                         \/ Got(d, id, q, m_frameBuffer'[id][q])
  OBVIOUS
<1>1. \/ m_frameBuffer' = m_frameBuffer \/ m_frameBuffer' = kept
      \/ m_frameBuffer' = Without(kept, {d.frame_id})
      \/ m_frameBuffer' = With(kept, d.frame_id, p)
  BY DEF Receive, hostVars
<1>2. \A x \in DOMAIN kept : x \in DOMAIN m_frameBuffer /\ kept[x] = m_frameBuffer[x]
  BY DEF Without
<1>3. \A q \in DOMAIN p : Had(d.frame_id, q, p[q]) \/ Got(d, d.frame_id, q, p[q])
  BY PacketsAre
<1> HIDE DEF kept, p
<1>4. CASE id \in DOMAIN m_frameBuffer /\ m_frameBuffer'[id] = m_frameBuffer[id]
  BY <1>4 DEF Had
<1>5. CASE id = d.frame_id /\ m_frameBuffer'[id] = p
  BY <1>3, <1>5
<1>6. \/ id \in DOMAIN m_frameBuffer /\ m_frameBuffer'[id] = m_frameBuffer[id]
      \/ id = d.frame_id /\ m_frameBuffer'[id] = p
  <2>1. CASE m_frameBuffer' = m_frameBuffer \/ m_frameBuffer' = kept
    BY <1>2, <2>1
  <2>2. CASE m_frameBuffer' = Without(kept, {d.frame_id})
    BY <1>2, <2>2 DEF Without
  <2>3. CASE m_frameBuffer' = With(kept, d.frame_id, p)
    BY <1>2, <2>3 DEF With
  <2> QED
    BY <1>1, <2>1, <2>2, <2>3
<1> QED
  BY <1>4, <1>5, <1>6

(* No other step puts anything into the buffer.                            *)
LEMMA BufferIs ==
  ASSUME [Next]_vars, NEW id \in DOMAIN m_frameBuffer'
  PROVE  /\ \/ id \in DOMAIN m_frameBuffer
            \/ \E k \in 1 .. Len(net) : id = net[k].frame_id
         /\ \A q \in DOMAIN m_frameBuffer'[id] :
              \/ Had(id, q, m_frameBuffer'[id][q])
              \/ \E k \in 1 .. Len(net) : Got(net[k], id, q, m_frameBuffer'[id][q])
<1>1. CASE Deliver
  <2>1. PICK k \in 1 .. Len(net) : Receive(net[k])
    BY <1>1 DEF Deliver
  <2> QED
    BY <2>1, ReceivedIs
<1>2. CASE UNCHANGED m_frameBuffer \/ DOMAIN m_frameBuffer' = {}
  BY <1>2 DEF Had
<1>3. ~Deliver => UNCHANGED m_frameBuffer \/ m_frameBuffer' = <<>>
  BY DEF Next, Sender, Host, HandleFrame, TakeFrame, SendFragment, SendIntoVoid,
     SendFails, FinishFrame, boardSame, NobodyListens, onDisconnected, hostSame,
     onNewConnection, BoardNotices, closeSocket, initSocket, hostForgets, Lose, Duplicate,
     Break, BoardRestarts, vars, hostVars
<1>4. DOMAIN <<>> = {}
  OBVIOUS
<1> QED
  BY <1>1, <1>2, <1>3, <1>4

LEMMA UnderStep ==
  ASSUME TInv, [Next]_vars, NEW id, NEW f, Under(id, f)'
  PROVE  Under(id, f) \/ (SendFragment /\ id = current_frame_id /\ f = send_buf)
<1>1. CASE Arriving(id, f)'
  <2>1. PICK k \in 1 .. Len(net') : net'[k].frame_id = id /\ net'[k].data.frame = f
    BY <1>1 DEF Arriving
  <2>2. \/ \E l \in 1 .. Len(net) : net'[k] = net[l]
        \/ SendFragment /\ net'[k] = Fragment
    BY <2>1, CameFrom
  <2>3. CASE \E l \in 1 .. Len(net) : net'[k] = net[l]
    <3>1. PICK l \in 1 .. Len(net) : net'[k] = net[l]
      BY <2>3
    <3>2. net[l].frame_id = id /\ net[l].data.frame = f
      BY <2>1, <3>1
    <3>3. Arriving(id, f)
      BY ONLY <3>2, l \in 1 .. Len(net), Zenon DEF Arriving
    <3> QED
      BY <3>3 DEF Under
  <2>4. CASE SendFragment /\ net'[k] = Fragment
    BY <2>1, <2>4, FragmentIs
  <2> QED
    BY <2>2, <2>3, <2>4
<1>2. CASE Pending(id, f)'
  <2>1. PICK q \in DOMAIN m_frameBuffer'[id] :
          id \in DOMAIN m_frameBuffer' /\ m_frameBuffer'[id][q].frame = f
    BY <1>2 DEF Pending
  <2>2. \/ Had(id, q, m_frameBuffer'[id][q])
        \/ \E k \in 1 .. Len(net) : Got(net[k], id, q, m_frameBuffer'[id][q])
    BY <2>1, BufferIs
  <2>3. CASE Had(id, q, m_frameBuffer'[id][q])
    <3>1. Pending(id, f)
      BY ONLY <2>1, <2>3, Zenon DEF Pending, Had
    <3> QED
      BY <3>1 DEF Under
  <2>4. CASE \E k \in 1 .. Len(net) : Got(net[k], id, q, m_frameBuffer'[id][q])
    <3>1. PICK k \in 1 .. Len(net) : Got(net[k], id, q, m_frameBuffer'[id][q])
      BY <2>4
    <3>2. net[k].frame_id = id /\ net[k].data.frame = f
      BY <2>1, <3>1 DEF Got
    <3>3. Arriving(id, f)
      BY ONLY <3>2, k \in 1 .. Len(net), Zenon DEF Arriving
    <3> QED
      BY <3>3 DEF Under
  <2> QED
    BY <2>2, <2>3, <2>4
<1> QED
  BY <1>1, <1>2 DEF Under

-----------------------------------------------------------------------------
(* What is dispatched                                                      *)

Finished(d, s) ==
  /\ ~TooOld(d.frame_id)
  /\ Dispatch(s, d.frame_id)
  /\ \/ d.pkg_cnt <= 1 /\ s = <<d.data>>
     \/ Cardinality(DOMAIN Packets(d)) = d.pkg_cnt /\ s = Assembled(Packets(d), d.pkg_cnt)

LEMMA ReceiveCases ==
  ASSUME NEW d, Receive(d)
  PROVE  UNCHANGED <<screen, m_lastCompleteFrameId, shown>> \/ \E s : Finished(d, s)
<1>1. CASE TooOld(d.frame_id)
  BY <1>1 DEF Receive, hostVars
<1>2. CASE ~TooOld(d.frame_id)
  <2> DEFINE kept == Without(m_frameBuffer, Expired(d.frame_id))
  <2>1. IF d.pkg_cnt <= 1
          THEN Dispatch(<<d.data>>, d.frame_id) /\ m_frameBuffer' = kept
          ELSE IF Cardinality(DOMAIN Packets(d)) = d.pkg_cnt
            THEN /\ Dispatch(Assembled(Packets(d), d.pkg_cnt), d.frame_id)
                 /\ m_frameBuffer' = Without(kept, {d.frame_id})
            ELSE /\ m_frameBuffer' = With(kept, d.frame_id, Packets(d))
                 /\ UNCHANGED <<screen, m_lastCompleteFrameId, shown>>
    BY <1>2 DEF Receive
  <2>2. CASE d.pkg_cnt <= 1
    <3>1. Finished(d, <<d.data>>)
      BY <1>2, <2>1, <2>2 DEF Finished
    <3> QED
      BY <3>1
  <2>3. CASE ~(d.pkg_cnt <= 1) /\ Cardinality(DOMAIN Packets(d)) = d.pkg_cnt
    <3>1. Finished(d, Assembled(Packets(d), d.pkg_cnt))
      BY <1>2, <2>1, <2>3 DEF Finished
    <3> QED
      BY <3>1
  <2>4. CASE ~(d.pkg_cnt <= 1) /\ Cardinality(DOMAIN Packets(d)) # d.pkg_cnt
    BY <2>1, <2>4
  <2> QED
    BY <2>2, <2>3, <2>4
<1> QED
  BY <1>1, <1>2

LEMMA NetElement ==
  ASSUME NetTypes, NEW k \in 1 .. Len(net)
  PROVE  /\ net[k] \in Datagram /\ net[k].frame_id \in Id /\ net[k].pkg_cnt \in Nat
         /\ net[k].pkg_id \in Nat /\ net[k].data \in Data
         /\ net[k].data.frame \in 1 .. Frames
<1>1. net[k] \in Datagram
  BY ElementOfSeq DEF NetTypes
<1> QED
  BY <1>1 DEF Datagram, Data

LEMMA FinishedTypes ==
  ASSUME HostTypes, NEW d \in Datagram, NEW s, Finished(d, s)
  PROVE  /\ s \in Seq(Data \cup {NoData}) /\ d.frame_id \in Id
         /\ Whole(s) => s[1].frame \in 1 .. Frames
<1>1. d.frame_id \in Id /\ d.pkg_cnt \in Nat /\ d.data \in Data
  BY DEF Datagram
<1>2. \A q \in DOMAIN Packets(d) : Packets(d)[q] \in Data
  <2> TAKE q \in DOMAIN Packets(d)
  <2> QED
    BY <1>1, PacketsAre DEF Had, Got, HostTypes
<1>3. s \in Seq(Data \cup {NoData})
  <2>1. CASE s = <<d.data>>
    BY <1>1, <2>1
  <2>2. CASE s = Assembled(Packets(d), d.pkg_cnt)
    <3>1. s \in [1 .. d.pkg_cnt -> Data \cup {NoData}]
      BY <1>1, <1>2, <2>2 DEF Assembled
    <3> QED
      BY <1>1, <3>1, SeqDef
  <2> QED
    BY <2>1, <2>2 DEF Finished
<1>4. ASSUME Whole(s) PROVE s[1].frame \in 1 .. Frames
  <2>1. s # <<>> /\ s[1].frame # 0
    BY <1>4 DEF Whole
  <2>2. s[1] \in Data \cup {NoData}
    <3>1. 1 \in 1 .. Len(s)
      BY <1>3, <2>1, EmptySeq, LenProperties
    <3> QED
      BY <1>3, <3>1, ElementOfSeq
  <2> QED
    BY <2>1, <2>2 DEF Data, NoData
<1> QED
  BY <1>1, <1>3, <1>4

LEMMA HostTypesStep ==
  ASSUME TInv, [Next]_vars
  PROVE  HostTypes'
<1>0. HostTypes /\ NetTypes /\ 0 \in Id
  BY TypeParts, StreamAssumption DEF TInv, Id
<1>1. DOMAIN m_frameBuffer' \subseteq Id
  BY <1>0, BufferIs, NetElement DEF HostTypes
<1>2. ASSUME NEW id \in DOMAIN m_frameBuffer', NEW q \in DOMAIN m_frameBuffer'[id]
      PROVE  m_frameBuffer'[id][q] \in Data
  <2>1. \/ Had(id, q, m_frameBuffer'[id][q])
        \/ \E k \in 1 .. Len(net) : Got(net[k], id, q, m_frameBuffer'[id][q])
    BY BufferIs
  <2> QED
    BY <1>0, <2>1, NetElement DEF Had, Got, HostTypes
<1>3. /\ m_lastCompleteFrameId' \in Id
      /\ screen' \in Seq(Data \cup {NoData}) /\ shown' \subseteq 1 .. Frames
  <2>1. CASE UNCHANGED <<screen, m_lastCompleteFrameId, shown>>
    BY <1>0, <2>1 DEF HostTypes
  <2>2. CASE Deliver
    <3>1. PICK k \in 1 .. Len(net) : Receive(net[k])
      BY <2>2 DEF Deliver
    <3>2. CASE \E s : Finished(net[k], s)
      <4>1. PICK s : Finished(net[k], s)
        BY <3>2
      <4>2. /\ s \in Seq(Data \cup {NoData}) /\ net[k].frame_id \in Id
            /\ Whole(s) => s[1].frame \in 1 .. Frames
        <5>1. net[k] \in Datagram
          BY <1>0, NetElement
        <5> QED
          BY ONLY <1>0, <4>1, <5>1, FinishedTypes, Zenon
      <4> QED
        BY <1>0, <4>1, <4>2 DEF Finished, Dispatch, HostTypes
    <3> QED
      BY <2>1, <3>1, <3>2, ReceiveCases
  <2>3. CASE onNewConnection
    BY <1>0, <2>3 DEF onNewConnection, ForgetId, HostTypes
  <2>4. ~Deliver /\ ~onNewConnection => UNCHANGED <<screen, m_lastCompleteFrameId, shown>>
    BY DEF Next, Sender, Host, HandleFrame, TakeFrame, SendFragment, SendIntoVoid,
       SendFails, FinishFrame, boardSame, NobodyListens, onDisconnected, hostSame,
       BoardNotices, closeSocket, initSocket, hostForgets, Lose, Duplicate,
       Break, BoardRestarts, vars, hostVars
  <2> QED
    BY <2>1, <2>2, <2>3, <2>4
<1> QED
  BY <1>1, <1>2, <1>3 DEF HostTypes

LEMMA LostFrames ==
  ASSUME NEW s \in Seq(Datagram)
  PROVE  FramesOf(s) \subseteq 1 .. Frames
<1>1. \A k \in 1 .. Len(s) : s[k].data.frame \in 1 .. Frames
  <2> TAKE k \in 1 .. Len(s)
  <2>1. s[k] \in Datagram
    BY ElementOfSeq
  <2> QED
    BY <2>1 DEF Datagram, Data
<1> QED
  BY <1>1 DEF FramesOf

LEMMA DamageStep ==
  ASSUME TInv, [Next]_vars
  PROVE  DamageTypes'
<1>0. /\ DamageTypes /\ HostTypes /\ NetTypes /\ BoardTypes /\ Sending
      /\ net \in Seq(Datagram)
  BY TypeParts DEF TInv, NetTypes
<1>1. PartlyReceived \subseteq 1 .. Frames
  BY <1>0 DEF PartlyReceived, HostTypes, Data
<1>2. CASE SendIntoVoid \/ SendFails
  <2>1. damaged' = damaged \cup {frame_len} /\ tx = "send"
    BY <1>2 DEF SendIntoVoid, SendFails
  <2> QED
    BY <1>0, <2>1 DEF DamageTypes, Sending, BoardTypes
<1>3. CASE Lose
  BY <1>0, <1>3, NetElement DEF Lose, DamageTypes
<1>4. CASE Break
  <2>1. PICK k \in 0 .. Len(net) :
          damaged' = damaged \cup FramesOf(SubSeq(net, k + 1, Len(net)))
    BY <1>4 DEF Break
  <2>2. SubSeq(net, k + 1, Len(net)) \in Seq(Datagram)
    <3>1. Len(net) \in Nat
      BY <1>0, LenProperties
    <3>2. k + 1 \in 1 .. Len(net) + 1 /\ Len(net) \in 0 .. Len(net) /\ k + 1 <= Len(net) + 1
      BY <3>1
    <3> QED
      BY ONLY <1>0, <3>2, PartIs, Zenon
  <2> QED
    BY <1>0, <2>1, <2>2, LostFrames DEF DamageTypes
<1>5. CASE onDisconnected
  <2>1. damaged' = damaged \cup FramesOf(net) \cup PartlyReceived
    BY <1>5 DEF onDisconnected
  <2> QED
    BY <1>0, <1>1, <2>1, LostFrames DEF DamageTypes
<1>6. CASE closeSocket
  <2>1. damaged' = damaged \cup PartlyReceived
    BY <1>6 DEF closeSocket
  <2> QED
    BY <1>0, <1>1, <2>1 DEF DamageTypes
<1>7. CASE NobodyListens
  <2>1. damaged' = damaged \cup {Head(net).data.frame} /\ net # <<>>
    BY <1>7 DEF NobodyListens
  <2>2. Head(net) \in Datagram
    BY <1>0, <2>1, HeadTailProperties
  <2> QED
    BY <1>0, <2>1, <2>2 DEF DamageTypes, Datagram, Data
<1>8. CASE BoardRestarts
  <2>1. damaged' = damaged \cup
          (IF is_sending THEN {send_buf} \cup ({frame_len} \ {0}) ELSE {})
    BY <1>8 DEF BoardRestarts
  <2> QED
    BY <1>0, <2>1 DEF DamageTypes, Sending, BoardTypes
<1>9. \/ UNCHANGED damaged
      \/ SendIntoVoid \/ SendFails \/ Lose \/ Break \/ onDisconnected \/ closeSocket
      \/ NobodyListens \/ BoardRestarts
  BY DEF Next, Sender, Host, HandleFrame, TakeFrame, SendFragment, FinishFrame, Deliver,
     onNewConnection, BoardNotices, initSocket, Duplicate, ghostVars, vars
<1> QED
  BY <1>0, <1>2, <1>3, <1>4, <1>5, <1>6, <1>7, <1>8, <1>9 DEF DamageTypes

LEMMA TypeStep == TInv /\ [Next]_vars => TInv'
<1> SUFFICES ASSUME TInv, [Next]_vars PROVE TInv'
  OBVIOUS
<1>1. NetTypes'
  BY NetStep DEF NetIs, NetTypes
<1> QED
  BY <1>1, SenderStep, LinkStep, ClosedStep, HostTypesStep, DamageStep, TypeParts DEF TInv

(* Every variable keeps its type; in particular the ids stay below the     *)
(* range of frame_id, the fragments of a frame are never more than it has, *)
(* and at most one datagram more than the network's bound is under way.    *)
THEOREM TypeCorrect == Spec => []TypeOK
<1>1. TInv => TypeOK
  BY DEF TInv
<1> QED
  BY <1>1, TypeInit, TypeStep, PTL DEF Spec

-----------------------------------------------------------------------------
(* Fragments say what they are                                             *)

LEMMA GenuineStep ==
  ASSUME TInv, Genuine, [Next]_vars
  PROVE  Genuine'
<1>1. ASSUME NEW k \in 1 .. Len(net')
      PROVE  /\ net'[k].pkg_cnt = PkgCnt[net'[k].data.frame]
             /\ net'[k].pkg_id = net'[k].data.pkg
             /\ net'[k].pkg_id < net'[k].pkg_cnt
  <2>1. CASE \E l \in 1 .. Len(net) : net'[k] = net[l]
    BY <2>1 DEF Genuine
  <2>2. CASE SendFragment /\ net'[k] = Fragment
    BY <2>2, FragmentIs
  <2> QED
    BY <2>1, <2>2, CameFrom
<1>2. ASSUME NEW id \in DOMAIN m_frameBuffer', NEW q \in DOMAIN m_frameBuffer'[id]
      PROVE  /\ m_frameBuffer'[id][q].pkg = q
             /\ q < PkgCnt[m_frameBuffer'[id][q].frame]
  <2>1. CASE Had(id, q, m_frameBuffer'[id][q])
    BY <2>1 DEF Had, Genuine
  <2>2. CASE \E k \in 1 .. Len(net) : Got(net[k], id, q, m_frameBuffer'[id][q])
    BY <2>2 DEF Got, Genuine
  <2> QED
    BY <2>1, <2>2, BufferIs
<1> QED
  BY <1>1, <1>2 DEF Genuine

(* Frames and ids have the same order                                      *)

LEMMA OrderedStep ==
  ASSUME TInv, Ordered, Coming, [Next]_vars
  PROVE  Ordered'
<1> SUFFICES ASSUME NEW a \in Id, NEW b \in Id, NEW f \in 1 .. Frames, NEW g \in 1 .. Frames,
                    Under(a, f)', Under(b, g)'
             PROVE  (a < b => f < g) /\ (a = b => f = g)
  BY DEF Ordered
<1> DEFINE New(id, h) == SendFragment /\ id = current_frame_id /\ h = send_buf
<1>1. (Under(a, f) \/ New(a, f)) /\ (Under(b, g) \/ New(b, g))
  BY UnderStep
<1>2. /\ a \in Nat /\ b \in Nat /\ f \in Nat /\ g \in Nat
      /\ current_frame_id \in Nat /\ send_buf \in Nat
  BY StreamAssumption DEF Id, TInv, TypeOK
<1>3. CASE Under(a, f) /\ Under(b, g)
  BY <1>3 DEF Ordered
<1>4. CASE New(a, f) /\ Under(b, g)
  <2>1. link = "up" /\ tx = "send"
    BY <1>4 DEF SendFragment
  <2>2. /\ b <= current_frame_id
        /\ b = current_frame_id => g = send_buf
    BY <1>4, <2>1 DEF Coming
  <2> QED
    BY <1>2, <1>4, <2>2
<1>5. CASE Under(a, f) /\ New(b, g)
  <2>1. link = "up" /\ tx = "send"
    BY <1>5 DEF SendFragment
  <2>2. /\ a <= current_frame_id
        /\ a = current_frame_id => f = send_buf
        /\ a < current_frame_id => f < send_buf
    BY <1>5, <2>1 DEF Coming
  <2> QED
    BY <1>2, <1>5, <2>2
<1>6. CASE New(a, f) /\ New(b, g)
  BY <1>2, <1>6
<1> QED
  BY <1>1, <1>3, <1>4, <1>5, <1>6

(* With a new connection everything starts afresh.                         *)
LEMMA NothingUnder ==
  ASSUME TInv, onNewConnection, NEW id, NEW f
  PROVE  ~Under(id, f)'
<1>1. net' = <<>> /\ m_frameBuffer' = <<>>
  BY DEF onNewConnection, TInv, Closed
<1>2. Len(<<>>) = 0 /\ DOMAIN <<>> = {}
  BY EmptySeq
<1> QED
  BY <1>1, <1>2 DEF Under, Arriving, Pending

LEMMA ComingStep ==
  ASSUME "UDP" \notin MayRestart, TInv, Coming, [Next]_vars
  PROVE  Coming'
<1> SUFFICES ASSUME NEW id \in Id, NEW f \in 1 .. Frames, Under(id, f)'
             PROVE  /\ f <= made'
                    /\ is_sending' => f <= send_buf'
                    /\ is_sending' /\ tx' = "wait" => f < send_buf'
                    /\ link' = "up" =>
                         /\ id <= current_frame_id'
                         /\ id = current_frame_id' => tx' = "send" /\ f = send_buf'
                         /\ id < current_frame_id' /\ tx' = "send" => f < send_buf'
  BY DEF Coming
<1> DEFINE Old == /\ f <= made
                  /\ is_sending => f <= send_buf
                  /\ is_sending /\ tx = "wait" => f < send_buf
                  /\ link = "up" =>
                       /\ id <= current_frame_id
                       /\ id = current_frame_id => tx = "send" /\ f = send_buf
                       /\ id < current_frame_id /\ tx = "send" => f < send_buf
<1>0. /\ id \in Nat /\ f \in Nat /\ current_frame_id \in Nat /\ made \in Nat
      /\ send_buf \in Nat /\ tx \in {"wait", "send"} /\ is_sending \in BOOLEAN
      /\ transport \in {"UDP", "TCP"}
      /\ Sending
  BY StreamAssumption DEF TInv, TypeOK, Id
<1>1. Old \/ (SendFragment /\ id = current_frame_id /\ f = send_buf)
  BY UnderStep DEF Coming
<1>2. CASE HandleFrame
  <2>1. /\ UNCHANGED <<current_frame_id, tx, link>> /\ made' = made + 1
        /\ \/ ~is_sending /\ send_buf' = made + 1 /\ is_sending' = TRUE
           \/ is_sending /\ UNCHANGED <<send_buf, is_sending>>
        /\ ~SendFragment
    BY <1>2 DEF HandleFrame, SendFragment, BufferFree, boardSame, linkVars
  <2> QED
    BY <1>0, <1>1, <2>1 DEF Sending
<1>3. CASE TakeFrame
  <2>1. /\ UNCHANGED <<made, current_frame_id, is_sending, send_buf, link>>
        /\ tx = "wait" /\ is_sending /\ tx' = "send" /\ ~SendFragment
    BY <1>3 DEF TakeFrame, SendFragment, boardSame, linkVars
  <2> QED
    BY <1>0, <1>1, <2>1
<1>4. CASE SendFragment
  <2>1. /\ UNCHANGED <<made, current_frame_id, is_sending, send_buf, tx, link>>
        /\ tx = "send"
    BY <1>4 DEF SendFragment, boardSame, linkVars
  <2> QED
    BY <1>0, <1>1, <2>1 DEF Sending
<1>5. CASE SendIntoVoid
  <2>1. /\ UNCHANGED <<made, current_frame_id, is_sending, send_buf, tx, link>>
        /\ ~SendFragment
    BY <1>5 DEF SendIntoVoid, SendFragment, boardSame, linkVars
  <2> QED
    BY <1>1, <2>1
<1>6. CASE SendFails
  <2>1. made' = made /\ is_sending' = FALSE /\ link' = "down" /\ ~SendFragment
    BY <1>6 DEF SendFails, SendFragment
  <2> QED
    BY <1>1, <2>1
<1>7. CASE FinishFrame
  <2>1. /\ UNCHANGED <<made, link>> /\ is_sending' = FALSE /\ tx' = "wait"
        /\ current_frame_id' = current_frame_id + 1 /\ ~SendFragment
    BY <1>0, <1>7, NextIdIs DEF FinishFrame, SendFragment, boardSame, linkVars, Sending
  <2> QED
    BY <1>0, <1>1, <2>1
<1>8. CASE BoardRestarts
  <2>1. made' = made /\ is_sending' = FALSE /\ link' = "down" /\ ~SendFragment
    BY <1>0, <1>8 DEF BoardRestarts, SendFragment
  <2> QED
    BY <1>1, <2>1
<1>9. CASE onNewConnection
  BY <1>9, NothingUnder
<1>10. CASE (HostStep /\ ~onNewConnection) \/ UNCHANGED vars
  <2>1. UNCHANGED <<made, current_frame_id, is_sending, send_buf, tx>>
    BY <1>10, HostLeaves DEF sendVars
  <2>2. link' = link \/ link' # "up"
    BY <1>10 DEF HostStep, Deliver, NobodyListens, onDisconnected, BoardNotices,
       closeSocket, initSocket, Lose, Duplicate, Break, hostForgets, hostSame, linkVars, vars
  <2>3. Old
    <3>1. SendFragment => i' # i
      BY <1>0 DEF SendFragment, TInv, TypeOK
    <3> QED
      BY <1>1, <1>10, <3>1, HostLeaves DEF sendVars
  <2> QED
    BY <2>1, <2>2, <2>3
<1> QED
  BY <1>2, <1>3, <1>4, <1>5, <1>6, <1>7, <1>8, <1>9, <1>10, Steps

-----------------------------------------------------------------------------
(* What is dispatched is a whole frame                                     *)

LEMMA IsUnder ==
  ASSUME NEW k \in 1 .. Len(net)
  PROVE  Under(net[k].frame_id, net[k].data.frame)
BY DEF Under, Arriving

(* All fragments counted for one id are of one frame, and different.       *)
LEMMA PacketsOfOne ==
  ASSUME TInv, Genuine, Ordered, NEW k \in 1 .. Len(net), NEW q \in DOMAIN Packets(net[k])
  PROVE  /\ Packets(net[k])[q] = [frame |-> net[k].data.frame, pkg |-> q]
         /\ q \in 0 .. PkgCnt[net[k].data.frame] - 1
<1> DEFINE d == net[k]
           v == Packets(d)[q]
           f == d.data.frame
<1>0. /\ HostTypes /\ d.frame_id \in Id /\ d.pkg_id \in Nat
      /\ d.data \in Data /\ f \in 1 .. Frames
      /\ PkgCnt[f] \in Nat \ {0}
  <2>1. HostTypes /\ NetTypes
    BY TypeParts DEF TInv
  <2>2. d.frame_id \in Id /\ d.pkg_id \in Nat /\ d.data \in Data /\ f \in 1 .. Frames
    BY <2>1, NetElement
  <2> QED
    BY <2>1, <2>2, StreamAssumption
<1>1. CASE Got(d, d.frame_id, q, v)
  <2>1. q = d.pkg_id /\ v = d.data
    BY <1>1 DEF Got
  <2>2. d.pkg_id = d.data.pkg /\ d.pkg_id < d.pkg_cnt /\ d.pkg_cnt = PkgCnt[f]
    BY DEF Genuine
  <2>3. d.data = [frame |-> f, pkg |-> d.data.pkg]
    BY <1>0 DEF Data
  <2>4. q \in 0 .. PkgCnt[f] - 1
    BY <1>0, <2>1, <2>2
  <2> QED
    BY ONLY <2>1, <2>2, <2>3, <2>4
<1>2. CASE Had(d.frame_id, q, v)
  <2>1. /\ d.frame_id \in DOMAIN m_frameBuffer
        /\ q \in DOMAIN m_frameBuffer[d.frame_id] /\ v = m_frameBuffer[d.frame_id][q]
    BY <1>2 DEF Had
  <2>2. v \in Data /\ v.pkg = q /\ q < PkgCnt[v.frame]
    BY <1>0, <2>1 DEF HostTypes, Genuine
  <2>3. Pending(d.frame_id, v.frame)
    BY ONLY <2>1, Zenon DEF Pending
  <2>4. v.frame = f
    <3>1. Under(d.frame_id, v.frame) /\ Under(d.frame_id, f)
      BY <2>3, IsUnder DEF Under
    <3>2. v.frame \in 1 .. Frames
      BY <2>2 DEF Data
    <3> QED
      BY ONLY <1>0, <3>1, <3>2, Ordered DEF Ordered
  <2>5. v = [frame |-> v.frame, pkg |-> v.pkg] /\ v.pkg \in Nat
    BY <2>2 DEF Data
  <2>6. q \in 0 .. PkgCnt[f] - 1
    BY <1>0, <2>2, <2>4, <2>5
  <2> QED
    BY ONLY <2>2, <2>4, <2>5, <2>6
<1> QED
  BY <1>1, <1>2, PacketsAre

LEMMA FinishedWhole ==
  ASSUME TInv, Genuine, Ordered, NEW k \in 1 .. Len(net), NEW s, Finished(net[k], s)
  PROVE  s # <<>> /\ Whole(s) /\ s[1].frame = net[k].data.frame
<1> DEFINE d == net[k]
           f == d.data.frame
           n == PkgCnt[f]
           p == Packets(d)
<1>0. /\ d.data \in Data /\ f \in 1 .. Frames /\ n \in Nat \ {0} /\ d.pkg_cnt = n
      /\ d.data.pkg = d.pkg_id /\ d.pkg_id < n /\ d.pkg_id \in Nat
  <2>1. NetTypes
    BY TypeParts DEF TInv
  <2>2. d.data \in Data /\ f \in 1 .. Frames /\ d.pkg_id \in Nat
    BY <2>1, NetElement
  <2> QED
    BY <2>2, StreamAssumption DEF Genuine
<1>1. s = [j \in 1 .. n |-> [frame |-> f, pkg |-> j - 1]]
  <2>1. CASE d.pkg_cnt <= 1 /\ s = <<d.data>>
    <3>1. n = 1 /\ d.data.pkg = 0
      BY <1>0, <2>1
    <3>2. d.data = [frame |-> f, pkg |-> 0]
      BY <1>0, <3>1 DEF Data
    <3>3. s = [j \in 1 .. 1 |-> [frame |-> f, pkg |-> 0]]
      BY <2>1, <3>2
    <3>4. [j \in 1 .. 1 |-> [frame |-> f, pkg |-> 0]]
            = [j \in 1 .. 1 |-> [frame |-> f, pkg |-> j - 1]]
      OBVIOUS
    <3> QED
      BY <3>1, <3>3, <3>4
  <2>2. CASE Cardinality(DOMAIN p) = d.pkg_cnt /\ s = Assembled(p, d.pkg_cnt)
    <3>1. \A q \in DOMAIN p : p[q] = [frame |-> f, pkg |-> q] /\ q \in 0 .. n - 1
      BY PacketsOfOne
    <3> HIDE DEF p, n, f
    <3>2. DOMAIN p = 0 .. n - 1
      <4>1. IsFiniteSet(0 .. n - 1) /\ Cardinality(0 .. n - 1) = n
        <5>1. 0 \in Int /\ n - 1 \in Int
          BY <1>0
        <5>2. /\ IsFiniteSet(0 .. n - 1)
              /\ Cardinality(0 .. n - 1) = IF 0 > n - 1 THEN 0 ELSE (n - 1) - 0 + 1
          BY ONLY <5>1, FS_Interval, Zenon
        <5> QED
          BY <1>0, <5>2
      <4>2. DOMAIN p \subseteq 0 .. n - 1
        BY <3>1
      <4> QED
        BY <1>0, <2>2, <4>1, <4>2, FS_Subset
    <3>3. \A j \in 1 .. n : j - 1 \in DOMAIN p /\ p[j - 1] = [frame |-> f, pkg |-> j - 1]
      BY <1>0, <3>1, <3>2
    <3>4. s = [j \in 1 .. n |-> IF j - 1 \in DOMAIN p THEN p[j - 1] ELSE NoData]
      BY <1>0, <2>2 DEF Assembled
    <3> QED
      BY ONLY <3>3, <3>4
  <2> QED
    BY <2>1, <2>2 DEF Finished
<1> HIDE DEF n, f
<1>2. 1 \in 1 .. n /\ s[1] = [frame |-> f, pkg |-> 0]
  BY <1>0, <1>1
<1>3. s # <<>>
  <2>1. DOMAIN s = 1 .. n /\ DOMAIN <<>> = {}
    BY <1>1
  <2> QED
    BY <1>2, <2>1
<1>4. s[1].frame = f /\ f # 0
  BY <1>0, <1>2
<1>5. PkgCnt[s[1].frame] = n
  BY <1>4 DEF n
<1>6. Whole(s)
  BY ONLY <1>1, <1>3, <1>4, <1>5 DEF Whole
<1> QED
  BY <1>3, <1>4, <1>6 DEF f

-----------------------------------------------------------------------------
(* The screen never goes back                                              *)

LEMMA DisplayedIs ==
  ASSUME TInv, WInv, NEW k \in 1 .. Len(net), NEW s, Finished(net[k], s)
  PROVE  /\ Shown' = net[k].data.frame /\ Shown' \in 1 .. made /\ Shown <= Shown'
         /\ is_sending => Shown' <= send_buf
         /\ is_sending /\ tx = "wait" => Shown' < send_buf
         /\ m_lastCompleteFrameId' = net[k].frame_id
<1> DEFINE d == net[k]
           f == d.data.frame
<1>1. s # <<>> /\ Whole(s) /\ s[1].frame = f
  BY FinishedWhole DEF WInv
<1>2. screen' = s /\ m_lastCompleteFrameId' = d.frame_id /\ ~TooOld(d.frame_id)
  BY DEF Finished, Dispatch
<1>3. Shown' = f
  BY <1>1, <1>2 DEF Shown, Whole
<1>4. d.frame_id \in Id /\ f \in 1 .. Frames /\ f \in Nat /\ made \in Nat
  <2>1. NetTypes
    BY TypeParts DEF TInv
  <2> QED
    BY <2>1, NetElement, StreamAssumption DEF TInv, TypeOK
<1>5. Under(d.frame_id, f)
  BY IsUnder
<1>6. d.frame_id >= m_lastCompleteFrameId
  <2>1. m_lastCompleteFrameId \in Nat /\ d.frame_id \in Nat
    BY <1>4, StreamAssumption DEF TInv, TypeOK, Id
  <2> QED
    BY <1>2, <2>1 DEF TooOld
<1>7. f >= Shown
  BY <1>4, <1>5, <1>6 DEF WInv, Newer
<1>8. f <= made /\ (is_sending => f <= send_buf) /\ (is_sending /\ tx = "wait" => f < send_buf)
  BY <1>4, <1>5 DEF WInv, Coming
<1>9. Shown \in Nat
  BY <1>4 DEF WInv, Newer
<1> QED
  BY <1>2, <1>3, <1>4, <1>7, <1>8, <1>9

LEMMA ShownSame ==
  ASSUME UNCHANGED screen
  PROVE  Shown' = Shown
BY DEF Shown, Whole

(* The steps that dispatch nothing.                                        *)
LEMMA ScreenStays ==
  ASSUME [Next]_vars, ~Deliver
  PROVE  UNCHANGED screen
BY DEF Next, Sender, Host, HandleFrame, TakeFrame, SendFragment, SendIntoVoid,
   SendFails, FinishFrame, boardSame, NobodyListens, onDisconnected, hostSame,
   onNewConnection, BoardNotices, closeSocket, initSocket, hostForgets, Lose, Duplicate,
   Break, BoardRestarts, vars, hostVars

LEMMA LastStays ==
  ASSUME [Next]_vars, ~Deliver, ~onNewConnection
  PROVE  UNCHANGED m_lastCompleteFrameId
BY DEF Next, Sender, Host, HandleFrame, TakeFrame, SendFragment, SendIntoVoid,
   SendFails, FinishFrame, boardSame, NobodyListens, onDisconnected, hostSame,
   BoardNotices, closeSocket, initSocket, hostForgets, Lose, Duplicate,
   Break, BoardRestarts, vars, hostVars

LEMMA DeliveredIs ==
  ASSUME Deliver
  PROVE  /\ UNCHANGED <<made, current_frame_id, is_sending, send_buf, tx, i>>
         /\ \/ UNCHANGED <<screen, m_lastCompleteFrameId, shown>>
            \/ \E k \in 1 .. Len(net) : \E s : Finished(net[k], s)
<1>1. PICK k \in 1 .. Len(net) : Receive(net[k])
  BY DEF Deliver
<1>2. UNCHANGED <<made, current_frame_id, is_sending, send_buf, tx, i>>
  BY DEF Deliver, hostSame, sendVars
<1> QED
  BY <1>1, <1>2, ReceiveCases

LEMMA NewerStep ==
  ASSUME "UDP" \notin MayRestart, TInv, WInv, [Next]_vars
  PROVE  Newer'
<1>0. /\ made \in Nat /\ send_buf \in Nat /\ Shown \in Nat /\ Shown <= made
      /\ tx \in {"wait", "send"} /\ is_sending \in BOOLEAN
  BY StreamAssumption DEF TInv, TypeOK, WInv, Newer
<1> DEFINE Bounds == /\ Shown \in 0 .. made
                     /\ is_sending => Shown <= send_buf
                     /\ is_sending /\ tx = "wait" => Shown < send_buf
           NoneOlder == \A id \in Id : \A f \in 1 .. Frames :
                          Under(id, f) /\ id >= m_lastCompleteFrameId => f >= Shown
<1>a. Bounds /\ NoneOlder
  BY DEF WInv, Newer
<1>b. Bounds' /\ NoneOlder' => Newer'
  BY DEF Newer
<1>1. CASE \E k \in 1 .. Len(net) : \E s : Deliver /\ Finished(net[k], s)
  <2>1. PICK k \in 1 .. Len(net) : \E s : Deliver /\ Finished(net[k], s)
    BY <1>1
  <2>2. PICK s : Deliver /\ Finished(net[k], s)
    BY <2>1
  <2>3. /\ Shown' = net[k].data.frame /\ Shown' \in 1 .. made
        /\ is_sending => Shown' <= send_buf
        /\ is_sending /\ tx = "wait" => Shown' < send_buf
        /\ m_lastCompleteFrameId' = net[k].frame_id
    BY <2>2, DisplayedIs
  <2>4. UNCHANGED <<made, current_frame_id, is_sending, send_buf, tx, i>>
    BY <2>2, DeliveredIs
  <2>5. Bounds'
    BY <1>0, <2>3, <2>4
  <2>6. ASSUME NEW id \in Id, NEW f \in 1 .. Frames, Under(id, f)',
               id >= m_lastCompleteFrameId'
        PROVE  f >= Shown'
    <3>1. Under(id, f)
      <4>1. SendFragment => i' # i
        BY DEF SendFragment, TInv, TypeOK
      <4> QED
        BY <2>4, <2>6, <4>1, UnderStep
    <3>2. Under(net[k].frame_id, net[k].data.frame)
      BY IsUnder
    <3>3. net[k].frame_id \in Id /\ net[k].data.frame \in 1 .. Frames
      <4>1. NetTypes
        BY TypeParts DEF TInv
      <4> QED
        BY <4>1, NetElement
    <3>4. net[k].frame_id <= id
      BY <2>3, <2>6
    <3>5. net[k].frame_id \in Nat /\ id \in Nat /\ Frames \in Nat
      BY <3>3, StreamAssumption DEF Id
    <3>6. /\ net[k].frame_id < id => net[k].data.frame < f
          /\ net[k].frame_id = id => net[k].data.frame = f
      BY <3>1, <3>2, <3>3 DEF WInv, Ordered
    <3> QED
      BY <2>3, <3>3, <3>4, <3>5, <3>6
  <2> QED
    BY <1>b, <2>5, <2>6
<1>2. CASE UNCHANGED <<screen, m_lastCompleteFrameId>>
  <2>1. Shown' = Shown
    BY <1>2, ShownSame
  <2>2. Bounds'
    <3>1. CASE HandleFrame
      <4>1. /\ made' = made + 1 /\ tx' = tx
            /\ \/ send_buf' = made + 1 /\ is_sending' = TRUE
               \/ UNCHANGED <<send_buf, is_sending>>
        BY <3>1 DEF HandleFrame
      <4> QED
        BY <1>0, <1>a, <2>1, <4>1
    <3>2. CASE TakeFrame \/ SendFragment \/ SendIntoVoid
      <4>1. UNCHANGED <<made, send_buf, is_sending>> /\ (tx' = tx \/ tx' = "send")
        BY <3>2 DEF TakeFrame, SendFragment, SendIntoVoid
      <4> QED
        BY <1>0, <1>a, <2>1, <4>1
    <3>3. CASE SendFails \/ FinishFrame \/ BoardRestarts
      <4>1. made' = made /\ is_sending' = FALSE
        BY <3>3 DEF SendFails, FinishFrame, BoardRestarts
      <4> QED
        BY <1>0, <1>a, <2>1, <4>1
    <3>4. CASE HostStep \/ UNCHANGED vars
      <4>1. UNCHANGED <<made, send_buf, is_sending, tx>>
        BY <3>4, HostLeaves DEF sendVars
      <4> QED
        BY <1>0, <1>a, <2>1, <4>1
    <3> QED
      BY <3>1, <3>2, <3>3, <3>4, Steps
  <2>3. ASSUME NEW id \in Id, NEW f \in 1 .. Frames, Under(id, f)',
               id >= m_lastCompleteFrameId'
        PROVE  f >= Shown'
    <3>1. CASE Under(id, f)
      BY <1>2, <1>a, <2>1, <2>3, <3>1
    <3>2. CASE SendFragment /\ f = send_buf
      <4>1. is_sending
        BY <3>2 DEF SendFragment, TInv, Sending
      <4> QED
        BY <1>0, <1>a, <2>1, <3>2, <4>1
    <3> QED
      BY <2>3, <3>1, <3>2, UnderStep
  <2> QED
    BY <1>b, <2>2, <2>3
<1>3. CASE onNewConnection
  <2>1. UNCHANGED screen /\ UNCHANGED <<made, send_buf, is_sending, tx>>
    BY <1>3 DEF onNewConnection, sendVars
  <2>2. Shown' = Shown
    BY <2>1, ShownSame
  <2>3. Bounds'
    BY <1>0, <1>a, <2>1, <2>2
  <2>4. NoneOlder'
    BY <1>3, NothingUnder
  <2> QED
    BY <1>b, <2>3, <2>4
<1> HIDE DEF Bounds, NoneOlder
<1>4. CASE Deliver
  BY <1>1, <1>2, <1>4, DeliveredIs
<1>5. CASE ~Deliver /\ ~onNewConnection
  BY <1>2, <1>5, ScreenStays, LastStays
<1> QED
  BY <1>3, <1>4, <1>5

-----------------------------------------------------------------------------
(* FrameStream implements FrameDisplay                                     *)

LEMMA WInit == Init => WInv
<1> SUFFICES ASSUME Init PROVE WInv
  OBVIOUS
<1>1. \A id, f : ~Under(id, f)
  <2>1. net = <<>> /\ Len(<<>>) = 0 /\ DOMAIN m_frameBuffer = {}
    BY EmptySeq DEF Init
  <2> QED
    BY <2>1 DEF Under, Arriving, Pending
<1>2. Genuine
  BY EmptySeq DEF Init, Genuine
<1>3. Ordered /\ Coming
  BY <1>1 DEF Ordered, Coming
<1>4. Shown = 0 /\ made = 0 /\ is_sending = FALSE
  BY DEF Init, Shown
<1>5. Newer
  BY <1>1, <1>4 DEF Newer
<1> QED
  BY <1>2, <1>3, <1>5 DEF WInv

LEMMA WStep ==
  ASSUME "UDP" \notin MayRestart
  PROVE  TInv /\ WInv /\ [Next]_vars => WInv'
<1> SUFFICES ASSUME TInv, WInv, [Next]_vars PROVE WInv'
  OBVIOUS
<1>1. Genuine /\ Ordered /\ Coming
  BY DEF WInv
<1> QED
  BY <1>1, GenuineStep, OrderedStep, ComingStep, NewerStep DEF WInv

LEMMA DisplayStep ==
  ASSUME TInv, WInv, [Next]_vars
  PROVE  [Display!Next]_(Display!vars)
<1>0. Shown \in Nat /\ made \in Nat
  BY StreamAssumption DEF TInv, TypeOK, WInv, Newer
<1>1. CASE HandleFrame
  <2>1. made' = made + 1 /\ UNCHANGED screen
    BY <1>1 DEF HandleFrame, boardSame, hostVars
  <2> QED
    BY <2>1, ShownSame DEF Display!Next, Display!Make
<1>2. CASE UNCHANGED <<made, screen>>
  BY <1>2, ShownSame DEF Display!vars
<1>3. CASE \E k \in 1 .. Len(net) : \E s : Deliver /\ Finished(net[k], s)
  <2>1. Shown' \in 1 .. made /\ Shown <= Shown'
    BY <1>3, DisplayedIs
  <2>2. made' = made
    BY <1>3, DeliveredIs
  <2>3. Shown' \in (1 .. made) \ (1 .. Shown - 1)
    BY <1>0, <2>1
  <2> QED
    BY <2>2, <2>3 DEF Display!Next, Display!Show
<1>4. CASE Deliver
  BY <1>2, <1>3, <1>4, DeliveredIs
<1>5. CASE ~Deliver /\ ~HandleFrame
  <2>1. UNCHANGED made
    BY <1>5, HostLeaves, Steps DEF TakeFrame, SendFragment, SendIntoVoid, SendFails,
       FinishFrame, BoardRestarts
  <2> QED
    BY <1>2, <1>5, <2>1, ScreenStays
<1> QED
  BY <1>1, <1>4, <1>5

(* The host shows whole frames of the board only, and never goes back to an*)
(* older one, whatever is lost, doubled or overtaken, when the connection  *)
(* breaks and when pictures are dropped, unless the board program starts   *)
(* again while it sends over UDP: FrameStream_restart.cfg shows that case. *)
THEOREM Refinement ==
  ASSUME "UDP" \notin MayRestart
  PROVE  Spec => ImplementsDisplay
<1>1. Init => Display!Init
  BY DEF Init, Display!Init, Shown
<1>2. TInv /\ WInv /\ [Next]_vars => [Display!Next]_(Display!vars)
  BY DisplayStep
<1>3. TInv /\ WInv /\ [Next]_vars => WInv'
  BY WStep
<1> QED
  BY <1>1, <1>2, <1>3, TypeInit, TypeStep, WInit, PTL
  DEF Spec, ImplementsDisplay, Display!Spec

-----------------------------------------------------------------------------
(* How many frames wait for the rest of their fragments                    *)

LEMMA SmallSet ==
  ASSUME NEW a \in Nat, NEW b \in Nat, a <= b, NEW S, S \subseteq a .. b
  PROVE  IsFiniteSet(S) /\ Cardinality(S) \in Nat /\ Cardinality(S) <= b - a + 1
<1>1. a \in Int /\ b \in Int
  OBVIOUS
<1>2. IsFiniteSet(a .. b) /\ Cardinality(a .. b) = IF a > b THEN 0 ELSE b - a + 1
  BY ONLY <1>1, FS_Interval, Zenon
<1>3. IsFiniteSet(S) /\ Cardinality(S) <= Cardinality(a .. b)
  BY <1>2, FS_Subset
<1>4. Cardinality(S) \in Nat
  BY <1>3, FS_CardinalityType
<1> QED
  BY <1>2, <1>3, <1>4

LEMMA ReceiveFew ==
  ASSUME NEW d, Receive(d), DOMAIN m_frameBuffer \subseteq Id, d.frame_id \in Id,
         \A x \in DOMAIN m_frameBuffer : x <= d.frame_id,
         Cardinality(DOMAIN m_frameBuffer) <= Kept + 1
  PROVE  Cardinality(DOMAIN m_frameBuffer') <= Kept + 1
<1> DEFINE id == d.frame_id
           had == DOMAIN m_frameBuffer
           kept == Without(m_frameBuffer, Expired(id))
<1>0. id \in Nat /\ IdMod \in Nat /\ id < IdMod /\ Kept \in Nat \ {0}
  BY StreamAssumption DEF Id
<1>1. \A x \in had : x \in 0 .. id
  BY <1>0 DEF Id
<1>2. IsFiniteSet(had) /\ Cardinality(had) \in Nat /\ Cardinality(had) <= id + 1
  <2>1. had \subseteq 0 .. id /\ 0 \in Nat /\ 0 <= id
    BY <1>0, <1>1
  <2>2. IsFiniteSet(had) /\ Cardinality(had) \in Nat /\ Cardinality(had) <= id - 0 + 1
    BY ONLY <1>0, <2>1, SmallSet, Zenon
  <2> QED
    BY <1>0, <2>2
<1>3. m_frameBuffer' = m_frameBuffer \/ DOMAIN m_frameBuffer' \subseteq DOMAIN kept \cup {id}
  BY DEF Receive, With, Without, hostVars
<1>4. DOMAIN kept = had \ Expired(id)
  BY DEF Without
<1>5. CASE m_frameBuffer' = m_frameBuffer
  BY <1>5
<1>6. CASE Cardinality(had) <= Kept /\ DOMAIN m_frameBuffer' \subseteq DOMAIN kept \cup {id}
  <2>1. DOMAIN m_frameBuffer' \subseteq had \cup {id}
    BY <1>4, <1>6
  <2>2. /\ IsFiniteSet(had \cup {id})
        /\ Cardinality(had \cup {id}) = IF id \in had THEN Cardinality(had) ELSE Cardinality(had) + 1
    BY <1>2, FS_AddElement
  <2>3. /\ IsFiniteSet(DOMAIN m_frameBuffer')
        /\ Cardinality(DOMAIN m_frameBuffer') <= Cardinality(had \cup {id})
    BY <2>1, <2>2, FS_Subset
  <2>4. Cardinality(DOMAIN m_frameBuffer') \in Nat
    BY <2>3, FS_CardinalityType
  <2> QED
    BY ONLY <1>0, <1>2, <1>6, <2>2, <2>3, <2>4
<1>7. CASE ~(Cardinality(had) <= Kept) /\ DOMAIN m_frameBuffer' \subseteq DOMAIN kept \cup {id}
  <2>1. id - Kept \in Nat /\ id - Kept < IdMod /\ id - Kept <= id
    BY <1>0, <1>2, <1>7
  <2>2. \A n, m \in Nat : n < m => n % m = n
    OBVIOUS
  <2>3. (id - Kept) % IdMod = id - Kept
    BY <1>0, <2>1, <2>2
  <2>4. Expired(id) = {k \in had : k < id - Kept}
    BY <1>7, <2>3 DEF Expired
  <2>5. DOMAIN m_frameBuffer' \subseteq (id - Kept) .. id
    BY <1>0, <1>1, <1>4, <1>7, <2>1, <2>4
  <2>6. Cardinality(DOMAIN m_frameBuffer') <= id - (id - Kept) + 1
    BY ONLY <1>0, <2>1, <2>5, SmallSet, Zenon
  <2> QED
    BY <1>0, <2>6
<1> QED
  BY <1>3, <1>5, <1>6, <1>7

LEMMA UpLink ==
  ASSUME "UDP" \notin MayRestart, TInv, [Next]_vars, link' = "up"
  PROVE  onNewConnection \/ (link = "up" /\ current_frame_id <= current_frame_id')
<1>0. current_frame_id \in Nat /\ transport \in {"UDP", "TCP"} /\ Sending
  BY StreamAssumption DEF TInv, TypeOK, Id
<1>1. CASE HandleFrame \/ TakeFrame \/ SendFragment \/ SendIntoVoid \/ SendFails
  BY <1>0, <1>1 DEF HandleFrame, TakeFrame, SendFragment, SendIntoVoid, SendFails,
     boardSame, linkVars
<1>2. CASE FinishFrame
  BY <1>0, <1>2, NextIdIs DEF FinishFrame, Sending, boardSame, linkVars
<1>3. CASE BoardRestarts
  BY <1>0, <1>3 DEF BoardRestarts
<1>4. CASE HostStep \/ UNCHANGED vars
  <2>1. current_frame_id' = current_frame_id
    BY <1>4, HostLeaves DEF sendVars
  <2>2. onNewConnection \/ link' = link
    BY <1>4 DEF HostStep, Deliver, NobodyListens, onDisconnected, BoardNotices,
       closeSocket, initSocket, Lose, Duplicate, Break, hostForgets, hostSame, linkVars, vars
  <2> QED
    BY <1>0, <2>1, <2>2
<1> QED
  BY <1>1, <1>2, <1>3, <1>4, Steps

(* Unless Deliver puts a frame in front, the buffer only shrinks.          *)
LEMMA OnlyDeliver ==
  ASSUME [Next]_vars, ~Deliver
  PROVE  DOMAIN m_frameBuffer' = DOMAIN m_frameBuffer \/ DOMAIN m_frameBuffer' = {}
<1>1. UNCHANGED m_frameBuffer \/ m_frameBuffer' = <<>>
  BY DEF Next, Sender, Host, HandleFrame, TakeFrame, SendFragment, SendIntoVoid,
     SendFails, FinishFrame, boardSame, NobodyListens, onDisconnected, hostSame,
     onNewConnection, BoardNotices, closeSocket, initSocket, hostForgets, Lose, Duplicate,
     Break, BoardRestarts, vars, hostVars
<1> QED
  BY <1>1

LEMMA OvertakenStays ==
  ASSUME [Next]_vars, ~overtaken'
  PROVE  ~overtaken
BY DEF Next, Sender, Host, HandleFrame, TakeFrame, SendFragment, SendIntoVoid,
   SendFails, FinishFrame, boardSame, Deliver, NobodyListens, onDisconnected, hostSame,
   onNewConnection, BoardNotices, closeSocket, initSocket, hostForgets, Lose, Duplicate,
   Break, BoardRestarts, ghostVars, vars

(* Without overtaking the first datagram is the one delivered.             *)
LEMMA FirstDelivered ==
  ASSUME TInv, Deliver, ~overtaken'
  PROVE  1 \in 1 .. Len(net) /\ Receive(net[1])
<1>1. PICK k \in 1 .. Len(net) : Receive(net[k]) /\ overtaken' = (overtaken \/ k > 1)
  BY DEF Deliver
<1>2. ~(k > 1)
  BY <1>1
<1>3. Len(net) \in Nat
  BY LenProperties DEF TInv, TypeOK
<1>4. k = 1
  BY <1>2, <1>3
<1> QED
  BY <1>1, <1>4

LEMMA NetInSequence ==
  ASSUME TInv, Coming, InSequence, [Next]_vars
  PROVE  \A k, l \in 1 .. Len(net') : k < l => net'[k].frame_id <= net'[l].frame_id
<1> SUFFICES ASSUME NEW k \in 1 .. Len(net'), NEW l \in 1 .. Len(net'), k < l
             PROVE  net'[k].frame_id <= net'[l].frame_id
  OBVIOUS
<1>0. NetTypes /\ net \in Seq(Datagram) /\ Len(net) \in Nat
  BY TypeParts, LenProperties DEF TInv, NetTypes
<1>i. \A j \in 1 .. Len(net) : net[j].frame_id \in Nat
  BY <1>0, NetElement, StreamAssumption DEF Id
<1>1. CASE \E h : Chosen(h)
  <2>1. PICK h : Chosen(h)
    BY <1>1
  <2>2. /\ h[k] \in 1 .. Len(net) /\ h[l] \in 1 .. Len(net)
        /\ net'[k] = net[h[k]] /\ net'[l] = net[h[l]] /\ h[k] <= h[l]
    BY <2>1 DEF Chosen
  <2>3. CASE h[k] = h[l]
    BY <1>i, <2>2, <2>3
  <2>4. CASE h[k] < h[l]
    BY <2>2, <2>4 DEF InSequence
  <2> QED
    BY <1>0, <2>2, <2>3, <2>4
<1>2. CASE SendFragment /\ net' = Append(net, Fragment)
  <2>1. /\ Len(net') = Len(net) + 1
        /\ \A j \in 1 .. Len(net) : net'[j] = net[j]
        /\ net'[Len(net) + 1] = Fragment
    BY <1>0, <1>2, FragmentIs, AppendIs
  <2>2. k \in 1 .. Len(net) /\ (l \in 1 .. Len(net) \/ l = Len(net) + 1)
    BY <1>0, <2>1
  <2>3. CASE l \in 1 .. Len(net)
    BY <2>1, <2>2, <2>3 DEF InSequence
  <2>4. CASE l = Len(net) + 1
    <3>1. net'[l].frame_id = current_frame_id
      BY <1>2, <2>1, <2>4, FragmentIs
    <3>2. net[k].frame_id <= current_frame_id
      <4>1. net[k].frame_id \in Id /\ net[k].data.frame \in 1 .. Frames /\ link = "up"
        BY <1>0, <1>2, <2>2, NetElement DEF SendFragment
      <4>2. Under(net[k].frame_id, net[k].data.frame)
        BY <2>2, IsUnder
      <4> QED
        BY <4>1, <4>2 DEF Coming
    <3> QED
      BY <2>1, <2>2, <3>1, <3>2
  <2> QED
    BY <2>2, <2>3, <2>4
<1> QED
  BY <1>1, <1>2, NetStep DEF NetIs

LEMMA BufferInSequence ==
  ASSUME "UDP" \notin MayRestart, TInv, Coming, InSequence, [Next]_vars, ~overtaken',
         NEW id \in DOMAIN m_frameBuffer'
  PROVE  /\ \A k \in 1 .. Len(net') : id <= net'[k].frame_id
         /\ link' = "up" => id <= current_frame_id'
<1>0. /\ NetTypes /\ Len(net) \in Nat /\ current_frame_id \in Nat
      /\ \A j \in 1 .. Len(net) : net[j].frame_id \in Nat /\ net[j].frame_id \in Id
                                  /\ net[j].data.frame \in 1 .. Frames
  <2>1. NetTypes /\ net \in Seq(Datagram) /\ Len(net) \in Nat
    BY TypeParts, LenProperties DEF TInv, NetTypes
  <2>2. current_frame_id \in Id /\ Id \subseteq Nat
    BY StreamAssumption DEF TInv, TypeOK, Id
  <2>3. ASSUME NEW j \in 1 .. Len(net)
        PROVE  net[j].frame_id \in Id /\ net[j].data.frame \in 1 .. Frames
    BY <2>1, NetElement
  <2> QED
    BY <2>1, <2>2, <2>3
<1>u. current_frame_id' \in Nat
  BY TypeStep, StreamAssumption DEF TInv, TypeOK, Id
<1>1. CASE id \in DOMAIN m_frameBuffer
  <2>0. id \in Nat
    BY <1>1, StreamAssumption DEF TInv, TypeOK, Id
  <2>1. ASSUME NEW k \in 1 .. Len(net') PROVE id <= net'[k].frame_id
    <3>1. CASE \E l \in 1 .. Len(net) : net'[k] = net[l]
      BY <1>1, <3>1 DEF InSequence
    <3>2. CASE SendFragment /\ net'[k] = Fragment
      BY <1>1, <3>2, FragmentIs DEF InSequence, SendFragment
    <3> QED
      BY <3>1, <3>2, CameFrom
  <2>2. ASSUME link' = "up" PROVE id <= current_frame_id'
    <3>1. ~onNewConnection
      <4>1. onNewConnection => m_frameBuffer' = <<>>
        BY DEF onNewConnection
      <4> QED
        BY <4>1
    <3>2. link = "up" /\ current_frame_id <= current_frame_id'
      BY <2>2, <3>1, UpLink
    <3>3. id <= current_frame_id
      BY <1>1, <3>2 DEF InSequence
    <3> QED
      BY <1>0, <1>u, <2>0, <3>2, <3>3
  <2> QED
    BY <2>1, <2>2
<1>2. CASE id \notin DOMAIN m_frameBuffer
  <2>1. Deliver
    BY <1>2, OnlyDeliver
  <2>2. 1 \in 1 .. Len(net) /\ Receive(net[1])
    BY <2>1, FirstDelivered
  <2>3. id = net[1].frame_id
    BY <1>2, <2>2, ReceivedIs
  <2>4. ~SendFragment /\ UNCHANGED <<current_frame_id, link>>
    <3>1. UNCHANGED <<current_frame_id, i, link>>
      BY <2>1 DEF Deliver, hostSame, sendVars, linkVars
    <3>2. SendFragment => i' # i
      BY DEF SendFragment, TInv, TypeOK
    <3> QED
      BY <3>1, <3>2
  <2>5. ASSUME NEW k \in 1 .. Len(net') PROVE id <= net'[k].frame_id
    <3>1. PICK l \in 1 .. Len(net) : net'[k] = net[l]
      BY <2>4, CameFrom
    <3>2. CASE l = 1
      BY <1>0, <2>2, <2>3, <3>1, <3>2
    <3>3. CASE 1 < l
      BY <2>2, <2>3, <3>1, <3>3 DEF InSequence
    <3> QED
      BY <1>0, <3>2, <3>3
  <2>6. ASSUME link' = "up" PROVE id <= current_frame_id'
    <3>1. Under(net[1].frame_id, net[1].data.frame)
      BY <2>2, IsUnder
    <3> QED
      BY <1>0, <2>2, <2>3, <2>4, <2>6, <3>1 DEF Coming
  <2> QED
    BY <2>5, <2>6
<1> QED
  BY <1>1, <1>2

LEMMA SStep ==
  ASSUME "UDP" \notin MayRestart
  PROVE  TInv /\ WInv /\ SInv /\ [Next]_vars => SInv'
<1> SUFFICES ASSUME TInv, WInv, SInv, [Next]_vars, ~overtaken'
             PROVE  InSequence' /\ Cardinality(DOMAIN m_frameBuffer') <= Kept + 1
  BY DEF SInv
<1>1. InSequence /\ Cardinality(DOMAIN m_frameBuffer) <= Kept + 1 /\ Coming
  BY OvertakenStays DEF SInv, WInv
<1>2. InSequence'
  BY <1>1, NetInSequence, BufferInSequence DEF InSequence
<1>3. CASE Deliver
  <2>1. 1 \in 1 .. Len(net) /\ Receive(net[1])
    BY <1>3, FirstDelivered
  <2>2. DOMAIN m_frameBuffer \subseteq Id /\ net[1].frame_id \in Id
    <3>1. NetTypes /\ HostTypes
      BY TypeParts DEF TInv
    <3> QED
      BY <2>1, <3>1, NetElement DEF HostTypes
  <2>3. \A x \in DOMAIN m_frameBuffer : x <= net[1].frame_id
    BY <1>1, <2>1 DEF InSequence
  <2> QED
    BY <1>1, <1>2, <2>1, <2>2, <2>3, ReceiveFew
<1>4. CASE ~Deliver
  <2>1. Cardinality({}) = 0 /\ 0 <= Kept + 1
    BY FS_EmptySet, StreamAssumption
  <2> QED
    BY <1>1, <1>2, <1>4, <2>1, OnlyDeliver
<1> QED
  BY <1>3, <1>4

(* As long as no datagram is overtaken, the host holds the fragments of    *)
(* Kept + 1 frames at most, however many frames are left incomplete.       *)
THEOREM FewFramesPending ==
  ASSUME "UDP" \notin MayRestart
  PROVE  Spec => []FewPending
<1>1. Init => SInv
  <2> SUFFICES ASSUME Init PROVE SInv
    OBVIOUS
  <2>1. net = <<>> /\ Len(<<>>) = 0 /\ DOMAIN m_frameBuffer = {}
    BY EmptySeq DEF Init
  <2>2. Cardinality({}) = 0 /\ 0 <= Kept + 1
    BY FS_EmptySet, StreamAssumption
  <2> QED
    BY <2>1, <2>2 DEF SInv, InSequence
<1>2. SInv => FewPending
  BY DEF SInv, FewPending
<1>3. TInv /\ WInv /\ [Next]_vars => WInv'
  BY WStep
<1>4. TInv /\ WInv /\ SInv /\ [Next]_vars => SInv'
  BY SStep
<1> QED
  BY <1>1, <1>2, <1>3, <1>4, TypeInit, TypeStep, WInit, PTL DEF Spec
=============================================================================
