--------------------------- MODULE LifecycleProof ---------------------------
(***************************************************************************)
(* Proofs about Lifecycle for every set of threads, size of the queue and  *)
(* kind of trouble: nobody is left asleep by stop_handler, and nobody      *)
(* sleeps over its work.                                                   *)
(*                                                                         *)
(* Who waits must still be about to be woken.  For TCP sender and receiver *)
(* this is a matter of numbers: a wakeup of their condition variable wakes *)
(* either of them, so there must be as many wakeups to come as there are   *)
(* threads waiting, and the receiver's counts only once it has the link    *)
(* (Woken).                                                                *)
(***************************************************************************)
EXTENDS Lifecycle, SequenceTheorems, TLAPS

State == {"init", "link", "loop", "test", "wait", "work", "connect", "send",
          "handle", "exit", "done", "stuck"}

(* The camera thread waits for no condition.                               *)
CameraAwake == "CAMERA" \in Thread => pc["CAMERA"] \notin {"test", "wait"}

(* The link is posted at the end of the sender's initialisation, and the   *)
(* receiver waits for it.                                                  *)
LinkUnposted ==
  pc["TCP_SEND"] = "init" => ~g_shared_link_ptr /\ pc["TCP_RECV"] = "link"

(* The delivery thread handles what is at the head of the queue.           *)
HandlesOne == pc["DELIVER"] = "handle" => queue # <<>>

(* Is one of the wakeups from the n-th on that of thread t?                *)
WokenFrom(n, t) == \E k \in 1 .. Len(Wakeups) : n <= k /\ Wakeups[k] = t

ToWake(t) == WokenFrom(stop, t)

Waits(t) == pc[t] = "wait"

Woken ==
  /\ \A t \in Thread \ {"TCP_SEND", "TCP_RECV"} : Waits(t) => ToWake(t)
  /\ Waits("TCP_SEND") \/ Waits("TCP_RECV") =>
       ToWake("TCP_SEND") \/ (ToWake("TCP_RECV") /\ pc["TCP_RECV"] # "link")
  /\ Waits("TCP_SEND") /\ Waits("TCP_RECV") => ToWake("TCP_SEND")

LInv ==
  /\ TypeOK
  /\ running <=> stop = 0
  /\ CameraAwake
  /\ LinkUnposted
  /\ HandlesOne
  /\ NobodyOversleeps
  /\ Woken

-----------------------------------------------------------------------------
(* Threads and wakeups                                                     *)

Names == Workers \cup {"CAMERA", "TCP_SEND", "TCP_RECV", "DELIVER", "LOGGER"}

LEMMA ThreadIs ==
  /\ Thread \subseteq Names /\ "main" \notin Thread
  /\ "TCP_SEND" \in Thread /\ "TCP_RECV" \in Thread /\ "DELIVER" \in Thread
  /\ "TCP_SEND" \in Destination
  /\ QueueCap \in Nat \ {0}
BY LifecycleAssumption DEF Names, Workers, Destination

LEMMA WakeupsAre ==
  /\ Len(Wakeups) = 8
  /\ Wakeups[1] = "DELIVER" /\ Wakeups[2] = "UDP"
  /\ Wakeups[3] = "TCP_SEND" /\ Wakeups[4] = "TCP_RECV"
  /\ Wakeups[5] = "ALARM" /\ Wakeups[6] = "STORAGE"
  /\ Wakeups[7] = "LOGGER" /\ Wakeups[8] = "COMMAND"
BY DEF Wakeups

(* Everybody but the camera thread is woken once.                          *)
LEMMA WokenFromIs ==
  ASSUME NEW n \in 0 .. 9
  PROVE  /\ WokenFrom(n, "TCP_SEND") <=> n <= 3
         /\ WokenFrom(n, "TCP_RECV") <=> n <= 4
         /\ n <= 1 => \A t \in Names \ {"CAMERA"} : WokenFrom(n, t)
         /\ n = 9 => \A t : ~WokenFrom(n, t)
<1>1. 1 .. Len(Wakeups) = 1 .. 8
  BY WakeupsAre
<1>2. \A k \in 1 .. 8 : k \in {1, 2, 3, 4, 5, 6, 7, 8}
  OBVIOUS
<1>3. \A k \in 1 .. 8 : /\ Wakeups[k] = "TCP_SEND" => k = 3
                        /\ Wakeups[k] = "TCP_RECV" => k = 4
  BY <1>2, WakeupsAre
<1>4. WokenFrom(n, "TCP_SEND") <=> n <= 3
  BY <1>1, <1>3, WakeupsAre DEF WokenFrom
<1>5. WokenFrom(n, "TCP_RECV") <=> n <= 4
  BY <1>1, <1>3, WakeupsAre DEF WokenFrom
<1>6. ASSUME n <= 1, NEW t \in Names \ {"CAMERA"} PROVE WokenFrom(n, t)
  <2>1. \E k \in 1 .. 8 : Wakeups[k] = t
    BY WakeupsAre DEF Names, Workers
  <2>2. \A k \in 1 .. 8 : n <= k
    BY <1>6
  <2> QED
    BY <1>1, <2>1, <2>2 DEF WokenFrom
<1>7. n = 9 => \A t : ~WokenFrom(n, t)
  BY <1>1 DEF WokenFrom
<1> QED
  BY <1>4, <1>5, <1>6, <1>7

(* A wakeup is gone when its turn has come.                                *)
LEMMA WokenNext ==
  ASSUME NEW n \in 1 .. 8, NEW t, WokenFrom(n, t), Wakeups[n] # t
  PROVE  WokenFrom(n + 1, t)
<1>1. 1 .. Len(Wakeups) = 1 .. 8
  BY WakeupsAre
<1>2. PICK k \in 1 .. 8 : n <= k /\ Wakeups[k] = t
  BY <1>1 DEF WokenFrom
<1>3. k # n
  BY <1>2
<1>4. n + 1 <= k
  BY <1>2, <1>3
<1> QED
  BY <1>1, <1>2, <1>4 DEF WokenFrom

(* Whom a signal wakes, and whom a handler.                                *)
LEMMA SignalIs ==
  ASSUME NEW c, NEW W \in SignalWakes(c)
  PROVE  /\ W \subseteq Waiting(c)
         /\ Waiting(c) # {} => \E w \in Waiting(c) : W = {w}
BY DEF SignalWakes

LEMMA ToldIs ==
  ASSUME NEW c, NEW W \in Told(c)
  PROVE  /\ W \subseteq Waiting(c)
         /\ \/ work[c] \/ c = "LOGGER"
            \/ Waiting(c) # {} => \E w \in Waiting(c) : W = {w}
<1>1. CASE W \in SignalWakes(c)
  BY <1>1, SignalIs
<1>2. CASE (work[c] \/ c = "LOGGER") /\ W = {}
  BY <1>2
<1> QED
  BY <1>1, <1>2 DEF Told

LEMMA WaitingIs ==
  /\ \A c : Waiting(c) = {t \in Thread : Waits(t) /\ CondOf(t) = c}
  /\ \A t \in Thread \ {"TCP_SEND", "TCP_RECV"} :
       Waiting(t) = IF Waits(t) THEN {t} ELSE {}
  /\ Waiting("TCP_SEND") = {t \in {"TCP_SEND", "TCP_RECV"} : Waits(t)}
<1>1. \A c : Waiting(c) = {t \in Thread : Waits(t) /\ CondOf(t) = c}
  BY DEF Waiting, Waits
<1>2. ASSUME NEW t \in Thread \ {"TCP_SEND", "TCP_RECV"}
      PROVE  Waiting(t) = IF Waits(t) THEN {t} ELSE {}
  <2>1. \A u \in Thread : CondOf(u) = t <=> u = t
    BY DEF CondOf
  <2> QED
    BY <1>1, <2>1
<1>3. Waiting("TCP_SEND") = {t \in {"TCP_SEND", "TCP_RECV"} : Waits(t)}
  <2>1. \A u \in Thread : CondOf(u) = "TCP_SEND" <=> u \in {"TCP_SEND", "TCP_RECV"}
    BY DEF CondOf
  <2> QED
    BY <1>1, <2>1, ThreadIs
<1> QED
  BY <1>1, <1>2, <1>3

-----------------------------------------------------------------------------
(* Type correctness                                                        *)

(* The kinds of steps, by what they do to pc.                              *)
Plain(t) ==
  \/ LoopCheck(t) \/ LeavesLoop(t) \/ TakesWork(t) \/ FinishesWork(t) \/ Exits(t)
  \/ WaitEnds(t)
  \/ t = "CAMERA" /\ CameraTurns
  \/ t = "DELIVER" /\ (ReceivesNothing \/ Receives)
  \/ t = "TCP_SEND" /\ (InitSender \/ SenderTakes \/ SenderSends \/ SenderTimesOut)
  \/ t = "TCP_RECV" /\ (WaitLink \/ ReceiverTakes \/ ReceiverCloses)
  \/ /\ \/ t = "TCP_SEND" /\ Goes("TCP_SEND", "send", "stuck")
        \/ t = "TCP_RECV" /\ Goes("TCP_RECV", "work", "stuck")
        \/ t = "CAMERA" /\ Goes("CAMERA", "work", "stuck")
     /\ UNCHANGED <<work, same>>

LEMMA Kinds ==
  ASSUME Next
  PROVE  \/ \E t \in Names : Plain(t)
         \/ \E t \in Thread : Idles(t)
         \/ \E t \in Thread, d \in Destination : Send(t, d)
         \/ Handles \/ SenderConnects \/ SIGINT \/ Wakeup
         \/ UNCHANGED vars
<1>1. CASE \E t \in Thread : Step(t) \/ WaitEnds(t)
  BY <1>1, ThreadIs DEF Step, Plain
<1>2. CASE SenderTimesOut
  BY <1>2 DEF Plain, Names
<1>3. CASE BlocksForGood
  BY <1>3 DEF BlocksForGood, Plain, Names
<1>4. CASE Ended
  BY <1>4 DEF Ended
<1> QED
  BY <1>1, <1>2, <1>3, <1>4 DEF Next

LEMMA PlainIs ==
  ASSUME NEW t, Plain(t)
  PROVE  /\ \E l \in State \ {"wait", "link", "init"} :
              /\ pc' = [pc EXCEPT ![t] = l]
              /\ t = "CAMERA" /\ l = "test" => pc[t] = "wait"
              /\ l = "handle" => t = "DELIVER" /\ queue # <<>> /\ queue' = queue
         /\ UNCHANGED <<running, stop>>
         /\ queue' = queue \/ (t = "DELIVER" /\ queue' = <<>>)
         /\ work' = work \/ work' = [work EXCEPT ![t] = FALSE]
         /\ \/ connected' = connected \/ connected' = FALSE
            \/ t = "TCP_SEND" /\ pc[t] = "init" /\ connected' \in BOOLEAN
         /\ g_shared_link_ptr' = g_shared_link_ptr \/ (t = "TCP_SEND" /\ g_shared_link_ptr' = TRUE)
         /\ pc[t] = "link" => g_shared_link_ptr
<1> DEFINE Loops == \/ LoopCheck(t) \/ LeavesLoop(t) \/ TakesWork(t) \/ FinishesWork(t)
                    \/ Exits(t) \/ WaitEnds(t)
           Sender == InitSender \/ SenderTakes \/ SenderSends \/ SenderTimesOut
           Receiver == WaitLink \/ ReceiverTakes \/ ReceiverCloses
<1>1. CASE Loops
  BY <1>1 DEF LoopCheck, LeavesLoop, TakesWork, FinishesWork, Exits, WaitEnds, Goes, Top,
     same, State, Workers
<1>2. CASE t = "TCP_SEND" /\ Sender
  <2>1. CASE InitSender
    BY <1>2, <2>1 DEF InitSender, Goes, State
  <2>2. CASE SenderTakes
    <3>1. /\ UNCHANGED <<running, stop, queue, work, connected, g_shared_link_ptr>>
          /\ pc["TCP_SEND"] = "test"
      BY <2>2 DEF SenderTakes, Goes, same
    <3>2. \E l \in {"send", "connect"} : pc' = [pc EXCEPT !["TCP_SEND"] = l]
      BY <2>2 DEF SenderTakes, Goes
    <3> QED
      BY <1>2, <3>1, <3>2 DEF State
  <2>3. CASE SenderSends
    <3>1. /\ UNCHANGED <<running, stop, queue, g_shared_link_ptr>>
          /\ pc["TCP_SEND"] = "send" /\ pc' = [pc EXCEPT !["TCP_SEND"] = "test"]
          /\ work' = [work EXCEPT !["TCP_SEND"] = FALSE]
      BY <2>3 DEF SenderSends, Goes
    <3>2. connected' = connected \/ connected' = FALSE
      BY <2>3, Zenon DEF SenderSends
    <3>3. \E l \in State \ {"wait", "link", "init"} :
            /\ pc' = [pc EXCEPT ![t] = l]
            /\ t = "CAMERA" /\ l = "test" => pc[t] = "wait"
            /\ l = "handle" => t = "DELIVER" /\ queue # <<>> /\ queue' = queue
      <4>1. "test" \in State \ {"wait", "link", "init"} /\ "test" # "handle"
        BY DEF State
      <4>2. pc' = [pc EXCEPT ![t] = "test"] /\ t # "CAMERA"
        BY <1>2, <3>1
      <4> QED
        BY ONLY <4>1, <4>2, Zenon
    <3>4. work' = [work EXCEPT ![t] = FALSE] /\ pc[t] # "link"
      BY <1>2, <3>1
    <3> QED
      BY <3>1, <3>2, <3>3, <3>4, Zenon
  <2>4. CASE SenderTimesOut
    BY <1>2, <2>4 DEF SenderTimesOut, Goes, same, State
  <2> QED
    BY <1>2, <2>1, <2>2, <2>3, <2>4
<1>3. CASE t = "TCP_RECV" /\ Receiver
  BY <1>3 DEF WaitLink, ReceiverTakes, ReceiverCloses, Goes, same, State
<1>4. CASE \/ t = "CAMERA" /\ CameraTurns
           \/ t = "DELIVER" /\ (ReceivesNothing \/ Receives)
  BY <1>4 DEF CameraTurns, ReceivesNothing, Receives, Goes, same, State
<1>5. CASE /\ \/ t = "TCP_SEND" /\ Goes("TCP_SEND", "send", "stuck")
              \/ t = "TCP_RECV" /\ Goes("TCP_RECV", "work", "stuck")
              \/ t = "CAMERA" /\ Goes("CAMERA", "work", "stuck")
           /\ UNCHANGED <<work, same>>
  BY <1>5 DEF Goes, same, State
<1> QED
  BY <1>1, <1>2, <1>3, <1>4, <1>5 DEF Plain

PcTypes == pc \in [Thread -> State]

LEMMA PlainPc ==
  ASSUME PcTypes, NEW t, Plain(t)
  PROVE  /\ PcTypes'
         /\ \A u \in Thread : pc'[u] = pc[u] \/ (u = t /\ pc'[u] \notin {"wait", "link", "init"})
<1>1. PICK l \in State \ {"wait", "link", "init"} : pc' = [pc EXCEPT ![t] = l]
  BY PlainIs
<1> QED
  BY <1>1 DEF PcTypes

LEMMA SendIs ==
  ASSUME PcTypes, NEW t \in Thread, NEW d \in Destination, Send(t, d)
  PROVE  /\ PcTypes' /\ HasRoom
         /\ \A u \in Thread : \/ pc'[u] = pc[u]
                              \/ Waits(u) /\ u = "DELIVER" /\ pc'[u] = "test"
         /\ ~(Waits("DELIVER") /\ pc'["DELIVER"] = "wait")
         /\ queue' = Append(queue, d)
         /\ UNCHANGED <<running, stop, work, connected, g_shared_link_ptr>>
<1>1. PICK W \in SignalWakes("DELIVER") : pc' = Moved(t, "work", W)
  BY DEF Send
<1>2. /\ pc[t] = "work" /\ HasRoom /\ queue' = Append(queue, d)
      /\ UNCHANGED <<running, stop, work, connected, g_shared_link_ptr>>
  BY DEF Send
<1>3. /\ W \subseteq Waiting("DELIVER")
      /\ Waiting("DELIVER") # {} => \E w \in Waiting("DELIVER") : W = {w}
  BY <1>1, SignalIs
<1>4. /\ pc' \in [Thread -> State]
      /\ \A u \in Thread : pc'[u] = IF u = t THEN "work" ELSE IF u \in W THEN "test" ELSE pc[u]
  BY <1>1 DEF Moved, State, PcTypes
<1>5. Waiting("DELIVER") = IF Waits("DELIVER") THEN {"DELIVER"} ELSE {}
  BY WaitingIs, ThreadIs
<1>6. Waits("DELIVER") => "DELIVER" # t
  BY <1>2 DEF Waits
<1>7. \A u \in Thread : \/ pc'[u] = pc[u]
                        \/ Waits(u) /\ u = "DELIVER" /\ pc'[u] = "test"
  <2> TAKE u \in Thread
  <2>1. CASE u = t
    BY <1>2, <1>4, <2>1
  <2>2. CASE u # t /\ u \in W
    <3>1. Waits(u) /\ u = "DELIVER"
      BY <1>3, <1>5, <2>2
    <3> QED
      BY <1>4, <2>2, <3>1
  <2>3. CASE u # t /\ u \notin W
    BY <1>4, <2>3
  <2> QED
    BY <2>1, <2>2, <2>3
<1>8. ~(Waits("DELIVER") /\ pc'["DELIVER"] = "wait")
  <2> SUFFICES ASSUME Waits("DELIVER") PROVE pc'["DELIVER"] # "wait"
    OBVIOUS
  <2>1. "DELIVER" \in W
    BY <1>3, <1>5
  <2> QED
    BY <1>4, <1>6, <2>1, ThreadIs
<1> QED
  BY <1>2, <1>4, <1>7, <1>8 DEF PcTypes

LEMMA HandlesIs ==
  ASSUME PcTypes, HandlesOne, queue \in Seq(Destination), Handles
  PROVE  \E d \in Destination :
           /\ d = Head(queue) /\ queue' = Tail(queue) /\ queue # <<>>
           /\ PcTypes'
           /\ \E W \in Told(d) :
                \A u \in Thread : pc'[u] = IF u = "DELIVER" THEN "loop"
                                           ELSE IF u \in W THEN "test" ELSE pc[u]
           /\ \/ work' = [work EXCEPT ![d] = TRUE]
              \/ d = "LOGGER" /\ work' = work
           /\ UNCHANGED <<running, stop, connected, g_shared_link_ptr>>
           /\ ~Waits("DELIVER")
<1> DEFINE d == Head(queue)
<1>1. /\ pc["DELIVER"] = "handle" /\ queue' = Tail(queue)
      /\ UNCHANGED <<running, stop, connected, g_shared_link_ptr>>
  BY DEF Handles
<1>2. queue # <<>>
  BY <1>1 DEF HandlesOne
<1>3. d \in Destination
  BY <1>2, HeadTailProperties
<1>0. /\ \/ work' = [work EXCEPT ![d] = TRUE]
         \/ d = "LOGGER" /\ work' = work
      /\ \E W \in Told(d) : pc' = Moved("DELIVER", "loop", W)
  <2>1. CASE /\ work' = [work EXCEPT ![d] = TRUE]
             /\ \E W \in Told(d) : pc' = Moved("DELIVER", "loop", W)
    BY <2>1
  <2>2. CASE d = "LOGGER" /\ work' = work /\ pc' = Moved("DELIVER", "loop", {})
    <3>1. {} \in Told(d)
      BY <2>2 DEF Told
    <3> QED
      BY <2>2, <3>1
  <2> QED
    BY <2>1, <2>2 DEF Handles
<1>4. PICK W \in Told(d) : pc' = Moved("DELIVER", "loop", W)
  BY <1>0
<1>5. W \subseteq Waiting(d)
  BY <1>4, ToldIs
<1> HIDE DEF d
<1>6. /\ pc' \in [Thread -> State]
      /\ \A u \in Thread : pc'[u] = IF u = "DELIVER" THEN "loop"
                                    ELSE IF u \in W THEN "test" ELSE pc[u]
  BY <1>4 DEF Moved, State, PcTypes
<1>7. ~Waits("DELIVER")
  BY <1>1 DEF Waits
<1> QED
  BY <1>0, <1>1, <1>2, <1>3, <1>4, <1>6, <1>7 DEF PcTypes, d

LEMMA ConnectsIs ==
  ASSUME PcTypes, SenderConnects
  PROVE  /\ PcTypes'
         /\ pc["TCP_SEND"] = "connect" /\ pc'["TCP_SEND"] \in {"send", "test"}
         /\ \A u \in Thread \ {"TCP_SEND"} :
              pc'[u] = pc[u] \/ (Waits(u) /\ u = "TCP_RECV" /\ pc'[u] = "test")
         /\ \/ connected' = connected
            \/ connected' = TRUE /\ pc'["TCP_RECV"] # "wait"
         /\ UNCHANGED <<running, stop, work, g_shared_link_ptr, queue>>
<1>1. pc["TCP_SEND"] = "connect" /\ UNCHANGED <<running, stop, work, g_shared_link_ptr, queue>>
  BY DEF SenderConnects
<1>2. Waiting("TCP_SEND") = IF Waits("TCP_RECV") THEN {"TCP_RECV"} ELSE {}
  BY <1>1, WaitingIs DEF Waits
<1>3. ASSUME connected' = TRUE,
             pc' = Moved("TCP_SEND", IF work["TCP_SEND"] /\ running THEN "send" ELSE "test",
                         ConnectedTells)
      PROVE  /\ PcTypes' /\ pc'["TCP_SEND"] \in {"send", "test"}
             /\ \A u \in Thread \ {"TCP_SEND"} :
                  pc'[u] = pc[u] \/ (Waits(u) /\ u = "TCP_RECV" /\ pc'[u] = "test")
             /\ pc'["TCP_RECV"] # "wait"
  <2>1. \E l \in {"send", "test"} : pc' = Moved("TCP_SEND", l, Waiting("TCP_SEND"))
    BY <1>3 DEF ConnectedTells
  <2>2. PICK l \in {"send", "test"} : pc' = Moved("TCP_SEND", l, Waiting("TCP_SEND"))
    BY <2>1
  <2>3. /\ pc' \in [Thread -> State]
        /\ \A u \in Thread : pc'[u] = IF u = "TCP_SEND" THEN l
                                      ELSE IF u \in Waiting("TCP_SEND") THEN "test" ELSE pc[u]
    BY <2>2 DEF Moved, State, PcTypes
  <2> QED
    BY <1>2, <2>3, ThreadIs DEF PcTypes, Waits
<1>4. ASSUME pc' = Moved("TCP_SEND", "test", {})
      PROVE  /\ PcTypes' /\ pc'["TCP_SEND"] = "test"
             /\ \A u \in Thread \ {"TCP_SEND"} : pc'[u] = pc[u]
  BY <1>4, ThreadIs DEF Moved, PcTypes, State
<1> QED
  BY <1>1, <1>3, <1>4 DEF SenderConnects

LEMMA WakeupIs ==
  ASSUME PcTypes, Wakeup
  PROVE  /\ PcTypes' /\ stop \in 1 .. 8 /\ stop' = stop + 1
         /\ UNCHANGED <<running, work, connected, g_shared_link_ptr, queue>>
         /\ \/ Wakeups[stop] = "TCP_RECV" /\ pc["TCP_RECV"] = "link" /\ pc' = pc
            \/ /\ ~(Wakeups[stop] = "TCP_RECV" /\ pc["TCP_RECV"] = "link")
               /\ \E W \in SignalWakes(CondOf(Wakeups[stop])) :
                    \A u \in Thread : pc'[u] = IF u \in W THEN "test" ELSE pc[u]
<1> DEFINE w == Wakeups[stop]
<1>1. /\ stop \in 1 .. 8 /\ stop' = stop + 1
      /\ UNCHANGED <<running, work, connected, g_shared_link_ptr, queue>>
  BY WakeupsAre DEF Wakeup
<1>2. \/ w = "TCP_RECV" /\ pc["TCP_RECV"] = "link" /\ pc' = pc
      \/ /\ ~(w = "TCP_RECV" /\ pc["TCP_RECV"] = "link")
         /\ \E W \in SignalWakes(CondOf(w)) : pc' = Moved("main", "", W)
  BY DEF Wakeup
<1> HIDE DEF w
<1>3. ASSUME NEW W, pc' = Moved("main", "", W)
      PROVE  /\ PcTypes'
             /\ \A u \in Thread : pc'[u] = IF u \in W THEN "test" ELSE pc[u]
  <2>1. \A u \in Thread : u # "main"
    BY ThreadIs
  <2> QED
    BY <1>3, <2>1 DEF Moved, PcTypes, State
<1>4. PcTypes'
  BY <1>2, <1>3 DEF PcTypes
<1> QED
  BY <1>1, <1>2, <1>3, <1>4 DEF w

(* A thread that is asleep was so before, or has just gone to sleep.       *)
LEMMA AsleepBefore ==
  ASSUME PcTypes, HandlesOne, queue \in Seq(Destination), [Next]_vars
  PROVE  /\ PcTypes'
         /\ \A u \in Thread :
              /\ pc'[u] = "wait" => Waits(u) \/ Idles(u)
              /\ pc'[u] = "init" => pc[u] = "init"
              /\ pc'[u] = "link" => pc[u] = "link"
<1> DEFINE Goal == /\ PcTypes'
                   /\ \A u \in Thread :
                        /\ pc'[u] = "wait" => Waits(u) \/ Idles(u)
                        /\ pc'[u] = "init" => pc[u] = "init"
                        /\ pc'[u] = "link" => pc[u] = "link"
<1>0. ASSUME PcTypes', \A u \in Thread : pc'[u] = pc[u] \/ pc'[u] \notin {"wait", "init", "link"}
      PROVE  Goal
  BY <1>0 DEF Waits
<1>1. CASE \E t \in Names : Plain(t)
  BY <1>0, <1>1, PlainPc
<1>2. CASE \E t \in Thread : Idles(t)
  <2>1. PICK t \in Thread : Idles(t)
    BY <1>2
  <2>2. pc' = [pc EXCEPT ![t] = "wait"]
    BY <2>1 DEF Idles, Goes
  <2> QED
    BY <2>1, <2>2 DEF PcTypes, Waits, State
<1>3. CASE \E t \in Thread, d \in Destination : Send(t, d)
  BY <1>0, <1>3, SendIs
<1>4. CASE Handles
  BY <1>0, <1>4, HandlesIs
<1>5. CASE SenderConnects
  <2>1. /\ PcTypes' /\ pc'["TCP_SEND"] \in {"send", "test"}
        /\ \A u \in Thread \ {"TCP_SEND"} : pc'[u] = pc[u] \/ pc'[u] = "test"
    BY <1>5, ConnectsIs
  <2> QED
    BY <1>0, <2>1
<1>6. CASE Wakeup
  BY <1>0, <1>6, WakeupIs
<1>7. CASE SIGINT \/ UNCHANGED vars
  BY <1>7 DEF SIGINT, vars, PcTypes, Waits
<1> QED
  BY <1>1, <1>2, <1>3, <1>4, <1>5, <1>6, <1>7, Kinds

LEMMA QueueStep ==
  ASSUME TypeOK, HandlesOne, [Next]_vars
  PROVE  /\ queue' \in Seq(Destination) /\ Len(queue') <= QueueCap
         /\ HandlesOne'
<1>0. /\ PcTypes /\ queue \in Seq(Destination) /\ Len(queue) <= QueueCap /\ Len(queue) \in Nat
      /\ QueueCap \in Nat /\ "DELIVER" \in Thread
  BY ThreadIs, LenProperties DEF TypeOK, PcTypes, State
<1>e. <<>> \in Seq(Destination) /\ Len(<<>>) = 0
  BY EmptySeq
<1>1. CASE \E t \in Names : Plain(t)
  <2>1. PICK t \in Names : Plain(t)
    BY <1>1
  <2>2. PICK l \in State \ {"wait", "link", "init"} :
          /\ pc' = [pc EXCEPT ![t] = l]
          /\ l = "handle" => t = "DELIVER" /\ queue # <<>> /\ queue' = queue
    BY <2>1, PlainIs
  <2>3. queue' = queue \/ (t = "DELIVER" /\ queue' = <<>>)
    BY <2>1, PlainIs
  <2>4. HandlesOne'
    <3> SUFFICES ASSUME pc'["DELIVER"] = "handle" PROVE queue' # <<>>
      BY DEF HandlesOne
    <3>1. CASE t = "DELIVER"
      BY <1>0, <2>2, <3>1 DEF PcTypes
    <3>2. CASE t # "DELIVER"
      BY <1>0, <2>2, <2>3, <3>2 DEF PcTypes, HandlesOne
    <3> QED
      BY <3>1, <3>2
  <2>5. CASE queue' = queue
    BY <1>0, <2>4, <2>5
  <2>6. CASE queue' = <<>>
    BY <1>0, <1>e, <2>4, <2>6
  <2> QED
    BY <2>3, <2>5, <2>6
<1>2. CASE \E t \in Thread : Idles(t)
  <2>1. PICK t \in Thread : Idles(t)
    BY <1>2
  <2>2. pc' = [pc EXCEPT ![t] = "wait"] /\ queue' = queue
    BY <2>1 DEF Idles, Goes, same
  <2> QED
    BY <1>0, <2>2 DEF PcTypes, HandlesOne
<1>3. CASE \E t \in Thread, d \in Destination : Send(t, d)
  <2>1. PICK t \in Thread, d \in Destination : Send(t, d)
    BY <1>3
  <2>2. queue' = Append(queue, d) /\ Len(queue) < QueueCap
    BY <1>0, <2>1, SendIs DEF HasRoom
  <2>3. queue' \in Seq(Destination) /\ Len(queue') = Len(queue) + 1
    BY <1>0, <2>2, AppendProperties
  <2>4. queue' # <<>>
    BY <1>0, <1>e, <2>3
  <2> QED
    BY <1>0, <2>2, <2>3, <2>4 DEF HandlesOne
<1>4. CASE Handles
  <2>1. /\ queue' = Tail(queue) /\ queue # <<>>
        /\ pc'["DELIVER"] = "loop"
    BY <1>0, <1>4, HandlesIs
  <2>2. queue' \in Seq(Destination) /\ Len(queue') = Len(queue) - 1
    BY <1>0, <2>1, HeadTailProperties
  <2> QED
    BY <1>0, <2>1, <2>2 DEF HandlesOne
<1>5. CASE SenderConnects
  <2>1. queue' = queue /\ (pc'["DELIVER"] = pc["DELIVER"] \/ pc'["DELIVER"] = "test")
    BY <1>0, <1>5, ConnectsIs
  <2> QED
    BY <1>0, <2>1 DEF HandlesOne
<1>6. CASE Wakeup
  <2>1. queue' = queue /\ (pc'["DELIVER"] = pc["DELIVER"] \/ pc'["DELIVER"] = "test")
    BY <1>0, <1>6, WakeupIs
  <2> QED
    BY <1>0, <2>1 DEF HandlesOne
<1>7. CASE SIGINT \/ UNCHANGED vars
  BY <1>0, <1>7 DEF SIGINT, vars, HandlesOne
<1> QED
  BY <1>1, <1>2, <1>3, <1>4, <1>5, <1>6, <1>7, Kinds

LEMMA TypeStep ==
  ASSUME TypeOK, HandlesOne, [Next]_vars
  PROVE  TypeOK'
<1>0. /\ PcTypes /\ queue \in Seq(Destination) /\ stop \in 0 .. 9
      /\ running \in BOOLEAN /\ connected \in BOOLEAN /\ g_shared_link_ptr \in BOOLEAN
      /\ work \in [Destination -> BOOLEAN]
  BY DEF TypeOK, PcTypes, State
<1>1. queue' \in Seq(Destination) /\ Len(queue') <= QueueCap
  BY QueueStep
<1>2. PcTypes'
  BY <1>0, QueueStep, AsleepBefore
<1> DEFINE Rest == /\ running \in BOOLEAN /\ stop \in 0 .. 9
                   /\ work \in [Destination -> BOOLEAN]
                   /\ connected \in BOOLEAN /\ g_shared_link_ptr \in BOOLEAN
<1>3. Rest'
  <2>1. CASE \E t \in Names : Plain(t)
    <3>1. PICK t \in Names : Plain(t)
      BY <2>1
    <3>2. UNCHANGED <<running, stop>>
      BY <3>1, PlainIs
    <3>3. work' \in [Destination -> BOOLEAN]
      <4>1. work' = work \/ work' = [work EXCEPT ![t] = FALSE]
        BY <3>1, PlainIs
      <4> QED
        BY <1>0, <4>1
    <3>4. connected' = connected \/ connected' = FALSE \/ connected' \in BOOLEAN
      BY ONLY <3>1, PlainIs, Zenon
    <3>5. g_shared_link_ptr' = g_shared_link_ptr \/ g_shared_link_ptr' = TRUE
      BY ONLY <3>1, PlainIs, Zenon
    <3> QED
      BY ONLY <1>0, <3>2, <3>3, <3>4, <3>5, Zenon
  <2>2. CASE \E t \in Thread : Idles(t)
    <3>1. UNCHANGED <<running, stop, work, connected, g_shared_link_ptr>>
      BY <2>2 DEF Idles, same
    <3> QED
      BY ONLY <1>0, <3>1, Zenon
  <2>3. CASE \E t \in Thread, d \in Destination : Send(t, d)
    <3>1. UNCHANGED <<running, stop, work, connected, g_shared_link_ptr>>
      BY <1>0, <2>3, SendIs
    <3> QED
      BY ONLY <1>0, <3>1, Zenon
  <2>4. CASE Handles
    <3>1. /\ UNCHANGED <<running, stop, connected, g_shared_link_ptr>>
          /\ work' = work \/ \E d : work' = [work EXCEPT ![d] = TRUE]
      BY <1>0, <2>4, HandlesIs
    <3>2. work' \in [Destination -> BOOLEAN]
      BY <1>0, <3>1
    <3> QED
      BY ONLY <1>0, <3>1, <3>2, Zenon
  <2>5. CASE SenderConnects
    <3>1. /\ UNCHANGED <<running, stop, work, g_shared_link_ptr>>
          /\ connected' = connected \/ connected' = TRUE
      BY <1>0, <2>5, ConnectsIs
    <3> QED
      BY ONLY <1>0, <3>1, Zenon
  <2>6. CASE Wakeup
    <3>1. /\ UNCHANGED <<running, work, connected, g_shared_link_ptr>>
          /\ stop \in 1 .. 8 /\ stop' = stop + 1
      BY <1>0, <2>6, WakeupIs
    <3>2. stop' \in 0 .. 9
      BY <3>1
    <3> QED
      BY ONLY <1>0, <3>1, <3>2, Zenon
  <2>7. CASE SIGINT
    <3>1. /\ UNCHANGED <<work, connected, g_shared_link_ptr>>
          /\ running' = FALSE /\ stop' = 1
      BY <2>7 DEF SIGINT
    <3>2. 1 \in 0 .. 9
      OBVIOUS
    <3> QED
      BY ONLY <1>0, <3>1, <3>2, Zenon
  <2>8. CASE UNCHANGED vars
    BY ONLY <1>0, <2>8, Zenon DEF vars
  <2> QED
    BY <2>1, <2>2, <2>3, <2>4, <2>5, <2>6, <2>7, <2>8, Kinds
<1> QED
  BY <1>1, <1>2, <1>3 DEF TypeOK, PcTypes, State

-----------------------------------------------------------------------------
(* Nobody sleeps over his work                                             *)

LEMMA StopSame ==
  ASSUME PcTypes, [Next]_vars, ~SIGINT, ~Wakeup
  PROVE  UNCHANGED <<running, stop>>
<1>1. (\E t \in Names : Plain(t)) => UNCHANGED <<running, stop>>
  BY PlainIs
<1>2. (\E t \in Thread : Idles(t)) => UNCHANGED <<running, stop>>
  BY DEF Idles, same
<1>3. (\E t \in Thread, d \in Destination : Send(t, d)) => UNCHANGED <<running, stop>>
  BY SendIs
<1>4. Handles \/ SenderConnects => UNCHANGED <<running, stop>>
  BY DEF Handles, SenderConnects
<1> QED
  BY <1>1, <1>2, <1>3, <1>4, Kinds DEF vars

LEMMA RunningStep ==
  ASSUME TypeOK, HandlesOne, running <=> stop = 0, [Next]_vars
  PROVE  running' <=> stop' = 0
<1>0. PcTypes /\ queue \in Seq(Destination)
  BY DEF TypeOK, PcTypes, State
<1>1. CASE SIGINT
  BY <1>1 DEF SIGINT
<1>2. CASE Wakeup
  <2>1. running' = running /\ stop \in 1 .. 8 /\ stop' = stop + 1
    BY <1>0, <1>2, WakeupIs
  <2>2. stop # 0 /\ stop' # 0
    BY <2>1
  <2> QED
    BY <2>1, <2>2
<1>3. CASE ~SIGINT /\ ~Wakeup
  BY <1>0, <1>3, StopSame
<1> QED
  BY <1>1, <1>2, <1>3

LEMMA CameraStep ==
  ASSUME TypeOK, HandlesOne, CameraAwake, [Next]_vars
  PROVE  CameraAwake'
<1> SUFFICES ASSUME "CAMERA" \in Thread PROVE pc'["CAMERA"] \notin {"test", "wait"}
  BY DEF CameraAwake
<1>0. PcTypes /\ queue \in Seq(Destination) /\ pc["CAMERA"] \notin {"test", "wait"}
  BY DEF TypeOK, PcTypes, State, CameraAwake
<1>1. CASE \E t \in Names : Plain(t)
  <2>1. PICK t \in Names : Plain(t)
    BY <1>1
  <2>2. PICK l \in State \ {"wait", "link", "init"} :
          /\ pc' = [pc EXCEPT ![t] = l]
          /\ t = "CAMERA" /\ l = "test" => pc[t] = "wait"
    BY <2>1, PlainIs
  <2> QED
    BY <1>0, <2>2 DEF PcTypes
<1>2. CASE \E t \in Thread : Idles(t)
  <2>1. PICK t \in Thread : Idles(t)
    BY <1>2
  <2>2. pc[t] = "test" /\ pc' = [pc EXCEPT ![t] = "wait"]
    BY <2>1 DEF Idles, Goes
  <2> QED
    BY <1>0, <2>2 DEF PcTypes
<1>3. CASE \E t \in Thread, d \in Destination : Send(t, d)
  BY <1>0, <1>3, SendIs
<1>4. CASE Handles
  <2>1. PICK d \in Destination :
          \E W \in Told(d) :
            \A u \in Thread : pc'[u] = IF u = "DELIVER" THEN "loop"
                                       ELSE IF u \in W THEN "test" ELSE pc[u]
    BY <1>0, <1>4, HandlesIs
  <2>2. PICK W \in Told(d) :
          \A u \in Thread : pc'[u] = IF u = "DELIVER" THEN "loop"
                                     ELSE IF u \in W THEN "test" ELSE pc[u]
    BY <2>1
  <2>3. "CAMERA" \notin W
    BY <1>0, <2>2, ToldIs DEF Waiting
  <2> QED
    BY <1>0, <2>2, <2>3
<1>5. CASE SenderConnects
  <2>1. pc'["CAMERA"] = pc["CAMERA"]
    BY <1>0, <1>5, ConnectsIs
  <2> QED
    BY <1>0, <2>1
<1>6. CASE Wakeup
  <2>1. CASE pc' = pc
    BY <1>0, <2>1
  <2>2. CASE \E W \in SignalWakes(CondOf(Wakeups[stop])) :
               \A u \in Thread : pc'[u] = IF u \in W THEN "test" ELSE pc[u]
    <3>1. PICK W \in SignalWakes(CondOf(Wakeups[stop])) :
            \A u \in Thread : pc'[u] = IF u \in W THEN "test" ELSE pc[u]
      BY <2>2
    <3>2. "CAMERA" \notin W
      BY <1>0, <3>1, SignalIs DEF Waiting
    <3> QED
      BY <1>0, <3>1, <3>2
  <2> QED
    BY <1>0, <1>6, <2>1, <2>2, WakeupIs
<1>7. CASE SIGINT \/ UNCHANGED vars
  BY <1>0, <1>7 DEF SIGINT, vars
<1> QED
  BY <1>1, <1>2, <1>3, <1>4, <1>5, <1>6, <1>7, Kinds

LEMMA LinkStep ==
  ASSUME TypeOK, HandlesOne, LinkUnposted, [Next]_vars
  PROVE  LinkUnposted'
<1> SUFFICES ASSUME pc'["TCP_SEND"] = "init"
             PROVE  ~g_shared_link_ptr' /\ pc'["TCP_RECV"] = "link"
  BY DEF LinkUnposted
<1>0. PcTypes /\ queue \in Seq(Destination)
  BY DEF TypeOK, PcTypes, State
<1>1. pc["TCP_SEND"] = "init" /\ ~g_shared_link_ptr /\ pc["TCP_RECV"] = "link"
  BY <1>0, AsleepBefore, ThreadIs DEF LinkUnposted
<1>2. CASE \E t \in Names : Plain(t)
  <2>1. PICK t \in Names : Plain(t)
    BY <1>2
  <2>2. t # "TCP_SEND"
    <3> SUFFICES ASSUME t = "TCP_SEND" PROVE FALSE
      OBVIOUS
    <3>1. PICK l \in State \ {"wait", "link", "init"} : pc' = [pc EXCEPT !["TCP_SEND"] = l]
      BY <2>1, PlainIs
    <3> QED
      BY <1>0, <3>1, ThreadIs DEF PcTypes
  <2>3. t # "TCP_RECV"
    BY <1>1, <2>1, PlainIs
  <2>4. pc'["TCP_RECV"] = pc["TCP_RECV"]
    BY <1>0, <2>1, <2>3, PlainPc, ThreadIs
  <2>5. g_shared_link_ptr' = g_shared_link_ptr
    BY <2>1, <2>2, PlainIs
  <2> QED
    BY <1>1, <2>4, <2>5
<1>3. CASE \E t \in Thread : Idles(t)
  <2>1. PICK t \in Thread : Idles(t)
    BY <1>3
  <2>2. /\ pc[t] = "test" /\ pc' = [pc EXCEPT ![t] = "wait"]
        /\ g_shared_link_ptr' = g_shared_link_ptr
    BY <2>1 DEF Idles, Goes, same
  <2> QED
    BY <1>0, <1>1, <2>2, ThreadIs DEF PcTypes
<1>4. CASE \E t \in Thread, d \in Destination : Send(t, d)
  <2>1. /\ g_shared_link_ptr' = g_shared_link_ptr
        /\ \A u \in Thread : pc'[u] = pc[u] \/ Waits(u)
    BY <1>0, <1>4, SendIs
  <2> QED
    BY <1>1, <2>1, ThreadIs DEF Waits
<1>5. CASE Handles
  <2>1. PICK d \in Destination :
          /\ g_shared_link_ptr' = g_shared_link_ptr
          /\ \E W \in Told(d) :
               \A u \in Thread : pc'[u] = IF u = "DELIVER" THEN "loop"
                                          ELSE IF u \in W THEN "test" ELSE pc[u]
    BY <1>0, <1>5, HandlesIs
  <2>2. PICK W \in Told(d) :
          \A u \in Thread : pc'[u] = IF u = "DELIVER" THEN "loop"
                                     ELSE IF u \in W THEN "test" ELSE pc[u]
    BY <2>1
  <2>3. "TCP_RECV" \notin W
    BY <1>1, <2>2, ToldIs DEF Waiting
  <2> QED
    BY <1>1, <2>1, <2>2, <2>3, ThreadIs
<1>6. CASE SenderConnects
  BY <1>0, <1>1, <1>6, ConnectsIs
<1>7. CASE Wakeup
  <2>1. g_shared_link_ptr' = g_shared_link_ptr
    BY <1>0, <1>7, WakeupIs
  <2>2. CASE pc' = pc
    BY <1>1, <2>1, <2>2
  <2>3. CASE \E W \in SignalWakes(CondOf(Wakeups[stop])) :
               \A u \in Thread : pc'[u] = IF u \in W THEN "test" ELSE pc[u]
    <3>1. PICK W \in SignalWakes(CondOf(Wakeups[stop])) :
            \A u \in Thread : pc'[u] = IF u \in W THEN "test" ELSE pc[u]
      BY <2>3
    <3>2. "TCP_RECV" \notin W
      BY <1>1, <3>1, SignalIs DEF Waiting
    <3> QED
      BY <1>1, <2>1, <3>1, <3>2, ThreadIs
  <2> QED
    BY <1>0, <1>7, <2>2, <2>3, WakeupIs
<1>8. CASE SIGINT \/ UNCHANGED vars
  BY <1>1, <1>8 DEF SIGINT, vars
<1> QED
  BY <1>2, <1>3, <1>4, <1>5, <1>6, <1>7, <1>8, Kinds


LEMMA ReadyIs ==
  /\ Ready("DELIVER") <=> queue # <<>>
  /\ Ready("TCP_RECV") <=> connected
  /\ \A t : t \notin {"DELIVER", "TCP_RECV"} => Ready(t) = work[t]
BY DEF Ready

LEMMA OversleepsStep ==
  ASSUME TypeOK, HandlesOne, CameraAwake, LinkUnposted, NobodyOversleeps, [Next]_vars
  PROVE  NobodyOversleeps'
<1> SUFFICES ASSUME NEW u \in Thread, pc'[u] = "wait", Ready(u)', u # "LOGGER"
             PROVE  u = "TCP_SEND" /\ ~connected'
  BY DEF NobodyOversleeps
<1>0. PcTypes /\ queue \in Seq(Destination) /\ work \in [Destination -> BOOLEAN]
  BY DEF TypeOK, PcTypes, State
<1>r. /\ u = "DELIVER" => queue' # <<>>
      /\ u = "TCP_RECV" => connected'
      /\ u \notin {"DELIVER", "TCP_RECV"} => work'[u]
  BY DEF Ready
<1>1. ~Idles(u)
  <2> SUFFICES ASSUME Idles(u) PROVE FALSE
    OBVIOUS
  <2>1. ~Ready(u) /\ work' = work /\ connected' = connected /\ queue' = queue
    BY DEF Idles, same
  <2> QED
    BY <1>r, <2>1, ReadyIs
<1>2. Waits(u)
  BY <1>0, <1>1, AsleepBefore
<1>3. ASSUME u = "DELIVER" => queue # <<>>, u = "TCP_RECV" => connected,
             u \notin {"DELIVER", "TCP_RECV"} => work[u]
      PROVE  u = "TCP_SEND" /\ ~connected
  <2>1. Ready(u)
    BY <1>3, ReadyIs
  <2> QED
    BY <1>2, <2>1 DEF NobodyOversleeps, Waits
<1>4. ASSUME UNCHANGED <<work, connected, queue>>
      PROVE  u = "TCP_SEND" /\ ~connected'
  BY ONLY <1>r, <1>3, <1>4, Zenon
<1>5. u # "CAMERA" /\ (u \in Destination \/ u \in {"DELIVER", "TCP_RECV"})
  BY <1>2, ThreadIs DEF CameraAwake, Waits, Destination
<1>6. CASE \E t \in Names : Plain(t)
  <2>1. PICK t \in Names : Plain(t)
    BY <1>6
  <2>2. u = "DELIVER" => queue # <<>>
    <3>1. queue' = queue \/ queue' = <<>>
      BY <2>1, PlainIs
    <3> QED
      BY <1>r, <3>1
  <2>3. connected' = connected \/ connected' = FALSE \/ pc["TCP_SEND"] = "init"
    BY ONLY <2>1, PlainIs, Zenon
  <2>4. pc["TCP_SEND"] = "init" => u \notin {"TCP_SEND", "TCP_RECV"}
    BY <1>2 DEF LinkUnposted, Waits
  <2>5. u = "TCP_RECV" => connected
    BY ONLY <1>r, <2>3, <2>4, Zenon
  <2>6. u \notin {"DELIVER", "TCP_RECV"} => work[u]
    <3> SUFFICES ASSUME u \notin {"DELIVER", "TCP_RECV"} PROVE work[u]
      OBVIOUS
    <3>1. work' = work \/ work' = [work EXCEPT ![t] = FALSE]
      BY <2>1, PlainIs
    <3>2. u \in Destination /\ work'[u]
      BY <1>r, <1>5
    <3> QED
      BY <1>0, <3>1, <3>2
  <2>7. u = "TCP_SEND" /\ ~connected
    BY <1>3, <2>2, <2>5, <2>6
  <2>8. pc["TCP_SEND"] # "init"
    BY <2>4, <2>7
  <2>9. connected' = connected \/ connected' = FALSE
    BY ONLY <2>3, <2>8, Zenon
  <2> QED
    BY ONLY <2>7, <2>9
<1>7. CASE \E t \in Thread : Idles(t)
  BY <1>4, <1>7 DEF Idles, same
<1>8. CASE \E t \in Thread, d \in Destination : Send(t, d)
  <2>1. /\ work' = work /\ connected' = connected
        /\ ~(Waits("DELIVER") /\ pc'["DELIVER"] = "wait")
    BY <1>0, <1>8, SendIs
  <2>2. u # "DELIVER"
    BY <1>2, <2>1
  <2> QED
    BY ONLY <1>r, <1>3, <2>1, <2>2, Zenon
<1>9. CASE Handles
  <2>1. PICK d \in Destination :
          /\ queue' = Tail(queue) /\ queue # <<>>
          /\ \E W \in Told(d) :
               \A v \in Thread : pc'[v] = IF v = "DELIVER" THEN "loop"
                                          ELSE IF v \in W THEN "test" ELSE pc[v]
          /\ \/ work' = [work EXCEPT ![d] = TRUE]
             \/ d = "LOGGER" /\ work' = work
          /\ connected' = connected
    BY <1>0, <1>9, HandlesIs
  <2>2. PICK W \in Told(d) :
          \A v \in Thread : pc'[v] = IF v = "DELIVER" THEN "loop"
                                     ELSE IF v \in W THEN "test" ELSE pc[v]
    BY <2>1
  <2>3. u # "DELIVER" /\ u \notin W
    BY <2>2
  <2>4. CASE u = d
    <3>0. CASE work[d]
      <4>1. u \notin {"DELIVER", "TCP_RECV"} /\ work[u]
        BY <2>4, <3>0 DEF Destination
      <4> QED
        BY <1>3, <2>1, <4>1
    <3>a. SUFFICES ASSUME ~work[d] PROVE u = "TCP_SEND" /\ ~connected'
      BY <3>0
    <3>1. Waiting(d) # {} => \E w \in Waiting(d) : W = {w}
      BY <2>2, <2>4, <3>a, ToldIs
    <3>2. u = "TCP_SEND"
      <4> SUFFICES ASSUME u # "TCP_SEND" PROVE FALSE
        OBVIOUS
      <4>1. u \in Thread \ {"TCP_SEND", "TCP_RECV"}
        BY <2>4 DEF Destination
      <4>2. Waiting(d) = {u}
        BY <1>2, <2>4, <4>1, WaitingIs
      <4> QED
        BY <2>3, <3>1, <4>2
    <3>3. Waiting("TCP_SEND") = {v \in {"TCP_SEND", "TCP_RECV"} : Waits(v)}
      BY WaitingIs
    <3>4. W = {"TCP_RECV"} /\ Waits("TCP_RECV")
      BY <1>2, <2>3, <2>4, <3>1, <3>2, <3>3
    <3>5. ~connected
      BY <3>4, ThreadIs, ReadyIs DEF NobodyOversleeps, Waits
    <3> QED
      BY <2>1, <3>2, <3>5
  <2>5. CASE u # d
    <3>1. u \notin {"DELIVER", "TCP_RECV"} => work[u]
      BY <1>0, <1>r, <1>5, <2>1, <2>5
    <3>2. u = "TCP_RECV" => connected
      BY <1>r, <2>1
    <3> QED
      BY <1>3, <2>1, <2>3, <3>1, <3>2
  <2> QED
    BY <2>4, <2>5
<1>10. CASE SenderConnects
  <2>1. /\ UNCHANGED <<work, queue>> /\ pc'["TCP_SEND"] # "wait"
        /\ connected' = connected \/ pc'["TCP_RECV"] # "wait"
    BY <1>0, <1>10, ConnectsIs
  <2>2. u # "TCP_SEND"
    BY <2>1
  <2>3. CASE connected' = connected
    BY <1>4, <2>1, <2>3
  <2>4. CASE pc'["TCP_RECV"] # "wait"
    <3>1. u # "TCP_RECV"
      BY <2>4
    <3> QED
      BY ONLY <1>r, <1>3, <2>1, <2>2, <3>1, Zenon
  <2> QED
    BY <2>1, <2>3, <2>4
<1>11. CASE Wakeup
  BY <1>0, <1>4, <1>11, WakeupIs
<1>12. CASE SIGINT \/ UNCHANGED vars
  BY <1>4, <1>12 DEF SIGINT, vars
<1> QED
  BY <1>6, <1>7, <1>8, <1>9, <1>10, <1>11, <1>12, Kinds


-----------------------------------------------------------------------------
(* Who waits will be woken                                                 *)

Kept == /\ stop' = stop
        /\ \A u \in Thread : /\ pc'[u] = "wait" => Waits(u)
                             /\ pc'[u] = "link" => pc[u] = "link"

LEMMA WokenKept ==
  ASSUME Woken, Kept
  PROVE  Woken'
<1>1. \A t : ToWake(t)' <=> ToWake(t)
  BY DEF ToWake, Kept
<1>2. /\ Waits("TCP_SEND")' => Waits("TCP_SEND")
      /\ Waits("TCP_RECV")' => Waits("TCP_RECV")
      /\ pc'["TCP_RECV"] = "link" => pc["TCP_RECV"] = "link"
      /\ \A u \in Thread : Waits(u)' => Waits(u)
  BY ThreadIs DEF Kept, Waits
<1>3. \A t \in Thread \ {"TCP_SEND", "TCP_RECV"} : Waits(t)' => ToWake(t)'
  BY <1>1, <1>2 DEF Woken
<1>4. Waits("TCP_SEND")' \/ Waits("TCP_RECV")' =>
        ToWake("TCP_SEND")' \/ (ToWake("TCP_RECV")' /\ pc'["TCP_RECV"] # "link")
  BY <1>1, <1>2 DEF Woken
<1>5. Waits("TCP_SEND")' /\ Waits("TCP_RECV")' => ToWake("TCP_SEND")'
  BY <1>1, <1>2 DEF Woken
<1> QED
  BY <1>3, <1>4, <1>5 DEF Woken

(* Before the first wakeup everybody will be woken.                        *)
LEMMA WokenEarly ==
  ASSUME stop \in 0 .. 9, stop <= 1, CameraAwake
  PROVE  Woken
<1>1. ToWake("TCP_SEND") /\ \A t \in Names \ {"CAMERA"} : ToWake(t)
  BY WokenFromIs DEF ToWake, Names
<1> QED
  BY <1>1, ThreadIs DEF Woken, CameraAwake, Waits

LEMMA WokenEarlyNext ==
  ASSUME stop' \in 0 .. 9, stop' <= 1, CameraAwake'
  PROVE  Woken'
<1>1. ToWake("TCP_SEND")' /\ \A t \in Names \ {"CAMERA"} : ToWake(t)'
  BY WokenFromIs DEF ToWake, Names
<1> QED
  BY <1>1, ThreadIs DEF Woken, CameraAwake, Waits

LEMMA WokenWakeup ==
  ASSUME PcTypes, Woken, Wakeup
  PROVE  Woken'
<1> DEFINE w == Wakeups[stop]
<1>1. /\ stop \in 1 .. 8 /\ stop' = stop + 1 /\ stop' \in 0 .. 9
      /\ \/ w = "TCP_RECV" /\ pc["TCP_RECV"] = "link" /\ pc' = pc
         \/ /\ ~(w = "TCP_RECV" /\ pc["TCP_RECV"] = "link")
            /\ \E W \in SignalWakes(CondOf(w)) :
                 \A u \in Thread : pc'[u] = IF u \in W THEN "test" ELSE pc[u]
  BY WakeupIs
<1>2. /\ stop = 3 <=> w = "TCP_SEND"
      /\ stop = 4 <=> w = "TCP_RECV"
  <2>1. stop \in {1, 2, 3, 4, 5, 6, 7, 8}
    BY <1>1
  <2> QED
    BY <2>1, WakeupsAre
<1>3. /\ ToWake("TCP_SEND") <=> stop <= 3
      /\ ToWake("TCP_RECV") <=> stop <= 4
      /\ ToWake("TCP_SEND")' <=> stop' <= 3
      /\ ToWake("TCP_RECV")' <=> stop' <= 4
  <2>1. stop \in 0 .. 9
    BY <1>1
  <2> QED
    BY <1>1, <2>1, WokenFromIs DEF ToWake
<1>4. \A t : ToWake(t) /\ w # t => ToWake(t)'
  BY <1>1, WokenNext DEF ToWake
<1> HIDE DEF w
<1>5. CASE w = "TCP_RECV" /\ pc["TCP_RECV"] = "link" /\ pc' = pc
  <2>1. stop = 4 /\ ~ToWake("TCP_SEND")
    BY <1>2, <1>3, <1>5
  <2>2. ~Waits("TCP_SEND") /\ ~Waits("TCP_RECV")
    BY <1>5, <2>1 DEF Woken
  <2>3. \A t : Waits(t)' <=> Waits(t)
    BY <1>5 DEF Waits
  <2>4. \A t \in Thread \ {"TCP_SEND", "TCP_RECV"} : Waits(t)' => ToWake(t)'
    BY <1>4, <1>5, <2>3 DEF Woken
  <2> QED
    BY <2>2, <2>3, <2>4 DEF Woken
<1>6. CASE /\ ~(w = "TCP_RECV" /\ pc["TCP_RECV"] = "link")
           /\ \E W \in SignalWakes(CondOf(w)) :
                \A u \in Thread : pc'[u] = IF u \in W THEN "test" ELSE pc[u]
  <2>1. PICK W \in SignalWakes(CondOf(w)) :
          \A u \in Thread : pc'[u] = IF u \in W THEN "test" ELSE pc[u]
    BY <1>6
  <2>2. /\ W \subseteq Waiting(CondOf(w))
        /\ Waiting(CondOf(w)) # {} => \E v \in Waiting(CondOf(w)) : W = {v}
    BY <2>1, SignalIs
  <2>3. \A u \in Thread : Waits(u)' <=> Waits(u) /\ u \notin W
    BY <2>1 DEF Waits
  <2>4. ASSUME NEW t \in Thread \ {"TCP_SEND", "TCP_RECV"}, Waits(t)'
        PROVE  ToWake(t)'
    <3>1. ToWake(t)
      BY <2>3, <2>4 DEF Woken
    <3>2. ASSUME w = t PROVE FALSE
      <4>1. CondOf(w) = t
        BY <2>4, <3>2 DEF CondOf
      <4>2. Waiting(t) = {t}
        BY <2>3, <2>4, WaitingIs
      <4> QED
        BY <2>2, <2>3, <2>4, <4>1, <4>2
    <3> QED
      BY <1>4, <3>1, <3>2
  <2> DEFINE Two == {t \in {"TCP_SEND", "TCP_RECV"} : Waits(t)}
             Both == /\ Waits("TCP_SEND")' \/ Waits("TCP_RECV")' =>
                          \/ ToWake("TCP_SEND")'
                          \/ ToWake("TCP_RECV")' /\ pc'["TCP_RECV"] # "link"
                     /\ Waits("TCP_SEND")' /\ Waits("TCP_RECV")' => ToWake("TCP_SEND")'
  <2>5. /\ pc'["TCP_RECV"] = "link" => pc["TCP_RECV"] = "link"
        /\ Waits("TCP_SEND")' <=> Waits("TCP_SEND") /\ "TCP_SEND" \notin W
        /\ Waits("TCP_RECV")' <=> Waits("TCP_RECV") /\ "TCP_RECV" \notin W
    BY <2>1, <2>3, ThreadIs
  <2>6. CASE w \in {"TCP_SEND", "TCP_RECV"}
    <3>1. Waiting(CondOf(w)) = Two
      BY <2>6, WaitingIs DEF CondOf
    <3>2. ~(Waits("TCP_SEND")' /\ Waits("TCP_RECV")')
      BY <2>2, <2>5, <3>1
    <3>3. ASSUME Waits("TCP_SEND")' \/ Waits("TCP_RECV")'
          PROVE  Waits("TCP_SEND") /\ Waits("TCP_RECV")
      BY <2>2, <2>5, <3>1, <3>3
    <3>4. Waits("TCP_SEND") /\ Waits("TCP_RECV") => stop = 3 /\ pc["TCP_RECV"] # "link"
      <4>1. Waits("TCP_SEND") /\ Waits("TCP_RECV") => ToWake("TCP_SEND")
        BY DEF Woken
      <4>2. stop \in {3, 4}
        BY <1>2, <2>6
      <4> QED
        BY <1>3, <4>1, <4>2 DEF Waits
    <3>5. stop = 3 => ToWake("TCP_RECV")'
      BY <1>1, <1>3
    <3> QED
      BY <2>4, <2>5, <3>2, <3>3, <3>4, <3>5 DEF Woken
  <2>7. CASE w \notin {"TCP_SEND", "TCP_RECV"}
    <3>1. stop # 3 /\ stop # 4
      BY <1>2, <2>7
    <3>2. /\ ToWake("TCP_SEND")' <=> ToWake("TCP_SEND")
          /\ ToWake("TCP_RECV")' <=> ToWake("TCP_RECV")
      BY <1>1, <1>3, <3>1
    <3> QED
      BY <2>4, <2>5, <3>2 DEF Woken
  <2> QED
    BY <2>6, <2>7
<1> QED
  BY <1>1, <1>5, <1>6


LEMMA WokenStep ==
  ASSUME LInv, TypeOK', CameraAwake', [Next]_vars
  PROVE  Woken'
<1>0. /\ PcTypes /\ queue \in Seq(Destination) /\ stop \in 0 .. 9 /\ stop' \in 0 .. 9
      /\ HandlesOne /\ Woken /\ (running <=> stop = 0)
  BY DEF LInv, TypeOK, PcTypes, State
<1>1. CASE stop' <= 1
  BY <1>0, <1>1, WokenEarlyNext
<1>2. CASE Wakeup
  BY <1>0, <1>2, WokenWakeup
<1>3. CASE ~(stop' <= 1) /\ ~Wakeup
  <2>1. ~SIGINT
    BY <1>3 DEF SIGINT
  <2>2. stop' = stop
    BY <1>0, <1>3, <2>1, StopSame
  <2>3. ~running
    BY <1>0, <1>3, <2>2
  <2>4. \A t \in Thread : ~Idles(t)
    BY <2>3 DEF Idles
  <2>5. Kept
    BY <1>0, <2>2, <2>4, AsleepBefore DEF Kept
  <2> QED
    BY <1>0, <2>5, WokenKept
<1> QED
  BY <1>1, <1>2, <1>3

-----------------------------------------------------------------------------
(* The theorems                                                            *)

LEMMA LInit == Init => LInv
<1> SUFFICES ASSUME Init PROVE LInv
  OBVIOUS
<1>1. pc \in [Thread -> State] /\ \A t \in Thread : pc[t] \in {"init", "link", "loop", "test"}
  BY DEF Init, Top, State
<1>2. pc["TCP_SEND"] = "init" /\ pc["TCP_RECV"] = "link" /\ pc["DELIVER"] = "loop"
  BY ThreadIs DEF Init, Top
<1>3. TypeOK
  <2>1. <<>> \in Seq(Destination) /\ Len(<<>>) <= QueueCap
    BY EmptySeq, ThreadIs
  <2>2. work \in [Destination -> BOOLEAN]
    BY DEF Init
  <2>3. 0 \in 0 .. 9
    OBVIOUS
  <2> QED
    BY <1>1, <2>1, <2>2, <2>3 DEF Init, TypeOK, State
<1>4. CameraAwake
  BY DEF Init, Top, CameraAwake
<1>5. NobodyOversleeps
  BY <1>1 DEF NobodyOversleeps
<1>6. Woken
  <2>1. stop \in 0 .. 9 /\ stop <= 1
    BY DEF Init
  <2> QED
    BY <1>4, <2>1, WokenEarly
<1>7. (running <=> stop = 0) /\ LinkUnposted /\ HandlesOne
  BY <1>2 DEF Init, LinkUnposted, HandlesOne
<1> QED
  BY <1>3, <1>4, <1>5, <1>6, <1>7 DEF LInv

LEMMA LNext == LInv /\ [Next]_vars => LInv'
<1> SUFFICES ASSUME LInv, [Next]_vars PROVE LInv'
  OBVIOUS
<1>0. /\ TypeOK /\ HandlesOne /\ CameraAwake /\ LinkUnposted /\ NobodyOversleeps
      /\ (running <=> stop = 0)
  BY DEF LInv
<1>1. TypeOK'
  BY <1>0, TypeStep
<1>2. (running <=> stop = 0)'
  BY <1>0, RunningStep
<1>3. CameraAwake'
  BY <1>0, CameraStep
<1>4. LinkUnposted'
  BY <1>0, LinkStep
<1>5. HandlesOne'
  BY <1>0, QueueStep
<1>6. NobodyOversleeps'
  BY <1>0, OversleepsStep
<1>7. Woken'
  BY <1>1, <1>3, WokenStep
<1> QED
  BY <1>1, <1>2, <1>3, <1>4, <1>5, <1>6, <1>7 DEF LInv

LEMMA LAlways == Spec => []LInv
BY LInit, LNext, PTL DEF Spec

(* Every variable keeps its type: in particular stop_handler makes its     *)
(* eight calls once, and the queue never holds more than it has room for.  *)
THEOREM TypeCorrect == Spec => []TypeOK
<1>1. LInv => TypeOK
  BY DEF LInv
<1> QED
  BY <1>1, LAlways, PTL

(* A thread sleeps only while it has nothing to do, or is the TCP sender   *)
(* without a connection, whose time limit ends the wait.  And when         *)
(* stop_handler (main.c) has made its last call nobody is in a wait that   *)
(* only another thread could end, whoever was woken by the two calls that  *)
(* concern TCP sender and receiver, and whether or not the receiver had its*)
(* link yet.                                                               *)
THEOREM NobodySleepsInVain == Spec => []SleepIsSafe
<1>1. LInv => NobodyLeftAsleep
  <2> SUFFICES ASSUME LInv, stop > Len(Wakeups), NEW t \in Thread, pc[t] = "wait"
               PROVE  FALSE
    BY DEF NobodyLeftAsleep
  <2>1. stop \in 0 .. 9 /\ stop = 9
    BY WakeupsAre DEF LInv, TypeOK
  <2>2. \A u : ~ToWake(u)
    BY <2>1, WokenFromIs DEF ToWake
  <2> QED
    BY <2>2 DEF LInv, Woken, Waits
<1>2. LInv => NobodyOversleeps
  BY DEF LInv
<1>3. LInv => SleepIsSafe
  BY <1>1, <1>2 DEF SleepIsSafe
<1> QED
  BY <1>3, LAlways, PTL
=============================================================================
