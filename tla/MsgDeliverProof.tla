-------------------------- MODULE MsgDeliverProof --------------------------
(***************************************************************************)
(* Proofs about MsgDeliver for every number of messages, threads, modules, *)
(* queue entries and log slots and for every priorities: its invariants,   *)
(* and that it implements MsgChannel.                                      *)
(*                                                                         *)
(* LogIntact is not inductive: nothing in it says that the slot about to be*)
(* written is free.  What makes it so is the AGE of a slot in use, the     *)
(* number of LOG messages copied since its own (its own included): it is at*)
(* most the number of entries from its own to the end of the queue, and for*)
(* the message being handled one more than the length of the queue.  A copy*)
(* is made only while the queue is not full, so a slot in use is younger   *)
(* than LogSlots, the age of the slot that is written.                     *)
(***************************************************************************)
EXTENDS MsgDeliverRefinement, SequenceTheorems, TLAPS

AgeAt(idx, s) == IF s < idx THEN idx - s ELSE idx + LogSlots - s
Age(s) == AgeAt(log_idx, s)

LiveSlots ==
  /\ \A i \in 1 .. Len(msg_buffer) :
       IsLog(msg_buffer[i]) =>
         /\ msg_buffer[i].slot \in Slot
         /\ Age(msg_buffer[i].slot) <= Len(msg_buffer) - i + 1
  /\ IsLog(msg) =>
       /\ msg.slot \in Slot
       /\ Age(msg.slot) <= Len(msg_buffer) + 1

(* The delivery thread holds a message exactly while it handles one, and a *)
(* refused sender one until it has released it.                            *)
HandPC == {"find_handler", "call_handler", "handling", "find_release",
           "call_release"}
InHand ==
  /\ pc \in HandPC => msg \in Entry
  /\ pc \notin HandPC => msg = NoEntry
  /\ \A t \in Thread : send_pc[t] # "idle" => send_msg[t] \in Msg

(* The routes are complete, and the thread in its loop, until the stop.    *)
UpWhileRunning == running => routes = Module /\ pc \notin {"cleanup", "done"}

IInv == /\ TypeOK
        /\ InHand
        /\ LiveSlots
        /\ LogIntact
        /\ UpWhileRunning
        /\ NothingLostWhileRunning
        /\ NoLostWakeup

-----------------------------------------------------------------------------
(* The ring index, written without the remainder.                          *)
LEMMA NextSlot ==
  ASSUME NEW i \in Slot
  PROVE  (i + 1) % LogSlots = IF i + 1 = LogSlots THEN 0 ELSE i + 1
<1>1. LogSlots \in Nat /\ LogSlots > 0 /\ i \in Nat /\ i < LogSlots
  BY SizeAssumption DEF Slot
<1>2. CASE i + 1 = LogSlots
  BY <1>1, <1>2
<1>3. CASE i + 1 < LogSlots
  BY <1>1, <1>3
<1> QED
  BY <1>1, <1>2, <1>3

(* What msg_queue_push makes of the queue.                                 *)
LEMMA InsertedProperties ==
  ASSUME NEW q \in Seq(Entry), NEW e \in Entry, NEW k \in 1 .. Len(q) + 1
  PROVE  /\ Inserted(q, k, e) \in Seq(Entry)
         /\ Len(Inserted(q, k, e)) = Len(q) + 1
         /\ \A i \in 1 .. Len(q) + 1 :
              Inserted(q, k, e)[i] = IF i < k THEN q[i]
                                     ELSE IF i = k THEN e ELSE q[i - 1]
<1> DEFINE n == Len(q) + 1
<1>1. Len(q) \in Nat /\ n \in Nat /\ q \in [1 .. Len(q) -> Entry]
  BY LenProperties
<1>2. \A i \in 1 .. n : (IF i < k THEN q[i]
                         ELSE IF i = k THEN e ELSE q[i - 1]) \in Entry
  <2> TAKE i \in 1 .. n
  <2>1. CASE i < k
    <3>1. i \in 1 .. Len(q)
      BY <1>1, <2>1
    <3> QED
      BY <1>1, <2>1, <3>1
  <2>2. CASE i = k
    BY <2>2
  <2>3. CASE i > k
    <3>1. i - 1 \in 1 .. Len(q)
      BY <1>1, <2>3
    <3> QED
      BY <1>1, <2>3, <3>1
  <2> QED
    BY <1>1, <2>1, <2>2, <2>3
<1>3. Inserted(q, k, e) \in [1 .. n -> Entry]
  BY <1>2 DEF Inserted
<1>4. Inserted(q, k, e) \in Seq(Entry)
  BY <1>1, <1>3, SeqDef
<1>5. DOMAIN Inserted(q, k, e) = 1 .. n
  BY DEF Inserted
<1>6. Len(Inserted(q, k, e)) = n
  BY <1>1, <1>4, <1>5, LenProperties
<1> QED
  BY <1>4, <1>6 DEF Inserted

-----------------------------------------------------------------------------
(* msg_queue_init_once leaves the queue empty and every route valid.        *)
LEMMA InitInv == Init => IInv
<1> SUFFICES ASSUME Init PROVE IInv
  OBVIOUS
<1> USE MessageAssumption, SizeAssumption
<1>1. TypeOK
  <2>1. msg_buffer \in Seq(Entry) /\ Len(msg_buffer) = 0
    BY EmptySeq DEF Init
  <2>2. /\ log_msg_buffer \in [Slot -> Msg \cup {NoMsg}]
        /\ log_idx \in Slot
        /\ running \in BOOLEAN /\ wakeup \in BOOLEAN /\ crashed \in BOOLEAN
        /\ routes \subseteq Module
        /\ pc \in DeliverPC
        /\ msg \in Entry \cup {NoEntry}
    <3>1. log_msg_buffer \in [Slot -> Msg \cup {NoMsg}]
      BY DEF Init
    <3>2. log_idx \in Slot
      BY DEF Init, Slot
    <3>3. running \in BOOLEAN /\ wakeup \in BOOLEAN /\ crashed \in BOOLEAN
      BY DEF Init
    <3>4. routes \subseteq Module /\ pc \in DeliverPC /\ msg = NoEntry
      BY DEF Init, DeliverPC
    <3> QED
      BY <3>1, <3>2, <3>3, <3>4
  <2>3. /\ send_pc \in [Thread -> {"idle", "full", "call"}]
        /\ send_msg \in [Thread -> Msg \cup {NoMsg}]
        /\ status \in [Msg -> Status]
        /\ arrival \in [Msg -> Nat]
        /\ accepted \in Nat
    BY DEF Init, Status
  <2> QED
    BY <2>1, <2>2, <2>3 DEF TypeOK
<1>2. InHand /\ UpWhileRunning /\ NothingLostWhileRunning /\ NoLostWakeup
  BY DEF Init, InHand, HandPC, UpWhileRunning, NothingLostWhileRunning,
         NoLostWakeup
<1>3. LiveSlots /\ LogIntact
  BY DEF Init, LiveSlots, LogIntact, IsLog, NoEntry
<1> QED
  BY <1>1, <1>2, <1>3 DEF IInv

(* msg_send of a message that fits.                                        *)
LEMMA MsgSendInv ==
  ASSUME IInv, NEW t \in Thread, NEW m \in Msg, MsgSend(t, m)
  PROVE  IInv'
<1> USE MessageAssumption, SizeAssumption
<1> PICK k \in 1 .. Len(msg_buffer) + 1 :
      /\ IsInsertAt(k, m)
      /\ msg_buffer' = Inserted(msg_buffer, k, Prepared(m))
  BY DEF MsgSend
<1> DEFINE n == Len(msg_buffer)
<1>1. /\ msg_buffer \in Seq(Entry)
      /\ n \in Nat
      /\ n < QueueCap
  BY LenProperties DEF IInv, TypeOK, MsgSend, HasRoom
<1>2. Prepared(m) \in Entry
  BY DEF Prepared, Entry, IInv, TypeOK, Slot, NoSlot
<1>3. /\ msg_buffer' \in Seq(Entry)
      /\ Len(msg_buffer') = n + 1
      /\ \A i \in 1 .. n + 1 :
           msg_buffer'[i] = IF i < k THEN msg_buffer[i]
                            ELSE IF i = k THEN Prepared(m)
                            ELSE msg_buffer[i - 1]
  <2> DEFINE q == Inserted(msg_buffer, k, Prepared(m))
  <2>1. /\ q \in Seq(Entry)
        /\ Len(q) = n + 1
        /\ \A i \in 1 .. n + 1 :
             q[i] = IF i < k THEN msg_buffer[i]
                    ELSE IF i = k THEN Prepared(m) ELSE msg_buffer[i - 1]
    <3>1. k \in 1 .. Len(msg_buffer) + 1
      OBVIOUS
    <3> HIDE DEF n
    <3>2. /\ Inserted(msg_buffer, k, Prepared(m)) \in Seq(Entry)
          /\ Len(Inserted(msg_buffer, k, Prepared(m))) = Len(msg_buffer) + 1
          /\ \A i \in 1 .. Len(msg_buffer) + 1 :
               Inserted(msg_buffer, k, Prepared(m))[i]
                 = IF i < k THEN msg_buffer[i]
                   ELSE IF i = k THEN Prepared(m) ELSE msg_buffer[i - 1]
      <4> HIDE DEF q
      <4>1. msg_buffer \in Seq(Entry)
        BY <1>1
      <4> QED
        BY ONLY <4>1, <1>2, <3>1, InsertedProperties, Zenon
    <3> QED
      BY <3>2 DEF n
  <2>2. msg_buffer' = q
    OBVIOUS
  <2> HIDE DEF q
  <2> QED
    BY <2>1, <2>2
<1>4. log_idx \in Slot /\ log_idx' \in Slot
  <2>1. CASE m \in LogMsg
    <3>1. log_idx' = IF log_idx + 1 = LogSlots THEN 0 ELSE log_idx + 1
      BY <2>1, NextSlot DEF MsgSend, HasRoom, CopyLog, NextLogIdx, IInv, TypeOK
    <3> QED
      BY <3>1 DEF IInv, TypeOK, Slot
  <2>2. CASE m \notin LogMsg
    BY <2>2 DEF MsgSend, HasRoom, CopyLog, NextLogIdx, IInv, TypeOK
  <2> QED
    BY <2>1, <2>2
<1>5. TypeOK'
  <2>0. log_msg_buffer' \in [Slot -> Msg \cup {NoMsg}]
    BY DEF MsgSend, HasRoom, CopyLog, NextLogIdx, IInv, TypeOK
  <2>1. Len(msg_buffer') <= QueueCap
    BY <1>1, <1>3
  <2>2. pc' \in DeliverPC
    BY DEF MsgSend, Signalled, IInv, TypeOK, DeliverPC
  <2>3. /\ status' \in [Msg -> Status]
        /\ arrival' \in [Msg -> Nat]
        /\ accepted' \in Nat
    BY DEF MsgSend, IInv, TypeOK, Status
  <2>4. UNCHANGED <<running, wakeup, routes, msg, send_pc, send_msg, crashed>>
    BY DEF MsgSend, stopVars
  <2> QED
    BY <1>3, <1>4, <2>0, <2>1, <2>2, <2>3, <2>4 DEF IInv, TypeOK
<1>6. InHand'
  BY DEF MsgSend, Signalled, InHand, HandPC, stopVars, IInv
<1>7. LiveSlots' /\ LogIntact'
  <2>1. CASE m \notin LogMsg
    <3>1. UNCHANGED <<log_msg_buffer, log_idx, msg>>
      BY <2>1 DEF MsgSend, HasRoom, CopyLog, NextLogIdx
    <3>2. \A s : AgeAt(log_idx', s) = Age(s)
      BY <3>1 DEF Age
    <3>3. ASSUME NEW i \in 1 .. n + 1, IsLog(msg_buffer'[i])
          PROVE  /\ msg_buffer'[i].slot \in Slot
                 /\ Age(msg_buffer'[i].slot) <= n + 1 - i + 1
                 /\ log_msg_buffer[msg_buffer'[i].slot] = msg_buffer'[i].msg
      <4>1. i # k
        BY <1>3, <2>1, <3>3 DEF IsLog, Prepared
      <4>2. CASE i < k
        <5>1. i \in 1 .. n /\ msg_buffer'[i] = msg_buffer[i]
          BY <1>1, <1>3, <4>2
        <5>2. /\ msg_buffer[i].slot \in Slot
              /\ Age(msg_buffer[i].slot) <= n - i + 1
              /\ log_msg_buffer[msg_buffer[i].slot] = msg_buffer[i].msg
          BY <3>3, <5>1 DEF IInv, LiveSlots, LogIntact
        <5>3. Age(msg_buffer[i].slot) \in Int
          BY <1>4, <5>2 DEF Age, AgeAt, Slot
        <5> QED
          BY <1>1, <5>1, <5>2, <5>3
      <4>3. CASE i > k
        <5>1. i - 1 \in 1 .. n /\ msg_buffer'[i] = msg_buffer[i - 1]
          BY <1>1, <1>3, <4>3
        <5>2. /\ msg_buffer[i - 1].slot \in Slot
              /\ Age(msg_buffer[i - 1].slot) <= n - (i - 1) + 1
              /\ log_msg_buffer[msg_buffer[i - 1].slot] = msg_buffer[i - 1].msg
          BY <3>3, <5>1 DEF IInv, LiveSlots, LogIntact
        <5> QED
          BY <1>1, <5>1, <5>2
      <4> QED
        BY <1>1, <4>1, <4>2, <4>3
    <3>4. ASSUME IsLog(msg)
          PROVE  msg.slot \in Slot /\ Age(msg.slot) <= n + 2
      <4>1. msg.slot \in Slot /\ Age(msg.slot) <= n + 1
        BY <3>4 DEF IInv, LiveSlots
      <4>2. Age(msg.slot) \in Int
        BY <1>4, <4>1 DEF Age, AgeAt, Slot
      <4> QED
        BY <1>1, <4>1, <4>2
    <3>5. LiveSlots'
      BY <1>1, <1>3, <3>1, <3>2, <3>3, <3>4 DEF LiveSlots, IsLog, Age
    <3>6. LogIntact'
      BY <1>3, <3>1, <3>3 DEF LogIntact, IsLog, IInv
    <3> QED
      BY <3>5, <3>6
  <2>2. CASE m \in LogMsg
    <3>1. /\ log_msg_buffer' = [log_msg_buffer EXCEPT ![log_idx] = m]
          /\ log_idx' = IF log_idx + 1 = LogSlots THEN 0 ELSE log_idx + 1
          /\ msg' = msg
      BY <2>2, <1>4, NextSlot DEF MsgSend, HasRoom, CopyLog, NextLogIdx
    <3>2. /\ log_msg_buffer'[log_idx] = m
          /\ \A s \in Slot : s # log_idx => log_msg_buffer'[s] = log_msg_buffer[s]
      BY <1>4, <3>1 DEF IInv, TypeOK
    \* a young slot is not the one written, and grows older by one
    <3>3. ASSUME NEW s \in Slot, Age(s) <= n + 1
          PROVE  s # log_idx /\ AgeAt(log_idx', s) = Age(s) + 1
      BY <1>1, <1>4, <3>1, <3>3 DEF Age, AgeAt, Slot
    <3>4. AgeAt(log_idx', log_idx) = 1
      BY <1>4, <3>1 DEF Age, AgeAt, Slot
    <3>5. Prepared(m) = [msg |-> m, slot |-> log_idx]
      BY <2>2 DEF Prepared
    \* no LOG entry stands behind the new one: they have the same priority
    <3>6. ASSUME NEW i \in 1 .. n + 1, IsLog(msg_buffer'[i]), i # k
          PROVE  i < k /\ i \in 1 .. n /\ msg_buffer'[i] = msg_buffer[i]
      <4>1. CASE i > k
        <5>1. i - 1 \in k .. n /\ msg_buffer'[i] = msg_buffer[i - 1]
          BY <1>1, <1>3, <4>1
        <5>2. Prio[msg_buffer[i - 1].msg] < Prio[m]
          BY <5>1 DEF IsInsertAt
        <5>3. Prio[msg_buffer[i - 1].msg] = Prio[m]
          BY <2>2, <3>6, <5>1, LogPriorityAssumption DEF IsLog
        <5>4. Prio[m] \in Nat
          OBVIOUS
        <5> QED
          BY <5>2, <5>3, <5>4
      <4> QED
        BY <1>1, <1>3, <3>6, <4>1
    <3>7. ASSUME NEW i \in 1 .. n + 1, IsLog(msg_buffer'[i])
          PROVE  /\ msg_buffer'[i].slot \in Slot
                 /\ AgeAt(log_idx', msg_buffer'[i].slot) <= n + 1 - i + 1
                 /\ log_msg_buffer'[msg_buffer'[i].slot] = msg_buffer'[i].msg
      <4>1. CASE i = k
        <5>1. msg_buffer'[i] = [msg |-> m, slot |-> log_idx]
          BY <1>3, <3>5, <4>1
        <5> QED
          BY <1>1, <1>4, <3>2, <3>4, <5>1
      <4>2. CASE i # k
        <5> DEFINE s == msg_buffer[i].slot
        <5>1. i \in 1 .. n /\ msg_buffer'[i] = msg_buffer[i]
          BY <3>6, <3>7, <4>2
        <5>2. s \in Slot /\ Age(s) <= n - i + 1 /\ log_msg_buffer[s] = msg_buffer[i].msg
          BY <3>7, <5>1 DEF IInv, LiveSlots, LogIntact
        <5>3. Age(s) \in Int
          BY <1>4, <5>2 DEF Age, AgeAt, Slot
        <5>4. s # log_idx /\ AgeAt(log_idx', s) = Age(s) + 1
          BY <1>1, <3>3, <5>1, <5>2, <5>3
        <5> QED
          BY <1>1, <3>2, <5>1, <5>2, <5>3, <5>4
      <4> QED
        BY <4>1, <4>2
    <3>8. ASSUME IsLog(msg)
          PROVE  /\ msg.slot \in Slot
                 /\ AgeAt(log_idx', msg.slot) <= n + 2
                 /\ log_msg_buffer'[msg.slot] = msg.msg
      <4>1. msg.slot \in Slot /\ Age(msg.slot) <= n + 1
            /\ log_msg_buffer[msg.slot] = msg.msg
        BY <3>8 DEF IInv, LiveSlots, LogIntact
      <4>2. Age(msg.slot) \in Int
        BY <1>4, <4>1 DEF Age, AgeAt, Slot
      <4>3. msg.slot # log_idx /\ AgeAt(log_idx', msg.slot) = Age(msg.slot) + 1
        BY <3>3, <4>1
      <4> QED
        BY <1>1, <3>2, <4>1, <4>2, <4>3
    <3>9. LiveSlots'
      BY <1>1, <1>3, <3>1, <3>7, <3>8 DEF LiveSlots, IsLog, Age
    <3>10. LogIntact'
      BY <1>1, <1>3, <3>1, <3>7, <3>8 DEF LogIntact, IsLog
    <3> QED
      BY <3>9, <3>10
  <2> QED
    BY <2>1, <2>2
<1>8. UpWhileRunning' /\ NothingLostWhileRunning' /\ NoLostWakeup'
  BY <1>1 DEF MsgSend, Signalled, stopVars, IInv, TypeOK, UpWhileRunning,
         NothingLostWhileRunning, NoLostWakeup
<1> QED
  BY <1>5, <1>6, <1>7, <1>8 DEF IInv

(* msg_receive with a message: the oldest entry becomes the one handled.   *)
LEMMA MsgReceiveInv ==
  ASSUME IInv, MsgReceive
  PROVE  IInv'
<1> USE MessageAssumption, SizeAssumption
<1> DEFINE n == Len(msg_buffer)
<1>1. /\ msg_buffer \in Seq(Entry)
      /\ msg_buffer # <<>>
      /\ n \in Nat \ {0}
      /\ log_idx \in Slot
      /\ n <= QueueCap
  BY EmptySeq DEF IInv, TypeOK, MsgReceive, Popped
<1>2. /\ msg' = msg_buffer[1]
      /\ msg' \in Entry
      /\ msg_buffer' \in Seq(Entry)
      /\ Len(msg_buffer') = n - 1
      /\ \A i \in 1 .. n - 1 : msg_buffer'[i] = msg_buffer[i + 1]
  BY <1>1, HeadTailProperties DEF MsgReceive, Popped, Popped
<1>3. UNCHANGED <<log_msg_buffer, log_idx, running, wakeup, routes, send_pc,
                  send_msg, crashed, arrival, accepted>>
  BY DEF MsgReceive, Popped, stopVars, sendVars
<1>4. pc = "receive" /\ pc' = "find_handler"
  BY DEF MsgReceive, Popped, Popped
<1>5. TypeOK'
  <2>1. Len(msg_buffer') <= QueueCap
    BY <1>1, <1>2
  <2>2. status' \in [Msg -> Status] /\ pc' \in DeliverPC
    BY DEF MsgReceive, Popped, IInv, TypeOK, Status, DeliverPC
  <2> QED
    BY <1>2, <1>3, <2>1, <2>2 DEF IInv, TypeOK
<1>6. InHand'
  BY <1>2, <1>3, <1>4 DEF InHand, HandPC, IInv
<1>7. LiveSlots' /\ LogIntact'
  <2>1. ASSUME NEW i \in 1 .. n, IsLog(msg_buffer[i])
        PROVE  /\ msg_buffer[i].slot \in Slot
               /\ Age(msg_buffer[i].slot) \in Int
               /\ Age(msg_buffer[i].slot) <= n - i + 1
               /\ log_msg_buffer[msg_buffer[i].slot] = msg_buffer[i].msg
    BY <1>1, <2>1 DEF IInv, LiveSlots, LogIntact, Age, AgeAt, Slot
  <2>2. ASSUME NEW i \in 1 .. n - 1, IsLog(msg_buffer'[i])
        PROVE  /\ msg_buffer'[i].slot \in Slot
               /\ AgeAt(log_idx', msg_buffer'[i].slot) <= n - 1 - i + 1
               /\ log_msg_buffer'[msg_buffer'[i].slot] = msg_buffer'[i].msg
    <3>1. i + 1 \in 1 .. n /\ msg_buffer'[i] = msg_buffer[i + 1]
      BY <1>1, <1>2
    <3> QED
      BY <1>1, <1>3, <2>1, <2>2, <3>1 DEF Age
  <2>3. ASSUME IsLog(msg')
        PROVE  /\ msg'.slot \in Slot
               /\ AgeAt(log_idx', msg'.slot) <= n - 1 + 1
               /\ log_msg_buffer'[msg'.slot] = msg'.msg
    <3>1. 1 \in 1 .. n
      BY <1>1
    <3> QED
      BY <1>1, <1>2, <1>3, <2>1, <2>3, <3>1 DEF Age
  <2> QED
    BY <1>1, <1>2, <2>2, <2>3 DEF LiveSlots, LogIntact, IsLog, Age
<1>8. UpWhileRunning' /\ NothingLostWhileRunning' /\ NoLostWakeup'
  BY <1>3, <1>4 DEF MsgReceive, Popped, IInv, TypeOK, UpWhileRunning,
         NothingLostWhileRunning, NoLostWakeup
<1> QED
  BY <1>5, <1>6, <1>7, <1>8 DEF IInv

(* A step that neither moves the queue nor writes a slot, and that keeps or*)
(* puts down the message in hand, leaves the slots in use as they are.     *)
LEMMA SlotsUntouched ==
  ASSUME LiveSlots, LogIntact,
         UNCHANGED <<msg_buffer, log_msg_buffer, log_idx>>,
         msg' \in {msg, NoEntry}
  PROVE  LiveSlots' /\ LogIntact'
BY MessageAssumption DEF LiveSlots, LogIntact, IsLog, Age, AgeAt, NoEntry

(* A refused sender: the queue and the delivery thread are not concerned.  *)
LEMMA SenderInv ==
  ASSUME IInv, NEW t \in Thread,
         \/ \E m \in Msg : MsgSendFull(t, m)
         \/ ~crashed /\ SenderStep(t)
  PROVE  IInv'
<1> USE MessageAssumption, SizeAssumption
<1>1. UNCHANGED <<msg_buffer, log_msg_buffer, log_idx, running, wakeup, routes,
                  pc, msg, arrival, accepted>>
  BY DEF SenderStep, MsgSendFull, SenderFindRoute, SenderRelease, queueVars,
         stopVars, deliverVars
<1>2. TypeOK'
  <2>1. /\ send_pc' \in [Thread -> {"idle", "full", "call"}]
        /\ send_msg' \in [Thread -> Msg \cup {NoMsg}]
        /\ crashed' \in BOOLEAN
    <3>1. CASE \E m \in Msg : MsgSendFull(t, m)
      BY <3>1 DEF MsgSendFull, IInv, TypeOK
    <3>2. CASE SenderFindRoute(t)
      BY <3>2 DEF SenderFindRoute, IInv, TypeOK
    <3>3. CASE SenderRelease(t)
      BY <3>3 DEF SenderRelease, IInv, TypeOK
    <3> QED
      BY <3>1, <3>2, <3>3 DEF SenderStep
  <2>2. status' \in [Msg -> Status]
    BY DEF SenderStep, MsgSendFull, SenderFindRoute, SenderRelease, IInv,
           TypeOK, Status
  <2> QED
    BY <1>1, <2>1, <2>2 DEF IInv, TypeOK
<1>3. InHand'
  <2>1. \A u \in Thread : send_pc'[u] # "idle" => send_msg'[u] \in Msg
    BY DEF SenderStep, MsgSendFull, SenderFindRoute, SenderRelease, IInv,
           TypeOK, InHand
  <2> QED
    BY <1>1, <2>1 DEF IInv, InHand
<1>4. LiveSlots' /\ LogIntact'
  BY <1>1, SlotsUntouched DEF IInv
<1>5. UpWhileRunning' /\ NoLostWakeup'
  BY <1>1 DEF IInv, UpWhileRunning, NoLostWakeup
<1>6. NothingLostWhileRunning'
  <2>1. send_pc[t] # "idle" /\ running => Source[send_msg[t]] \in routes
    BY DEF IInv, InHand, UpWhileRunning
  <2> QED
    BY <1>1, <2>1 DEF SenderStep, MsgSendFull, SenderFindRoute, SenderRelease,
       IInv, TypeOK, NothingLostWhileRunning
<1> QED
  BY <1>2, <1>3, <1>4, <1>5, <1>6 DEF IInv

(* The steps of the delivery thread that leave the queue alone.            *)
DeliverInside ==
  \/ LoopCheck \/ MsgReceiveEmpty \/ SpuriousWakeup
  \/ FindHandler \/ CallHandler \/ HandlerReturns
  \/ FindRelease \/ CallRelease

(* The steps of the delivery thread that leave the queue as it is.         *)
LEMMA DeliverInsideInv ==
  ASSUME IInv, ~crashed, DeliverInside
  PROVE  IInv'
<1> USE MessageAssumption, SizeAssumption
<1> USE DEF DeliverInside, LoopCheck, MsgReceiveEmpty, SpuriousWakeup,
            FindHandler, CallHandler, HandlerReturns, FindRelease, CallRelease
<1>1. UNCHANGED <<msg_buffer, log_msg_buffer, log_idx, running, wakeup, routes,
                  send_pc, send_msg, arrival, accepted>>
  BY DEF queueVars, stopVars, sendVars
<1>2. msg' \in {msg, NoEntry}
  OBVIOUS
<1>3. TypeOK'
  <2>1. pc' \in DeliverPC /\ crashed' \in BOOLEAN
    BY DEF IInv, TypeOK, DeliverPC
  <2>2. status' \in [Msg -> Status]
    BY DEF IInv, TypeOK, Status
  <2> QED
    BY <1>1, <1>2, <2>1, <2>2 DEF IInv, TypeOK
<1>4. InHand'
  BY <1>1 DEF IInv, InHand, HandPC
<1>5. LiveSlots' /\ LogIntact'
  BY <1>1, <1>2, SlotsUntouched DEF IInv
<1>6. UpWhileRunning'
  BY <1>1 DEF IInv, UpWhileRunning
<1>7. NoLostWakeup'
  BY <1>1 DEF IInv, NoLostWakeup
<1>8. NothingLostWhileRunning'
  <2>1. pc \in HandPC /\ running =>
          Source[msg.msg] \in routes /\ Dest[msg.msg] \in routes
    BY DEF IInv, InHand, UpWhileRunning, Entry
  <2> QED
    BY <1>1, <2>1 DEF IInv, TypeOK, NothingLostWhileRunning, HandPC
<1> QED
  BY <1>3, <1>4, <1>5, <1>6, <1>7, <1>8 DEF IInv

(* msg_cleanup: the queue is emptied, after the loop only.                 *)
LEMMA MsgCleanupInv ==
  ASSUME IInv, MsgCleanup
  PROVE  IInv'
<1> USE MessageAssumption, SizeAssumption
<1>1. /\ msg_buffer' = <<>>
      /\ msg_buffer' \in Seq(Entry)
      /\ Len(msg_buffer') = 0
      /\ pc = "cleanup" /\ pc' = "done"
      /\ UNCHANGED <<log_msg_buffer, log_idx, running, wakeup, routes, msg,
                     send_pc, send_msg, crashed, arrival, accepted>>
  BY EmptySeq DEF MsgCleanup, stopVars, sendVars
<1>2. ~running /\ msg = NoEntry
  BY <1>1 DEF IInv, UpWhileRunning, InHand, HandPC
<1>3. TypeOK'
  <2>1. status' \in [Msg -> Status] /\ pc' \in DeliverPC
    BY DEF MsgCleanup, IInv, TypeOK, Status, DeliverPC
  <2> QED
    BY <1>1, <2>1 DEF IInv, TypeOK
<1>4. InHand'
  BY <1>1, <1>2 DEF IInv, InHand, HandPC
<1>5. LiveSlots' /\ LogIntact'
  BY <1>1, <1>2 DEF LiveSlots, LogIntact, IsLog, NoEntry
<1>6. UpWhileRunning' /\ NothingLostWhileRunning' /\ NoLostWakeup'
  BY <1>1, <1>2 DEF UpWhileRunning, NothingLostWhileRunning, NoLostWakeup
<1> QED
  BY <1>3, <1>4, <1>5, <1>6 DEF IInv

(* stop_handler, its wakeup, and the modules that leave.                   *)
LEMMA ShutdownInv ==
  ASSUME IInv,
         \/ StopHandler \/ MsgThreadWakeup
         \/ \E mod \in Module : MsgUnregisterModule(mod)
  PROVE  IInv'
<1> USE MessageAssumption, SizeAssumption
<1> USE DEF StopHandler, MsgThreadWakeup, MsgUnregisterModule, HasLeftLoop, Signalled
<1>1. UNCHANGED <<msg_buffer, log_msg_buffer, log_idx, msg, send_pc, send_msg,
                  crashed, status, arrival, accepted>>
  BY DEF queueVars, deliverVars, sendVars
<1>2. TypeOK'
  BY <1>1 DEF IInv, TypeOK, DeliverPC, deliverVars
<1>3. InHand'
  BY <1>1 DEF IInv, InHand, HandPC, deliverVars
<1>4. LiveSlots' /\ LogIntact'
  BY <1>1, SlotsUntouched DEF IInv
<1>5. UpWhileRunning' /\ NothingLostWhileRunning'
  <2>1. CASE ~running'
    BY <2>1 DEF UpWhileRunning, NothingLostWhileRunning
  <2>2. CASE MsgThreadWakeup
    BY <1>1, <2>2 DEF IInv, UpWhileRunning, NothingLostWhileRunning
  <2>3. CASE StopHandler
    <3>1. ~running'
      BY <2>3, Zenon DEF StopHandler
    <3> QED
      BY <2>1, <3>1
  <2>4. ASSUME NEW mod \in Module, MsgUnregisterModule(mod)
        PROVE  ~running'
    <3>1. ~running /\ running' = running
      BY <2>4, Zenon DEF MsgUnregisterModule, HasLeftLoop
    <3> QED
      BY <3>1
  <2> QED
    BY <2>1, <2>2, <2>3, <2>4
<1>6. NoLostWakeup'
  BY <1>1 DEF IInv, TypeOK, NoLostWakeup, deliverVars
<1> QED
  BY <1>2, <1>3, <1>4, <1>5, <1>6 DEF IInv

(* Nothing happens.                                                        *)
LEMMA StutterInv == IInv /\ UNCHANGED vars => IInv'
BY DEF vars, IInv, TypeOK, InHand, LiveSlots, LogIntact, IsLog, Age, AgeAt,
       UpWhileRunning, NothingLostWhileRunning, NoLostWakeup

(* Every step keeps the inductive invariant.                               *)
LEMMA NextInv == IInv /\ [Next]_vars => IInv'
<1> SUFFICES ASSUME IInv, [Next]_vars PROVE IInv'
  OBVIOUS
<1>1. CASE ~crashed /\ Step
  BY <1>1, MsgSendInv, MsgReceiveInv, SenderInv, DeliverInsideInv,
     MsgCleanupInv, ShutdownInv DEF Step, DeliverStep, DeliverInside
<1>2. CASE Ended
  BY <1>2, StutterInv DEF Ended
<1>3. CASE UNCHANGED vars
  BY <1>3, StutterInv
<1> QED
  BY <1>1, <1>2, <1>3 DEF Next

(* The inductive invariant holds of every reachable state.                 *)
THEOREM Invariance == Spec => []IInv
<1>1. Init => IInv
  BY InitInv
<1>2. IInv /\ [Next]_vars => IInv'
  BY NextInv
<1> QED
  BY <1>1, <1>2, PTL DEF Spec

(* Type correctness, the bound of the queue and of the log ring included.  *)
THEOREM TypeCorrect == Spec => []TypeOK
<1>1. IInv => TypeOK
  BY DEF IInv
<1> QED
  BY <1>1, Invariance, PTL

(* The text of a LOG message is intact from msg_send to the end of its     *)
(* handling, whatever the sizes of the queue and of the ring: the ring only*)
(* has to be larger than the queue.                                        *)
THEOREM LogTextIntact == Spec => []LogIntact
<1>1. IInv => LogIntact
  BY DEF IInv
<1> QED
  BY <1>1, Invariance, PTL

(* No wakeup of the delivery thread is lost.                               *)
THEOREM WakeupNotLost == Spec => []NoLostWakeup
<1>1. IInv => NoLostWakeup
  BY DEF IInv
<1> QED
  BY <1>1, Invariance, PTL

(* No message is lost, and no cleared route is called, before the stop.    *)
THEOREM NoLossWhileRunning == Spec => []NothingLostWhileRunning
<1>1. IInv => NothingLostWhileRunning
  BY DEF IInv
<1> QED
  BY <1>1, Invariance, PTL

-----------------------------------------------------------------------------
(* MsgDeliver implements MsgChannel                                        *)
(*                                                                         *)
(* On the way: a message is in one place (OnePlace), and the queue is      *)
(* sorted (PriorityOrder).  Neither is inductive.  A refused sender that   *)
(* has released its message must hold none (HandsEmpty), or the next one   *)
(* would be put over it; and a message in the queue must not have arrived  *)
(* later than the last one accepted (Arrived), or the next one could not   *)
(* be the youngest of its priority.                                        *)

HandsEmpty == \A t \in Thread : send_pc[t] = "idle" => send_msg[t] = NoMsg

Arrived == \A i \in 1 .. Len(msg_buffer) : arrival[msg_buffer[i].msg] <= accepted

(* What the refinement rests on.                                           *)
OInv == OnePlace /\ HandsEmpty /\ Arrived /\ PriorityOrder

-----------------------------------------------------------------------------
(* One place                                                               *)

(* The parts of OnePlace, one for each of the places.                      *)
InQueue(m) == \E i \in 1 .. Len(msg_buffer) : msg_buffer[i].msg = m
QueuedOnce ==
  /\ \A i, j \in 1 .. Len(msg_buffer) :
       msg_buffer[i].msg = msg_buffer[j].msg => i = j
  /\ \A m \in Msg : status[m] = "queued" <=> InQueue(m)
TakenOnce == \A m \in Msg : status[m] = "taken" <=> msg.msg = m
RefusedOnce ==
  /\ \A m \in Msg : status[m] = "refused" <=> \E t \in Thread : send_msg[t] = m
  /\ \A t, u \in Thread :
       send_msg[t] = send_msg[u] /\ send_msg[t] # NoMsg => t = u

LEMMA OnePlaceParts == OnePlace <=> QueuedOnce /\ TakenOnce /\ RefusedOnce
BY DEF OnePlace, QueuedOnce, TakenOnce, RefusedOnce, InQueue

(* What a message that fits does to the queue.                             *)
LEMMA SendQueue ==
  ASSUME IInv, NEW t \in Thread, NEW m \in Msg, MsgSend(t, m)
  PROVE  \E k \in 1 .. Len(msg_buffer) + 1 :
           /\ IsInsertAt(k, m)
           /\ Len(msg_buffer) \in Nat
           /\ Len(msg_buffer') = Len(msg_buffer) + 1
           /\ \A i \in 1 .. Len(msg_buffer) : msg_buffer[i] \in Entry
           /\ \A i \in 1 .. Len(msg_buffer) + 1 :
                msg_buffer'[i] = IF i < k THEN msg_buffer[i]
                                 ELSE IF i = k THEN Prepared(m)
                                 ELSE msg_buffer[i - 1]
<1> PICK k \in 1 .. Len(msg_buffer) + 1 :
      /\ IsInsertAt(k, m)
      /\ msg_buffer' = Inserted(msg_buffer, k, Prepared(m))
  BY DEF MsgSend
<1>1. msg_buffer \in Seq(Entry)
  BY DEF IInv, TypeOK
<1>2. Prepared(m) \in Entry
  BY MessageAssumption, SizeAssumption DEF Prepared, Entry, IInv, TypeOK, Slot, NoSlot
<1>3. /\ Len(Inserted(msg_buffer, k, Prepared(m))) = Len(msg_buffer) + 1
      /\ \A i \in 1 .. Len(msg_buffer) + 1 :
           Inserted(msg_buffer, k, Prepared(m))[i]
             = IF i < k THEN msg_buffer[i]
               ELSE IF i = k THEN Prepared(m) ELSE msg_buffer[i - 1]
  BY <1>1, <1>2, InsertedProperties, Zenon
<1>4. Len(msg_buffer) \in Nat /\ \A i \in 1 .. Len(msg_buffer) : msg_buffer[i] \in Entry
  BY <1>1, LenProperties, ElementOfSeq
<1> QED
  BY <1>3, <1>4

(* msg_send keeps every message in one place: the new one was nowhere.     *)
LEMMA SendOnePlace ==
  ASSUME IInv, OnePlace, NEW t \in Thread, NEW m \in Msg, MsgSend(t, m)
  PROVE  OnePlace'
<1> PICK k \in 1 .. Len(msg_buffer) + 1 :
      /\ IsInsertAt(k, m)
      /\ Len(msg_buffer) \in Nat
      /\ Len(msg_buffer') = Len(msg_buffer) + 1
      /\ \A i \in 1 .. Len(msg_buffer) : msg_buffer[i] \in Entry
      /\ \A i \in 1 .. Len(msg_buffer) + 1 :
           msg_buffer'[i] = IF i < k THEN msg_buffer[i]
                            ELSE IF i = k THEN Prepared(m)
                            ELSE msg_buffer[i - 1]
  BY SendQueue
<1> DEFINE n == Len(msg_buffer)
<1>1. QueuedOnce /\ TakenOnce /\ RefusedOnce
  BY OnePlaceParts
<1>2. /\ status[m] = "new"
      /\ \A x \in Msg : status'[x] = IF x = m THEN "queued" ELSE status[x]
      /\ UNCHANGED <<msg, send_msg>>
  BY DEF MsgSend, IInv, TypeOK
<1>3. Prepared(m).msg = m
  BY DEF Prepared
<1>4. \A i \in 1 .. n : msg_buffer[i].msg # m
  BY <1>1, <1>2 DEF QueuedOnce, InQueue
<1>5. QueuedOnce'
  <2> DEFINE Old(h) == IF h < k THEN h ELSE h - 1
  <2>0. \A h \in 1 .. n + 1 :
          h # k => Old(h) \in 1 .. n /\ msg_buffer'[h] = msg_buffer[Old(h)]
    OBVIOUS
  <2>1. ASSUME NEW i \in 1 .. n + 1, NEW j \in 1 .. n + 1,
               msg_buffer'[i].msg = msg_buffer'[j].msg
        PROVE  i = j
    <3>1. CASE i = k \/ j = k
      <4>1. msg_buffer'[k].msg = m
        BY <1>3
      <4> QED
        BY <1>4, <2>0, <2>1, <3>1, <4>1
    <3>2. CASE i # k /\ j # k
      <4>1. Old(i) = Old(j)
        <5> HIDE DEF Old
        <5> QED
          BY <1>1, <2>0, <2>1, <3>2 DEF QueuedOnce
      <4> QED
        BY <3>2, <4>1
    <3> QED
      BY <3>1, <3>2
  <2>2. ASSUME NEW x \in Msg
        PROVE  status'[x] = "queued" <=> InQueue(x)'
    <3>1. CASE x = m
      <4>1. InQueue(x)'
        BY <1>3, <3>1 DEF InQueue
      <4> QED
        BY <1>2, <3>1, <4>1
    <3>2. CASE x # m
      <4>1. ASSUME NEW i \in 1 .. n, msg_buffer[i].msg = x PROVE InQueue(x)'
        <5>1. CASE i < k
          BY <4>1, <5>1 DEF InQueue
        <5>2. CASE i >= k
          <6>1. i + 1 \in 1 .. n + 1 /\ msg_buffer'[i + 1] = msg_buffer[i]
            BY <5>2
          <6> QED
            BY <4>1, <6>1 DEF InQueue
        <5> QED
          BY <5>1, <5>2
      <4>2. ASSUME NEW i \in 1 .. n + 1, msg_buffer'[i].msg = x PROVE InQueue(x)
        <5>1. i # k
          BY <1>3, <3>2, <4>2
        <5>2. CASE i < k
          BY <4>2, <5>2 DEF InQueue
        <5>3. CASE i > k
          <6>1. i - 1 \in 1 .. n /\ msg_buffer'[i] = msg_buffer[i - 1]
            BY <5>3
          <6> QED
            BY <4>2, <6>1 DEF InQueue
        <5> QED
          BY <5>1, <5>2, <5>3
      <4>3. InQueue(x)' <=> InQueue(x)
        BY <4>1, <4>2 DEF InQueue
      <4> QED
        BY <1>1, <1>2, <3>2, <4>3 DEF QueuedOnce
    <3> QED
      BY <3>1, <3>2
  <2> QED
    BY <2>1, <2>2 DEF QueuedOnce
<1>6. TakenOnce'
  BY <1>1, <1>2 DEF TakenOnce
<1>7. RefusedOnce'
  BY <1>1, <1>2 DEF RefusedOnce
<1> QED
  BY <1>5, <1>6, <1>7 DEF OnePlace, QueuedOnce, TakenOnce, RefusedOnce, InQueue

(* msg_receive moves the head of the queue into the hands of the thread.   *)
LEMMA ReceiveOnePlace ==
  ASSUME IInv, OnePlace, MsgReceive
  PROVE  OnePlace'
<1> DEFINE n == Len(msg_buffer)
           h == msg_buffer[1].msg
<1>1. QueuedOnce /\ TakenOnce /\ RefusedOnce
  BY OnePlaceParts
<1>2. /\ n \in Nat \ {0}
      /\ msg' = msg_buffer[1]
      /\ \A i \in 1 .. n : msg_buffer[i] \in Entry
      /\ Len(msg_buffer') = n - 1
      /\ \A i \in 1 .. n - 1 : msg_buffer'[i] = msg_buffer[i + 1]
  BY EmptySeq, HeadTailProperties, ElementOfSeq DEF MsgReceive, Popped, IInv, TypeOK
<1>3. h \in Msg
  BY <1>2 DEF Entry
<1>4. /\ \A x \in Msg : status'[x] = IF x = h THEN "taken" ELSE status[x]
      /\ UNCHANGED send_msg
  BY <1>2, <1>3 DEF MsgReceive, IInv, TypeOK, sendVars
<1>5. \A x \in Msg : status[x] # "taken"
  <2>1. msg.msg \notin Msg
    BY MessageAssumption DEF MsgReceive, IInv, InHand, HandPC, NoEntry
  <2> QED
    BY <1>1, <2>1 DEF TakenOnce
<1>6. \A i \in 2 .. n : msg_buffer[i].msg # h
  BY <1>1, <1>2 DEF QueuedOnce
<1>7. status[h] = "queued"
  BY <1>1, <1>2, <1>3 DEF QueuedOnce, InQueue
<1>8. QueuedOnce'
  <2>1. \A i, j \in 1 .. n - 1 : msg_buffer'[i].msg = msg_buffer'[j].msg => i = j
    <3>1. \A i \in 1 .. n - 1 : i + 1 \in 1 .. n
      BY <1>2
    <3>2. ASSUME NEW i \in 1 .. n - 1, NEW j \in 1 .. n - 1,
                 msg_buffer'[i].msg = msg_buffer'[j].msg
          PROVE  i + 1 = j + 1
      BY <1>1, <1>2, <3>1, <3>2 DEF QueuedOnce
    <3> QED
      BY <3>2
  <2>2. ASSUME NEW x \in Msg
        PROVE  status'[x] = "queued" <=> InQueue(x)'
    <3>1. CASE x = h
      BY <1>2, <1>4, <1>6, <3>1 DEF InQueue
    <3>2. CASE x # h
      <4>1. ASSUME InQueue(x) PROVE InQueue(x)'
        <5>1. PICK i \in 1 .. n : msg_buffer[i].msg = x
          BY <4>1 DEF InQueue
        <5>2. i # 1 /\ n \in Nat
          BY <1>2, <3>2, <5>1
        <5>3. i - 1 \in 1 .. n - 1 /\ (i - 1) + 1 = i
          BY <5>2
        <5> QED
          BY <1>2, <5>1, <5>3 DEF InQueue
      <4>2. ASSUME InQueue(x)' PROVE InQueue(x)
        <5>1. PICK i \in 1 .. n - 1 : msg_buffer'[i].msg = x
          BY <1>2, <4>2 DEF InQueue
        <5>2. i + 1 \in 1 .. n
          BY <1>2
        <5> QED
          BY <1>2, <5>1, <5>2 DEF InQueue
      <4> QED
        BY <1>1, <1>4, <3>2, <4>1, <4>2 DEF QueuedOnce
    <3> QED
      BY <3>1, <3>2
  <2> QED
    BY <1>2, <2>1, <2>2 DEF QueuedOnce
<1>9. TakenOnce'
  BY <1>2, <1>4, <1>5 DEF TakenOnce
<1>10. RefusedOnce'
  BY <1>1, <1>4, <1>7 DEF RefusedOnce
<1> QED
  BY <1>8, <1>9, <1>10 DEF OnePlace, QueuedOnce, TakenOnce, RefusedOnce, InQueue

(* A sender that is refused holds its message until it has released it.    *)
LEMMA SenderOnePlace ==
  ASSUME IInv, OnePlace, HandsEmpty, NEW t \in Thread,
         \/ \E m \in Msg : MsgSendFull(t, m)
         \/ SenderStep(t)
  PROVE  OnePlace' /\ HandsEmpty'
<1> SUFFICES QueuedOnce' /\ TakenOnce' /\ RefusedOnce' /\ HandsEmpty'
  BY DEF OnePlace, QueuedOnce, TakenOnce, RefusedOnce, InQueue
<1>1. QueuedOnce /\ TakenOnce /\ RefusedOnce
  BY OnePlaceParts
<1>2. UNCHANGED <<msg_buffer, msg>>
  BY DEF SenderStep, MsgSendFull, SenderFindRoute, SenderRelease, queueVars,
         deliverVars
<1>3. ASSUME NEW m \in Msg, MsgSendFull(t, m)
      PROVE  QueuedOnce' /\ TakenOnce' /\ RefusedOnce' /\ HandsEmpty'
  <2>1. /\ status[m] = "new"
        /\ \A x \in Msg : status'[x] = IF x = m THEN "refused" ELSE status[x]
        /\ \A u \in Thread : send_msg'[u] = IF u = t THEN m ELSE send_msg[u]
        /\ \A u \in Thread : send_pc'[u] = IF u = t THEN "full" ELSE send_pc[u]
    BY <1>3 DEF MsgSendFull, IInv, TypeOK
  <2>2. send_msg[t] = NoMsg
    BY <1>3 DEF MsgSendFull, MaySend, HandsEmpty
  <2>3. QueuedOnce' /\ TakenOnce'
    BY <1>1, <1>2, <2>1 DEF QueuedOnce, TakenOnce, InQueue
  <2>4. \A u \in Thread : send_msg[u] # m
    BY <1>1, <2>1 DEF RefusedOnce
  <2>5. RefusedOnce'
    BY <1>1, <2>1, <2>2, <2>4, MessageAssumption DEF RefusedOnce
  <2> QED
    BY <2>1, <2>3, <2>5 DEF HandsEmpty
<1>4. ASSUME UNCHANGED <<send_msg, status>>, send_pc'[t] # "idle",
             \A u \in Thread \ {t} : send_pc'[u] = send_pc[u]
      PROVE  QueuedOnce' /\ TakenOnce' /\ RefusedOnce' /\ HandsEmpty'
  BY <1>1, <1>2, <1>4 DEF QueuedOnce, TakenOnce, RefusedOnce, InQueue, HandsEmpty
<1>5. ASSUME NEW s \in {"released", "unreleased"},
             send_pc[t] # "idle",
             send_pc' = [send_pc EXCEPT ![t] = "idle"],
             send_msg' = [send_msg EXCEPT ![t] = NoMsg],
             status' = [status EXCEPT ![send_msg[t]] = s]
      PROVE  QueuedOnce' /\ TakenOnce' /\ RefusedOnce' /\ HandsEmpty'
  <2> DEFINE m == send_msg[t]
  <2>1. m \in Msg
    BY <1>5 DEF IInv, InHand
  <2>2. status[m] = "refused"
    BY <1>1, <2>1 DEF RefusedOnce
  <2>3. /\ \A x \in Msg : status'[x] = IF x = m THEN s ELSE status[x]
        /\ \A u \in Thread : send_msg'[u] = IF u = t THEN NoMsg ELSE send_msg[u]
        /\ \A u \in Thread : send_pc'[u] = IF u = t THEN "idle" ELSE send_pc[u]
    BY <1>5, <2>1 DEF IInv, TypeOK
  <2>4. QueuedOnce' /\ TakenOnce'
    BY <1>1, <1>2, <1>5, <2>2, <2>3 DEF QueuedOnce, TakenOnce, InQueue
  <2>5. \A u \in Thread : u # t => send_msg[u] # m
    BY <1>1, <2>1, MessageAssumption DEF RefusedOnce
  <2>6. RefusedOnce'
    BY <1>1, <1>5, <2>2, <2>3, <2>5, MessageAssumption DEF RefusedOnce
  <2> QED
    BY <2>3, <2>4, <2>6 DEF HandsEmpty
<1>6. CASE SenderFindRoute(t)
  <2>1. CASE Source[send_msg[t]] \in routes
    <3>1. /\ UNCHANGED <<send_msg, status>>
          /\ send_pc'[t] = "call"
          /\ \A u \in Thread \ {t} : send_pc'[u] = send_pc[u]
      BY <1>6, <2>1 DEF SenderFindRoute, IInv, TypeOK
    <3> QED
      BY <1>4, <3>1
  <2>2. CASE Source[send_msg[t]] \notin routes
    <3>1. /\ send_pc[t] # "idle"
          /\ send_pc' = [send_pc EXCEPT ![t] = "idle"]
          /\ send_msg' = [send_msg EXCEPT ![t] = NoMsg]
          /\ status' = [status EXCEPT ![send_msg[t]] = "unreleased"]
      BY <1>6, <2>2 DEF SenderFindRoute
    <3> QED
      BY <1>5, <3>1
  <2> QED
    BY <2>1, <2>2
<1>7. CASE SenderRelease(t)
  <2>1. CASE UNCHANGED <<send_pc, send_msg, status>>
    <3>1. send_pc'[t] # "idle"
      BY <1>7, <2>1 DEF SenderRelease
    <3> QED
      BY <1>4, <2>1, <3>1
  <2>2. CASE /\ send_pc' = [send_pc EXCEPT ![t] = "idle"]
             /\ send_msg' = [send_msg EXCEPT ![t] = NoMsg]
             /\ status' = [status EXCEPT ![send_msg[t]] = "released"]
    <3>1. send_pc[t] # "idle"
      BY <1>7 DEF SenderRelease
    <3> QED
      BY <1>5, <2>2, <3>1
  <2> QED
    BY <1>7, <2>1, <2>2, Zenon DEF SenderRelease
<1> QED
  BY <1>3, <1>6, <1>7 DEF SenderStep

(* The delivery thread puts the message it has down, given back or not.    *)
LEMMA DeliverOnePlace ==
  ASSUME IInv, OnePlace, HandsEmpty, DeliverInside
  PROVE  OnePlace' /\ HandsEmpty'
<1> SUFFICES QueuedOnce' /\ TakenOnce' /\ RefusedOnce' /\ HandsEmpty'
  BY DEF OnePlace, QueuedOnce, TakenOnce, RefusedOnce, InQueue
<1>1. QueuedOnce /\ TakenOnce /\ RefusedOnce
  BY OnePlaceParts
<1>2. UNCHANGED <<msg_buffer, send_pc, send_msg>>
  BY DEF DeliverInside, LoopCheck, MsgReceiveEmpty, SpuriousWakeup, FindHandler,
         CallHandler, HandlerReturns, FindRelease, CallRelease, queueVars, sendVars
<1>3. HandsEmpty'
  BY <1>2 DEF HandsEmpty
<1>4. CASE UNCHANGED <<msg, status>>
  BY <1>1, <1>2, <1>3, <1>4 DEF QueuedOnce, TakenOnce, RefusedOnce, InQueue
<1>5. ASSUME NEW s \in {"released", "unreleased"}, pc \in HandPC,
             msg' = NoEntry, status' = [status EXCEPT ![msg.msg] = s]
      PROVE  QueuedOnce' /\ TakenOnce' /\ RefusedOnce' /\ HandsEmpty'
  <2>1. msg.msg \in Msg
    BY <1>5 DEF IInv, InHand, Entry
  <2>2. status[msg.msg] = "taken"
    BY <1>1, <2>1 DEF TakenOnce
  <2>3. \A x \in Msg : status'[x] = IF x = msg.msg THEN s ELSE status[x]
    BY <1>5, <2>1 DEF IInv, TypeOK
  <2>4. QueuedOnce' /\ RefusedOnce'
    BY <1>1, <1>2, <1>5, <2>2, <2>3 DEF QueuedOnce, RefusedOnce, InQueue
  <2>5. TakenOnce'
    <3>1. \A x \in Msg : msg'.msg # x
      BY <1>5, MessageAssumption DEF NoEntry
    <3>2. \A x \in Msg : status'[x] # "taken"
      BY <1>1, <1>5, <2>3 DEF TakenOnce
    <3> QED
      BY <3>1, <3>2 DEF TakenOnce
  <2> QED
    BY <1>3, <2>4, <2>5
<1>6. CASE FindRelease
  <2>1. CASE Source[msg.msg] \in routes
    BY <1>4, <1>6, <2>1 DEF FindRelease
  <2>2. CASE Source[msg.msg] \notin routes
    BY <1>5, <1>6, <2>2 DEF FindRelease, HandPC
  <2> QED
    BY <2>1, <2>2
<1>7. CASE CallRelease
  <2>1. CASE UNCHANGED <<msg, status>>
    BY <1>4, <2>1
  <2>2. CASE msg' = NoEntry /\ status' = [status EXCEPT ![msg.msg] = "released"]
    BY <1>5, <1>7, <2>2 DEF CallRelease, HandPC
  <2> QED
    BY <1>7, <2>1, <2>2 DEF CallRelease
<1>8. CASE \/ LoopCheck \/ MsgReceiveEmpty \/ SpuriousWakeup
           \/ FindHandler \/ CallHandler \/ HandlerReturns
  <2>1. UNCHANGED <<msg, status>>
    BY <1>8 DEF LoopCheck, MsgReceiveEmpty, SpuriousWakeup, FindHandler,
                CallHandler, HandlerReturns
  <2> QED
    BY <1>4, <2>1
<1> QED
  BY <1>6, <1>7, <1>8 DEF DeliverInside

(* msg_cleanup drops what is queued and nothing else.                      *)
LEMMA CleanupOnePlace ==
  ASSUME IInv, OnePlace, HandsEmpty, MsgCleanup
  PROVE  OnePlace' /\ HandsEmpty'
<1> SUFFICES QueuedOnce' /\ TakenOnce' /\ RefusedOnce' /\ HandsEmpty'
  BY DEF OnePlace, QueuedOnce, TakenOnce, RefusedOnce, InQueue
<1>1. QueuedOnce /\ TakenOnce /\ RefusedOnce
  BY OnePlaceParts
<1>2. /\ Len(msg_buffer') = 0
      /\ UNCHANGED <<msg, send_pc, send_msg>>
      /\ \A x \in Msg : status'[x] = IF status[x] = "queued" THEN "dropped"
                                     ELSE status[x]
  BY EmptySeq DEF MsgCleanup, sendVars
<1>3. QueuedOnce'
  BY <1>2 DEF QueuedOnce, InQueue
<1>4. TakenOnce' /\ RefusedOnce' /\ HandsEmpty'
  BY <1>1, <1>2 DEF TakenOnce, RefusedOnce, HandsEmpty
<1> QED
  BY <1>3, <1>4

-----------------------------------------------------------------------------
(* The order of the queue                                                  *)

(* The order of two messages that PriorityOrder asks for.                  *)
Before(m, n) == Prio[m] > Prio[n] \/ (Prio[m] = Prio[n] /\ arrival[m] < arrival[n])

LEMMA OrderParts ==
  PriorityOrder <=> \A i, j \in 1 .. Len(msg_buffer) :
                      i < j => Before(msg_buffer[i].msg, msg_buffer[j].msg)
BY DEF PriorityOrder, Before

(* Whatever stands in front of the new message is at least as urgent.      *)
LEMMA BehindUrgent ==
  ASSUME PriorityOrder, NEW m \in Msg, NEW k \in 1 .. Len(msg_buffer) + 1,
         IsInsertAt(k, m),
         Len(msg_buffer) \in Nat,
         \A i \in 1 .. Len(msg_buffer) : msg_buffer[i] \in Entry
  PROVE  \A i \in 1 .. Len(msg_buffer) : i < k => Prio[msg_buffer[i].msg] >= Prio[m]
<1> DEFINE n == Len(msg_buffer)
<1>1. \A i \in 1 .. n : msg_buffer[i].msg \in Msg
  BY DEF Entry
<1>2. \A x \in Msg : Prio[x] \in Nat
  BY MessageAssumption
<1> TAKE i \in 1 .. n
<1> HAVE i < k
<1>3. k > 1 /\ k - 1 \in 1 .. n /\ Prio[msg_buffer[k - 1].msg] >= Prio[m]
  BY DEF IsInsertAt
<1>4. CASE i = k - 1
  BY <1>3, <1>4
<1>5. CASE i < k - 1
  <2>1. Before(msg_buffer[i].msg, msg_buffer[k - 1].msg)
    BY <1>3, <1>5, OrderParts
  <2>2. Prio[msg_buffer[i].msg] >= Prio[msg_buffer[k - 1].msg]
    BY <1>1, <1>2, <1>3, <2>1 DEF Before
  <2> QED
    BY <1>1, <1>2, <1>3, <2>2
<1> QED
  BY <1>3, <1>4, <1>5

(* msg_queue_push keeps the queue sorted: the new message is the youngest. *)
LEMMA SendOrder ==
  ASSUME IInv, OInv, NEW t \in Thread, NEW m \in Msg, MsgSend(t, m)
  PROVE  PriorityOrder' /\ Arrived'
<1> PICK k \in 1 .. Len(msg_buffer) + 1 :
      /\ IsInsertAt(k, m)
      /\ Len(msg_buffer) \in Nat
      /\ Len(msg_buffer') = Len(msg_buffer) + 1
      /\ \A i \in 1 .. Len(msg_buffer) : msg_buffer[i] \in Entry
      /\ \A i \in 1 .. Len(msg_buffer) + 1 :
           msg_buffer'[i] = IF i < k THEN msg_buffer[i]
                            ELSE IF i = k THEN Prepared(m)
                            ELSE msg_buffer[i - 1]
  BY SendQueue
<1> DEFINE n == Len(msg_buffer)
           Old(h) == IF h < k THEN h ELSE h - 1
<1>1. /\ status[m] = "new"
      /\ accepted \in Nat /\ accepted' = accepted + 1
      /\ \A x \in Msg : arrival[x] \in Nat
      /\ \A x \in Msg : arrival'[x] = IF x = m THEN accepted + 1 ELSE arrival[x]
  BY DEF MsgSend, IInv, TypeOK
<1>2. \A i \in 1 .. n : /\ msg_buffer[i].msg \in Msg
                        /\ msg_buffer[i].msg # m
                        /\ arrival'[msg_buffer[i].msg] = arrival[msg_buffer[i].msg]
                        /\ arrival[msg_buffer[i].msg] <= accepted
  <2>1. \A i \in 1 .. n : msg_buffer[i].msg \in Msg
    BY DEF Entry
  <2>2. \A i \in 1 .. n : msg_buffer[i].msg # m
    BY <1>1, OnePlaceParts DEF OInv, QueuedOnce, InQueue
  <2> QED
    BY <1>1, <2>1, <2>2 DEF OInv, Arrived
<1>3. Prepared(m).msg = m
  BY DEF Prepared
<1>4. \A h \in 1 .. n + 1 :
        h # k => Old(h) \in 1 .. n /\ msg_buffer'[h] = msg_buffer[Old(h)]
  OBVIOUS
<1>5. \A x \in Msg : Prio[x] \in Nat
  BY MessageAssumption
<1>6. \A i \in 1 .. n : i < k => Prio[msg_buffer[i].msg] >= Prio[m]
  BY BehindUrgent DEF OInv
<1>7. ASSUME NEW i \in 1 .. n + 1, NEW j \in 1 .. n + 1, i < j
      PROVE  Before(msg_buffer[i].msg, msg_buffer[j].msg)'
  <2>1. CASE i # k /\ j # k
    <3>1. Old(i) \in 1 .. n /\ Old(j) \in 1 .. n /\ Old(i) < Old(j)
      BY <1>7, <2>1
    <3>2. Before(msg_buffer[Old(i)].msg, msg_buffer[Old(j)].msg)
      BY <3>1, OrderParts DEF OInv
    <3>3. /\ msg_buffer'[i] = msg_buffer[Old(i)]
          /\ msg_buffer'[j] = msg_buffer[Old(j)]
      BY <1>4, <2>1
    <3> HIDE DEF Old
    <3> QED
      BY <1>2, <3>1, <3>2, <3>3 DEF Before
  <2>2. CASE j = k
    <3>1. i \in 1 .. n /\ msg_buffer'[i] = msg_buffer[i] /\ i < k
      BY <1>7, <2>2
    <3>2. msg_buffer'[j].msg = m
      BY <1>3, <2>2
    <3>3. Prio[msg_buffer[i].msg] >= Prio[m]
      BY <1>6, <3>1
    <3>4. arrival'[msg_buffer[i].msg] < arrival'[m]
      BY <1>1, <1>2, <3>1
    <3> QED
      BY <1>2, <1>5, <3>1, <3>2, <3>3, <3>4 DEF Before
  <2>3. CASE i = k
    <3>1. j - 1 \in k .. n /\ j - 1 \in 1 .. n /\ msg_buffer'[j] = msg_buffer[j - 1]
      BY <1>7, <2>3
    <3>2. msg_buffer'[i].msg = m
      BY <1>3, <2>3
    <3>3. Prio[msg_buffer[j - 1].msg] < Prio[m]
      BY <3>1 DEF IsInsertAt
    <3> QED
      BY <1>2, <1>5, <3>1, <3>2, <3>3 DEF Before
  <2> QED
    BY <2>1, <2>2, <2>3
<1>8. PriorityOrder'
  BY <1>7 DEF PriorityOrder, Before
<1>9. Arrived'
  <2> SUFFICES ASSUME NEW i \in 1 .. n + 1
               PROVE  arrival'[msg_buffer'[i].msg] <= accepted'
    BY DEF Arrived
  <2>1. CASE i = k
    BY <1>1, <1>3, <2>1
  <2>2. CASE i # k
    <3>1. Old(i) \in 1 .. n /\ msg_buffer'[i] = msg_buffer[Old(i)]
      BY <1>4, <2>2
    <3> HIDE DEF Old
    <3> QED
      BY <1>1, <1>2, <3>1
  <2> QED
    BY <2>1, <2>2
<1> QED
  BY <1>8, <1>9

(* msg_queue_pop leaves the rest of the queue in order.                    *)
LEMMA ReceiveOrder ==
  ASSUME IInv, OInv, MsgReceive
  PROVE  PriorityOrder' /\ Arrived'
<1> DEFINE n == Len(msg_buffer)
<1>1. /\ n \in Nat \ {0}
      /\ Len(msg_buffer') = n - 1
      /\ \A i \in 1 .. n - 1 : i + 1 \in 1 .. n /\ msg_buffer'[i] = msg_buffer[i + 1]
      /\ UNCHANGED <<arrival, accepted>>
  BY EmptySeq, HeadTailProperties DEF MsgReceive, Popped, IInv, TypeOK
<1>2. \A i, j \in 1 .. n - 1 :
        i < j => Before(msg_buffer[i + 1].msg, msg_buffer[j + 1].msg)
  <2> TAKE i, j \in 1 .. n - 1
  <2> HAVE i < j
  <2>1. i + 1 \in 1 .. n /\ j + 1 \in 1 .. n /\ i + 1 < j + 1
    BY <1>1
  <2> QED
    BY <2>1, OrderParts DEF OInv
<1>3. PriorityOrder'
  BY <1>1, <1>2 DEF PriorityOrder, Before
<1>4. Arrived'
  BY <1>1 DEF OInv, Arrived
<1> QED
  BY <1>3, <1>4

-----------------------------------------------------------------------------
LEMMA InitOInv == Init => OInv
BY MessageAssumption DEF Init, OInv, OnePlace, HandsEmpty, Arrived, PriorityOrder, NoEntry

(* A step that moves neither the queue nor the arrivals keeps the order.   *)
LEMMA OrderUntouched ==
  ASSUME Arrived, PriorityOrder, UNCHANGED <<msg_buffer, arrival, accepted>>
  PROVE  Arrived' /\ PriorityOrder'
BY DEF Arrived, PriorityOrder

LEMMA NextOInv == IInv /\ OInv /\ [Next]_vars => OInv'
<1> SUFFICES ASSUME IInv, OInv, [Next]_vars PROVE OInv'
  OBVIOUS
<1>0. OnePlace /\ HandsEmpty /\ Arrived /\ PriorityOrder
  BY DEF OInv
<1>1. ASSUME NEW t \in Thread, NEW m \in Msg, MsgSend(t, m) PROVE OInv'
  <2>1. OnePlace'
    BY <1>0, <1>1, SendOnePlace
  <2>2. PriorityOrder' /\ Arrived'
    BY <1>1, SendOrder
  <2>3. HandsEmpty'
    BY <1>0, <1>1 DEF MsgSend, HandsEmpty
  <2> QED
    BY <2>1, <2>2, <2>3 DEF OInv
<1>2. ASSUME NEW t \in Thread,
             (\E m \in Msg : MsgSendFull(t, m)) \/ SenderStep(t)
      PROVE  OInv'
  <2>1. OnePlace' /\ HandsEmpty'
    BY <1>0, <1>2, SenderOnePlace
  <2>2. UNCHANGED <<msg_buffer, arrival, accepted>>
    BY <1>2 DEF MsgSendFull, SenderStep, SenderFindRoute, SenderRelease, queueVars
  <2> QED
    BY <1>0, <2>1, <2>2, OrderUntouched DEF OInv
<1>3. CASE MsgReceive
  <2>1. OnePlace'
    BY <1>0, <1>3, ReceiveOnePlace
  <2>2. PriorityOrder' /\ Arrived'
    BY <1>3, ReceiveOrder
  <2>3. HandsEmpty'
    BY <1>0, <1>3 DEF MsgReceive, sendVars, HandsEmpty
  <2> QED
    BY <2>1, <2>2, <2>3 DEF OInv
<1>4. CASE DeliverInside
  <2>1. OnePlace' /\ HandsEmpty'
    BY <1>0, <1>4, DeliverOnePlace
  <2>2. UNCHANGED <<msg_buffer, arrival, accepted>>
    BY <1>4 DEF DeliverInside, LoopCheck, MsgReceiveEmpty, SpuriousWakeup, FindHandler,
       CallHandler, HandlerReturns, FindRelease, CallRelease, queueVars
  <2> QED
    BY <1>0, <2>1, <2>2, OrderUntouched DEF OInv
<1>5. CASE MsgCleanup
  <2>1. OnePlace' /\ HandsEmpty'
    BY <1>0, <1>5, CleanupOnePlace
  <2>2. msg_buffer' = <<>>
    BY <1>5 DEF MsgCleanup
  <2>3. Arrived' /\ PriorityOrder'
    BY <2>2 DEF Arrived, PriorityOrder
  <2> QED
    BY <2>1, <2>3 DEF OInv
<1>6. ASSUME UNCHANGED <<msg_buffer, msg, send_pc, send_msg, status, arrival, accepted>>
      PROVE  OInv'
  BY <1>0, <1>6 DEF OInv, OnePlace, HandsEmpty, Arrived, PriorityOrder
<1>7. CASE StopHandler \/ MsgThreadWakeup \/ \E mod \in Module : MsgUnregisterModule(mod)
  <2>1. UNCHANGED <<msg_buffer, msg, send_pc, send_msg, status, arrival, accepted>>
    BY <1>7 DEF StopHandler, MsgThreadWakeup, MsgUnregisterModule, queueVars,
                deliverVars, sendVars
  <2> QED
    BY <1>6, <2>1
<1>8. CASE UNCHANGED vars
  BY <1>6, <1>8 DEF vars
<1> QED
  BY <1>1, <1>2, <1>3, <1>4, <1>5, <1>7, <1>8
     DEF Next, Step, DeliverStep, DeliverInside, Ended

(* Both invariants together, as the refinement needs them.                 *)
THEOREM OrderInvariance == Spec => [](IInv /\ OInv)
<1>1. Init => IInv /\ OInv
  BY InitInv, InitOInv
<1>2. IInv /\ OInv /\ [Next]_vars => (IInv /\ OInv)'
  BY NextInv, NextOInv
<1> QED
  BY <1>1, <1>2, PTL DEF Spec

(* A message is in one queue entry, or in the hands of the delivery thread,*)
(* or in those of the one sender that was refused, never in two places.    *)
THEOREM MessageInOnePlace == Spec => []OnePlace
<1>1. IInv /\ OInv => OnePlace
  BY DEF OInv
<1> QED
  BY <1>1, OrderInvariance, PTL

(* The queue is sorted by priority and, within one, by the order of        *)
(* msg_send, whatever is inserted meanwhile.                               *)
THEOREM QueueSorted == Spec => []PriorityOrder
<1>1. IInv /\ OInv => PriorityOrder
  BY DEF OInv
<1> QED
  BY <1>1, OrderInvariance, PTL

-----------------------------------------------------------------------------
(* The refinement                                                          *)

(* What the abstract channel holds is what was sent, because the log ring  *)
(* leaves the text of a LOG message alone (LogIntact).                     *)
View ==
  /\ Carried \in Seq(Msg)
  /\ Len(Carried) = Len(msg_buffer)
  /\ \A i \in 1 .. Len(msg_buffer) : Carried[i] = msg_buffer[i].msg
  /\ Content(msg) = msg.msg

LEMMA ContentIsMessage == IInv => View
<1> SUFFICES ASSUME IInv PROVE View
  OBVIOUS
<1>1. /\ msg_buffer \in Seq(Entry)
      /\ Len(msg_buffer) \in Nat
      /\ \A i \in 1 .. Len(msg_buffer) : msg_buffer[i] \in Entry
  BY LenProperties, ElementOfSeq DEF IInv, TypeOK
<1>2. \A i \in 1 .. Len(msg_buffer) : Content(msg_buffer[i]) = msg_buffer[i].msg
  BY DEF Content, IInv, LogIntact, IsLog
<1>3. Content(msg) = msg.msg
  BY DEF Content, IInv, LogIntact, IsLog
<1>4. Carried \in [1 .. Len(msg_buffer) -> Msg]
  BY <1>1, <1>2 DEF Carried, Entry
<1>5. Carried \in Seq(Msg)
  BY <1>1, <1>4, SeqDef
<1>6. Len(Carried) = Len(msg_buffer)
  <2>1. DOMAIN Carried = 1 .. Len(msg_buffer)
    BY DEF Carried
  <2> QED
    BY <1>1, <1>5, <2>1, LenProperties
<1> QED
  BY <1>2, <1>3, <1>5, <1>6 DEF View, Carried

LEMMA ContentIsMessageNext == IInv' => View'
BY ContentIsMessage, PTL

(* The insertion of the code and the one of the channel.                   *)
LEMMA InsertIsConcat ==
  ASSUME NEW q \in Seq(Msg), NEW r \in Seq(Msg), NEW m \in Msg, NEW k \in 0 .. Len(q),
         Len(r) = Len(q) + 1,
         \A i \in 1 .. Len(q) + 1 :
           r[i] = IF i < k + 1 THEN q[i] ELSE IF i = k + 1 THEN m ELSE q[i - 1]
  PROVE  r = SubSeq(q, 1, k) \o <<m>> \o SubSeq(q, k + 1, Len(q))
<1> DEFINE n == Len(q)
           a == SubSeq(q, 1, k)
           b == SubSeq(q, k + 1, n)
           c == a \o <<m>>
<1>1. n \in Nat /\ k \in Nat /\ k <= n /\ \A i \in 1 .. n : q[i] \in Msg
  BY LenProperties, ElementOfSeq
<1>2. a \in Seq(Msg) /\ Len(a) = k /\ \A i \in 1 .. k : a[i] = q[i]
  BY <1>1, SubSeqProperties
<1>3. b \in Seq(Msg) /\ Len(b) = n - k /\ \A i \in 1 .. n - k : b[i] = q[k + i]
  <2>1. \A i \in k + 1 .. n : q[i] \in Msg
    BY <1>1
  <2>2. /\ b \in Seq(Msg)
        /\ Len(b) = IF k + 1 <= n THEN n - (k + 1) + 1 ELSE 0
        /\ \A i \in 1 .. n - (k + 1) + 1 : b[i] = q[(k + 1) + i - 1]
    BY <1>1, <2>1, SubSeqProperties
  <2> HIDE DEF b
  <2>3. Len(b) = n - k
    BY <1>1, <2>2
  <2>4. \A i \in 1 .. n - k : b[i] = q[k + i]
    <3> TAKE i \in 1 .. n - k
    <3>1. i \in 1 .. n - (k + 1) + 1 /\ (k + 1) + i - 1 = k + i
      BY <1>1
    <3> QED
      BY <2>2, <3>1
  <2> QED
    BY <2>2, <2>3, <2>4
<1>4. <<m>> \in Seq(Msg) /\ Len(<<m>>) = 1 /\ <<m>>[1] = m
  <2>1. <<m>> \in Seq(Msg)
    OBVIOUS
  <2>2. Len(<<m>>) = 1
    OBVIOUS
  <2>3. <<m>>[1] = m
    OBVIOUS
  <2> QED
    BY <2>1, <2>2, <2>3
<1> HIDE DEF a, b
<1>5. /\ c \in Seq(Msg) /\ Len(c) = k + 1
      /\ \A i \in 1 .. k + 1 : c[i] = IF i <= k THEN a[i] ELSE <<m>>[i - k]
  BY <1>2, <1>4, ConcatProperties
<1> HIDE DEF c
<1>6. /\ c \o b \in Seq(Msg)
      /\ Len(c \o b) = (k + 1) + (n - k)
      /\ \A i \in 1 .. (k + 1) + (n - k) :
           (c \o b)[i] = IF i <= k + 1 THEN c[i] ELSE b[i - (k + 1)]
  <2>1. /\ c \o b \in Seq(Msg)
        /\ Len(c \o b) = Len(c) + Len(b)
        /\ \A i \in 1 .. Len(c) + Len(b) :
             (c \o b)[i] = IF i <= Len(c) THEN c[i] ELSE b[i - Len(c)]
    BY ONLY <1>3, <1>5, ConcatProperties, Zenon
  <2> QED
    BY <1>3, <1>5, <2>1
<1>7. Len(c \o b) = Len(r)
  BY <1>1, <1>6
<1>8. ASSUME NEW i \in 1 .. n + 1 PROVE (c \o b)[i] = r[i]
  <2>1. (c \o b)[i] = IF i <= k + 1 THEN c[i] ELSE b[i - (k + 1)]
    BY <1>1, <1>6
  <2>2. CASE i <= k
    BY <1>1, <1>2, <1>5, <2>1, <2>2
  <2>3. CASE i = k + 1
    <3>1. c[k + 1] = <<m>>[(k + 1) - k]
      BY <1>1, <1>5
    <3>2. (k + 1) - k = 1
      BY <1>1
    <3>3. (c \o b)[i] = m
      BY <1>1, <1>4, <2>1, <2>3, <3>1, <3>2
    <3>4. r[i] = m
      BY <1>1, <2>3
    <3> QED
      BY <3>3, <3>4
  <2>4. CASE i > k + 1
    <3>1. i - (k + 1) \in 1 .. n - k /\ k + (i - (k + 1)) = i - 1
      BY <1>1, <2>4
    <3>2. b[i - (k + 1)] = q[i - 1]
      BY <1>3, <3>1
    <3>3. (c \o b)[i] = b[i - (k + 1)]
      BY <1>1, <2>1, <2>4
    <3>4. r[i] = q[i - 1]
      BY <1>1, <2>4
    <3> QED
      BY <3>2, <3>3, <3>4
  <2>5. i <= k \/ i = k + 1 \/ i > k + 1
    BY <1>1
  <2> QED
    BY <2>2, <2>3, <2>4, <2>5
<1>9. r = c \o b
  BY <1>6, <1>7, <1>8, SeqEqual
<1> QED
  BY <1>9 DEF c, a, b

(* An accepted message.                                                    *)
LEMMA SendIsAccept ==
  ASSUME IInv, OInv, View, View', NEW t \in Thread, NEW m \in Msg, MsgSend(t, m)
  PROVE  Channel!Accept(m)
<1> PICK k \in 1 .. Len(msg_buffer) + 1 :
      /\ IsInsertAt(k, m)
      /\ Len(msg_buffer) \in Nat
      /\ Len(msg_buffer') = Len(msg_buffer) + 1
      /\ \A i \in 1 .. Len(msg_buffer) : msg_buffer[i] \in Entry
      /\ \A i \in 1 .. Len(msg_buffer) + 1 :
           msg_buffer'[i] = IF i < k THEN msg_buffer[i]
                            ELSE IF i = k THEN Prepared(m)
                            ELSE msg_buffer[i - 1]
  BY SendQueue
<1> DEFINE n == Len(msg_buffer)
           h == k - 1
<1>1. /\ status[m] = "new"
      /\ \A x \in Msg : status'[x] = IF x = m THEN "queued" ELSE status[x]
      /\ n < QueueCap
      /\ UNCHANGED <<msg, running>>
  BY DEF MsgSend, HasRoom, stopVars, IInv, TypeOK
<1>2. /\ Carried \in Seq(Msg) /\ Len(Carried) = n
      /\ \A i \in 1 .. n : Carried[i] = msg_buffer[i].msg
      /\ Carried' \in Seq(Msg) /\ Len(Carried') = n + 1
      /\ \A i \in 1 .. n + 1 : Carried'[i] = msg_buffer'[i].msg
      /\ UNCHANGED Content(msg)
  BY <1>1 DEF View
<1>3. h \in 0 .. n /\ h + 1 = k
  OBVIOUS
<1>4. \A i \in 1 .. n + 1 :
        Carried'[i] = IF i < h + 1 THEN Carried[i]
                      ELSE IF i = h + 1 THEN m ELSE Carried[i - 1]
  <2> TAKE i \in 1 .. n + 1
  <2>1. CASE i < k
    BY <1>2, <2>1
  <2>2. CASE i = k
    BY <1>2, <2>2 DEF Prepared
  <2>3. CASE i > k
    <3>1. i - 1 \in 1 .. n
      BY <2>3
    <3> QED
      BY <1>2, <2>3, <3>1
  <2> QED
    BY <2>1, <2>2, <2>3
<1>5. Carried' = SubSeq(Carried, 1, h) \o <<m>> \o SubSeq(Carried, h + 1, Len(Carried))
  <2> HIDE DEF h
  <2>1. /\ Len(Carried') = Len(Carried) + 1
        /\ h \in 0 .. Len(Carried)
        /\ \A i \in 1 .. Len(Carried) + 1 :
             Carried'[i] = IF i < h + 1 THEN Carried[i]
                           ELSE IF i = h + 1 THEN m ELSE Carried[i - 1]
    BY <1>2, <1>3, <1>4
  <2> QED
    BY ONLY <1>2, <2>1, m \in Msg, InsertIsConcat, Zenon
<1>6. \A i \in 1 .. h : Prio[Carried[i]] >= Prio[m]
  <2>1. \A i \in 1 .. n : i < k => Prio[msg_buffer[i].msg] >= Prio[m]
    BY BehindUrgent DEF OInv
  <2> QED
    BY <1>2, <2>1
<1>7. \A i \in h + 1 .. Len(Carried) : Prio[Carried[i]] < Prio[m]
  BY <1>2 DEF IsInsertAt
<1>8. /\ m \notin Used /\ Used' = Used \cup {m}
      /\ UNCHANGED <<Refused, Returned>>
  BY <1>1 DEF Used, Refused, Returned
<1> HIDE DEF h
<1> QED
  BY <1>1, <1>2, <1>3, <1>5, <1>6, <1>7, <1>8 DEF Channel!Accept

(* A refused one.                                                          *)
LEMMA FullIsRefuse ==
  ASSUME IInv, View, View', NEW t \in Thread, NEW m \in Msg, MsgSendFull(t, m)
  PROVE  Channel!Refuse(m)
<1>1. /\ status[m] = "new"
      /\ \A x \in Msg : status'[x] = IF x = m THEN "refused" ELSE status[x]
      /\ Len(msg_buffer) = QueueCap
      /\ UNCHANGED <<msg_buffer, log_msg_buffer, msg, running>>
  <2>1. Len(msg_buffer) \in Nat
    BY LenProperties DEF IInv, TypeOK
  <2> QED
    BY <2>1, SizeAssumption DEF MsgSendFull, HasRoom, stopVars, deliverVars, IInv, TypeOK
<1>2. UNCHANGED <<Carried, Content(msg)>>
  BY <1>1 DEF Carried, Content
<1>3. Len(Carried) = QueueCap
  BY <1>1 DEF View
<1>4. /\ m \notin Used /\ Used' = Used \cup {m}
      /\ Refused' = Refused \cup {m} /\ UNCHANGED Returned
  BY <1>1 DEF Used, Refused, Returned
<1> QED
  BY <1>1, <1>2, <1>3, <1>4 DEF Channel!Refuse

(* The release handler of a refused sender, and a sender whose route is    *)
(* gone, which is after the stop.                                          *)
LEMMA SenderIsReturn ==
  ASSUME IInv, OInv, NEW t \in Thread, SenderStep(t)
  PROVE  \/ \E m \in Msg : Channel!ReturnRefused(m) \/ Channel!LoseRefused(m)
         \/ UNCHANGED Channel!vars
<1>1. UNCHANGED <<msg_buffer, log_msg_buffer, msg, running>>
  BY DEF SenderStep, SenderFindRoute, SenderRelease, queueVars, stopVars, deliverVars
<1>2. UNCHANGED <<Carried, Content(msg), running>>
  BY <1>1 DEF Carried, Content
<1>3. CASE UNCHANGED status
  BY <1>2, <1>3 DEF Channel!vars, Refused, Returned, Used
<1>4. ASSUME NEW s \in {"released", "unreleased"}, send_pc[t] # "idle",
             status' = [status EXCEPT ![send_msg[t]] = s]
      PROVE  /\ send_msg[t] \in Msg
             /\ send_msg[t] \in Refused
             /\ Refused' = Refused \ {send_msg[t]}
             /\ Returned' = IF s = "released" THEN Returned \cup {send_msg[t]} ELSE Returned
             /\ Used' = Used
  <2>1. send_msg[t] \in Msg
    BY <1>4 DEF IInv, InHand
  <2>2. status[send_msg[t]] = "refused"
    BY <2>1, OnePlaceParts DEF OInv, RefusedOnce
  <2>3. \A x \in Msg : status'[x] = IF x = send_msg[t] THEN s ELSE status[x]
    BY <1>4, <2>1 DEF IInv, TypeOK
  <2> QED
    BY <1>4, <2>1, <2>2, <2>3 DEF Refused, Returned, Used
<1>5. CASE SenderFindRoute(t) /\ Source[send_msg[t]] \notin routes
  <2>1. send_pc[t] # "idle" /\ status' = [status EXCEPT ![send_msg[t]] = "unreleased"]
    BY <1>5 DEF SenderFindRoute
  <2>2. send_msg[t] \in Msg
    BY <1>4, <2>1
  <2>3. ~running
    BY <1>5, <2>2, MessageAssumption DEF IInv, UpWhileRunning
  <2>4. Channel!LoseRefused(send_msg[t])
    BY <1>2, <1>4, <2>1, <2>3 DEF Channel!LoseRefused
  <2> QED
    BY <2>2, <2>4
<1>6. CASE /\ SenderRelease(t)
           /\ status' = [status EXCEPT ![send_msg[t]] = "released"]
  <2>1. send_pc[t] # "idle"
    BY <1>6 DEF SenderRelease
  <2>2. Channel!ReturnRefused(send_msg[t])
    BY <1>2, <1>4, <1>6, <2>1 DEF Channel!ReturnRefused
  <2> QED
    BY <1>4, <1>6, <2>1, <2>2
<1> QED
  BY <1>3, <1>5, <1>6 DEF SenderStep, SenderFindRoute, SenderRelease

(* The head of the queue goes to the delivery thread.                      *)
LEMMA ReceiveIsTake ==
  ASSUME IInv, OInv, View, View', MsgReceive
  PROVE  Channel!Take
<1> DEFINE n == Len(msg_buffer)
<1>1. /\ n \in Nat \ {0}
      /\ msg = NoEntry
      /\ msg' = msg_buffer[1]
      /\ msg_buffer[1].msg \in Msg
      /\ Len(msg_buffer') = n - 1
      /\ \A i \in 1 .. n - 1 : msg_buffer'[i] = msg_buffer[i + 1]
      /\ UNCHANGED running
  <2>1. msg_buffer \in Seq(Entry) /\ msg_buffer # <<>>
    BY DEF MsgReceive, IInv, TypeOK
  <2>2. msg = NoEntry /\ UNCHANGED running
    BY DEF MsgReceive, IInv, InHand, HandPC, stopVars
  <2>3. n \in Nat \ {0} /\ \A i \in 1 .. n : msg_buffer[i] \in Entry
    BY <2>1, EmptySeq, ElementOfSeq
  <2>4. msg' = msg_buffer[1] /\ msg_buffer[1].msg \in Msg
    BY <2>3 DEF MsgReceive, Entry
  <2>5. /\ Len(msg_buffer') = n - 1
        /\ \A i \in 1 .. n - 1 : msg_buffer'[i] = msg_buffer[i + 1]
    BY <2>1, HeadTailProperties DEF MsgReceive, Popped
  <2> QED
    BY <2>2, <2>3, <2>4, <2>5
<1>2. Content(msg) = NoMsg /\ Content(msg)' = Carried[1]
  BY <1>1 DEF View, NoEntry
<1>3. Carried # <<>> /\ Carried[1] = Head(Carried)
  BY <1>1 DEF View
<1>4. Carried' = Tail(Carried)
  <2>1. /\ Tail(Carried) \in Seq(Msg)
        /\ Len(Tail(Carried)) = n - 1
        /\ \A i \in 1 .. n - 1 : Tail(Carried)[i] = Carried[i + 1]
    BY <1>3, HeadTailProperties DEF View
  <2>2. /\ Carried' \in Seq(Msg)
        /\ Len(Carried') = n - 1
        /\ \A i \in 1 .. n - 1 : Carried'[i] = msg_buffer[i + 1].msg
    BY <1>1 DEF View
  <2>3. \A i \in 1 .. n - 1 : Carried[i + 1] = msg_buffer[i + 1].msg
    <3>1. \A i \in 1 .. n - 1 : i + 1 \in 1 .. n
      BY <1>1
    <3> QED
      BY <3>1 DEF View
  <2> QED
    BY <2>1, <2>2, <2>3, SeqEqual
<1>5. UNCHANGED <<Refused, Returned, Used>>
  <2>1. status[msg_buffer[1].msg] = "queued"
    BY <1>1, OnePlaceParts DEF OInv, QueuedOnce, InQueue
  <2>2. \A x \in Msg : status'[x] = IF x = msg_buffer[1].msg THEN "taken" ELSE status[x]
    BY <1>1 DEF MsgReceive, IInv, TypeOK
  <2> QED
    BY <2>1, <2>2 DEF Refused, Returned, Used
<1> QED
  BY <1>1, <1>2, <1>3, <1>4, <1>5 DEF Channel!Take

(* The release handler of the source, or no route to it, after the stop.   *)
LEMMA DeliverIsReturn ==
  ASSUME IInv, OInv, View, View', DeliverInside
  PROVE  Channel!ReturnDelivered \/ Channel!LoseDelivered \/ UNCHANGED Channel!vars
<1>1. UNCHANGED <<msg_buffer, log_msg_buffer, running>>
  BY DEF DeliverInside, LoopCheck, MsgReceiveEmpty, SpuriousWakeup, FindHandler,
         CallHandler, HandlerReturns, FindRelease, CallRelease, queueVars, stopVars
<1>2. UNCHANGED Carried
  BY <1>1 DEF Carried, Content
<1>3. CASE UNCHANGED <<msg, status>>
  BY <1>1, <1>2, <1>3 DEF Channel!vars, Refused, Returned, Used, Content
<1>4. ASSUME NEW s \in {"released", "unreleased"}, pc \in HandPC,
             msg' = NoEntry, status' = [status EXCEPT ![msg.msg] = s]
      PROVE  /\ Content(msg) \in Msg
             /\ Content(msg)' = NoMsg
             /\ Returned' = IF s = "released" THEN Returned \cup {Content(msg)} ELSE Returned
             /\ UNCHANGED <<Refused, Used>>
  <2>1. msg.msg \in Msg /\ Content(msg) = msg.msg
    BY <1>4 DEF IInv, InHand, Entry, View
  <2>2. Content(msg)' = NoMsg
    BY <1>4 DEF View, NoEntry
  <2>3. status[msg.msg] = "taken"
    BY <2>1, OnePlaceParts DEF OInv, TakenOnce
  <2>4. \A x \in Msg : status'[x] = IF x = msg.msg THEN s ELSE status[x]
    BY <1>4, <2>1 DEF IInv, TypeOK
  <2> QED
    BY <1>4, <2>1, <2>2, <2>3, <2>4 DEF Refused, Returned, Used
<1>5. CASE FindRelease /\ Source[msg.msg] \notin routes
  <2>1. /\ pc \in HandPC /\ msg' = NoEntry
        /\ status' = [status EXCEPT ![msg.msg] = "unreleased"]
    BY <1>5 DEF FindRelease, HandPC
  <2>2. ~running
    BY <1>5, <2>1, MessageAssumption DEF IInv, InHand, UpWhileRunning, Entry
  <2>3. Channel!LoseDelivered
    BY <1>1, <1>2, <1>4, <2>1, <2>2 DEF Channel!LoseDelivered
  <2> QED
    BY <2>3
<1>6. CASE /\ CallRelease /\ msg' = NoEntry
           /\ status' = [status EXCEPT ![msg.msg] = "released"]
  <2>1. pc \in HandPC
    BY <1>6 DEF CallRelease, HandPC
  <2>2. Channel!ReturnDelivered
    BY <1>1, <1>2, <1>4, <1>6, <2>1, MessageAssumption DEF Channel!ReturnDelivered
  <2> QED
    BY <2>2
<1>7. CASE FindRelease
  BY <1>3, <1>5, <1>7 DEF FindRelease
<1>8. CASE CallRelease
  BY <1>3, <1>6, <1>8 DEF CallRelease
<1>9. CASE \/ LoopCheck \/ MsgReceiveEmpty \/ SpuriousWakeup
           \/ FindHandler \/ CallHandler \/ HandlerReturns
  <2>1. UNCHANGED <<msg, status>>
    BY <1>9 DEF LoopCheck, MsgReceiveEmpty, SpuriousWakeup, FindHandler,
                CallHandler, HandlerReturns
  <2> QED
    BY <1>3, <2>1
<1> QED
  BY <1>7, <1>8, <1>9 DEF DeliverInside

(* msg_cleanup runs after the loop, when the channel is closed.            *)
LEMMA CleanupIsLoseAll ==
  ASSUME IInv, View, View', MsgCleanup
  PROVE  Channel!LoseAll
<1>1. /\ ~running
      /\ Len(msg_buffer') = 0
      /\ UNCHANGED <<log_msg_buffer, msg, running>>
      /\ \A x \in Msg : status'[x] = IF status[x] = "queued" THEN "dropped" ELSE status[x]
  BY EmptySeq DEF MsgCleanup, stopVars, IInv, UpWhileRunning
<1>2. Carried' = <<>>
  BY <1>1, EmptySeq, SeqEqual DEF View
<1>3. UNCHANGED <<Content(msg), Refused, Returned, Used, running>>
  BY <1>1 DEF Content, Refused, Returned, Used
<1> QED
  BY <1>1, <1>2, <1>3 DEF Channel!LoseAll

(* Every step of the exchange is one of the channel, or leaves it alone.   *)
LEMMA StepSimulation ==
  ASSUME IInv, OInv, View, View', [Next]_vars
  PROVE  [Channel!Next]_(Channel!vars)
<1>1. CASE UNCHANGED vars
  BY <1>1 DEF vars, Channel!vars, Carried, Content, Refused, Returned, Used
<1>2. ASSUME NEW t \in Thread, NEW m \in Msg, MsgSend(t, m) \/ MsgSendFull(t, m)
      PROVE  Channel!Next
  BY <1>2, SendIsAccept, FullIsRefuse DEF Channel!Next
<1>3. ASSUME NEW t \in Thread, SenderStep(t)
      PROVE  [Channel!Next]_(Channel!vars)
  BY <1>3, SenderIsReturn DEF Channel!Next
<1>4. CASE DeliverInside
  BY <1>4, DeliverIsReturn DEF Channel!Next
<1>5. CASE MsgReceive
  BY <1>5, ReceiveIsTake DEF Channel!Next
<1>6. CASE MsgCleanup
  BY <1>6, CleanupIsLoseAll DEF Channel!Next
<1>7. CASE StopHandler
  <2>1. UNCHANGED <<Carried, Content(msg), Refused, Returned, Used>>
    BY <1>7 DEF StopHandler, queueVars, deliverVars, Carried, Content, Refused,
                Returned, Used
  <2>2. Channel!Close
    BY <1>7, <2>1 DEF StopHandler, Channel!Close
  <2> QED
    BY <2>2 DEF Channel!Next
<1>8. CASE MsgThreadWakeup \/ \E mod \in Module : MsgUnregisterModule(mod)
  BY <1>8 DEF MsgThreadWakeup, MsgUnregisterModule, queueVars, deliverVars,
              Channel!vars, Carried, Content, Refused, Returned, Used
<1> QED
  BY <1>1, <1>2, <1>3, <1>4, <1>5, <1>6, <1>7, <1>8
     DEF Next, Step, DeliverStep, DeliverInside, Ended

(* The exchange starts as an empty open channel.                           *)
LEMMA InitSimulation == Init => Channel!Init
<1> SUFFICES ASSUME Init PROVE Channel!Init
  OBVIOUS
<1>1. Carried = <<>> /\ Content(msg) = NoMsg
  <2>1. View /\ Len(msg_buffer) = 0
    BY InitInv, ContentIsMessage, EmptySeq DEF Init
  <2> QED
    BY <2>1, EmptySeq, SeqEqual DEF View, Init, NoEntry
<1>2. Refused = {} /\ Returned = {} /\ Used = {} /\ running
  BY DEF Init, Refused, Returned, Used
<1> QED
  BY <1>1, <1>2 DEF Channel!Init, Init

(* Modules that talk through msg_deliver.c may think of it as a bounded    *)
(* channel that passes messages by value, urgent ones first, and gives each*)
(* back to its sender once, after the handler of its destination has run.  *)
THEOREM Refinement == Spec => ImplementsChannel
<1>1. Init => Channel!Init
  BY InitSimulation
<1>2. IInv => View
  BY ContentIsMessage
<1>3. (IInv /\ OInv /\ View) /\ View' /\ [Next]_vars => [Channel!Next]_(Channel!vars)
  BY StepSimulation
<1> QED
  BY <1>1, <1>2, <1>3, OrderInvariance, PTL DEF Spec, ImplementsChannel, Channel!Spec
=============================================================================
