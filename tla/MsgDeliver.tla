----------------------------- MODULE MsgDeliver -----------------------------
(***************************************************************************)
(* The message exchange of the board program: src/src/msg/msg_deliver.c    *)
(* (queue, log pool, delivery thread) and src/src/msg/msg_about.c (route   *)
(* table).                                                                 *)
(*                                                                         *)
(* Every module sends by msg_dispatch, from its own thread or from inside  *)
(* a handler that the delivery thread runs.  A message carries a pointer   *)
(* to data its sender still owns; only the text of a LOG message is copied,*)
(* into a ring of log slots that msg_send overwrites without asking who    *)
(* still reads them.  The delivery thread calls the handler of the         *)
(* destination and then the release handler of the source, which is how    *)
(* the sender gets its data back.                                          *)
(*                                                                         *)
(* Msg is the set of msg_send calls of a behaviour, each made at most once;*)
(* the sets are arbitrary, so are the priorities (the build without        *)
(* MSG_ENABLE_PRIORITY gives every message the same one).                  *)
(***************************************************************************)
EXTENDS Naturals, Sequences

CONSTANTS Msg,        \* calls of msg_send
          LogMsg,     \* those of type MSG_TYPE_LOG
          NoMsg,
          Thread,     \* threads that send
          Deliver,    \* msg_deliver_thread
          Module,     \* Module_ID_e
          Source,     \* src_module of a message
          Dest,       \* dst_module of a message
          Prio,       \* priority of a message
          QueueCap,   \* MAX_MSG_QUEUE_SIZE
          LogSlots    \* MAX_LOG_MSG_SIZE

ASSUME MessageAssumption ==
  /\ LogMsg \subseteq Msg
  /\ NoMsg \notin Msg
  /\ Deliver \in Thread
  /\ Source \in [Msg -> Module]
  /\ Dest \in [Msg -> Module]
  /\ Prio \in [Msg -> Nat]

(* 32 queue entries, 64 log slots: one slot more than entries is enough,   *)
(* the one more is for the message being handled.                          *)
ASSUME SizeAssumption ==
  /\ QueueCap \in Nat \ {0}
  /\ LogSlots \in Nat
  /\ QueueCap < LogSlots

(* Every LOG message is made by msg_dispatch, never by                     *)
(* msg_dispatch_with_priority: they all have MSG_PRIORITY_NORMAL.          *)
ASSUME LogPriorityAssumption == \A m, n \in LogMsg : Prio[m] = Prio[n]

VARIABLES
  msg_buffer,      \* the queue, its length is count
  log_msg_buffer,  \* log slot -> the message whose text it holds
  log_idx,         \* next slot msg_prepare_for_queue writes
  running,         \* the global flag
  wakeup,          \* stop_handler has still to call msg_thread_wakeup
  routes,          \* modules whose route is valid
  pc,              \* where the delivery thread is
  msg,             \* the entry it has taken
  send_pc,         \* a sender whose message did not fit releases it itself
  send_msg,
  crashed,         \* a call through a route cleared after it was checked
  status,          \* ghost: what became of each message
  arrival,         \* ghost: order of acceptance, 0 before
  accepted         \* ghost: number of messages accepted

vars == <<msg_buffer, log_msg_buffer, log_idx, running, wakeup, routes, pc,
          msg, send_pc, send_msg, crashed, status, arrival, accepted>>

Slot    == 0 .. LogSlots - 1
NoSlot  == LogSlots
Entry   == [msg : Msg, slot : 0 .. LogSlots]
NoEntry == [msg |-> NoMsg, slot |-> NoSlot]

DeliverPC == {"loop", "receive", "waiting", "find_handler", "call_handler",
              "handling", "find_release", "call_release", "cleanup", "done"}
Status == {"new", "queued", "taken", "refused", "released", "unreleased",
           "dropped"}

TypeOK ==
  /\ msg_buffer \in Seq(Entry)
  /\ Len(msg_buffer) <= QueueCap
  /\ log_msg_buffer \in [Slot -> Msg \cup {NoMsg}]
  /\ log_idx \in Slot
  /\ running \in BOOLEAN
  /\ wakeup \in BOOLEAN
  /\ routes \subseteq Module
  /\ pc \in DeliverPC
  /\ msg \in Entry \cup {NoEntry}
  /\ send_pc \in [Thread -> {"idle", "full", "call"}]
  /\ send_msg \in [Thread -> Msg \cup {NoMsg}]
  /\ crashed \in BOOLEAN
  /\ status \in [Msg -> Status]
  /\ arrival \in [Msg -> Nat]
  /\ accepted \in Nat

(* The state after msg_queue_init_once, which pthread_once runs before the *)
(* first use of the queue.                                                 *)
Init ==
  /\ msg_buffer = <<>>
  /\ log_msg_buffer = [s \in Slot |-> NoMsg]
  /\ log_idx = 0
  /\ running = TRUE
  /\ wakeup = FALSE
  /\ routes = Module
  /\ pc = "loop"
  /\ msg = NoEntry
  /\ send_pc = [t \in Thread |-> "idle"]
  /\ send_msg = [t \in Thread |-> NoMsg]
  /\ crashed = FALSE
  /\ status = [m \in Msg |-> "new"]
  /\ arrival = [m \in Msg |-> 0]
  /\ accepted = 0

-----------------------------------------------------------------------------
(* Sending                                                                 *)

deliverVars == <<pc, msg>>
stopVars    == <<running, wakeup, routes>>

(* msg_prepare_for_queue *)
Prepared(m) == [msg |-> m, slot |-> IF m \in LogMsg THEN log_idx ELSE NoSlot]

(* Mutant: the index comes round with the queue.                           *)
NextLogIdxShort == (log_idx + 1) % QueueCap

NextLogIdx == (log_idx + 1) % LogSlots

CopyLog(m) ==
  IF m \in LogMsg
    THEN /\ log_msg_buffer' = [log_msg_buffer EXCEPT ![log_idx] = m]
         /\ log_idx' = NextLogIdx
    ELSE UNCHANGED <<log_msg_buffer, log_idx>>

(* Mutants: pushed in front, or in front of equal priorities.              *)
IsInsertAtFront(k, m) == k = 1

IsInsertAtBeforeEqual(k, m) ==
  /\ k \in 1 .. Len(msg_buffer) + 1
  /\ \A i \in k .. Len(msg_buffer) : Prio[msg_buffer[i].msg] <= Prio[m]
  /\ k > 1 => Prio[msg_buffer[k - 1].msg] > Prio[m]

(* insert_at of msg_queue_push: behind the last entry whose priority is not*)
(* lower.  With equal priorities it is the end of the queue.               *)
IsInsertAt(k, m) ==
  /\ k \in 1 .. Len(msg_buffer) + 1
  /\ \A i \in k .. Len(msg_buffer) : Prio[msg_buffer[i].msg] < Prio[m]
  /\ k > 1 => Prio[msg_buffer[k - 1].msg] >= Prio[m]

Inserted(q, k, e) ==
  [i \in 1 .. Len(q) + 1 |-> IF i < k THEN q[i]
                             ELSE IF i = k THEN e ELSE q[i - 1]]

(* Mutant: no signal.                                                      *)
SignalledNobody(p) == p

(* pthread_cond_signal: only the delivery thread waits on the condition.   *)
Signalled(p) == IF p = "waiting" THEN "receive" ELSE p

(* A thread sends when it is not inside another msg_send; the delivery     *)
(* thread sends from the handlers it runs.                                 *)
MaySend(t) == send_pc[t] = "idle" /\ (t = Deliver => pc = "handling")

(* Mutant: one entry too many.                                             *)
HasRoomOffByOne == Len(msg_buffer) <= QueueCap

HasRoom == Len(msg_buffer) < QueueCap

MsgSend(t, m) ==
  /\ MaySend(t)
  /\ status[m] = "new"
  /\ HasRoom
  /\ \E k \in 1 .. Len(msg_buffer) + 1 :
       /\ IsInsertAt(k, m)
       /\ msg_buffer' = Inserted(msg_buffer, k, Prepared(m))
  /\ CopyLog(m)
  /\ pc' = Signalled(pc)
  /\ status' = [status EXCEPT ![m] = "queued"]
  /\ accepted' = accepted + 1
  /\ arrival' = [arrival EXCEPT ![m] = accepted + 1]
  /\ UNCHANGED <<stopVars, msg, send_pc, send_msg, crashed>>

(* count >= MAX_MSG_QUEUE_SIZE: unlock, then release what was not sent.    *)
MsgSendFull(t, m) ==
  /\ MaySend(t)
  /\ status[m] = "new"
  /\ ~HasRoom
  /\ send_pc' = [send_pc EXCEPT ![t] = "full"]
  /\ send_msg' = [send_msg EXCEPT ![t] = m]
  /\ status' = [status EXCEPT ![m] = "refused"]
  /\ UNCHANGED <<msg_buffer, log_msg_buffer, log_idx, stopVars, deliverVars,
                 crashed, arrival, accepted>>

queueVars == <<msg_buffer, log_msg_buffer, log_idx, arrival, accepted>>

(* msg_release in the sender: find_route of the source and the check of its*)
(* release handler ...                                                     *)
SenderFindRoute(t) ==
  /\ send_pc[t] = "full"
  /\ IF Source[send_msg[t]] \in routes
       THEN /\ send_pc' = [send_pc EXCEPT ![t] = "call"]
            /\ UNCHANGED <<send_msg, status>>
       ELSE /\ send_pc' = [send_pc EXCEPT ![t] = "idle"]
            /\ send_msg' = [send_msg EXCEPT ![t] = NoMsg]
            /\ status' = [status EXCEPT ![send_msg[t]] = "unreleased"]
  /\ UNCHANGED <<queueVars, stopVars, deliverVars, crashed>>

(* ... and the call.  A route cleared in between is read again as a null   *)
(* pointer, or not read again: that is the compiler's choice.              *)
SenderRelease(t) ==
  /\ send_pc[t] = "call"
  /\ \/ /\ send_pc' = [send_pc EXCEPT ![t] = "idle"]
        /\ send_msg' = [send_msg EXCEPT ![t] = NoMsg]
        /\ status' = [status EXCEPT ![send_msg[t]] = "released"]
        /\ UNCHANGED crashed
     \/ /\ Source[send_msg[t]] \notin routes
        /\ crashed' = TRUE
        /\ UNCHANGED <<send_pc, send_msg, status>>
  /\ UNCHANGED <<queueVars, stopVars, deliverVars>>

-----------------------------------------------------------------------------
(* The delivery thread                                                     *)

sendVars == <<send_pc, send_msg>>

(* while (running) *)
LoopCheck ==
  /\ pc = "loop"
  /\ pc' = IF running THEN "receive" ELSE "cleanup"
  /\ UNCHANGED <<queueVars, stopVars, msg, sendVars, crashed, status>>

(* msg_receive with an empty queue: wait, or return -1 once stopped.       *)
MsgReceiveEmpty ==
  /\ pc = "receive"
  /\ msg_buffer = <<>>
  /\ pc' = IF running THEN "waiting" ELSE "loop"
  /\ UNCHANGED <<queueVars, stopVars, msg, sendVars, crashed, status>>

(* Mutant: count is not decreased.                                         *)
PoppedNone(q) == q

(* msg_queue_pop *)
Popped(q) == Tail(q)

(* msg_receive.  The queue is drained even when stopped.    *)
MsgReceive ==
  /\ pc = "receive"
  /\ msg_buffer # <<>>
  /\ msg' = Head(msg_buffer)
  /\ msg_buffer' = Popped(msg_buffer)
  /\ pc' = "find_handler"
  /\ status' = [status EXCEPT ![Head(msg_buffer).msg] = "taken"]
  /\ UNCHANGED <<log_msg_buffer, log_idx, stopVars, sendVars, crashed,
                 arrival, accepted>>

(* POSIX allows a wait to return by itself.                                *)
SpuriousWakeup ==
  /\ pc = "waiting"
  /\ pc' = "receive"
  /\ UNCHANGED <<queueVars, stopVars, msg, sendVars, crashed, status>>

(* msg_module_handler: find_route and the check of the handler.            *)
FindHandler ==
  /\ pc = "find_handler"
  /\ pc' = IF Dest[msg.msg] \in routes THEN "call_handler" ELSE "find_release"
  /\ UNCHANGED <<queueVars, stopVars, msg, sendVars, crashed, status>>

CallHandler ==
  /\ pc = "call_handler"
  /\ \/ pc' = "handling" /\ UNCHANGED crashed
     \/ Dest[msg.msg] \notin routes /\ crashed' = TRUE /\ UNCHANGED pc
  /\ UNCHANGED <<queueVars, stopVars, msg, sendVars, status>>

(* Mutant: no msg_release after the handler.                               *)
HandlerReturnsUnreleased ==
  /\ pc = "handling"
  /\ send_pc[Deliver] = "idle"
  /\ pc' = "loop"
  /\ UNCHANGED <<queueVars, stopVars, msg, sendVars, crashed, status>>

(* The handler returns, the messages it sent are sent or released.         *)
HandlerReturns ==
  /\ pc = "handling"
  /\ send_pc[Deliver] = "idle"
  /\ pc' = "find_release"
  /\ UNCHANGED <<queueVars, stopVars, msg, sendVars, crashed, status>>

(* msg_module_release_handler: find_route and the check ...                *)
FindRelease ==
  /\ pc = "find_release"
  /\ IF Source[msg.msg] \in routes
       THEN pc' = "call_release" /\ UNCHANGED <<msg, status>>
       ELSE /\ pc' = "loop"
            /\ msg' = NoEntry
            /\ status' = [status EXCEPT ![msg.msg] = "unreleased"]
  /\ UNCHANGED <<queueVars, stopVars, sendVars, crashed>>

(* ... and the call.                                                       *)
CallRelease ==
  /\ pc = "call_release"
  /\ \/ /\ pc' = "loop"
        /\ msg' = NoEntry
        /\ status' = [status EXCEPT ![msg.msg] = "released"]
        /\ UNCHANGED crashed
     \/ /\ Source[msg.msg] \notin routes
        /\ crashed' = TRUE
        /\ UNCHANGED <<pc, msg, status>>
  /\ UNCHANGED <<queueVars, stopVars, sendVars>>

(* msg_cleanup: count = 0.  Nobody is told about what was queued.          *)
MsgCleanup ==
  /\ pc = "cleanup"
  /\ msg_buffer' = <<>>
  /\ status' = [m \in Msg |->
                  IF status[m] = "queued" THEN "dropped" ELSE status[m]]
  /\ pc' = "done"
  /\ UNCHANGED <<log_msg_buffer, log_idx, stopVars, msg, sendVars, crashed,
                 arrival, accepted>>

-----------------------------------------------------------------------------
(* Shutdown: stop_handler clears running, then wakes the threads; each     *)
(* module clears its own route when its thread leaves its loop.            *)

StopHandler ==
  /\ running
  /\ running' = FALSE
  /\ wakeup' = TRUE
  /\ UNCHANGED <<queueVars, routes, deliverVars, sendVars, crashed, status>>

MsgThreadWakeup ==
  /\ wakeup
  /\ wakeup' = FALSE
  /\ pc' = Signalled(pc)
  /\ UNCHANGED <<queueVars, running, routes, msg, sendVars, crashed, status>>

(* Mutant: a module unregisters before its loop.                           *)
HasLeftLoopEarly == TRUE

HasLeftLoop == ~running

MsgUnregisterModule(mod) ==
  /\ HasLeftLoop
  /\ mod \in routes
  /\ routes' = routes \ {mod}
  /\ UNCHANGED <<queueVars, running, wakeup, deliverVars, sendVars, crashed,
                 status>>

(* The program has ended, or the process died on a null call.              *)
Ended ==
  /\ \/ crashed
     \/ pc = "done" /\ routes = {} /\ \A t \in Thread : send_pc[t] = "idle"
  /\ UNCHANGED vars

DeliverStep ==
  \/ LoopCheck \/ MsgReceiveEmpty \/ MsgReceive
  \/ FindHandler \/ CallHandler \/ HandlerReturns
  \/ FindRelease \/ CallRelease \/ MsgCleanup

SenderStep(t) == SenderFindRoute(t) \/ SenderRelease(t)

Step ==
  \/ \E t \in Thread, m \in Msg : MsgSend(t, m) \/ MsgSendFull(t, m)
  \/ \E t \in Thread : SenderStep(t)
  \/ DeliverStep
  \/ SpuriousWakeup
  \/ StopHandler
  \/ MsgThreadWakeup
  \/ \E mod \in Module : MsgUnregisterModule(mod)

Next == (~crashed /\ Step) \/ Ended

Spec == Init /\ [][Next]_vars

(* The threads are scheduled, handlers return, and stop_handler finishes   *)
(* once it has begun.  Nothing is assumed of who sends, of the signal or of*)
(* spurious wakeups.                                                       *)
Fairness ==
  /\ WF_vars(~crashed /\ DeliverStep)
  /\ \A t \in Thread : WF_vars(~crashed /\ SenderStep(t))
  /\ WF_vars(~crashed /\ MsgThreadWakeup)

FairSpec == Spec /\ Fairness

-----------------------------------------------------------------------------
(* Properties                                                              *)

IsLog(e) == e.msg \in LogMsg

(* The copy of a LOG message that is queued or being handled still holds   *)
(* the text its sender gave to msg_send: the ring never comes round to a   *)
(* slot in use, although msg_prepare_for_queue never looks.                *)
LogIntact ==
  /\ \A i \in 1 .. Len(msg_buffer) :
       IsLog(msg_buffer[i]) =>
         log_msg_buffer[msg_buffer[i].slot] = msg_buffer[i].msg
  /\ IsLog(msg) => log_msg_buffer[msg.slot] = msg.msg

(* A message is in exactly one place: waiting in one entry, in the hands of*)
(* the delivery thread, or in those of the one sender that was refused.    *)
OnePlace ==
  /\ \A i, j \in 1 .. Len(msg_buffer) :
       msg_buffer[i].msg = msg_buffer[j].msg => i = j
  /\ \A m \in Msg :
       /\ status[m] = "queued" <=>
            \E i \in 1 .. Len(msg_buffer) : msg_buffer[i].msg = m
       /\ status[m] = "taken" <=> msg.msg = m
       /\ status[m] = "refused" <=> \E t \in Thread : send_msg[t] = m
  /\ \A t, u \in Thread :
       send_msg[t] = send_msg[u] /\ send_msg[t] # NoMsg => t = u

(* The queue is sorted: a higher priority first, and in the order of       *)
(* msg_send within one priority, whatever was inserted in front meanwhile. *)
PriorityOrder ==
  \A i, j \in 1 .. Len(msg_buffer) :
    i < j =>
      LET m == msg_buffer[i].msg
          n == msg_buffer[j].msg
      IN  \/ Prio[m] > Prio[n]
          \/ Prio[m] = Prio[n] /\ arrival[m] < arrival[n]

(* The delivery thread does not sleep over a message, nor over a stop whose*)
(* wakeup has been given.                                                  *)
NoLostWakeup == pc = "waiting" => msg_buffer = <<>> /\ (running \/ wakeup)

(* Until the program is stopped no message is dropped, none keeps its      *)
(* sender's data, and no thread calls through a cleared route.             *)
NothingLostWhileRunning ==
  running => /\ ~crashed
             /\ \A m \in Msg : status[m] \notin {"dropped", "unreleased"}

(* Whatever is accepted or refused is given back to its source, unless the *)
(* program is stopped.                                                     *)
EventuallyReleased ==
  \A m \in Msg :
    status[m] \in {"queued", "taken", "refused"} ~>
      (status[m] = "released" \/ ~running)
=============================================================================
