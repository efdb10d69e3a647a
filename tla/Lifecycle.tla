----------------------------- MODULE Lifecycle -----------------------------
(***************************************************************************)
(* Start and end of the program:                                           *)
(*   src/src/main.c           starts the threads; SIGINT clears running and*)
(*                            wakes the threads, one after the other       *)
(*   src/src/net/tcp_shared.c the receiver waits for the sender's link     *)
(*   the loops of the nine threads, with the conditions they wait for      *)
(*                                                                         *)
(* Of what a thread does between two waits only that is kept which takes   *)
(* part in waiting: messages that make another thread ready, the TCP       *)
(* connection, and the calls that may block.  TCP sender and receiver wait *)
(* for different things on one condition variable.  The signal handler is  *)
(* run by the main thread, which holds no lock.  A timed wait may end, but *)
(* no property relies on it.  Routes are left to module MsgDeliver: making *)
(* a thread ready that has gone has no effect.                             *)
(***************************************************************************)
EXTENDS Naturals, Sequences

CONSTANTS Thread,    \* those of the nine that take part
          QueueCap,
          Trouble    \* what may block for good

Workers == {"UDP", "ALARM", "STORAGE", "COMMAND"}

(* "host": it stops reading, and send() blocks; or it keeps the receiver   *)
(* in a read for ever.  "camera": it delivers no more frames.  "memory":   *)
(* Tcp_Init finds none.                                                    *)
ASSUME LifecycleAssumption ==
  /\ Thread \subseteq Workers \cup
       {"CAMERA", "TCP_SEND", "TCP_RECV", "DELIVER", "LOGGER"}
  /\ {"TCP_SEND", "TCP_RECV", "DELIVER"} \subseteq Thread
  /\ QueueCap \in Nat \ {0}
  /\ Trouble \subseteq {"host", "camera", "memory"}

VARIABLES
  running,
  stop,        \* stop_handler: which wakeup comes next, 0 before the signal
  pc,          \* of each thread
  work,        \* is_sending, is_updated, data_ready, cmd_pending; of the
               \* logger a full buffer or a command
  connected,
  g_shared_link_ptr,    \* has it been posted?
  queue        \* destinations of the messages in the queue

vars == <<running, stop, pc, work, connected, g_shared_link_ptr, queue>>

Destination == Thread \ {"CAMERA", "DELIVER", "TCP_RECV"}

TypeOK ==
  /\ running \in BOOLEAN
  /\ stop \in 0 .. 9
  /\ pc \in [Thread -> {"init", "link", "loop", "test", "wait", "work",
                        "connect", "send", "handle", "exit", "done", "stuck"}]
  /\ work \in [Destination -> BOOLEAN]
  /\ connected \in BOOLEAN
  /\ g_shared_link_ptr \in BOOLEAN
  /\ queue \in Seq(Destination) /\ Len(queue) <= QueueCap

(* The top of a thread's loop.  Where the test of running in its condition *)
(* is followed by the same test in front of the wait, only that is kept.   *)
Top(t) == IF t \in {"CAMERA", "DELIVER", "LOGGER"} THEN "loop" ELSE "test"

(* main has created the threads.                                           *)
Init ==
  /\ running = TRUE
  /\ stop = 0
  /\ pc = [t \in Thread |-> IF t = "TCP_SEND" THEN "init"
                            ELSE IF t = "TCP_RECV" THEN "link" ELSE Top(t)]
  /\ work = [t \in Destination |-> FALSE]
  /\ connected = FALSE
  /\ g_shared_link_ptr = FALSE
  /\ queue = <<>>

-----------------------------------------------------------------------------
(* Condition variables                                                     *)

(* link.cond is shared, the others are the threads' own.                   *)
CondOf(t) == IF t = "TCP_RECV" THEN "TCP_SEND" ELSE t

Waiting(c) == {t \in Thread : pc[t] = "wait" /\ CondOf(t) = c}

(* pc after everyone in W has been woken and thread t has gone to l.       *)
Moved(t, l, W) == [u \in Thread |-> IF u = t THEN l
                                    ELSE IF u \in W THEN "test" ELSE pc[u]]

(* pthread_cond_signal wakes one of those who wait, whoever that is.       *)
SignalWakes(c) == IF Waiting(c) = {} THEN {{}} ELSE {{w} : w \in Waiting(c)}

Goes(t, from, to) == pc[t] = from /\ pc' = [pc EXCEPT ![t] = to]

-----------------------------------------------------------------------------
(* The queue                                                               *)

HasRoomOffByOne == Len(queue) <= QueueCap   \* mutant

HasRoom == Len(queue) < QueueCap

(* Messages that make their receiver ready: frames, log entries, commands, *)
(* large data.  One that does not fit is dropped; those for modules outside*)
(* the instance are left out.                                              *)
Sends(t) ==
  CASE t = "CAMERA"   -> {"UDP", "STORAGE", "ALARM"}
    [] t = "ALARM"    -> {"LOGGER"}
    [] t = "STORAGE"  -> {"LOGGER"}
    [] t = "COMMAND"  -> {"TCP_SEND", "LOGGER"}
    [] t = "LOGGER"   -> {"TCP_SEND"}
    [] t = "TCP_RECV" -> {"COMMAND", "LOGGER"}
    [] OTHER          -> {}

(* msg_send by a thread at work wakes the delivery thread.                 *)
Send(t, d) ==
  /\ pc[t] = "work"
  /\ d \in Sends(t)
  /\ HasRoom
  /\ queue' = Append(queue, d)
  /\ \E W \in SignalWakes("DELIVER") : pc' = Moved(t, "work", W)
  /\ UNCHANGED <<running, stop, work, connected, g_shared_link_ptr>>

-----------------------------------------------------------------------------
(* Every thread                                                            *)

same == <<running, stop, connected, g_shared_link_ptr, queue>>

(* while (running)                                                         *)
LoopCheck(t) ==
  /\ Goes(t, "loop", IF ~running THEN "exit"
                     ELSE IF t = "CAMERA" THEN "work" ELSE "test")
  /\ UNCHANGED <<work, same>>

(* What a thread waits for.                                                *)
Ready(t) == CASE t = "DELIVER"  -> queue # <<>>
              [] t = "TCP_RECV" -> connected
              [] OTHER          -> work[t]

Idles(t) ==
  /\ pc[t] = "test"
  /\ running /\ ~Ready(t)
  /\ Goes(t, "test", "wait")
  /\ UNCHANGED <<work, same>>

(* if (!running) break; not in the logger and the delivery thread.         *)
LeavesLoop(t) ==
  /\ t \notin {"DELIVER", "LOGGER"}
  /\ ~running
  /\ Goes(t, "test", "exit")
  /\ UNCHANGED <<work, same>>

(* Workers and logger.  The logger saves before it looks at running again. *)
(* is_sending is cleared when the data has been sent, the other flags here.*)
TakesWork(t) ==
  /\ t \in Workers \cup {"LOGGER"}
  /\ IF running THEN Ready(t) ELSE t = "LOGGER"
  /\ Goes(t, "test", "work")
  /\ work' = IF t = "UDP" THEN work ELSE [work EXCEPT ![t] = FALSE]
  /\ UNCHANGED same

FinishesWork(t) ==
  /\ t \in Workers \cup {"LOGGER"}
  /\ Goes(t, "work", Top(t))
  /\ work' = IF t = "UDP" THEN [work EXCEPT ![t] = FALSE] ELSE work
  /\ UNCHANGED same

(* A timed wait ends by itself, any wait may.                              *)
WaitEnds(t) ==
  /\ Goes(t, "wait", "test")
  /\ UNCHANGED <<work, same>>

(* Deinitialisation, msg_cleanup in the delivery thread.                   *)
Exits(t) ==
  /\ Goes(t, "exit", "done")
  /\ queue' = IF t = "DELIVER" THEN <<>> ELSE queue
  /\ UNCHANGED <<running, stop, work, connected, g_shared_link_ptr>>

(* The camera has delivered a frame, and it has been sent.                 *)
CameraTurns ==
  /\ Goes("CAMERA", "work", "loop")
  /\ UNCHANGED <<work, same>>

-----------------------------------------------------------------------------
(* msg_deliver_thread                                                      *)

(* msg_receive: -1 once stopped, after what is queued ...                  *)
ReceivesNothing ==
  /\ ~running /\ queue = <<>>
  /\ Goes("DELIVER", "test", "loop")
  /\ UNCHANGED <<work, same>>

Receives ==
  /\ queue # <<>>
  /\ Goes("DELIVER", "test", "handle")
  /\ UNCHANGED <<work, same>>

(* ... and the handler makes its thread ready, and signals it.  UDP,       *)
(* STORAGE and TCP_SEND are not signalled while they have work to do.  The *)
(* logger is ready with 30 entries or a command, but is signalled only for *)
(* a command or when the entries are more than 30.                         *)
Told(d) == IF d \in {"UDP", "STORAGE", "TCP_SEND"} /\ work[d] THEN {{}}
           ELSE IF d = "LOGGER" THEN SignalWakes(d) \cup {{}}
           ELSE SignalWakes(d)

Handles ==
  /\ pc["DELIVER"] = "handle"
  /\ queue' = Tail(queue)
  /\ \/ /\ work' = [work EXCEPT ![Head(queue)] = TRUE]
        /\ \E W \in Told(Head(queue)) : pc' = Moved("DELIVER", "loop", W)
     \/ /\ Head(queue) = "LOGGER"        \* an entry, not yet the 30th
        /\ pc' = Moved("DELIVER", "loop", {})
        /\ UNCHANGED work
  /\ UNCHANGED <<running, stop, connected, g_shared_link_ptr>>

-----------------------------------------------------------------------------
(* tcp_send_thread                                                         *)

(* Tcp_Init, with or without a connection, and Tcp_Shared_Post_Link; or the*)
(* thread ends here.                                                       *)
InitSender ==
  /\ \/ /\ Goes("TCP_SEND", "init", "test")
        /\ connected' \in BOOLEAN
        /\ g_shared_link_ptr' = TRUE
     \/ /\ "memory" \in Trouble
        /\ Goes("TCP_SEND", "init", "done")
        /\ UNCHANGED <<connected, g_shared_link_ptr>>
  /\ UNCHANGED <<running, stop, work, queue>>

(* Data to send.                                                           *)
SenderTakes ==
  /\ running /\ work["TCP_SEND"]
  /\ Goes("TCP_SEND", "test", IF connected THEN "send" ELSE "connect")
  /\ UNCHANGED <<work, same>>

(* Five seconds without data and without a connection.                     *)
SenderTimesOut ==
  /\ running /\ ~connected
  /\ Goes("TCP_SEND", "wait", "connect")
  /\ UNCHANGED <<work, same>>

(* Mutant: nobody is told of the new connection.                           *)
ConnectedTellsNobody == {}

(* pthread_cond_broadcast.                                                 *)
ConnectedTells == Waiting("TCP_SEND")

(* Tcp_Open_And_Connect gives up after 50 ms, or succeeds and tells all.   *)
(* Tcp_Send_Frame sends nothing once the program is stopped.               *)
SenderConnects ==
  /\ pc["TCP_SEND"] = "connect"
  /\ \/ /\ connected' = TRUE
        /\ pc' = Moved("TCP_SEND", IF work["TCP_SEND"] /\ running
                                     THEN "send" ELSE "test",
                       ConnectedTells)
     \/ /\ pc' = Moved("TCP_SEND", "test", {})
        /\ UNCHANGED connected
  /\ UNCHANGED <<running, stop, work, g_shared_link_ptr, queue>>

(* Tcp_Send_Frame returns, is_sending = false.                             *)
SenderSends ==
  /\ Goes("TCP_SEND", "send", "test")
  /\ connected' \in {connected, FALSE}
  /\ work' = [work EXCEPT !["TCP_SEND"] = FALSE]
  /\ UNCHANGED <<running, stop, g_shared_link_ptr, queue>>

-----------------------------------------------------------------------------
(* tcp_recv_thread                                                         *)

(* Tcp_Shared_Wait_Link does not look at running.                          *)
WaitLink ==
  /\ g_shared_link_ptr
  /\ Goes("TCP_RECV", "link", "test")
  /\ UNCHANGED <<work, same>>

ReceiverTakes ==
  /\ running /\ connected
  /\ Goes("TCP_RECV", "test", "work")
  /\ UNCHANGED <<work, same>>

(* A read ends with bytes, with the connection or after half a second, a   *)
(* wait for a command after two; then the receiver looks at running.  It   *)
(* closes the connection, unless the sender has opened another one (module *)
(* TcpLink).  The reads that need not end are in BlocksForGood.            *)
ReceiverCloses ==
  /\ Goes("TCP_RECV", "work", "test")
  /\ connected' \in {connected, FALSE}
  /\ UNCHANGED <<running, stop, work, g_shared_link_ptr, queue>>

-----------------------------------------------------------------------------
(* stop_handler                                                            *)

(* Mutant: the logger is forgotten.                                        *)
WakeupsOneShort ==
  <<"DELIVER", "UDP", "TCP_SEND", "TCP_RECV", "ALARM", "STORAGE", "COMMAND">>

(* Whom it wakes, in this order.  Nobody waits for what a thread outside   *)
(* the instance would be woken by.                                         *)
Wakeups ==
  <<"DELIVER", "UDP", "TCP_SEND", "TCP_RECV", "ALARM", "STORAGE", "LOGGER",
    "COMMAND">>

SIGINT ==
  /\ stop = 0
  /\ running' = FALSE
  /\ stop' = 1
  /\ UNCHANGED <<pc, work, connected, g_shared_link_ptr, queue>>

(* One wakeup; tcp_recv_thread_wakeup only if the receiver has the link.   *)
Wakeup ==
  /\ stop \in 1 .. Len(Wakeups)
  /\ stop' = stop + 1
  /\ IF Wakeups[stop] = "TCP_RECV" /\ pc["TCP_RECV"] = "link"
       THEN UNCHANGED pc
       ELSE \E W \in SignalWakes(CondOf(Wakeups[stop])) : pc' = Moved("main", "", W)
  /\ UNCHANGED <<running, work, connected, g_shared_link_ptr, queue>>

(* The host stops reading, and send() has no time limit.  Or the receiver  *)
(* is kept reading: the search for a header never looks at running while   *)
(* the host sends other bytes, and a socket that the sender opened under   *)
(* the number of the last one has no time limit, because the receiver set  *)
(* that before.  Or the driver has no more frames.                         *)
BlocksForGood ==
  /\ \/ "host" \in Trouble /\ Goes("TCP_SEND", "send", "stuck")
     \/ "host" \in Trouble /\ Goes("TCP_RECV", "work", "stuck")
     \/ "camera" \in Trouble /\ Goes("CAMERA", "work", "stuck")
  /\ UNCHANGED <<work, same>>

(* A thread that is in a call that never returns, or waits for the link of *)
(* a sender that has failed.                                               *)
Stuck(t) ==
  \/ pc[t] = "stuck"
  \/ t = "TCP_RECV" /\ pc[t] = "link" /\ ~g_shared_link_ptr

(* main has joined all threads, or joins one that is stuck.                *)
Ended ==
  /\ \A t \in Thread : pc[t] = "done" \/ Stuck(t)
  /\ stop > Len(Wakeups)
  /\ UNCHANGED vars

-----------------------------------------------------------------------------

Step(t) ==
  \/ LoopCheck(t) \/ Idles(t) \/ LeavesLoop(t)
  \/ TakesWork(t) \/ FinishesWork(t) \/ Exits(t)
  \/ t = "CAMERA" /\ CameraTurns
  \/ t = "DELIVER" /\ (ReceivesNothing \/ Receives \/ Handles)
  \/ t = "TCP_SEND" /\ (InitSender \/ SenderTakes \/ SenderConnects
                        \/ SenderSends)
  \/ t = "TCP_RECV" /\ (WaitLink \/ ReceiverTakes \/ ReceiverCloses)

Next ==
  \/ \E t \in Thread : Step(t) \/ WaitEnds(t)
  \/ \E t \in Thread, d \in Destination : Send(t, d)
  \/ SenderTimesOut
  \/ SIGINT \/ Wakeup \/ BlocksForGood \/ Ended

Spec == Init /\ [][Next]_vars

(* The threads are scheduled, calls that do not block for good return, and *)
(* stop_handler finishes.  Nothing is assumed of timed waits, of the host, *)
(* or of the signal.                                                       *)
Fairness == (\A t \in Thread : WF_vars(Step(t))) /\ WF_vars(Wakeup)

FairSpec == Spec /\ Fairness

-----------------------------------------------------------------------------
(* Properties                                                              *)

(* stop_handler wakes everybody: when it has returned no thread is in a    *)
(* wait that only another thread could end, though sender and receiver     *)
(* share a condition variable, each of their two wakeups wakes either, and *)
(* the receiver's is left out while it has no link.                        *)
NobodyLeftAsleep == stop > Len(Wakeups) => \A t \in Thread : pc[t] # "wait"

(* A thread does not sleep over its work.  Only two may, whose waits have  *)
(* a time limit: the logger, which is not signalled for the 30th entry,    *)
(* and the sender, because a signal meant for it can wake the receiver;    *)
(* but then there is no connection, and it will connect and send.          *)
NobodyOversleeps ==
  \A t \in Thread :
    pc[t] = "wait" /\ Ready(t) => t = "LOGGER" \/ (t = "TCP_SEND" /\ ~connected)

(* A thread sleeps only while it has nothing to do and will still be woken.*)
SleepIsSafe == NobodyLeftAsleep /\ NobodyOversleeps

(* After SIGINT every thread ends, whatever it was doing or waiting for and*)
(* whoever got the signals of the shared condition variable; a thread that *)
(* is stuck keeps no other one.                                            *)
EveryThreadEnds == ~running ~> \A t \in Thread : pc[t] = "done" \/ Stuck(t)

(* main.c:24: it is enough to clear running and to wake all threads.       *)
StopEndsAll == ~running ~> \A t \in Thread : pc[t] = "done"
=============================================================================
