---------------------------- MODULE CommandFlow ----------------------------
(***************************************************************************)
(* A command of the host on its way through the board program:             *)
(*   src/src/net/tcp_recv.c        parses it and sends it on, one at a time*)
(*   src/src/msg/msg_deliver.c     carries a pointer to it (MsgDeliver)    *)
(*   src/src/command/command_get.c takes it into its one slot and runs it. *)
(*                                                                         *)
(* The receiver owns one parsed tree, json_root, and one command, cmd_msg; *)
(* the message in the queue points to that cmd_msg.  cmd_msg_received holds*)
(* the receiver back until its release handler has run, for two seconds at *)
(* most.  cmd_lock protects the flag, but the receiver reads, replaces and *)
(* frees json_root without it.                                             *)
(*                                                                         *)
(* A tree is named after the command it was parsed from.  The program runs *)
(* throughout; messages of other modules only take room in the queue.      *)
(***************************************************************************)
EXTENDS Naturals, Sequences

CONSTANTS Cmd,          \* commands the host sends, each once
          Kind,         \* what cmd_deliver makes of each of them
          NoCmd,
          Other,        \* a message of another module
          QueueCap,
          SlowExchange  \* may a message wait in the queue for two seconds?

(* "command": control or query for MODULE_ID_COMMAND; "elsewhere": for a   *)
(* module that only looks at the message; "reserved": types 2 and above;   *)
(* "bad": wrong version, field missing, no such module; "empty": a frame   *)
(* without data; "large": MAX_FRAME_DATA_LEN bytes; "huge": more of them;  *)
(* "broken": a frame whose header fails its check.                         *)
ASSUME FlowAssumption ==
  /\ Kind \in [Cmd -> {"command", "elsewhere", "reserved", "bad",
                       "empty", "large", "huge", "broken"}]
  /\ NoCmd \notin Cmd /\ Other \notin Cmd /\ Other # NoCmd
  /\ QueueCap \in Nat \ {0}
  /\ SlowExchange \in BOOLEAN

VARIABLES
  wire,             \* commands not received yet
  json_root,
  tree,             \* the trees: "none", "live" or "freed"
  cmd_msg,
  cmd_msg_received,
  cmd_lock,         \* held by the delivery thread?
  rx,               \* tcp_recv_thread
  rx_cmd,           \* the command in recv_buffer
  queue,
  dlv,              \* msg_deliver_thread
  hand,             \* the command its message was sent for
  slot,             \* cmd_data.cmd_msg
  cmd_pending,
  cpt,              \* command_process_thread
  local_cmd,
  skipped,          \* ghost: frames read and thrown away in search of a header
  executed,         \* ghost: how often command_dispatch has run a command
  error             \* ghost: undefined behaviour the process has met

vars == <<wire, json_root, tree, cmd_msg, cmd_msg_received, cmd_lock, rx,
          rx_cmd, queue, dlv, hand, slot, cmd_pending, cpt, local_cmd,
          skipped, executed, error>>

MaybeCmd == Cmd \cup {NoCmd}

TypeOK ==
  /\ wire \subseteq Cmd
  /\ json_root \in MaybeCmd
  /\ tree \in [Cmd -> {"none", "live", "freed"}]
  /\ cmd_msg \in MaybeCmd
  /\ cmd_msg_received \in BOOLEAN
  /\ cmd_lock \in BOOLEAN
  /\ rx \in {"wait", "expired", "forget", "clear", "read", "search", "parse",
             "send", "full", "mark"}
  /\ rx_cmd \in MaybeCmd
  /\ queue \in Seq(Cmd \cup {Other}) /\ Len(queue) <= QueueCap
  /\ dlv \in {"receive", "handle", "release", "unlock"}
  /\ hand \in MaybeCmd \cup {Other}
  /\ slot \in MaybeCmd
  /\ cmd_pending \in BOOLEAN
  /\ cpt \in {"wait", "run"}
  /\ local_cmd \in MaybeCmd
  /\ skipped \subseteq Cmd
  /\ executed \in [Cmd -> Nat]
  /\ error \in {"none", "double free", "use after free"}

(* Tcp_Recv_Init and command_data_init have run, the link is up.           *)
Init ==
  /\ wire = Cmd
  /\ json_root = NoCmd
  /\ tree = [c \in Cmd |-> "none"]
  /\ cmd_msg = NoCmd
  /\ cmd_msg_received = FALSE
  /\ cmd_lock = FALSE
  /\ rx = "wait"
  /\ rx_cmd = NoCmd
  /\ queue = <<>>
  /\ dlv = "receive"
  /\ hand = NoCmd
  /\ slot = NoCmd
  /\ cmd_pending = FALSE
  /\ cpt = "wait"
  /\ local_cmd = NoCmd
  /\ skipped = {}
  /\ executed = [c \in Cmd |-> 0]
  /\ error = "none"

-----------------------------------------------------------------------------
(* tcp_recv_thread                                                         *)

deliverVars == <<dlv, hand>>
commandVars == <<slot, cmd_pending, cpt, local_cmd, skipped, executed>>

HasRoomOffByOne == Len(queue) <= QueueCap   \* mutant

HasRoom == Len(queue) < QueueCap

(* cJSON_Delete(json_root); of NULL it does nothing.                       *)
DeleteTree ==
  IF json_root = NoCmd
    THEN UNCHANGED <<tree, error>>
    ELSE /\ tree' = [tree EXCEPT ![json_root] = "freed"]
         /\ error' = IF tree[json_root] = "freed" THEN "double free" ELSE error

(* Mutant: no flow control.                                                *)
CmdReadyAlways ==
  /\ rx = "wait"
  /\ ~cmd_lock
  /\ rx' = "read"
  /\ UNCHANGED <<wire, json_root, tree, cmd_msg, cmd_msg_received, cmd_lock,
                 rx_cmd, queue, deliverVars, commandVars, error>>

(* tcp_recv_wait_cmd_ready: the last command has been processed ...        *)
CmdReady ==
  /\ rx = "wait"
  /\ ~cmd_lock
  /\ ~cmd_msg_received
  /\ rx' = "read"
  /\ UNCHANGED <<wire, json_root, tree, cmd_msg, cmd_msg_received, cmd_lock,
                 rx_cmd, queue, deliverVars, commandVars, error>>

(* Is a message of this module still queued or being handled?              *)
Outstanding == \/ \E i \in 1 .. Len(queue) : queue[i] # Other
               \/ hand \in Cmd

CmdTimeoutNever == FALSE   \* mutant: the wait has no limit

(* ... or two seconds have passed: the flag is cleared, the lock released. *)
CmdTimeout ==
  /\ rx = "wait"
  /\ ~cmd_lock
  /\ cmd_msg_received
  /\ SlowExchange \/ ~Outstanding
  /\ cmd_msg_received' = FALSE
  /\ rx' = "expired"
  /\ UNCHANGED <<wire, json_root, tree, cmd_msg, cmd_lock, rx_cmd, queue,
                 deliverVars, commandVars, error>>

(* Without the lock: if (json_root != NULL) ...                            *)
ExpiredTest ==
  /\ rx = "expired"
  /\ rx' = IF json_root = NoCmd THEN "read" ELSE "forget"
  /\ UNCHANGED <<wire, json_root, tree, cmd_msg, cmd_msg_received, cmd_lock,
                 rx_cmd, queue, deliverVars, commandVars, error>>

(* ... cJSON_Delete(json_root) ...                                         *)
ExpiredDelete ==
  /\ rx = "forget"
  /\ DeleteTree
  /\ rx' = "clear"
  /\ UNCHANGED <<wire, json_root, cmd_msg, cmd_msg_received, cmd_lock, rx_cmd,
                 queue, deliverVars, commandVars>>

(* ... json_root = NULL.                                                   *)
ExpiredClear ==
  /\ rx = "clear"
  /\ json_root' = NoCmd
  /\ rx' = "read"
  /\ UNCHANGED <<wire, tree, cmd_msg, cmd_msg_received, cmd_lock, rx_cmd,
                 queue, deliverVars, commandVars, error>>

(* cmd_deliver parses the data of a frame into json_root.                  *)
Parse(c) ==
  /\ rx_cmd' = c
  /\ json_root' = c
  /\ tree' = [tree EXCEPT ![c] = "live"]
  /\ rx' = "parse"

HasCommand(c) == Kind[c] \in {"command", "elsewhere", "reserved", "bad"}

ReceiveCmd(c) ==
  /\ rx = "read"
  /\ c \in wire /\ HasCommand(c)
  /\ wire' = wire \ {c}
  /\ Parse(c)
  /\ UNCHANGED <<cmd_msg, cmd_msg_received, cmd_lock, queue, deliverVars,
                 commandVars, error>>

(* Nothing to read, data read and thrown away, or too much of it: then the *)
(* connection is given up and opened again, see TcpLink.                   *)
SkipFrame(c) ==
  /\ rx = "read"
  /\ c \in wire /\ Kind[c] \in {"empty", "large", "huge"}
  /\ wire' = wire \ {c}
  /\ rx' = "wait"
  /\ UNCHANGED <<json_root, tree, cmd_msg, cmd_msg_received, cmd_lock, rx_cmd,
                 queue, deliverVars, commandVars, error>>

(* tcp_search_frame_header takes over.                                     *)
BadHeader(c) ==
  /\ rx = "read"
  /\ c \in wire /\ Kind[c] = "broken"
  /\ wire' = wire \ {c}
  /\ rx' = "search"
  /\ UNCHANGED <<json_root, tree, cmd_msg, cmd_msg_received, cmd_lock, rx_cmd,
                 queue, deliverVars, commandVars, error>>

(* The magic number as it is sent, low byte first (net_shared.h of the     *)
(* host), and as try_match_header_at looks for it.                         *)
magic     == 43981     \* 0xABCD
OnTheWire == <<magic % 256, magic \div 256>>
Searched  == <<171, 205>>    \* 0xAB, 0xCD

(* The search reads on; a frame it does not recognise is lost.             *)
SearchFrame(c) ==
  /\ rx = "search"
  /\ c \in wire
  /\ wire' = wire \ {c}
  /\ IF OnTheWire = Searched /\ HasCommand(c)
       THEN Parse(c) /\ UNCHANGED skipped
       ELSE /\ skipped' = skipped \cup {c}
            /\ UNCHANGED <<rx, rx_cmd, json_root, tree>>
  /\ UNCHANGED <<cmd_msg, cmd_msg_received, cmd_lock, queue, deliverVars, slot,
                 cmd_pending, cpt, local_cmd, executed, error>>

(* The connection breaks under the search; there will be another one.      *)
SearchFails ==
  /\ rx = "search"
  /\ rx' = "wait"
  /\ UNCHANGED <<wire, json_root, tree, cmd_msg, cmd_msg_received, cmd_lock,
                 rx_cmd, queue, deliverVars, commandVars, error>>

(* The version check and json_parse_command read json_root and fill cmd_msg*)
(* in, a bad command's perhaps too.  A tree that has gone meanwhile has no *)
(* version: it is dropped like a bad command, before cmd_msg is touched.   *)
ParseCmd ==
  /\ rx = "parse"
  /\ IF json_root = NoCmd
       THEN rx' = "wait" /\ UNCHANGED <<json_root, tree, cmd_msg, error>>
     ELSE IF tree[json_root] = "freed"
       THEN error' = "use after free" /\ UNCHANGED <<rx, json_root, tree, cmd_msg>>
     ELSE IF Kind[rx_cmd] = "bad"
       THEN /\ DeleteTree
            /\ json_root' = NoCmd
            /\ cmd_msg' \in {cmd_msg, rx_cmd}
            /\ rx' = "wait"
       ELSE /\ cmd_msg' = rx_cmd
            /\ rx' = "send"
            /\ UNCHANGED <<json_root, tree, error>>
  /\ UNCHANGED <<wire, cmd_msg_received, cmd_lock, rx_cmd, queue, deliverVars,
                 commandVars>>

IsSent == Kind[rx_cmd] \in {"command", "elsewhere"}

(* Types 0 and 1: msg_dispatch to the module named in the command.         *)
SendCmd ==
  /\ rx = "send"
  /\ IsSent
  /\ HasRoom
  /\ queue' = Append(queue, rx_cmd)
  /\ rx' = "mark"
  /\ UNCHANGED <<wire, json_root, tree, cmd_msg, cmd_msg_received, cmd_lock,
                 rx_cmd, deliverVars, commandVars, error>>

SendCmdFull ==
  /\ rx = "send"
  /\ IsSent
  /\ ~HasRoom
  /\ rx' = "full"
  /\ UNCHANGED <<wire, json_root, tree, cmd_msg, cmd_msg_received, cmd_lock,
                 rx_cmd, queue, deliverVars, commandVars, error>>

(* Mutant: json_root is not cleared.                                       *)
RefusedProcessedDangling ==
  /\ rx = "full"
  /\ ~cmd_lock
  /\ DeleteTree
  /\ cmd_msg_received' = FALSE
  /\ rx' = "mark"
  /\ UNCHANGED <<wire, json_root, cmd_msg, cmd_lock, rx_cmd, queue,
                 deliverVars, commandVars>>

(* The release handler called by msg_send for a message that does not fit. *)
RefusedProcessed ==
  /\ rx = "full"
  /\ ~cmd_lock
  /\ DeleteTree
  /\ json_root' = NoCmd
  /\ cmd_msg_received' = FALSE
  /\ rx' = "mark"
  /\ UNCHANGED <<wire, cmd_msg, cmd_lock, rx_cmd, queue, deliverVars,
                 commandVars>>

(* Mutant: the tree is forgotten, not freed.                               *)
DropReservedLeak ==
  /\ rx = "send"
  /\ ~IsSent
  /\ json_root' = NoCmd
  /\ rx' = "mark"
  /\ UNCHANGED <<wire, tree, cmd_msg, cmd_msg_received, cmd_lock, rx_cmd,
                 queue, deliverVars, commandVars, error>>

(* Types 2 and above are dropped here, and marked as sent all the same.    *)
DropReserved ==
  /\ rx = "send"
  /\ ~IsSent
  /\ DeleteTree
  /\ json_root' = NoCmd
  /\ rx' = "mark"
  /\ UNCHANGED <<wire, cmd_msg, cmd_msg_received, cmd_lock, rx_cmd, queue,
                 deliverVars, commandVars>>

(* tcp_recv_mark_cmd_sent, after the message has gone.                     *)
MarkSent ==
  /\ rx = "mark"
  /\ ~cmd_lock
  /\ cmd_msg_received' = TRUE
  /\ rx' = "wait"
  /\ UNCHANGED <<wire, json_root, tree, cmd_msg, cmd_lock, rx_cmd, queue,
                 deliverVars, commandVars, error>>

-----------------------------------------------------------------------------
(* The delivery thread                                                     *)

receiverVars == <<wire, rx, rx_cmd, cmd_msg>>

TakeMessage ==
  /\ dlv = "receive"
  /\ queue # <<>>
  /\ hand' = Head(queue)
  /\ queue' = Tail(queue)
  /\ dlv' = "handle"
  /\ UNCHANGED <<receiverVars, json_root, tree, cmd_msg_received, cmd_lock,
                 commandVars, error>>

(* command_msg_handler copies what the pointer shows NOW into its slot,    *)
(* whether the slot is free or not.                                        *)
HandleMessage ==
  /\ dlv = "handle"
  /\ IF hand \in Cmd /\ Kind[hand] = "command"
       THEN slot' = cmd_msg /\ cmd_pending' = TRUE
       ELSE UNCHANGED <<slot, cmd_pending>>
  /\ IF hand = Other THEN dlv' = "receive" /\ hand' = NoCmd
                     ELSE dlv' = "release" /\ UNCHANGED hand
  /\ UNCHANGED <<receiverVars, json_root, tree, cmd_msg_received, cmd_lock,
                 queue, cpt, local_cmd, skipped, executed, error>>

(* tcp_recv_cmd_processed, under cmd_lock: free whatever tree is there ... *)
ReleaseDelete ==
  /\ dlv = "release"
  /\ ~cmd_lock
  /\ cmd_lock' = TRUE
  /\ DeleteTree
  /\ dlv' = "unlock"
  /\ UNCHANGED <<receiverVars, json_root, cmd_msg_received, queue, hand,
                 commandVars>>

(* ... forget it, clear the flag, signal.                                  *)
ReleaseClear ==
  /\ dlv = "unlock"
  /\ json_root' = NoCmd
  /\ cmd_msg_received' = FALSE
  /\ cmd_lock' = FALSE
  /\ dlv' = "receive"
  /\ hand' = NoCmd
  /\ UNCHANGED <<receiverVars, tree, queue, commandVars, error>>

OtherSends ==
  /\ HasRoom
  /\ queue' = Append(queue, Other)
  /\ UNCHANGED <<receiverVars, json_root, tree, cmd_msg_received, cmd_lock,
                 deliverVars, commandVars, error>>

-----------------------------------------------------------------------------
(* command_process_thread                                                  *)

(* Mutant: cmd_pending stays.                                              *)
TakeCommandAgain ==
  /\ cpt = "wait"
  /\ cmd_pending
  /\ local_cmd' = slot
  /\ cpt' = "run"
  /\ UNCHANGED <<receiverVars, json_root, tree, cmd_msg_received, cmd_lock,
                 queue, deliverVars, slot, cmd_pending, skipped, executed,
                 error>>

TakeCommand ==
  /\ cpt = "wait"
  /\ cmd_pending
  /\ local_cmd' = slot
  /\ cmd_pending' = FALSE
  /\ cpt' = "run"
  /\ UNCHANGED <<receiverVars, json_root, tree, cmd_msg_received, cmd_lock,
                 queue, deliverVars, slot, skipped, executed, error>>

(* command_dispatch; file_query.c answers over TCP (module TcpLink).       *)
CommandDispatch ==
  /\ cpt = "run"
  /\ executed' = [executed EXCEPT ![local_cmd] = @ + 1]
  /\ cpt' = "wait"
  /\ UNCHANGED <<receiverVars, json_root, tree, cmd_msg_received, cmd_lock,
                 queue, deliverVars, slot, cmd_pending, local_cmd, skipped,
                 error>>

ReceiverStep ==
  \/ CmdReady \/ CmdTimeout \/ ExpiredTest \/ ExpiredDelete \/ ExpiredClear
  \/ ParseCmd \/ SendCmd \/ SendCmdFull \/ RefusedProcessed \/ DropReserved
  \/ MarkSent

DeliverStep == TakeMessage \/ HandleMessage \/ ReleaseDelete \/ ReleaseClear

CommandStep == TakeCommand \/ CommandDispatch

Step ==
  \/ ReceiverStep \/ DeliverStep \/ CommandStep
  \/ \E c \in Cmd :
       ReceiveCmd(c) \/ SkipFrame(c) \/ BadHeader(c) \/ SearchFrame(c)
  \/ SearchFails
  \/ OtherSends

(* Undefined behaviour ends the behaviour.                                 *)
Next == error = "none" /\ Step

Spec == Init /\ [][Next]_vars

(* The three threads are scheduled.  cmd_lock is held for one step at a    *)
(* time, hence strong fairness for those who wait for it.                  *)
Fairness ==
  /\ SF_vars(error = "none" /\ ReceiverStep)
  /\ SF_vars(error = "none" /\ DeliverStep)
  /\ WF_vars(error = "none" /\ CommandStep)

FairSpec == Spec /\ Fairness

-----------------------------------------------------------------------------
(* Properties                                                              *)

(* A tree is freed once, and not read after that, by two threads that do   *)
(* not agree on a lock.                                                    *)
NoTreeMisuse == error = "none"

(* A tree that has not been freed is still reachable, none is leaked.      *)
NoTreeLeak == \A c \in Cmd : tree[c] = "live" => json_root = c

(* The command a handler reads is the one its message was sent for: the    *)
(* receiver has not parsed the next one over it.                           *)
DeliveredAsSent == dlv = "handle" /\ hand \in Cmd => cmd_msg = hand

(* No command is run twice.                                                *)
ExecutedOnce == \A c \in Cmd : executed[c] <= 1

(* After a broken header, "滑动窗口搜索帧头": the search finds the header of *)
(* the next good frame.                                                    *)
SearchFindsHeader == \A c \in skipped : ~HasCommand(c)

(* tcp_recv.c:385, "流控：等待上一个指令被处理完": a command is only handed  *)
(* to the command module when the last one has been taken out of the slot. *)
LastIsProcessed ==
  dlv = "handle" /\ hand \in Cmd /\ Kind[hand] = "command" => ~cmd_pending

(* Whatever becomes of a command, the receiver goes on to read the next.   *)
ReceiverGoesOn == rx = "wait" ~> (rx = "read" \/ error # "none")
=============================================================================
