---------------------------- MODULE V4l2Capture ----------------------------
(***************************************************************************)
(* The capture module, src/src/v4l2/v4l2_dev.c, with the delivery thread   *)
(* that hands its frames to the UDP, storage and alarm modules.            *)
(*                                                                         *)
(* The camera thread copies each frame into one of two buffers and lends   *)
(* the buffer to up to three receivers at once; a counter per buffer says  *)
(* how many loans are out.  Reset_Image_Taken_Flag decrements it under the *)
(* lock, Change_Image_Taken_Flag increments it without, so both are a load *)
(* and a store here.  A memcpy, of the camera into a buffer or of a handler*)
(* out of it, lasts from one step to another.                              *)
(*                                                                         *)
(* The message queue is a bounded FIFO (module MsgDeliver); the messages of*)
(* other modules only take room in it.  Image_Taken_flag is not modelled:  *)
(* it is written with the counter and read nowhere.                        *)
(*                                                                         *)
(* raced is a history variable: it only says what the properties have to   *)
(* tell apart, whether an increment has ever met a decrement.              *)
(***************************************************************************)
EXTENDS Naturals, Sequences, FiniteSets

CONSTANTS BufCount,   \* V4L2_BUF_COUNT
          QueueCap    \* entries of the message queue

ASSUME CaptureAssumption ==
  /\ BufCount \in Nat \ {0}
  /\ QueueCap \in Nat \ {0}

VARIABLES
  counter,      \* taken_flag[b].counter
  write_index,
  latest_index,
  lock,         \* who holds v4l2_data_buffer.lock
  queue,        \* buffers lent, in order, and messages of other modules
  cam,          \* camera_capture_thread
  at,           \* its place in Program
  dlv,          \* msg_deliver_thread
  hand,         \* the message it handles
  reg,          \* a loaded counter, per thread
  running,
  raced         \* have both threads been changing one counter at a time?

vars == <<counter, write_index, latest_index, lock, queue, cam, at, dlv, hand,
          reg, running, raced>>

Buf     == 0 .. BufCount - 1
Other   == BufCount       \* a message of another module
Nothing == BufCount + 1   \* no message, no index (-1 in the code)
Threads == {"camera", "deliver"}

(* What the camera thread does with a frame it publishes: it counts a loan *)
(* ("inc"), sends, and once a second counts and sends a third loan.        *)
Program == <<"inc", "inc", "UDP", "STORAGE", "clock", "inc", "ALARM">>
Send    == {"UDP", "STORAGE", "ALARM"}

TypeOK ==
  /\ counter \in [Buf -> Nat]
  /\ write_index \in Buf
  /\ latest_index \in Buf \cup {Nothing}
  /\ lock \in Threads \cup {"free"}
  /\ queue \in Seq(Buf \cup {Other}) /\ Len(queue) <= QueueCap
  /\ cam \in {"loop", "copying", "check", "program", "store", "refused",
              "reset", "done"}
  /\ at \in 1 .. Len(Program)
  /\ dlv \in {"loop", "receive", "handling", "release", "reset", "done"}
  /\ hand \in Buf \cup {Other, Nothing}
  /\ reg \in [Threads -> Nat]
  /\ running \in BOOLEAN
  /\ raced \in BOOLEAN

(* v4l2_data_buffer_init *)
Init ==
  /\ counter = [b \in Buf |-> 0]
  /\ write_index = 0
  /\ latest_index = Nothing
  /\ lock = "free"
  /\ queue = <<>>
  /\ cam = "loop"
  /\ at = 1
  /\ dlv = "loop"
  /\ hand = Nothing
  /\ reg = [t \in Threads |-> 0]
  /\ running = TRUE
  /\ raced = FALSE

-----------------------------------------------------------------------------
(* Reset_Image_Taken_Flag: a decrement under the lock                      *)

ResetLoad(t, b) ==
  /\ lock = "free"
  /\ lock' = t
  /\ reg' = [reg EXCEPT ![t] = counter[b]]

(* Mutant: the unlock is missing.                                          *)
ResetStoreLocked(t, b) ==
  /\ counter' = IF reg[t] > 0 THEN [counter EXCEPT ![b] = reg[t] - 1]
                              ELSE counter
  /\ UNCHANGED lock

ResetStore(t, b) ==
  /\ counter' = IF reg[t] > 0 THEN [counter EXCEPT ![b] = reg[t] - 1]
                              ELSE counter
  /\ lock' = "free"

-----------------------------------------------------------------------------
(* camera_capture_thread                                                   *)

deliverVars == <<dlv, hand>>
indexVars   == <<write_index, latest_index>>

(* while (running), VIDIOC_DQBUF, and memcpy into the buffer begins: the   *)
(* counter has not been looked at yet.                                     *)
CaptureFrame ==
  /\ cam = "loop"
  /\ running
  /\ cam' = "copying"
  /\ UNCHANGED <<counter, indexVars, lock, queue, at, deliverVars, reg,
                 running, raced>>

FrameCopied ==
  /\ cam = "copying"
  /\ cam' = "check"
  /\ UNCHANGED <<counter, indexVars, lock, queue, at, deliverVars, reg,
                 running, raced>>

(* Mutant: the index does not come round.                                  *)
NextIndexStraight == write_index + 1

NextIndex == (write_index + 1) % BufCount

(* Under the lock: publish the buffer if no loan of it is out ...          *)
Publish ==
  /\ cam = "check"
  /\ lock = "free"
  /\ counter[write_index] = 0
  /\ latest_index' = write_index
  /\ write_index' = NextIndex
  /\ cam' = "program"
  /\ at' = 1
  /\ UNCHANGED <<counter, lock, queue, deliverVars, reg, running, raced>>

(* ... or drop the frame: write_index stays, VIDIOC_QBUF, next frame.      *)
DropFrame ==
  /\ cam = "check"
  /\ lock = "free"
  /\ counter[write_index] # 0
  /\ cam' = "loop"
  /\ UNCHANGED <<counter, indexVars, lock, queue, at, deliverVars, reg,
                 running, raced>>

(* The next instruction of Program, or VIDIOC_QBUF and the next frame.     *)
Advance ==
  IF at = Len(Program)
    THEN cam' = "loop" /\ UNCHANGED at
    ELSE cam' = "program" /\ at' = at + 1

(* Change_Image_Taken_Flag, without the lock.                              *)
IncrementLoad ==
  /\ cam = "program"
  /\ Program[at] = "inc"
  /\ reg' = [reg EXCEPT !["camera"] = counter[latest_index]]
  /\ cam' = "store"
  /\ raced' = (raced \/ (dlv = "reset" /\ hand = latest_index))
  /\ UNCHANGED <<counter, indexVars, lock, queue, at, deliverVars, running>>

IncrementStore ==
  /\ cam = "store"
  /\ counter' = [counter EXCEPT ![latest_index] = reg["camera"] + 1]
  /\ Advance
  /\ UNCHANGED <<indexVars, lock, queue, deliverVars, reg, running, raced>>

Dispatch ==
  /\ cam = "program"
  /\ Program[at] \in Send
  /\ Len(queue) < QueueCap
  /\ queue' = Append(queue, latest_index)
  /\ Advance
  /\ UNCHANGED <<counter, indexVars, lock, deliverVars, reg, running, raced>>

(* Mutant: msg_send does not release what it refuses.                      *)
DispatchFullForgets ==
  /\ cam = "program"
  /\ Program[at] \in Send
  /\ Len(queue) >= QueueCap
  /\ Advance
  /\ UNCHANGED <<counter, indexVars, lock, queue, deliverVars, reg, running,
                 raced>>

(* The queue is full: msg_send has the camera thread itself call           *)
(* V4L2_msg_release_handler.                                               *)
DispatchFull ==
  /\ cam = "program"
  /\ Program[at] \in Send
  /\ Len(queue) >= QueueCap
  /\ cam' = "refused"
  /\ UNCHANGED <<counter, indexVars, lock, queue, at, deliverVars, reg,
                 running, raced>>

RefusedLoad ==
  /\ cam = "refused"
  /\ ResetLoad("camera", latest_index)
  /\ cam' = "reset"
  /\ UNCHANGED <<counter, indexVars, queue, at, deliverVars, running, raced>>

RefusedStore ==
  /\ cam = "reset"
  /\ ResetStore("camera", latest_index)
  /\ Advance
  /\ UNCHANGED <<indexVars, queue, deliverVars, reg, running, raced>>

(* A second has passed since the last alarm frame, or it has not.          *)
AlarmClock ==
  /\ cam = "program"
  /\ Program[at] = "clock"
  /\ \E due \in BOOLEAN :
       IF due THEN Advance ELSE cam' = "loop" /\ UNCHANGED at
  /\ UNCHANGED <<counter, indexVars, lock, queue, deliverVars, reg, running,
                 raced>>

(* The loop ends; v4l2_data_buffer_destroy frees both buffers, and         *)
(* msg_unregister_module clears the route.                                 *)
CaptureStops ==
  /\ cam = "loop"
  /\ ~running
  /\ cam' = "done"
  /\ UNCHANGED <<counter, indexVars, lock, queue, at, deliverVars, reg,
                 running, raced>>

-----------------------------------------------------------------------------
(* The delivery thread and the rest of the program                         *)

cameraVars == <<write_index, latest_index, cam, at>>

LoopCheck ==
  /\ dlv = "loop"
  /\ dlv' = IF running THEN "receive" ELSE "done"
  /\ UNCHANGED <<counter, cameraVars, lock, queue, hand, reg, running, raced>>

(* A handler of the receiving module begins to copy the frame.             *)
HandlerBegins ==
  /\ dlv = "receive"
  /\ queue # <<>>
  /\ hand' = Head(queue)
  /\ queue' = Tail(queue)
  /\ dlv' = "handling"
  /\ UNCHANGED <<counter, cameraVars, lock, reg, running, raced>>

(* msg_receive returns -1 after the stop.                                  *)
ReceiveNothing ==
  /\ dlv = "receive"
  /\ queue = <<>>
  /\ ~running
  /\ dlv' = "loop"
  /\ UNCHANGED <<counter, cameraVars, lock, queue, hand, reg, running, raced>>

(* No release once the route of the capture module is cleared.             *)
HandlerEnds ==
  /\ dlv = "handling"
  /\ IF hand = Other \/ cam = "done" THEN dlv' = "loop" /\ hand' = Nothing
                     ELSE dlv' = "release" /\ UNCHANGED hand
  /\ UNCHANGED <<counter, cameraVars, lock, queue, reg, running, raced>>

(* V4L2_msg_release_handler *)
ReleaseLoad ==
  /\ dlv = "release"
  /\ ResetLoad("deliver", hand)
  /\ dlv' = "reset"
  /\ raced' = (raced \/ (cam = "store" /\ hand = latest_index))
  /\ UNCHANGED <<counter, cameraVars, queue, hand, running>>

ReleaseStore ==
  /\ dlv = "reset"
  /\ ResetStore("deliver", hand)
  /\ dlv' = "loop"
  /\ hand' = Nothing
  /\ UNCHANGED <<cameraVars, queue, reg, running, raced>>

OtherSends ==
  /\ Len(queue) < QueueCap
  /\ queue' = Append(queue, Other)
  /\ UNCHANGED <<counter, cameraVars, lock, deliverVars, reg, running, raced>>

StopHandler ==
  /\ running
  /\ running' = FALSE
  /\ UNCHANGED <<counter, cameraVars, lock, queue, deliverVars, reg, raced>>

CameraStep ==
  \/ CaptureFrame \/ FrameCopied \/ Publish \/ DropFrame
  \/ IncrementLoad \/ IncrementStore \/ Dispatch \/ DispatchFull
  \/ RefusedLoad \/ RefusedStore \/ AlarmClock \/ CaptureStops

DeliverStep ==
  \/ LoopCheck \/ HandlerBegins \/ ReceiveNothing \/ HandlerEnds
  \/ ReleaseLoad \/ ReleaseStore

Next == CameraStep \/ DeliverStep \/ OtherSends \/ StopHandler

Spec == Init /\ [][Next]_vars

(* The driver keeps delivering frames and both threads are scheduled; the  *)
(* lock is held for two steps at most, so it is free again and again.      *)
Fairness == SF_vars(CameraStep) /\ SF_vars(DeliverStep)

FairSpec == Spec /\ Fairness

-----------------------------------------------------------------------------
(* Properties                                                              *)

(* The loans of a buffer that are out: queued, being handled, or refused   *)
(* and not taken back yet.                                                 *)
Loans(b) ==
  Cardinality({i \in 1 .. Len(queue) : queue[i] = b})
  + (IF hand = b THEN 1 ELSE 0)
  + (IF cam \in {"refused", "reset"} /\ latest_index = b THEN 1 ELSE 0)

(* A loan the camera thread has counted and not sent yet.                  *)
Counted(b) ==
  IF latest_index # b \/ cam \notin {"program", "store", "refused", "reset"}
    THEN 0
    ELSE LET sent == IF cam \in {"refused", "reset"} THEN at ELSE at - 1
             inc(n)  == Cardinality({i \in 1 .. n : Program[i] = "inc"})
             send(n) == Cardinality({i \in 1 .. n : Program[i] \in Send})
         IN  inc(at - 1) - send(sent)

(* v4l2_dev.c:35, :52 and :62, the counter counts the loans: the counter of*)
(* a buffer is the number of its loans whenever nobody is changing it, as  *)
(* long as the module lives.                                               *)
CounterIsExact ==
  \A b \in Buf :
    lock = "free" /\ cam \notin {"store", "done"} =>
      counter[b] = Loans(b) + Counted(b)

(* The counter is never too high, which would keep the buffer from the     *)
(* camera for ever, nor too low, which would hand it out while a receiver  *)
(* still reads it, unless the increment for an alarm frame, which is not   *)
(* locked, has met a decrement of the same buffer.                         *)
CounterCountsLoans == ~raced => CounterIsExact

(* The camera does not write into a buffer that a handler is reading.      *)
NoTornFrame == ~(cam = "copying" /\ dlv = "handling" /\ hand = write_index)

(* As long as the program runs and the camera delivers, a frame is         *)
(* published again and again: only a lost decrement keeps a buffer taken   *)
(* for ever.                                                               *)
CaptureGoesOn == cam = "loop" ~> (cam = "program" \/ ~running \/ raced)
=============================================================================
