--------------------------- MODULE RecorderProof ---------------------------
(***************************************************************************)
(* Proofs about Recorder for every number of frames, block size, queue     *)
(* length and number of failures.                                          *)
(*                                                                         *)
(* Nothing is assumed about how fast anybody is.  Each property is proved   *)
(* up to the race it does not survive, so that this race is the only way it*)
(* can go wrong: RecordedInOrder up to "block", StatusAsSent up to         *)
(* "verdict", FileWillClose up to "test", MotionKept up to "test" and      *)
(* "brief".                                                                *)
(***************************************************************************)
EXTENDS Recorder, SequenceTheorems, TLAPS

(* Between the test for the end and its effect the counter stays up.       *)
TInv ==
  /\ TypeOK
  /\ st = "count" => post_record_count = 1
  /\ st \in {"open", "write"} => i < Size

Places == 1 .. Len(queue)

(* Up to "verdict": one verdict at a time, from the frame given to the     *)
(* alarm to the status read by the storage.                                *)
OneVerdict ==
  /\ \A k, l \in Places : queue[k].type # "STORE" /\ queue[l].type # "STORE" => k = l
  /\ \A k \in Places : queue[k].type # "STORE" => at = "wait" /\ ~is_updated
  /\ at = "decode" => ~is_updated
  /\ \A k \in Places : queue[k].type = "ALARM" => queue[k].sent = alarm_data
  /\ ~misread

(* Up to "test": the counter is up while there is motion, a block is       *)
(* written or a file is open, but for the moment between the count and the *)
(* close.                                                                  *)
CounterUp ==
  /\ move_detected => post_record_count = 1
  /\ is_recording /\ st # "close" => post_record_count = 1
  /\ st \in {"open", "write", "test"} => post_record_count = 1
  /\ st = "count" => ~move_detected

(* Up to "brief" too: motion that is reported while a block is written is  *)
(* still there at the test, so the test does not end the recording.        *)
MotionStays ==
  /\ owed => post_record_count = 1
  /\ owed /\ st \in {"open", "write", "test"} => move_detected
  /\ st = "count" => ~owed

(* Up to "block": the frames of the open file, those of the block that is *)
(* read and not written yet, those of the block that is filled and those in*)
(* the queue follow each other.                                            *)
Reading == Other(write_ptr)
Unread  == {s \in Slot : data_ready \/ st = "open" \/ (st = "write" /\ s >= i)}
Filled  == {s \in Slot : s < write_idx}
Stored  == {k \in Places : queue[k].type = "STORE"}

InOrder ==
  /\ data_ready => st \notin {"open", "write"}
  /\ FileInOrder
  /\ \A s, t \in Unread : s < t => buffer[Reading][s] < buffer[Reading][t]
  /\ \A s, t \in Filled : s < t => buffer[write_ptr][s] < buffer[write_ptr][t]
  /\ \A k, l \in Stored : k < l => queue[k].frame < queue[l].frame
FileFirst ==
  \A n \in 1 .. Len(file) :
    /\ \A s \in Unread : file[n] < buffer[Reading][s]
    /\ \A s \in Filled : file[n] < buffer[write_ptr][s]
    /\ \A k \in Stored : file[n] < queue[k].frame
    /\ file[n] <= made
UnreadFirst ==
  \A s \in Unread :
    /\ \A t \in Filled : buffer[Reading][s] < buffer[write_ptr][t]
    /\ \A k \in Stored : buffer[Reading][s] < queue[k].frame
    /\ buffer[Reading][s] <= made
FilledFirst ==
  \A s \in Filled :
    /\ \A k \in Stored : buffer[write_ptr][s] < queue[k].frame
    /\ buffer[write_ptr][s] <= made
StoredLast == \A k \in Stored : queue[k].frame <= made
OrderInv == InOrder /\ FileFirst /\ UnreadFirst /\ FilledFirst /\ StoredLast

-----------------------------------------------------------------------------
(* The queue                                                               *)

LEMMA SentProperties ==
  ASSUME NEW q \in Seq(Message), NEW m \in Message
  PROVE  /\ Sent(q, m) \in Seq(Message)
         /\ Len(q) \in Nat
         /\ Len(q) <= QueueCap => Len(Sent(q, m)) <= QueueCap
         /\ \A k \in 1 .. Len(q) : q[k] \in Message
         /\ \A k \in 1 .. Len(Sent(q, m)) :
              \/ k \in 1 .. Len(q) /\ Sent(q, m)[k] = q[k]
              \/ k = Len(q) + 1 /\ Sent(q, m)[k] = m
<1>1. Len(q) \in Nat /\ QueueCap \in Nat /\ \A k \in 1 .. Len(q) : q[k] \in Message
  BY LenProperties, ElementOfSeq, RecorderAssumption
<1>2. CASE Len(q) < QueueCap
  <2>1. /\ Append(q, m) \in Seq(Message) /\ Len(Append(q, m)) = Len(q) + 1
        /\ \A k \in 1 .. Len(q) : Append(q, m)[k] = q[k]
        /\ Append(q, m)[Len(q) + 1] = m
    BY AppendProperties
  <2>2. Sent(q, m) = Append(q, m)
    BY <1>2 DEF Sent
  <2> QED
    BY <1>1, <1>2, <2>1, <2>2
<1>3. CASE ~(Len(q) < QueueCap)
  <2>1. Sent(q, m) = q
    BY <1>3 DEF Sent
  <2> QED
    BY <1>1, <2>1
<1> QED
  BY <1>2, <1>3

(* A handler takes the head of the queue.                                  *)
LEMMA TailOfQueue ==
  ASSUME TypeOK, queue # <<>>, queue' = Tail(queue)
  PROVE  /\ Len(queue) \in Nat \ {0} /\ Len(queue') = Len(queue) - 1
         /\ queue' \in Seq(Message) /\ Len(queue') <= QueueCap
         /\ Head(queue) = queue[1] /\ queue[1] \in Message
         /\ \A k \in 1 .. Len(queue') : k + 1 \in 1 .. Len(queue) /\ queue'[k] = queue[k + 1]
<1>1. queue \in Seq(Message) /\ Len(queue) <= QueueCap /\ QueueCap \in Nat
  BY RecorderAssumption DEF TypeOK
<1>2. Len(queue) \in Nat \ {0}
  BY <1>1, EmptySeq
<1>3. queue[1] \in Message /\ Head(queue) = queue[1]
  BY <1>1, <1>2, ElementOfSeq
<1>4. /\ Tail(queue) \in Seq(Message) /\ Len(Tail(queue)) = Len(queue) - 1
      /\ \A k \in 1 .. Len(Tail(queue)) : Tail(queue)[k] = queue[k + 1]
  BY <1>1, HeadTailProperties
<1> QED
  BY <1>1, <1>2, <1>3, <1>4

(* A frame of the camera, for the storage and perhaps for the alarm.       *)
Store(f) == [type |-> "STORE", frame |-> f]
Watch(f) == [type |-> "WATCH", frame |-> f]

LEMMA CapturedQueue ==
  ASSUME TypeOK, CaptureFrame
  PROVE  /\ Len(queue) \in Nat
         /\ queue' \in Seq(Message) /\ Len(queue') <= QueueCap
         /\ \A k \in 1 .. Len(queue') :
              \/ k \in 1 .. Len(queue) /\ queue'[k] = queue[k]
              \/ k = Len(queue) + 1 /\ queue'[k] = Store(made + 1)
              \/ /\ LastIsJudged \/ "verdict" \in races'
                 /\ k > Len(queue) /\ queue'[k] = Watch(made + 1)
         /\ \A k, l \in 1 .. Len(queue') :
              k > Len(queue) /\ l > Len(queue) /\ queue'[k].type = queue'[l].type
                => k = l
<1> DEFINE f == made + 1
           s == Sent(queue, Store(f))
<1>1. /\ queue \in Seq(Message) /\ Len(queue) <= QueueCap /\ f \in Frame /\ f # 0
      /\ Store(f) \in Message /\ Watch(f) \in Message
      /\ Store(f).type = "STORE" /\ Watch(f).type = "WATCH"
  BY RecorderAssumption DEF TypeOK, CaptureFrame, Frame, Message, Store, Watch
<1>2. /\ s \in Seq(Message) /\ Len(s) <= QueueCap /\ Len(queue) \in Nat
      /\ \A k \in 1 .. Len(s) : \/ k \in 1 .. Len(queue) /\ s[k] = queue[k]
                                \/ k = Len(queue) + 1 /\ s[k] = Store(f)
  BY <1>1, SentProperties
<1>3. Len(s) \in Nat
  BY <1>2, LenProperties
<1> HIDE DEF s
<1>4. CASE queue' = s
  BY <1>1, <1>2, <1>4
<1>5. CASE queue' = Sent(s, Watch(f)) /\ Races("verdict", ~LastIsJudged)
  <2>1. /\ queue' \in Seq(Message) /\ Len(queue') <= QueueCap
        /\ \A k \in 1 .. Len(queue') : \/ k \in 1 .. Len(s) /\ queue'[k] = s[k]
                                       \/ k = Len(s) + 1 /\ queue'[k] = Watch(f)
    BY <1>1, <1>2, <1>5, SentProperties
  <2>2. Len(s) >= Len(queue)
    BY <1>1, LenProperties, AppendProperties DEF s, Sent
  <2>3. ASSUME NEW k \in 1 .. Len(queue')
        PROVE  \/ k \in 1 .. Len(queue) /\ queue'[k] = queue[k]
               \/ k = Len(queue) + 1 /\ queue'[k] = Store(f)
               \/ k = Len(s) + 1 /\ k > Len(queue) /\ queue'[k] = Watch(f)
    BY <1>2, <1>3, <2>1, <2>2
  <2>4. \A k, l \in 1 .. Len(queue') :
          k > Len(queue) /\ l > Len(queue) /\ queue'[k].type = queue'[l].type => k = l
    BY <1>1, <1>2, <2>3
  <2>5. LastIsJudged \/ "verdict" \in races'
    BY <1>5 DEF Races
  <2> QED
    BY <1>2, <1>5, <2>1, <2>3, <2>4, <2>5
<1> QED
  BY <1>4, <1>5 DEF CaptureFrame, s, Store, Watch

-----------------------------------------------------------------------------
(* Type correctness                                                        *)

LEMMA TypeInit == Init => TInv
<1> SUFFICES ASSUME Init PROVE TInv
  OBVIOUS
<1> USE RecorderAssumption
<1>1. queue \in Seq(Message) /\ Len(queue) <= QueueCap
  BY EmptySeq DEF Init
<1>2. file \in Seq(Frame)
  BY EmptySeq DEF Init
<1>3. 0 \in Frame /\ 0 \in Slot
  BY DEF Frame, Slot
<1>4. buffer \in [Block -> [Slot -> Frame]]
  BY <1>3 DEF Init
<1> QED
  BY <1>1, <1>2, <1>3, <1>4 DEF Init, TInv, TypeOK, Status, Block

(* The races that are remembered have a name, and none is forgotten.       *)
LEMMA RacesStay ==
  ASSUME TypeOK, [Next]_vars
  PROVE  races' \subseteq Race /\ races \subseteq races'
<1>1. CASE UNCHANGED races
  BY <1>1 DEF TypeOK
<1>2. CASE \/ Races("verdict", ~LastIsJudged)
           \/ Races("block", st \in {"open", "write"})
           \/ Races("test", st = "count")
           \/ Races("brief", owed /\ st \in {"open", "write", "test"})
  BY <1>2 DEF TypeOK, Races, Race
<1>3. UNCHANGED vars => UNCHANGED races
  BY DEF vars
<1>4. CaptureFrame => UNCHANGED races \/ Races("verdict", ~LastIsJudged)
  BY DEF CaptureFrame
<1>5. HandleStore => UNCHANGED races \/ Races("block", st \in {"open", "write"})
  BY DEF HandleStore
<1>6. HandleStatus => \/ Races("test", st = "count")
                      \/ Races("brief", owed /\ st \in {"open", "write", "test"})
  BY DEF HandleStatus, StatusRaces
<1>7. HandleWatch \/ TakeUpdate \/ DecodeFails \/ SendVerdict => UNCHANGED races
  BY DEF HandleWatch, TakeUpdate, DecodeFails, SendVerdict, alarmSame
<1>8. BeginBlock \/ OpenFile \/ WriteFrame \/ TestEnd \/ CountDown \/ CloseFile
        => UNCHANGED races
  BY DEF BeginBlock, OpenFile, WriteFrame, TestEnd, CountDown, CloseFile, storeSame
<1> QED
  BY <1>1, <1>2, <1>3, <1>4, <1>5, <1>6, <1>7, <1>8 DEF Next

LEMMA TypeStep ==
  ASSUME TInv, [Next]_vars
  PROVE  TInv'
<1> USE RecorderAssumption
<1>0. TypeOK
  BY DEF TInv
<1> USE <1>0
<1>9. races' \subseteq Race
  BY RacesStay
<1>1. CASE CaptureFrame
  <2>1. queue' \in Seq(Message) /\ Len(queue') <= QueueCap
    BY <1>1, CapturedQueue
  <2>2. made' \in Frame
    BY <1>1 DEF CaptureFrame, TypeOK, Frame
  <2>3. UNCHANGED <<frame_buffer, is_updated, at, is_first_frame, alarm_data, buffer,
                    write_ptr, write_idx, data_ready, move_detected, owed,
                    post_record_count, is_recording, st, i, fails, file, misread>>
    BY <1>1 DEF CaptureFrame, alarmVars, blockVars, motionVars, threadVars
  <2> QED
    BY <1>9, <2>1, <2>2, <2>3 DEF TInv, TypeOK
<1>2. CASE HandleWatch
  <2>1. queue # <<>> /\ queue' = Tail(queue) /\ Head(queue).type = "WATCH"
    BY <1>2 DEF HandleWatch
  <2>2. queue' \in Seq(Message) /\ Len(queue') <= QueueCap /\ Head(queue) \in Message
    BY <2>1, TailOfQueue
  <2>3. Head(queue).frame \in Frame
    BY <2>1, <2>2 DEF Message
  <2> QED
    BY <1>2, <1>9, <2>2, <2>3 DEF HandleWatch, TInv, TypeOK, storageSame, blockVars, motionVars,
       threadVars
<1>3. CASE TakeUpdate \/ DecodeFails
  <2>1. UNCHANGED <<made, queue, frame_buffer, is_first_frame, alarm_data, buffer,
                    write_ptr, write_idx, data_ready, move_detected, owed,
                    post_record_count, is_recording, st, i, fails, file, misread>>
    BY <1>3 DEF TakeUpdate, DecodeFails, alarmSame, storageSame, blockVars, motionVars,
       threadVars
  <2>2. is_updated' \in BOOLEAN /\ at' \in {"wait", "decode"}
    BY <1>3 DEF TakeUpdate, UpdateTaken, DecodeFails, TypeOK
  <2> QED
    BY <1>9, <2>1, <2>2 DEF TInv, TypeOK
<1>4. CASE SendVerdict
  <2>1. PICK s \in Move_Detect : /\ alarm_data' = s
                                 /\ queue' = Sent(queue, [type |-> "ALARM", sent |-> s])
    BY <1>4 DEF SendVerdict
  <2>2. s \in Status /\ [type |-> "ALARM", sent |-> s] \in Message
    BY <2>1 DEF Move_Detect, Status, Message
  <2>3. queue' \in Seq(Message) /\ Len(queue') <= QueueCap
    BY <2>1, <2>2, SentProperties DEF TypeOK
  <2> QED
    BY <1>4, <1>9, <2>1, <2>2, <2>3 DEF SendVerdict, alarmSame, storageSame, blockVars,
       motionVars, threadVars, TInv, TypeOK
<1>5. CASE HandleStore
  <2>1. queue # <<>> /\ queue' = Tail(queue) /\ Head(queue).type = "STORE"
    BY <1>5 DEF HandleStore
  <2>2. queue' \in Seq(Message) /\ Len(queue') <= QueueCap /\ Head(queue) \in Message
    BY <2>1, TailOfQueue
  <2>3. Head(queue).frame \in Frame
    BY <2>1, <2>2 DEF Message, Status
  <2>4. write_idx' \in Slot
    BY <1>5 DEF HandleStore, BlockFull, TypeOK, Slot
  <2>5. buffer' \in [Block -> [Slot -> Frame]]
    BY <1>5, <2>3 DEF HandleStore, TypeOK
  <2>6. write_ptr' \in Block /\ data_ready' \in BOOLEAN
    BY <1>5 DEF HandleStore, TypeOK, Exchanged, Other, Block
  <2>7. UNCHANGED <<made, frame_buffer, is_updated, at, is_first_frame, alarm_data,
                    move_detected, owed, post_record_count, is_recording, st, i,
                    fails, file, misread>>
    BY <1>5 DEF HandleStore, handlerSame, alarmVars, motionVars, threadVars
  <2> QED
    BY <1>9, <2>2, <2>4, <2>5, <2>6, <2>7 DEF TInv, TypeOK
<1>6. CASE HandleStatus
  <2>1. queue' \in Seq(Message) /\ Len(queue') <= QueueCap
    BY <1>6, TailOfQueue DEF HandleStatus
  <2>2. /\ move_detected' \in BOOLEAN /\ owed' \in BOOLEAN /\ misread' \in BOOLEAN
        /\ post_record_count' \in {0, 1}
        /\ post_record_count = 1 => post_record_count' = 1
    BY <1>6 DEF HandleStatus, PostAfter, TypeOK
  <2>3. UNCHANGED <<made, frame_buffer, is_updated, at, is_first_frame, alarm_data, buffer,
                    write_ptr, write_idx, data_ready, is_recording, st, i, fails, file>>
    BY <1>6 DEF HandleStatus, handlerSame, alarmVars, blockVars, threadVars
  <2> QED
    BY <1>9, <2>1, <2>2, <2>3 DEF TInv, TypeOK
<1>7. CASE BeginBlock \/ OpenFile \/ WriteFrame \/ TestEnd \/ CountDown
           \/ CloseFile
  <2>1. UNCHANGED <<made, queue, frame_buffer, is_updated, at, is_first_frame, alarm_data,
                    buffer, write_ptr, write_idx, misread>>
    BY <1>7 DEF BeginBlock, OpenFile, WriteFrame, TestEnd, CountDown, CloseFile, storeSame,
       alarmVars, blockVars
  <2>2. CASE BeginBlock
    <3>1. /\ st' \in {"wait", "write", "open"} /\ i' = 0 /\ data_ready' = FALSE
          /\ owed' = FALSE
          /\ UNCHANGED <<move_detected, post_record_count, is_recording, fails, file>>
      BY <2>2 DEF BeginBlock
    <3>2. i' \in 0 .. Size /\ i' < Size
      BY <3>1
    <3> QED
      BY <1>9, <2>1, <3>1, <3>2 DEF TInv, TypeOK
  <2>3. CASE OpenFile
    <3>1. file' \in Seq(Frame)
      BY <2>3, EmptySeq DEF OpenFile, TypeOK
    <3>2. UNCHANGED i /\ i' < Size
      BY <2>3 DEF OpenFile, TInv
    <3>3. st' \in {"write", "test"} /\ is_recording' \in BOOLEAN
      BY <2>3 DEF OpenFile, TypeOK
    <3>4. fails' \in 0 .. MaxFail
      BY <2>3 DEF OpenFile, TypeOK
    <3>5. UNCHANGED <<data_ready, move_detected, owed, post_record_count>>
      BY <2>3 DEF OpenFile, motionVars
    <3> QED
      BY <1>9, <2>1, <3>1, <3>2, <3>3, <3>4, <3>5 DEF TInv, TypeOK
  <2>4. CASE WriteFrame
    <3>1. i \in Slot /\ i + 1 \in 0 .. Size /\ (i + 1 # Size => i + 1 < Size)
      BY <2>4 DEF WriteFrame, TInv, TypeOK, Slot
    <3>2. buffer[Other(write_ptr)][i] \in Frame
      BY <3>1 DEF TypeOK, Other, Block
    <3>3. file' \in Seq(Frame)
      BY <2>4, <3>2, AppendProperties DEF WriteFrame, TypeOK
    <3> QED
      BY <1>9, <2>1, <2>4, <3>1, <3>3 DEF WriteFrame, TInv, TypeOK, motionVars
  <2>5. CASE TestEnd
    BY <1>9, <2>1, <2>5 DEF TestEnd, EndOfMotion, TInv, TypeOK, motionVars
  <2>6. CASE CountDown \/ CloseFile
    <3>1. post_record_count' \in {0, 1}
      BY <2>6 DEF CountDown, CloseFile, TInv, TypeOK
    <3>2. is_recording' \in BOOLEAN /\ st' \in {"close", "wait"}
      BY <2>6 DEF CountDown, CloseFile, TypeOK
    <3>3. UNCHANGED <<i, fails, file, data_ready, move_detected, owed>>
      BY <2>6 DEF CountDown, CloseFile, motionVars
    <3> QED
      BY <1>9, <2>1, <3>1, <3>2, <3>3 DEF TInv, TypeOK
  <2> QED
    BY <1>7, <2>2, <2>3, <2>4, <2>5, <2>6
<1>8. CASE UNCHANGED vars
  BY <1>8, <1>9 DEF vars, alarmVars, blockVars, motionVars, threadVars, TInv, TypeOK
<1> QED
  BY <1>1, <1>2, <1>3, <1>4, <1>5, <1>6, <1>7, <1>8 DEF Next

LEMMA TypeInvariant == Spec => []TInv
BY TypeInit, TypeStep, PTL DEF Spec

(* Type correctness, with the bounds of the queue, of the block that is    *)
(* filled and of the place that is written next.                           *)
THEOREM TypeCorrect == Spec => []TypeOK
<1>1. TInv => TypeOK
  BY DEF TInv
<1> QED
  BY <1>1, TypeInvariant, PTL

-----------------------------------------------------------------------------
(* One verdict at a time                                                   *)

(* The steps of the storage thread.                                        *)
StorageStep == BeginBlock \/ OpenFile \/ WriteFrame \/ TestEnd \/ CountDown \/ CloseFile

LEMMA StorageLeaves ==
  ASSUME StorageStep
  PROVE  /\ UNCHANGED <<made, queue, misread, races>>
         /\ UNCHANGED <<frame_buffer, is_updated, at, is_first_frame, alarm_data>>
         /\ UNCHANGED <<buffer, write_ptr, write_idx>>
BY DEF StorageStep, BeginBlock, OpenFile, WriteFrame, TestEnd, CountDown, CloseFile, storeSame,
       alarmVars, blockVars

LEMMA VerdictInit == Init => OneVerdict
BY EmptySeq DEF Init, OneVerdict, Places

LEMMA VerdictStep ==
  ASSUME TInv, OneVerdict, [Next]_vars, "verdict" \notin races'
  PROVE  OneVerdict'
<1>0. TypeOK
  BY DEF TInv
<1>1. CASE CaptureFrame
  <2>1. UNCHANGED <<is_updated, at, alarm_data, misread>>
    BY <1>1 DEF CaptureFrame, alarmVars
  <2>2. /\ Len(queue) \in Nat
        /\ \A k \in 1 .. Len(queue') :
             \/ k \in 1 .. Len(queue) /\ queue'[k] = queue[k]
             \/ k = Len(queue) + 1 /\ queue'[k] = Store(made + 1)
             \/ LastIsJudged /\ k > Len(queue) /\ queue'[k] = Watch(made + 1)
        /\ \A k, l \in 1 .. Len(queue') :
             k > Len(queue) /\ l > Len(queue) /\ queue'[k].type = queue'[l].type => k = l
    BY <1>0, <1>1, CapturedQueue
  <2>3. Store(made + 1).type = "STORE" /\ Watch(made + 1).type = "WATCH"
    BY DEF Store, Watch
  <2>4. CASE LastIsJudged
    <3>1. at = "wait" /\ ~is_updated /\ \A k \in Places : queue[k].type = "STORE"
      BY <2>4 DEF LastIsJudged, Places
    <3>2. \A k \in 1 .. Len(queue') : queue'[k].type # "STORE" =>
            k > Len(queue) /\ queue'[k].type = "WATCH"
      BY <2>2, <2>3, <3>1 DEF Places
    <3> QED
      BY <2>1, <2>2, <3>1, <3>2 DEF OneVerdict, Places
  <2>5. CASE ~LastIsJudged
    <3>1. \A k \in 1 .. Len(queue') : queue'[k].type # "STORE" =>
            k \in 1 .. Len(queue) /\ queue'[k] = queue[k]
      BY <2>2, <2>3, <2>5
    <3> QED
      BY <2>1, <3>1 DEF OneVerdict, Places
  <2> QED
    BY <2>4, <2>5
<1>2. CASE HandleWatch \/ HandleStatus \/ HandleStore
  <2>1. /\ Len(queue) \in Nat \ {0} /\ Len(queue') = Len(queue) - 1
        /\ Head(queue) = queue[1]
        /\ \A k \in 1 .. Len(queue') : k + 1 \in 1 .. Len(queue) /\ queue'[k] = queue[k + 1]
    BY <1>0, <1>2, TailOfQueue DEF HandleWatch, HandleStatus, HandleStore
  <2>2. 1 \in Places /\ \A k \in Places' : k + 1 \in Places /\ k + 1 # 1
                                          /\ queue'[k] = queue[k + 1]
    BY <2>1 DEF Places
  <2>3. \A k, l \in Places' :
          queue'[k].type # "STORE" /\ queue'[l].type # "STORE" => k = l
    <3> SUFFICES ASSUME NEW k \in Places', NEW l \in Places',
                        queue'[k].type # "STORE", queue'[l].type # "STORE"
                 PROVE  k = l
      OBVIOUS
    <3>1. k + 1 = l + 1
      BY <2>2 DEF OneVerdict
    <3> QED
      BY <2>1, <3>1 DEF Places
  <2>4. CASE queue[1].type # "STORE"
    <3>1. \A k \in Places' : queue'[k].type = "STORE"
      BY <2>2, <2>4 DEF OneVerdict
    <3>2. at = "wait" /\ ~is_updated /\ (queue[1].type = "ALARM" => queue[1].sent = alarm_data)
      BY <2>2, <2>4 DEF OneVerdict
    <3>3. UNCHANGED at
      BY <1>2 DEF HandleWatch, HandleStatus, HandleStore, handlerSame, alarmVars
    <3>4. ~misread'
      BY <1>2, <2>1, <2>4, <3>2 DEF HandleWatch, HandleStatus, HandleStore, OneVerdict
    <3> QED
      BY <3>1, <3>2, <3>3, <3>4 DEF OneVerdict
  <2>5. CASE queue[1].type = "STORE"
    <3>1. UNCHANGED <<is_updated, at, alarm_data, misread>>
      BY <1>2, <2>1, <2>5 DEF HandleWatch, HandleStatus, HandleStore, handlerSame, alarmVars
    <3> QED
      BY <2>2, <2>3, <3>1 DEF OneVerdict
  <2> QED
    BY <2>4, <2>5
<1>3. CASE TakeUpdate \/ DecodeFails
  <2>1. UNCHANGED <<queue, alarm_data, misread>>
    BY <1>3 DEF TakeUpdate, DecodeFails, alarmSame
  <2>2. \A k \in Places : queue[k].type = "STORE"
    BY <1>3 DEF TakeUpdate, DecodeFails, OneVerdict
  <2>3. ~(at' = "decode" /\ is_updated')
    BY <1>3 DEF TakeUpdate, UpdateTaken, DecodeFails
  <2> QED
    BY <2>1, <2>2, <2>3 DEF OneVerdict, Places
<1>4. CASE SendVerdict
  <2>1. PICK s \in Move_Detect : /\ alarm_data' = s
                                 /\ queue' = Sent(queue, [type |-> "ALARM", sent |-> s])
    BY <1>4 DEF SendVerdict
  <2>2. s \in Status /\ [type |-> "ALARM", sent |-> s] \in Message
    BY <2>1 DEF Move_Detect, Status, Message
  <2>3. \A k \in Places : queue[k].type = "STORE"
    BY <1>4 DEF SendVerdict, OneVerdict
  <2>4. /\ queue \in Seq(Message)
        /\ at = "decode" /\ at' = "wait" /\ UNCHANGED <<is_updated, misread>>
    BY <1>0, <1>4 DEF SendVerdict, alarmSame, TypeOK
  <2>5. \A k \in 1 .. Len(queue') :
          \/ k \in 1 .. Len(queue) /\ queue'[k] = queue[k]
          \/ k = Len(queue) + 1 /\ queue'[k] = [type |-> "ALARM", sent |-> s]
    BY <2>1, <2>2, <2>4, SentProperties
  <2>6. \A k \in Places' : queue'[k].type # "STORE" =>
          k = Len(queue) + 1 /\ queue'[k].sent = s
    BY <2>3, <2>5 DEF Places
  <2> QED
    BY <2>1, <2>4, <2>6 DEF OneVerdict
<1>5. CASE StorageStep \/ UNCHANGED vars
  <2>1. UNCHANGED <<queue, is_updated, at, alarm_data, misread>>
    BY <1>5, StorageLeaves DEF vars, alarmVars
  <2> QED
    BY <2>1 DEF OneVerdict, Places
<1> QED
  BY <1>1, <1>2, <1>3, <1>4, <1>5 DEF Next, StorageStep

(* The storage reads the status the alarm has sent, although it is given a *)
(* pointer to a variable that the next verdict overwrites, and the frame   *)
(* that is compared is not replaced meanwhile: a second frame sent to the  *)
(* alarm before the first is judged is the only way to spoil it.           *)
THEOREM StatusReadAsSent == Spec => []StatusAsSent
<1> DEFINE I == TInv /\ ("verdict" \notin races => OneVerdict)
<1>1. Init => I
  BY TypeInit, VerdictInit
<1>2. I /\ [Next]_vars => I'
  <2> SUFFICES ASSUME TInv, "verdict" \notin races => OneVerdict, [Next]_vars
               PROVE  TInv' /\ ("verdict" \notin races' => OneVerdict')
    OBVIOUS
  <2>1. races \subseteq races'
    BY RacesStay DEF TInv
  <2> QED
    BY <2>1, TypeStep, VerdictStep
<1>3. I => StatusAsSent
  BY DEF OneVerdict, StatusAsSent
<1> QED
  BY <1>1, <1>2, <1>3, PTL DEF Spec

-----------------------------------------------------------------------------
(* The end of a recording                                                  *)

LEMMA CounterInit == Init => CounterUp
BY DEF Init, CounterUp

(* What is left alone by all but the storage thread and the status.        *)
LEMMA OthersLeave ==
  ASSUME \/ CaptureFrame \/ HandleWatch \/ TakeUpdate \/ DecodeFails \/ SendVerdict
         \/ HandleStore \/ UNCHANGED vars
  PROVE  UNCHANGED <<move_detected, owed, post_record_count, is_recording, st, i, file>>
BY DEF CaptureFrame, HandleWatch, TakeUpdate, DecodeFails, SendVerdict, HandleStore,
       vars, alarmSame, storageSame, handlerSame, motionVars, threadVars

LEMMA CounterStep ==
  ASSUME TInv, CounterUp, [Next]_vars, "test" \notin races'
  PROVE  CounterUp'
<1>0. post_record_count \in {0, 1}
  BY DEF TInv, TypeOK
<1>1. CASE HandleStatus
  <2>1. /\ UNCHANGED <<is_recording, st>>
        /\ move_detected' = (alarm_data = "MOVED")
        /\ post_record_count' = IF alarm_data = "MOVED" THEN 1 ELSE post_record_count
    BY <1>1 DEF HandleStatus, handlerSame, threadVars, PostAfter
  <2>2. st = "count" => alarm_data # "MOVED"
    BY <1>1 DEF HandleStatus, StatusRaces, Races
  <2> QED
    BY <2>1, <2>2 DEF CounterUp
<1>2. CASE BeginBlock
  <2>1. /\ UNCHANGED <<move_detected, post_record_count, is_recording>>
        /\ st = "wait" /\ st' \in {"wait", "open", "write"} /\ (st' # "wait" => ShouldSave)
    BY <1>2 DEF BeginBlock
  <2> QED
    BY <1>0, <2>1 DEF CounterUp, ShouldSave
<1>3. CASE OpenFile \/ WriteFrame
  <2>1. /\ UNCHANGED <<move_detected, post_record_count>>
        /\ st \in {"open", "write"} /\ st' \in {"write", "test"}
    BY <1>3 DEF OpenFile, WriteFrame, motionVars
  <2> QED
    BY <2>1 DEF CounterUp
<1>4. CASE TestEnd
  <2>1. /\ UNCHANGED <<move_detected, post_record_count, is_recording>>
        /\ st = "test" /\ st' \in {"count", "wait"} /\ (st' = "count" => ~move_detected)
    BY <1>4 DEF TestEnd, EndOfMotion, motionVars
  <2> QED
    BY <2>1 DEF CounterUp
<1>5. CASE CountDown
  <2>1. st = "count" /\ st' = "close" /\ UNCHANGED <<move_detected, is_recording>>
    BY <1>5 DEF CountDown, motionVars
  <2> QED
    BY <2>1 DEF CounterUp
<1>6. CASE CloseFile
  <2>1. /\ st' = "wait" /\ UNCHANGED <<move_detected, post_record_count>>
        /\ is_recording' = (is_recording /\ post_record_count # 0)
    BY <1>6 DEF CloseFile, motionVars
  <2> QED
    BY <1>0, <2>1 DEF CounterUp
<1>7. CASE \/ CaptureFrame \/ HandleWatch \/ TakeUpdate \/ DecodeFails \/ SendVerdict
           \/ HandleStore \/ UNCHANGED vars
  BY <1>7, OthersLeave DEF CounterUp
<1> QED
  BY <1>1, <1>2, <1>3, <1>4, <1>5, <1>6, <1>7 DEF Next

LEMMA CounterInvariant == Spec => [](TInv /\ ("test" \notin races => CounterUp))
<1> DEFINE I == TInv /\ ("test" \notin races => CounterUp)
<1>1. Init => I
  BY TypeInit, CounterInit
<1>2. I /\ [Next]_vars => I'
  <2> SUFFICES ASSUME TInv, "test" \notin races => CounterUp, [Next]_vars
               PROVE  TInv' /\ ("test" \notin races' => CounterUp')
    OBVIOUS
  <2>1. races \subseteq races'
    BY RacesStay DEF TInv
  <2> QED
    BY <2>1, TypeStep, CounterStep
<1> QED
  BY <1>1, <1>2, PTL DEF Spec

(* A file that is open between two blocks will be closed by a later one,   *)
(* whatever else happens, until motion is reported between the test for the*)
(* end of a recording and the count: that window is the only way a file can*)
(* be left open.                                                           *)
THEOREM OpenFileWillClose == Spec => []FileWillClose
<1>1. ("test" \notin races => CounterUp) => FileWillClose
  BY DEF CounterUp, FileWillClose, OpenFileEnds
<1> QED
  BY <1>1, CounterInvariant, PTL

-----------------------------------------------------------------------------
(* Motion is kept                                                          *)

LEMMA MotionInit == Init => MotionStays
BY DEF Init, MotionStays

LEMMA MotionStep ==
  ASSUME TInv, CounterUp, MotionStays, [Next]_vars,
         "test" \notin races', "brief" \notin races'
  PROVE  MotionStays'
<1>0. post_record_count \in {0, 1}
  BY DEF TInv, TypeOK
<1>1. CASE HandleStatus
  <2>1. /\ UNCHANGED st
        /\ move_detected' = (alarm_data = "MOVED")
        /\ post_record_count' = IF alarm_data = "MOVED" THEN 1 ELSE post_record_count
        /\ owed' = (owed \/ alarm_data = "MOVED")
    BY <1>1 DEF HandleStatus, handlerSame, threadVars, PostAfter
  <2>2. /\ st = "count" => alarm_data # "MOVED"
        /\ owed /\ st \in {"open", "write", "test"} => alarm_data = "MOVED"
    BY <1>1 DEF HandleStatus, StatusRaces, Races
  <2> QED
    BY <2>1, <2>2 DEF MotionStays
<1>2. CASE BeginBlock
  <2>1. owed' = FALSE
    BY <1>2 DEF BeginBlock
  <2> QED
    BY <2>1 DEF MotionStays
<1>3. CASE OpenFile \/ WriteFrame
  <2>1. /\ UNCHANGED <<move_detected, owed, post_record_count>>
        /\ st \in {"open", "write"} /\ st' \in {"write", "test"}
    BY <1>3 DEF OpenFile, WriteFrame, motionVars
  <2> QED
    BY <2>1 DEF MotionStays
<1>4. CASE TestEnd
  <2>1. /\ UNCHANGED <<move_detected, owed, post_record_count>>
        /\ st = "test" /\ st' \in {"count", "wait"} /\ (st' = "count" => ~move_detected)
    BY <1>4 DEF TestEnd, EndOfMotion, motionVars
  <2> QED
    BY <2>1 DEF MotionStays
<1>5. CASE CountDown
  <2>1. st = "count" /\ st' = "close" /\ UNCHANGED <<move_detected, owed>>
    BY <1>5 DEF CountDown, motionVars
  <2> QED
    BY <2>1 DEF MotionStays
<1>6. CASE CloseFile
  <2>1. st' = "wait" /\ UNCHANGED <<move_detected, owed, post_record_count>>
    BY <1>6 DEF CloseFile, motionVars
  <2> QED
    BY <2>1 DEF MotionStays
<1>7. CASE \/ CaptureFrame \/ HandleWatch \/ TakeUpdate \/ DecodeFails \/ SendVerdict
           \/ HandleStore \/ UNCHANGED vars
  BY <1>7, OthersLeave DEF MotionStays
<1> QED
  BY <1>1, <1>2, <1>3, <1>4, <1>5, <1>6, <1>7 DEF Next

(* Motion that has been reported is recorded: the counter outlives the     *)
(* status, however the two are interleaved with the storage thread, but for*)
(* two races: a report between the test for the end and the count, and one *)
(* that is taken back while the same block is written.                     *)
THEOREM MotionIsKept == Spec => []MotionKept
<1> DEFINE C == "test" \notin races => CounterUp
           I == TInv /\ C /\ (races \cap {"test", "brief"} = {} => MotionStays)
<1>1. Init => I
  BY TypeInit, CounterInit, MotionInit
<1>2. I /\ [Next]_vars => I'
  <2> SUFFICES ASSUME TInv, C, races \cap {"test", "brief"} = {} => MotionStays,
                      [Next]_vars
               PROVE  I'
    OBVIOUS
  <2>1. races \subseteq races'
    BY RacesStay DEF TInv
  <2>2. TInv'
    BY TypeStep
  <2>3. C'
    BY <2>1, CounterStep
  <2>4. ASSUME (races \cap {"test", "brief"})' = {}
        PROVE  MotionStays'
    <3>1. "test" \notin races' /\ "brief" \notin races'
      BY <2>4
    <3>2. "test" \notin races /\ races \cap {"test", "brief"} = {}
      BY <2>1, <2>4
    <3> QED
      BY <3>1, <3>2, MotionStep
  <2> QED
    BY <2>2, <2>3, <2>4
<1>3. I => MotionKept
  BY DEF MotionStays, MotionKept, MotionRecorded
<1> QED
  BY <1>1, <1>2, <1>3, PTL DEF Spec

-----------------------------------------------------------------------------
(* Frames are recorded in order                                            *)

LEMMA OrderInit == Init => OrderInv
<1> SUFFICES ASSUME Init PROVE OrderInv
  OBVIOUS
<1>1. Len(file) = 0 /\ Len(queue) = 0 /\ Unread = {} /\ Filled = {}
  BY EmptySeq DEF Init, Unread, Filled, Slot
<1>2. Stored = {}
  BY <1>1 DEF Stored, Places
<1>3. InOrder
  BY <1>1, <1>2 DEF InOrder, FileInOrder, Init
<1> QED
  BY <1>1, <1>2, <1>3 DEF OrderInv, FileFirst, UnreadFirst, FilledFirst, StoredLast

(* What is compared are numbers.                                           *)
LEMMA Numbers ==
  ASSUME TypeOK
  PROVE  /\ made \in Nat /\ write_idx \in Nat /\ write_idx < Size /\ Size \in Nat
         /\ i \in Nat /\ Len(file) \in Nat /\ Len(queue) \in Nat
         /\ write_ptr \in Block /\ Reading \in Block /\ Reading # write_ptr
         /\ Other(Reading) = write_ptr
         /\ \A s \in Slot : s \in Nat /\ s < Size
         /\ \A b \in Block, s \in Slot : buffer[b][s] \in Nat
         /\ \A n \in 1 .. Len(file) : file[n] \in Nat
         /\ \A k \in Stored : queue[k].frame \in Nat
<1> USE RecorderAssumption
<1>1. /\ made \in Nat /\ write_idx \in Nat /\ write_idx < Size /\ Size \in Nat /\ i \in Nat
      /\ \A s \in Slot : s \in Nat /\ s < Size
      /\ \A f \in Frame : f \in Nat
  BY DEF TypeOK, Frame, Slot
<1>2. /\ write_ptr \in Block /\ Reading \in Block /\ Reading # write_ptr
      /\ Other(Reading) = write_ptr
  BY DEF TypeOK, Block, Reading, Other
<1>3. \A b \in Block, s \in Slot : buffer[b][s] \in Frame
  BY DEF TypeOK
<1>4. Len(file) \in Nat /\ \A n \in 1 .. Len(file) : file[n] \in Frame
  BY LenProperties, ElementOfSeq DEF TypeOK
<1>5. Len(queue) \in Nat /\ \A k \in 1 .. Len(queue) : queue[k] \in Message
  BY LenProperties, ElementOfSeq DEF TypeOK
<1>6. \A m \in Message : m.type = "STORE" => m.frame \in Frame
  BY DEF Message
<1>7. \A k \in Stored : queue[k].frame \in Frame
  BY <1>5, <1>6 DEF Stored, Places
<1> QED
  BY <1>1, <1>2, <1>3, <1>4, <1>5, <1>7

LEMMA CaptureKeepsOrder ==
  ASSUME TypeOK, OrderInv, CaptureFrame
  PROVE  OrderInv'
<1>1. /\ UNCHANGED <<buffer, write_ptr, write_idx, data_ready, st, i, file>>
      /\ made' = made + 1
  BY DEF CaptureFrame, blockVars, threadVars
<1>2. UNCHANGED <<Reading, Unread, Filled, FileInOrder>>
  BY <1>1 DEF Reading, Unread, Filled, FileInOrder
<1>3. /\ \A k \in 1 .. Len(queue') :
           \/ k \in 1 .. Len(queue) /\ queue'[k] = queue[k]
           \/ k = Len(queue) + 1 /\ queue'[k] = Store(made + 1)
           \/ k > Len(queue) /\ queue'[k] = Watch(made + 1)
      /\ Len(queue) \in Nat
  BY CapturedQueue
<1>4. \A k \in Stored' :
        \/ k \in Stored /\ queue'[k].frame = queue[k].frame
        \/ k = Len(queue) + 1 /\ queue'[k].frame = made + 1
  BY <1>3 DEF Stored, Places, Store, Watch
<1>5. \A k \in Stored : k <= Len(queue) /\ k \in Nat
  BY <1>3 DEF Stored, Places
<1>6. /\ made \in Nat
      /\ \A s \in Unread : buffer[Reading][s] \in Nat
      /\ \A s \in Filled : buffer[write_ptr][s] \in Nat
      /\ \A n \in 1 .. Len(file) : file[n] \in Nat
      /\ \A k \in Stored : queue[k].frame \in Nat
  BY Numbers DEF Unread, Filled
<1>7. InOrder'
  <2>1. \A k, l \in Stored' : k < l => queue'[k].frame < queue'[l].frame
    BY <1>4, <1>5, <1>6 DEF OrderInv, InOrder, StoredLast
  <2> QED
    BY <1>1, <1>2, <2>1 DEF OrderInv, InOrder
<1>8. FileFirst'
  BY <1>1, <1>2, <1>4, <1>6 DEF OrderInv, FileFirst
<1>9. UnreadFirst'
  BY <1>1, <1>2, <1>4, <1>6 DEF OrderInv, UnreadFirst
<1>10. FilledFirst'
  BY <1>1, <1>2, <1>4, <1>6 DEF OrderInv, FilledFirst
<1>11. StoredLast'
  BY <1>1, <1>4, <1>6 DEF OrderInv, StoredLast
<1> QED
  BY <1>7, <1>8, <1>9, <1>10, <1>11 DEF OrderInv

(* What is in the queue moves up one place.                                *)
LEMMA StoredMovesUp ==
  ASSUME TypeOK, queue # <<>>, queue' = Tail(queue)
  PROVE  /\ \A k \in Stored' : k \in Nat /\ k + 1 \in Stored /\ queue'[k] = queue[k + 1]
         /\ Head(queue).type = "STORE" =>
              /\ 1 \in Stored /\ Head(queue) = queue[1]
              /\ \A k \in Stored' : 1 < k + 1
BY TailOfQueue DEF Stored, Places

LEMMA QueueStepKeepsOrder ==
  ASSUME TypeOK, OrderInv, HandleWatch \/ HandleStatus
  PROVE  OrderInv'
<1>1. UNCHANGED <<made, buffer, write_ptr, write_idx, data_ready, st, i, file>>
  BY DEF HandleWatch, HandleStatus, storageSame, handlerSame, blockVars, threadVars
<1>2. UNCHANGED <<Reading, Unread, Filled, FileInOrder>>
  BY <1>1 DEF Reading, Unread, Filled, FileInOrder
<1>3. \A k \in Stored' : k \in Nat /\ k + 1 \in Stored /\ queue'[k] = queue[k + 1]
  BY StoredMovesUp DEF HandleWatch, HandleStatus
<1>4. InOrder'
  <2>1. ASSUME NEW k \in Stored', NEW l \in Stored', k < l
        PROVE  queue'[k].frame < queue'[l].frame
    BY <1>3, <2>1 DEF OrderInv, InOrder
  <2> QED
    BY <1>1, <1>2, <2>1 DEF OrderInv, InOrder
<1>5. FileFirst' /\ UnreadFirst' /\ FilledFirst' /\ StoredLast'
  BY <1>1, <1>2, <1>3 DEF OrderInv, FileFirst, UnreadFirst, FilledFirst, StoredLast
<1> QED
  BY <1>4, <1>5 DEF OrderInv

(* A frame is stored: it is later than all that is written or in a block,  *)
(* and earlier than all that is still in the queue.                        *)
LEMMA StoreKeepsOrder ==
  ASSUME TypeOK, OrderInv, HandleStore, "block" \notin races'
  PROVE  OrderInv'
<1> DEFINE f == Head(queue).frame
<1>1. /\ UNCHANGED <<made, st, i, file>>
      /\ queue # <<>> /\ queue' = Tail(queue) /\ Head(queue).type = "STORE"
  BY DEF HandleStore, handlerSame, threadVars
<1>2. /\ 1 \in Stored /\ f = queue[1].frame
      /\ \A k \in Stored' : k \in Nat /\ k + 1 \in Stored /\ 1 < k + 1
                            /\ queue'[k] = queue[k + 1]
  BY <1>1, StoredMovesUp
<1>3. /\ made \in Nat /\ write_idx \in Nat /\ write_idx < Size /\ Size \in Nat
      /\ write_ptr \in Block /\ Reading \in Block /\ Reading # write_ptr
      /\ Other(Reading) = write_ptr
      /\ \A s \in Slot : s \in Nat /\ s < Size
      /\ \A b \in Block, s \in Slot : buffer[b][s] \in Nat
      /\ \A n \in 1 .. Len(file) : file[n] \in Nat
      /\ \A k \in Stored : queue[k].frame \in Nat
  BY Numbers
<1>4. f \in Nat /\ f <= made
  BY <1>2, <1>3 DEF OrderInv, StoredLast
<1>5. write_idx \in Slot
  BY <1>3 DEF Slot
<1>6. /\ \A s \in Slot : buffer'[Reading][s] = buffer[Reading][s]
      /\ \A s \in Filled : buffer'[write_ptr][s] = buffer[write_ptr][s]
      /\ buffer'[write_ptr][write_idx] = f
  <2>1. buffer' = [buffer EXCEPT ![write_ptr][write_idx] = f]
    BY DEF HandleStore
  <2> QED
    BY <1>3, <1>5, <2>1 DEF TypeOK, Filled
<1>7. \A k \in Stored' : f < queue'[k].frame /\ queue'[k].frame \in Nat
  BY <1>2, <1>3 DEF OrderInv, InOrder
<1>8. \A s \in Filled : buffer[write_ptr][s] < f
  BY <1>2 DEF OrderInv, FilledFirst
<1>9. \A s \in Unread : buffer[Reading][s] < f
  BY <1>2 DEF OrderInv, UnreadFirst
<1>10. \A n \in 1 .. Len(file) : file[n] < f
  BY <1>2 DEF OrderInv, FileFirst
<1>11. FileInOrder' /\ \A k, l \in Stored' : k < l => queue'[k].frame < queue'[l].frame
  <2>1. ASSUME NEW k \in Stored', NEW l \in Stored', k < l
        PROVE  queue'[k].frame < queue'[l].frame
    BY <1>2, <2>1 DEF OrderInv, InOrder
  <2> QED
    BY <1>1, <2>1 DEF OrderInv, InOrder, FileInOrder
<1>12. StoredLast'
  BY <1>1, <1>2 DEF OrderInv, StoredLast
<1> HIDE DEF f
<1>13. CASE ~BlockFull
  <2>1. UNCHANGED <<write_ptr, data_ready>> /\ write_idx' = write_idx + 1
    BY <1>13 DEF HandleStore
  <2>2. UNCHANGED <<Reading, Unread>>
    BY <1>1, <2>1 DEF Reading, Unread
  <2>3. \A s \in Filled' : (s \in Filled \/ s = write_idx) /\ s \in Nat
    BY <1>3, <2>1 DEF Filled
  <2>4. \A s \in Filled : s < write_idx
    BY DEF Filled
  <2>5. \A s \in Unread : s \in Slot
    BY DEF Unread
  <2>6. \A s \in Filled : s \in Slot /\ buffer[write_ptr][s] \in Nat
    BY <1>3 DEF Filled
  <2>7. \A s, t \in Filled' : s < t => buffer'[write_ptr'][s] < buffer'[write_ptr'][t]
    <3> SUFFICES ASSUME NEW s \in Filled', NEW t \in Filled', s < t
                 PROVE  buffer'[write_ptr][s] < buffer'[write_ptr][t]
      BY <2>1
    <3>1. s \in Filled
      BY <1>3, <2>3, <2>4
    <3>2. CASE t \in Filled
      BY <1>6, <3>1, <3>2 DEF OrderInv, InOrder
    <3>3. CASE t = write_idx
      BY <1>6, <1>8, <3>1, <3>3
    <3> QED
      BY <2>3, <3>2, <3>3
  <2>8. InOrder'
    BY <1>1, <1>6, <1>11, <2>1, <2>2, <2>5, <2>7 DEF OrderInv, InOrder
  <2>9. \A s \in Filled' :
          \/ buffer'[write_ptr'][s] = f
          \/ s \in Filled /\ buffer'[write_ptr'][s] = buffer[write_ptr][s]
    BY <1>6, <2>1, <2>3
  <2>10. FileFirst'
    <3> SUFFICES ASSUME NEW n \in 1 .. Len(file)
                 PROVE  /\ \A s \in Unread : file[n] < buffer'[Reading][s]
                        /\ \A s \in Filled' : file[n] < buffer'[write_ptr'][s]
                        /\ \A k \in Stored' : file[n] < queue'[k].frame
                        /\ file[n] <= made
      BY <1>1, <2>2 DEF FileFirst
    <3>1. /\ \A s \in Unread : file[n] < buffer'[Reading][s]
          /\ file[n] <= made
      BY <1>6, <2>5 DEF OrderInv, FileFirst
    <3>2. \A s \in Filled' : file[n] < buffer'[write_ptr'][s]
      BY <1>10, <2>9 DEF OrderInv, FileFirst
    <3>3. \A k \in Stored' : file[n] < queue'[k].frame
      BY <1>2 DEF OrderInv, FileFirst
    <3> QED
      BY <3>1, <3>2, <3>3
  <2>11. UnreadFirst'
    BY <1>1, <1>2, <1>6, <1>9, <2>2, <2>5, <2>9 DEF OrderInv, UnreadFirst
  <2>12. FilledFirst'
    <3>1. \A s \in Filled' : buffer'[write_ptr'][s] <= f
      BY <1>4, <1>8, <2>6, <2>9
    <3>2. \A s \in Filled' : buffer'[write_ptr'][s] \in Nat
      BY <1>4, <2>6, <2>9
    <3>3. ASSUME NEW s \in Filled'
          PROVE  /\ \A k \in Stored' : buffer'[write_ptr'][s] < queue'[k].frame
                 /\ buffer'[write_ptr'][s] <= made
      BY <1>3, <1>4, <1>7, <3>1, <3>2
    <3> QED
      BY <1>1, <3>3 DEF FilledFirst
  <2> QED
    BY <1>12, <2>8, <2>10, <2>11, <2>12 DEF OrderInv
<1>14. CASE BlockFull /\ ~data_ready
  <2>1. /\ st \notin {"open", "write"} /\ write_idx' = 0 /\ data_ready' = TRUE
        /\ write_ptr' = Reading
    BY <1>14 DEF HandleStore, Races, Exchanged, Reading
  <2>2. Reading' = write_ptr /\ Filled' = {} /\ Unread' = Slot
    BY <1>3, <2>1 DEF Reading, Filled, Unread
  <2>3. \A s \in Slot : s \in Filled \/ s = write_idx
    BY <1>3, <1>14 DEF BlockFull, Filled
  <2>4. \A s \in Filled : s < write_idx /\ s \in Slot
    BY DEF Filled
  <2>5. \A s \in Slot : \/ s \in Filled /\ buffer'[write_ptr][s] = buffer[write_ptr][s]
                        \/ s = write_idx /\ buffer'[write_ptr][s] = f
    BY <1>6, <2>3
  <2>6. \A s \in Slot : buffer'[write_ptr][s] \in Nat /\ buffer'[write_ptr][s] <= f
    BY <1>3, <1>4, <1>8, <2>4, <2>5
  <2>7. \A s, t \in Slot : s < t => buffer'[write_ptr][s] < buffer'[write_ptr][t]
    <3> SUFFICES ASSUME NEW s \in Slot, NEW t \in Slot, s < t
                 PROVE  buffer'[write_ptr][s] < buffer'[write_ptr][t]
      OBVIOUS
    <3>1. s \in Filled
      BY <1>3, <2>3, <2>4
    <3>2. CASE t \in Filled
      BY <1>6, <3>1, <3>2 DEF OrderInv, InOrder
    <3>3. CASE t = write_idx
      BY <1>6, <1>8, <3>1, <3>3
    <3> QED
      BY <2>3, <3>2, <3>3
  <2>8. InOrder'
    BY <1>1, <1>11, <2>1, <2>2, <2>7 DEF InOrder
  <2>9. FileFirst'
    BY <1>1, <1>2, <1>10, <2>2, <2>5 DEF OrderInv, FileFirst
  <2>10. UnreadFirst'
    <3>1. ASSUME NEW s \in Slot
          PROVE  /\ \A k \in Stored' : buffer'[write_ptr][s] < queue'[k].frame
                 /\ buffer'[write_ptr][s] <= made
      BY <1>3, <1>4, <1>7, <2>6
    <3> QED
      BY <1>1, <2>2, <3>1 DEF UnreadFirst
  <2>11. FilledFirst'
    BY <2>2 DEF FilledFirst
  <2> QED
    BY <1>12, <2>8, <2>9, <2>10, <2>11 DEF OrderInv
<1>15. CASE BlockFull /\ data_ready
  <2>1. UNCHANGED <<write_ptr, data_ready>> /\ write_idx' = 0
    BY <1>15 DEF HandleStore
  <2>2. UNCHANGED <<Reading, Unread>>
    BY <1>1, <2>1 DEF Reading, Unread
  <2>3. Filled' = {}
    BY <1>3, <2>1 DEF Filled
  <2>4. \A s \in Unread : s \in Slot
    BY DEF Unread
  <2>5. InOrder'
    BY <1>1, <1>6, <1>11, <2>1, <2>2, <2>3, <2>4 DEF OrderInv, InOrder
  <2>6. FileFirst'
    BY <1>1, <1>2, <1>6, <2>2, <2>3, <2>4 DEF OrderInv, FileFirst
  <2>7. UnreadFirst'
    BY <1>1, <1>2, <1>6, <2>2, <2>3, <2>4 DEF OrderInv, UnreadFirst
  <2>8. FilledFirst'
    BY <2>3 DEF FilledFirst
  <2> QED
    BY <1>12, <2>5, <2>6, <2>7, <2>8 DEF OrderInv
<1> QED
  BY <1>13, <1>14, <1>15

(* The storage thread begins with a block, or leaves it.                   *)
LEMMA LessUnreadKeepsOrder ==
  ASSUME OrderInv, UNCHANGED <<made, queue, buffer, write_ptr, write_idx>>,
         Unread' \subseteq Unread, data_ready' => st' \notin {"open", "write"},
         UNCHANGED file \/ file' = <<>>
  PROVE  OrderInv'
<1>1. UNCHANGED <<Reading, Filled, Stored>>
  BY DEF Reading, Filled, Stored, Places
<1>2. CASE UNCHANGED file
  BY <1>1, <1>2 DEF OrderInv, InOrder, FileInOrder, FileFirst, UnreadFirst, FilledFirst, StoredLast
<1>3. CASE file' = <<>>
  <2>1. Len(file') = 0
    BY <1>3, EmptySeq
  <2> QED
    BY <1>1, <2>1 DEF OrderInv, InOrder, FileInOrder, FileFirst, UnreadFirst, FilledFirst, StoredLast
<1> QED
  BY <1>2, <1>3

LEMMA WriteKeepsOrder ==
  ASSUME TInv, OrderInv, WriteFrame
  PROVE  OrderInv'
<1> DEFINE v == buffer[Reading][i]
<1>0. TypeOK
  BY DEF TInv
<1>1. /\ UNCHANGED <<made, queue, buffer, write_ptr, write_idx>>
      /\ UNCHANGED data_ready
      /\ st = "write" /\ file' = Append(file, v) /\ i' = i + 1
      /\ st' = IF i + 1 = Size THEN "test" ELSE "write"
  BY StorageLeaves DEF StorageStep, WriteFrame, Reading
<1>2. UNCHANGED <<Reading, Filled, Stored>>
  BY <1>1 DEF Reading, Filled, Stored, Places
<1>3. /\ i \in Slot /\ i \in Nat /\ Len(file) \in Nat /\ Reading \in Block
      /\ \A s \in Slot : s \in Nat
      /\ \A n \in 1 .. Len(file) : file[n] \in Nat
  BY <1>0, <1>1, Numbers DEF TInv, Slot
<1>4. i \in Unread /\ ~data_ready
  BY <1>1, <1>3 DEF Unread, OrderInv, InOrder
<1>5. \A s \in Unread' : s \in Unread /\ i < s
  BY <1>1, <1>3, <1>4 DEF Unread
<1>6. v \in Frame
  BY <1>0, <1>3 DEF TypeOK
<1>7. /\ Len(file') = Len(file) + 1
      /\ \A n \in 1 .. Len(file) : file'[n] = file[n]
      /\ file'[Len(file) + 1] = v
  BY <1>0, <1>1, <1>6, AppendProperties DEF TypeOK
<1>8. \A n \in 1 .. Len(file) : file[n] < v
  BY <1>4 DEF OrderInv, FileFirst
<1>9. /\ \A s \in Unread' : v < buffer[Reading][s]
      /\ \A s \in Filled : v < buffer[write_ptr][s]
      /\ \A k \in Stored : v < queue[k].frame
      /\ v <= made
  BY <1>4, <1>5 DEF OrderInv, InOrder, UnreadFirst
<1> HIDE DEF v
<1>10. FileInOrder'
  <2> SUFFICES ASSUME NEW n \in 1 .. Len(file') - 1
               PROVE  file'[n] < file'[n + 1]
    BY DEF FileInOrder
  <2>1. CASE n = Len(file)
    BY <1>3, <1>7, <1>8, <2>1
  <2>2. CASE n < Len(file)
    <3>1. n \in 1 .. Len(file) - 1 /\ n \in 1 .. Len(file) /\ n + 1 \in 1 .. Len(file)
      BY <1>3, <1>7, <2>2
    <3> QED
      BY <1>7, <3>1 DEF OrderInv, InOrder, FileInOrder
  <2> QED
    BY <1>3, <1>7, <2>1, <2>2
<1>11. InOrder'
  BY <1>1, <1>2, <1>4, <1>5, <1>10 DEF OrderInv, InOrder
<1>12. FileFirst'
  <2>1. \A n \in 1 .. Len(file') : (n \in 1 .. Len(file) /\ file'[n] = file[n]) \/ file'[n] = v
    BY <1>3, <1>7
  <2> QED
    BY <1>1, <1>2, <1>5, <1>9, <2>1 DEF OrderInv, FileFirst
<1>13. UnreadFirst' /\ FilledFirst' /\ StoredLast'
  BY <1>1, <1>2, <1>5 DEF OrderInv, UnreadFirst, FilledFirst, StoredLast
<1> QED
  BY <1>11, <1>12, <1>13 DEF OrderInv

LEMMA OrderStep ==
  ASSUME TInv, OrderInv, [Next]_vars, "block" \notin races'
  PROVE  OrderInv'
<1>0. TypeOK
  BY DEF TInv
<1>1. CASE CaptureFrame \/ HandleWatch \/ HandleStatus \/ HandleStore
  BY <1>0, <1>1, CaptureKeepsOrder, QueueStepKeepsOrder, StoreKeepsOrder
<1>2. CASE TakeUpdate \/ DecodeFails
  BY <1>2, LessUnreadKeepsOrder DEF TakeUpdate, DecodeFails, alarmSame, storageSame, blockVars,
     threadVars, Unread, OrderInv, InOrder
<1>3. CASE SendVerdict
  <2>1. PICK s \in Move_Detect : queue' = Sent(queue, [type |-> "ALARM", sent |-> s])
    BY <1>3 DEF SendVerdict
  <2>2. [type |-> "ALARM", sent |-> s] \in Message
    BY <2>1 DEF Move_Detect, Status, Message
  <2>3. \A k \in 1 .. Len(queue') :
          \/ k \in 1 .. Len(queue) /\ queue'[k] = queue[k]
          \/ k = Len(queue) + 1 /\ queue'[k] = [type |-> "ALARM", sent |-> s]
    BY <1>0, <2>1, <2>2, SentProperties DEF TypeOK
  <2>4. \A k \in Stored' : k \in Stored /\ queue'[k] = queue[k]
    BY <2>3 DEF Stored, Places
  <2>5. UNCHANGED <<made, buffer, write_ptr, write_idx, data_ready, st, i, file>>
    BY <1>3 DEF SendVerdict, alarmSame, storageSame, blockVars, threadVars
  <2>6. UNCHANGED <<Reading, Unread, Filled, FileInOrder>>
    BY <2>5 DEF Reading, Unread, Filled, FileInOrder
  <2> QED
    BY <2>4, <2>5, <2>6 DEF OrderInv, InOrder, FileFirst, UnreadFirst, FilledFirst, StoredLast
<1>4. CASE BeginBlock \/ OpenFile \/ TestEnd \/ CountDown \/ CloseFile
  <2>1. UNCHANGED <<made, queue, buffer, write_ptr, write_idx>>
    BY <1>4, StorageLeaves DEF StorageStep
  <2>2. /\ Unread' \subseteq Unread /\ (data_ready' => st' \notin {"open", "write"})
        /\ UNCHANGED file \/ file' = <<>>
    BY <1>4 DEF BeginBlock, OpenFile, TestEnd, CountDown, CloseFile, Unread, OrderInv, InOrder
  <2> QED
    BY <2>1, <2>2, LessUnreadKeepsOrder
<1>5. CASE WriteFrame
  BY <1>5, WriteKeepsOrder
<1>6. CASE UNCHANGED vars
  BY <1>6, LessUnreadKeepsOrder DEF vars, blockVars, threadVars, Unread, OrderInv, InOrder
<1> QED
  BY <1>1, <1>2, <1>3, <1>4, <1>5, <1>6 DEF Next

(* The frames of a file are in the order they were taken: two blocks are   *)
(* neither mixed nor written over while they are read, until the blocks are*)
(* exchanged under the storage thread.                                     *)
THEOREM RecordingInOrder == Spec => []RecordedInOrder
<1> DEFINE I == TInv /\ ("block" \notin races => OrderInv)
<1>1. Init => I
  BY TypeInit, OrderInit
<1>2. I /\ [Next]_vars => I'
  <2> SUFFICES ASSUME TInv, "block" \notin races => OrderInv, [Next]_vars
               PROVE  TInv' /\ ("block" \notin races' => OrderInv')
    OBVIOUS
  <2>1. races \subseteq races'
    BY RacesStay DEF TInv
  <2> QED
    BY <2>1, TypeStep, OrderStep
<1>3. I => RecordedInOrder
  BY DEF OrderInv, InOrder, RecordedInOrder
<1> QED
  BY <1>1, <1>2, <1>3, PTL DEF Spec
=============================================================================
