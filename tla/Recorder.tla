------------------------------ MODULE Recorder ------------------------------
(***************************************************************************)
(* From the camera to a recording:                                         *)
(*   src/src/alarm/alarm.cpp, image_process.cpp   one frame a second is    *)
(*       compared with the one before; the verdict goes to the storage     *)
(*   src/src/storage/storage_video.cpp, ffmpeg_muxer.cpp   every frame goes*)
(*       into a double buffer of blocks; the thread writes a full block to *)
(*       a file while there is motion and one block longer.                *)
(*                                                                         *)
(* The verdict is sent as a pointer to a local variable of the alarm       *)
(* thread.  The storage thread takes the lock only to begin with a block:  *)
(* it reads the block through read_ptr, and tests and decrements           *)
(* post_record_count, while the handler may change both.  All these windows*)
(* are open; races remembers through which of them somebody came:          *)
(*   "verdict"  a frame was sent to the alarm before the storage had read  *)
(*              the verdict on the one before                              *)
(*   "block"    the blocks were exchanged while one was opened or written  *)
(*   "test"     motion was reported after the test for the end of a        *)
(*              recording and before its effect                            *)
(*   "brief"    motion was reported and taken back while one block was     *)
(*              written                                                    *)
(* The program runs throughout; log messages are left out.                 *)
(***************************************************************************)
EXTENDS Integers, Sequences

CONSTANTS Frames,     \* how many frames the camera makes
          Size,       \* MAXSIZE
          QueueCap,
          MaxFail     \* how often a file cannot be opened

ASSUME RecorderAssumption ==
  /\ Frames \in Nat /\ Size \in Nat \ {0} /\ QueueCap \in Nat \ {0}
  /\ MaxFail \in Nat

VARIABLES
  made,             \* the last frame of the camera
  queue,
  frame_buffer, is_updated, at, is_first_frame, alarm_data,   \* alarm
  buffer, write_ptr, write_idx, data_ready,                   \* storage_data
  move_detected, post_record_count, is_recording,
  st, i,            \* storage thread
  fails,
  file,             \* the frames in the file that is open or was last open
  owed,             \* ghost: motion was reported after the storage thread
                    \* has begun with its last block
  misread,          \* ghost: a status was not the one that was sent, or a
                    \* frame was replaced while it was decoded
  races             \* history: the windows somebody came through

alarmVars   == <<frame_buffer, is_updated, at, is_first_frame, alarm_data>>
blockVars   == <<buffer, write_ptr, write_idx>>
motionVars  == <<move_detected, owed>>
threadVars  == <<is_recording, st, i, fails, file>>
vars == <<made, queue, alarmVars, blockVars, data_ready, motionVars,
          post_record_count, threadVars, misread, races>>

Status  == {"SAFE", "MOVED"}
Frame   == 0 .. Frames
Block   == {"A", "B"}
Slot    == 0 .. Size - 1
Message == [type : {"STORE", "WATCH"}, frame : Frame]
             \cup [type : {"ALARM"}, sent : Status]
Race    == {"verdict", "block", "test", "brief"}

TypeOK ==
  /\ made \in Frame
  /\ queue \in Seq(Message) /\ Len(queue) <= QueueCap
  /\ frame_buffer \in Frame /\ is_updated \in BOOLEAN
  /\ at \in {"wait", "decode"} /\ is_first_frame \in BOOLEAN
  /\ alarm_data \in Status
  /\ buffer \in [Block -> [Slot -> Frame]]
  /\ write_ptr \in Block /\ write_idx \in Slot
  /\ data_ready \in BOOLEAN
  /\ move_detected \in BOOLEAN /\ post_record_count \in {0, 1}
  /\ is_recording \in BOOLEAN
  /\ st \in {"wait", "open", "write", "test", "count", "close"}
  /\ i \in 0 .. Size
  /\ fails \in 0 .. MaxFail
  /\ file \in Seq(Frame)
  /\ owed \in BOOLEAN /\ misread \in BOOLEAN
  /\ races \subseteq Race

Init ==
  /\ made = 0 /\ queue = <<>>
  /\ frame_buffer = 0 /\ is_updated = FALSE
  /\ at = "wait" /\ is_first_frame = TRUE /\ alarm_data \in Status
  /\ buffer = [b \in Block |-> [s \in Slot |-> 0]]
  /\ write_ptr = "A" /\ write_idx = 0 /\ data_ready = FALSE
  /\ move_detected = FALSE /\ post_record_count = 0
  /\ is_recording = FALSE /\ st = "wait" /\ i = 0
  /\ fails = 0 /\ file = <<>>
  /\ owed = FALSE /\ misread = FALSE /\ races = {}

Other(b) == IF b = "A" THEN "B" ELSE "A"

(* The race is remembered when it has happened.                            *)
Races(race, happened) == races' = IF happened THEN races \cup {race} ELSE races

-----------------------------------------------------------------------------
(* The camera                                                              *)

(* msg_send; what does not fit is dropped.                                 *)
Sent(q, m) == IF Len(q) < QueueCap THEN Append(q, m) ELSE q

(* Nothing of the frame that was sent to the alarm last is under way any   *)
(* more.                                                                   *)
LastIsJudged ==
  /\ at = "wait" /\ ~is_updated
  /\ \A k \in 1 .. Len(queue) : queue[k].type = "STORE"

(* camera_capture_thread: each frame to the storage, one a second to the   *)
(* alarm, however long the others take.                                    *)
CaptureFrame ==
  /\ made < Frames
  /\ made' = made + 1
  /\ LET stored  == Sent(queue, [type |-> "STORE", frame |-> made + 1])
         watched == Sent(stored, [type |-> "WATCH", frame |-> made + 1])
     IN  \/ queue' = stored /\ UNCHANGED races
         \/ queue' = watched /\ Races("verdict", ~LastIsJudged)
  /\ UNCHANGED <<alarmVars, blockVars, data_ready, motionVars,
                 post_record_count, threadVars, misread>>

-----------------------------------------------------------------------------
(* The alarm                                                               *)

storageSame == <<made, blockVars, data_ready, motionVars, post_record_count,
                 threadVars>>
alarmSame == <<storageSame, misread, races>>

(* alarm_msg_handler; the frame is decoded without the lock.               *)
HandleWatch ==
  /\ queue # <<>> /\ Head(queue).type = "WATCH"
  /\ queue' = Tail(queue)
  /\ frame_buffer' = Head(queue).frame
  /\ is_updated' = TRUE
  /\ misread' = (misread \/ at = "decode")
  /\ UNCHANGED <<at, is_first_frame, alarm_data, races, storageSame>>

(* Mutant: is_updated is not cleared.                                      *)
UpdateTakenNot == UNCHANGED is_updated

UpdateTaken == is_updated' = FALSE

(* process_image_thread leaves its wait ...                                *)
TakeUpdate ==
  /\ at = "wait"
  /\ is_updated
  /\ UpdateTaken
  /\ at' = "decode"
  /\ UNCHANGED <<queue, frame_buffer, is_first_frame, alarm_data, alarmSame>>

(* ... cannot decode the frame ...                                         *)
DecodeFails ==
  /\ at = "decode"
  /\ at' = "wait"
  /\ UNCHANGED <<queue, frame_buffer, is_updated, is_first_frame, alarm_data,
                 alarmSame>>

(* What comparing it with the one before may say; the first one is safe.   *)
Move_Detect == IF is_first_frame THEN {"SAFE"} ELSE Status

(* ... or compares it and sends the address of the verdict.                *)
SendVerdict ==
  /\ at = "decode"
  /\ at' = "wait"
  /\ is_first_frame' = FALSE
  /\ \E s \in Move_Detect :
       /\ alarm_data' = s
       /\ queue' = Sent(queue, [type |-> "ALARM", sent |-> s])
  /\ UNCHANGED <<frame_buffer, is_updated, alarmSame>>

-----------------------------------------------------------------------------
(* storage_msg_handler                                                     *)

handlerSame == <<made, alarmVars, threadVars>>

(* Mutant: one place too many.                                             *)
BlockFullOffByOne == write_idx >= Size

BlockFull == write_idx + 1 >= Size

(* Mutant: the pointers are not exchanged.                                 *)
ExchangedNot == UNCHANGED write_ptr

Exchanged == write_ptr' = Other(write_ptr)

(* A frame: the block is exchanged when it is full, or filled again from   *)
(* its start when the other one has not been read.                         *)
HandleStore ==
  /\ queue # <<>> /\ Head(queue).type = "STORE"
  /\ queue' = Tail(queue)
  /\ buffer' = [buffer EXCEPT ![write_ptr][write_idx] = Head(queue).frame]
  /\ write_idx' = IF BlockFull THEN 0 ELSE write_idx + 1
  /\ IF BlockFull /\ ~data_ready
       THEN /\ Exchanged /\ data_ready' = TRUE
            /\ Races("block", st \in {"open", "write"})
       ELSE UNCHANGED <<write_ptr, data_ready, races>>
  /\ UNCHANGED <<motionVars, post_record_count, misread, handlerSame>>

(* Mutant: post_record_count is not set.                                   *)
PostAfterNone(s) == post_record_count

PostAfter(s) == IF s = "MOVED" THEN 1 ELSE post_record_count

(* A status comes through one of the windows of the storage thread.        *)
StatusRaces ==
  IF alarm_data = "MOVED"
    THEN Races("test", st = "count")
    ELSE Races("brief", owed /\ st \in {"open", "write", "test"})

(* A status, read through the pointer.                                     *)
HandleStatus ==
  /\ queue # <<>> /\ Head(queue).type = "ALARM"
  /\ queue' = Tail(queue)
  /\ move_detected' = (alarm_data = "MOVED")
  /\ post_record_count' = PostAfter(alarm_data)
  /\ owed' = (owed \/ alarm_data = "MOVED")
  /\ misread' = (misread \/ alarm_data # Head(queue).sent)
  /\ StatusRaces
  /\ UNCHANGED <<blockVars, data_ready, handlerSame>>

-----------------------------------------------------------------------------
(* storage_video_thread                                                    *)

storeSame == <<made, queue, alarmVars, blockVars, misread, races>>

ShouldSave == move_detected \/ post_record_count > 0

(* Under the lock: a block is ready.  Nothing closes a file here, since fp *)
(* is only used in the other build.                                        *)
BeginBlock ==
  /\ st = "wait"
  /\ data_ready
  /\ data_ready' = FALSE
  /\ owed' = FALSE
  /\ st' = IF ~ShouldSave THEN "wait" ELSE IF is_recording THEN "write" ELSE "open"
  /\ i' = 0
  /\ UNCHANGED <<move_detected, post_record_count, is_recording, fails, file,
                 storeSame>>

(* ffmpeg_muxer_init; after a failure the block is skipped.                *)
OpenFile ==
  /\ st = "open"
  /\ \/ /\ is_recording' = TRUE
        /\ file' = <<>>
        /\ st' = "write"
        /\ UNCHANGED fails
     \/ /\ fails < MaxFail
        /\ fails' = fails + 1
        /\ st' = "test"
        /\ UNCHANGED <<is_recording, file>>
  /\ UNCHANGED <<i, data_ready, motionVars, post_record_count, storeSame>>

(* ffmpeg_muxer_write: a frame, through read_ptr as it is now.             *)
WriteFrame ==
  /\ st = "write"
  /\ file' = Append(file, buffer[Other(write_ptr)][i])
  /\ i' = i + 1
  /\ st' = IF i + 1 = Size THEN "test" ELSE "write"
  /\ UNCHANGED <<is_recording, fails, data_ready, motionVars,
                 post_record_count, storeSame>>

(* Mutant: the motion is not looked at again.                              *)
EndOfMotionForgotten == post_record_count > 0

EndOfMotion == ~move_detected /\ post_record_count > 0

(* Without the lock: is this the last block of the recording? ...          *)
TestEnd ==
  /\ st = "test"
  /\ st' = IF EndOfMotion THEN "count" ELSE "wait"
  /\ UNCHANGED <<i, is_recording, fails, file, data_ready, motionVars,
                 post_record_count, storeSame>>

(* ... then post_record_count--, a load and a store in the code: a status  *)
(* that comes between the two is lost like one that comes before ...       *)
CountDown ==
  /\ st = "count"
  /\ st' = "close"
  /\ post_record_count' = post_record_count - 1
  /\ UNCHANGED <<i, is_recording, fails, file, data_ready, motionVars, storeSame>>

(* ... and ffmpeg_muxer_close, if it is still 0.                           *)
CloseFile ==
  /\ st = "close"
  /\ is_recording' = (is_recording /\ post_record_count # 0)
  /\ st' = "wait"
  /\ UNCHANGED <<i, fails, file, data_ready, motionVars, post_record_count,
                 storeSame>>

Next ==
  \/ CaptureFrame
  \/ HandleWatch \/ TakeUpdate \/ DecodeFails \/ SendVerdict
  \/ HandleStore \/ HandleStatus
  \/ BeginBlock \/ OpenFile \/ WriteFrame \/ TestEnd \/ CountDown
  \/ CloseFile

Spec == Init /\ [][Next]_vars

-----------------------------------------------------------------------------
(* Properties                                                              *)

(* A file holds frames in the order they were taken, none twice: blocks are*)
(* neither mixed nor written over while they are read, unless the disk is  *)
(* so slow that the next block was complete before this one was written.   *)
FileInOrder == \A k \in 1 .. Len(file) - 1 : file[k] < file[k + 1]

RecordedInOrder == "block" \notin races => FileInOrder

(* A status is that of one frame, and the storage reads the one the alarm  *)
(* has sent: although the frame is decoded in a buffer the handler writes  *)
(* to, and the status read through a pointer to a local variable that is   *)
(* used again for the next frame.  Only a second frame that is sent while  *)
(* the first one is on its way can spoil it.                               *)
StatusAsSent == "verdict" \notin races => ~misread

(* Motion is recorded: once it has been reported, the block that is taken  *)
(* next is saved, even when the status has gone back to SAFE meanwhile.    *)
(* This is what storage_video.cpp:91 says.                                 *)
MotionRecorded == owed => move_detected \/ post_record_count > 0

(* It is so unless the report came between the test for the end of a       *)
(* recording and the count, or was taken back within one block.            *)
MotionKept == races \cap {"test", "brief"} = {} => MotionRecorded

(* A file that is open between two blocks has somebody to close it: there  *)
(* is motion, or a block is still to be written after it.  This is what    *)
(* storage_video.cpp:92 says.                                              *)
OpenFileEnds ==
  is_recording /\ st = "wait" => move_detected \/ post_record_count > 0

(* It is so unless motion was reported between the test for the end and the*)
(* count: the count of that motion is gone, and nothing closes the file    *)
(* that is opened for it.                                                  *)
FileWillClose == "test" \notin races => OpenFileEnds
=============================================================================
