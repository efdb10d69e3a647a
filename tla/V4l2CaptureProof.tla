-------------------------- MODULE V4l2CaptureProof --------------------------
(***************************************************************************)
(* Proofs about V4l2Capture for every number of buffers and every length   *)
(* of the queue.                                                           *)
(*                                                                         *)
(* The counter of a buffer is right until an unlocked increment and a      *)
(* decrement of it overlap: there is no other way to lose a count, whatever*)
(* the clock says and whichever loans the queue refuses.  Run              *)
(* capture_counter shows the overlap.                                      *)
(***************************************************************************)
EXTENDS V4l2Capture, SequenceTheorems, FiniteSetTheorems, TLAPS

(* Who holds the lock, and what a thread is about to release.              *)
TInv ==
  /\ TypeOK
  /\ cam \in {"program", "store", "refused", "reset"} => latest_index \in Buf
  /\ dlv \in {"release", "reset"} => hand \in Buf
  /\ dlv \in {"loop", "receive", "done"} => hand = Nothing
  /\ dlv = "handling" => hand # Nothing
  /\ lock = "camera" <=> cam = "reset"
  /\ lock = "deliver" <=> dlv = "reset"

(* The camera thread counts at 1, 2 and 6 and sends at 3, 4 and 7.         *)
AtPlace ==
  /\ at \in 1 .. 7
  /\ cam = "store" => at \in {1, 2, 6}
  /\ cam \in {"refused", "reset"} => at \in {3, 4, 7}

(* The loaded counters are the counters still.                             *)
Loaded ==
  /\ cam \in {"store", "reset"} => reg["camera"] = counter[latest_index]
  /\ dlv = "reset" => reg["deliver"] = counter[hand]

(* The loans that are out and those counted ahead, as numbers: how often b *)
(* is in the queue, at the delivery thread, with the camera thread that has*)
(* been refused, and how far it has counted more than it has sent.         *)
Count(q, b) == Cardinality({i \in 1 .. Len(q) : q[i] = b})
InHand(b)   == IF hand = b THEN 1 ELSE 0
Refused(b)  == IF cam \in {"refused", "reset"} /\ latest_index = b THEN 1 ELSE 0
Publishing(b) ==
  latest_index = b /\ cam \in {"program", "store", "refused", "reset"}
Ahead ==
  IF cam \in {"refused", "reset"} THEN (IF at = 3 THEN 1 ELSE 0)
  ELSE IF at <= 3 THEN at - 1 ELSE IF at \in {4, 7} THEN 1 ELSE 0

CountRight ==
  \A b \in Buf : counter[b] = Count(queue, b) + InHand(b) + Refused(b)
                                + (IF Publishing(b) THEN Ahead ELSE 0)

(* The two threads are in the middle of different counters.                *)
Apart == cam = "store" /\ dlv = "reset" => hand # latest_index

(* Nothing is said once increment and decrement have met, or the module has*)
(* ended.                                                                  *)
Good == ~raced /\ cam # "done"

CInv == AtPlace /\ (Good => Loaded /\ Apart /\ CountRight)

-----------------------------------------------------------------------------
(* How often b is in q                                                     *)

LEMMA CountType ==
  ASSUME NEW T, NEW q \in Seq(T), NEW b
  PROVE  /\ IsFiniteSet({i \in 1 .. Len(q) : q[i] = b})
         /\ Count(q, b) \in Nat
<1> DEFINE S == {i \in 1 .. Len(q) : q[i] = b}
<1>1. IsFiniteSet(1 .. Len(q))
  BY LenProperties, FS_Interval
<1>2. S \in SUBSET (1 .. Len(q))
  OBVIOUS
<1>3. IsFiniteSet(S)
  BY <1>1, <1>2, FS_Subset
<1>4. Cardinality(S) \in Nat
  BY <1>3, FS_CardinalityType
<1> QED
  BY <1>3, <1>4 DEF Count

LEMMA CountEmpty ==
  ASSUME NEW b
  PROVE  Count(<<>>, b) = 0
<1>1. {i \in 1 .. Len(<<>>) : <<>>[i] = b} = {}
  BY EmptySeq
<1> QED
  BY <1>1, FS_EmptySet DEF Count

LEMMA CountAppend ==
  ASSUME NEW T, NEW q \in Seq(T), NEW x \in T, NEW b
  PROVE  Count(Append(q, x), b) = Count(q, b) + (IF x = b THEN 1 ELSE 0)
<1> DEFINE S == {i \in 1 .. Len(q) : q[i] = b}
           R == {i \in 1 .. Len(Append(q, x)) : Append(q, x)[i] = b}
<1>1. /\ Len(q) \in Nat /\ Len(Append(q, x)) = Len(q) + 1
      /\ \A i \in 1 .. Len(q) : Append(q, x)[i] = q[i]
      /\ Append(q, x)[Len(q) + 1] = x
  BY LenProperties, AppendProperties
<1>2. IsFiniteSet(S)
  BY ONLY q \in Seq(T), CountType, Zenon
<1>5. Cardinality(S) \in Nat /\ Len(q) + 1 \notin S
  BY <1>1, <1>2, FS_CardinalityType
<1>3. CASE x = b
  <2>1. R = S \cup {Len(q) + 1}
    BY <1>1, <1>3
  <2>2. Cardinality(R) = Cardinality(S) + 1
    <3> HIDE DEF S, R
    <3> QED
      BY <1>2, <1>5, <2>1, FS_AddElement
  <2> QED
    BY <1>3, <2>2 DEF Count
<1>4. CASE x # b
  <2>1. R = S
    BY <1>1, <1>4
  <2>2. Count(Append(q, x), b) = Cardinality(S) /\ Count(q, b) = Cardinality(S)
    BY <2>1 DEF Count
  <2> QED
    BY <1>4, <1>5, <2>2
<1> QED
  BY <1>3, <1>4

LEMMA CountTail ==
  ASSUME NEW T, NEW q \in Seq(T), q # <<>>, NEW b
  PROVE  Count(q, b) = Count(Tail(q), b) + (IF Head(q) = b THEN 1 ELSE 0)
<1> DEFINE S == {i \in 1 .. Len(q) : q[i] = b}
           R == {i \in 1 .. Len(Tail(q)) : Tail(q)[i] = b}
           f == [i \in R |-> i + 1]
<1>1. /\ Len(q) \in Nat \ {0} /\ Len(Tail(q)) = Len(q) - 1 /\ Head(q) = q[1]
      /\ Tail(q) \in Seq(T)
      /\ \A i \in 1 .. Len(Tail(q)) : Tail(q)[i] = q[i + 1]
  BY EmptySeq, LenProperties, HeadTailProperties
<1>2. /\ IsFiniteSet(S) /\ Cardinality(S) \in Nat
      /\ IsFiniteSet(R) /\ Cardinality(R) \in Nat
  BY <1>1, CountType DEF Count
<1>3. f \in Bijection(R, S \ {1})
  <2>1. \A i \in R : i \in Nat /\ i + 1 \in S \ {1}
    BY <1>1
  <2>2. f \in [R -> S \ {1}]
    BY <2>1
  <2>3. \A i, j \in R : f[i] = f[j] => i = j
    BY <2>1
  <2>4. \A t \in S \ {1} : t - 1 \in R /\ f[t - 1] = t
    BY <1>1
  <2> HIDE DEF f, R, S
  <2>5. f \in Injection(R, S \ {1})
    BY <2>2, <2>3 DEF Injection, IsInjective
  <2>6. f \in Surjection(R, S \ {1})
    BY <2>2, <2>4 DEF Surjection
  <2> QED
    BY <2>5, <2>6 DEF Bijection
<1> HIDE DEF f
<1>4. Cardinality(S \ {1}) = Cardinality(R)
  BY <1>2, <1>3, FS_Bijection DEF ExistsBijection
<1>5. 1 \in S <=> Head(q) = b
  BY <1>1
<1>6. Cardinality(S \ {1}) = IF 1 \in S THEN Cardinality(S) - 1 ELSE Cardinality(S)
  BY <1>2, FS_RemoveElement
<1> HIDE DEF S, R
<1>7. Cardinality(S) = Cardinality(R) + (IF Head(q) = b THEN 1 ELSE 0)
  BY <1>2, <1>4, <1>5, <1>6
<1> QED
  BY <1>7 DEF Count, S, R

(* The loans and the counted ones, without the sets.                       *)
LEMMA LoansAre ==
  ASSUME NEW b
  PROVE  Loans(b) = Count(queue, b) + InHand(b) + Refused(b)
BY DEF Loans, Count, InHand, Refused

(* What the program has counted and sent up to its place n.                *)
Inc(n) == Cardinality({i \in 1 .. n : Program[i] = "inc"})
Snd(n) == Cardinality({i \in 1 .. n : Program[i] \in Send})

LEMMA ProgramCounts ==
  /\ Inc(0) = 0 /\ Inc(1) = 1 /\ Inc(2) = 2 /\ Inc(3) = 2 /\ Inc(4) = 2
  /\ Inc(5) = 2 /\ Inc(6) = 3
  /\ Snd(0) = 0 /\ Snd(1) = 0 /\ Snd(2) = 0 /\ Snd(3) = 1 /\ Snd(4) = 2
  /\ Snd(5) = 2 /\ Snd(6) = 2 /\ Snd(7) = 3
<1>1. /\ Program[1] = "inc" /\ Program[2] = "inc"
      /\ Program[3] = "UDP" /\ Program[4] = "STORAGE"
      /\ Program[5] = "clock" /\ Program[6] = "inc" /\ Program[7] = "ALARM"
  BY DEF Program
<1>2. /\ {i \in 1 .. 0 : Program[i] = "inc"} = {}
      /\ {i \in 1 .. 1 : Program[i] = "inc"} = {1}
      /\ {i \in 1 .. 2 : Program[i] = "inc"} = {1} \cup {2}
      /\ {i \in 1 .. 3 : Program[i] = "inc"} = {1} \cup {2}
      /\ {i \in 1 .. 4 : Program[i] = "inc"} = {1} \cup {2}
      /\ {i \in 1 .. 5 : Program[i] = "inc"} = {1} \cup {2}
      /\ {i \in 1 .. 6 : Program[i] = "inc"} = ({1} \cup {2}) \cup {6}
  BY <1>1
<1>3. /\ {i \in 1 .. 0 : Program[i] \in Send} = {}
      /\ {i \in 1 .. 1 : Program[i] \in Send} = {}
      /\ {i \in 1 .. 2 : Program[i] \in Send} = {}
      /\ {i \in 1 .. 3 : Program[i] \in Send} = {3}
      /\ {i \in 1 .. 4 : Program[i] \in Send} = {3} \cup {4}
      /\ {i \in 1 .. 5 : Program[i] \in Send} = {3} \cup {4}
      /\ {i \in 1 .. 6 : Program[i] \in Send} = {3} \cup {4}
      /\ {i \in 1 .. 7 : Program[i] \in Send} = ({3} \cup {4}) \cup {7}
  BY <1>1 DEF Send
<1>4. /\ Cardinality({}) = 0 /\ IsFiniteSet({1}) /\ IsFiniteSet({3})
      /\ Cardinality({1}) = 1 /\ Cardinality({3}) = 1
  BY FS_EmptySet, FS_Singleton
<1>5. Cardinality({1} \cup {2}) = 2 /\ IsFiniteSet({1} \cup {2})
  BY <1>4, FS_AddElement
<1>a. Cardinality({3} \cup {4}) = 2 /\ IsFiniteSet({3} \cup {4})
  BY <1>4, FS_AddElement
<1>6. Cardinality(({1} \cup {2}) \cup {6}) = 3
  BY <1>5, FS_AddElement
<1>b. Cardinality(({3} \cup {4}) \cup {7}) = 3
  BY <1>a, FS_AddElement
<1>7. /\ Inc(0) = 0 /\ Inc(1) = 1 /\ Inc(2) = 2 /\ Inc(3) = 2 /\ Inc(4) = 2
      /\ Inc(5) = 2 /\ Inc(6) = 3
  BY <1>2, <1>4, <1>5, <1>6 DEF Inc
<1>8. /\ Snd(0) = 0 /\ Snd(1) = 0 /\ Snd(2) = 0 /\ Snd(3) = 1 /\ Snd(4) = 2
      /\ Snd(5) = 2 /\ Snd(6) = 2 /\ Snd(7) = 3
  BY <1>3, <1>4, <1>a, <1>b DEF Snd
<1> QED
  BY <1>7, <1>8

LEMMA CountedIs ==
  ASSUME AtPlace, NEW b
  PROVE  Counted(b) = IF Publishing(b) THEN Ahead ELSE 0
<1>1. CASE Publishing(b) /\ cam \in {"program", "store"}
  <2>1. Counted(b) = Inc(at - 1) - Snd(at - 1)
    BY <1>1 DEF Counted, Publishing, Inc, Snd
  <2>2. at = 1 \/ at = 2 \/ at = 3 \/ at = 4 \/ at = 5 \/ at = 6 \/ at = 7
    BY DEF AtPlace
  <2> QED
    BY <1>1, <2>1, <2>2, ProgramCounts DEF Ahead
<1>2. CASE Publishing(b) /\ cam \in {"refused", "reset"}
  <2>1. Counted(b) = Inc(at - 1) - Snd(at)
    BY <1>2 DEF Counted, Publishing, Inc, Snd
  <2>2. at = 3 \/ at = 4 \/ at = 7
    BY <1>2 DEF AtPlace
  <2> QED
    BY <1>2, <2>1, <2>2, ProgramCounts DEF Ahead
<1>3. CASE ~Publishing(b)
  BY <1>3 DEF Counted, Publishing
<1> QED
  BY <1>1, <1>2, <1>3 DEF Publishing

-----------------------------------------------------------------------------
(* Type correctness                                                        *)

(* TypeOK in the parts that a step leaves alone or not.                    *)
CountTypes == counter \in [Buf -> Nat] /\ reg \in [Threads -> Nat]
CameraTypes ==
  /\ write_index \in Buf
  /\ latest_index \in Buf \cup {Nothing}
  /\ cam \in {"loop", "copying", "check", "program", "store", "refused",
              "reset", "done"}
  /\ at \in 1 .. Len(Program)
QueueTypes == queue \in Seq(Buf \cup {Other}) /\ Len(queue) <= QueueCap
DeliverTypes ==
  /\ dlv \in {"loop", "receive", "handling", "release", "reset", "done"}
  /\ hand \in Buf \cup {Other, Nothing}
StateTypes ==
  lock \in Threads \cup {"free"} /\ running \in BOOLEAN /\ raced \in BOOLEAN

LEMMA TypeParts ==
  /\ TypeOK <=> CountTypes /\ CameraTypes /\ QueueTypes /\ DeliverTypes /\ StateTypes
  /\ TypeOK' <=> CountTypes' /\ CameraTypes' /\ QueueTypes' /\ DeliverTypes' /\ StateTypes'
BY Zenon DEF TypeOK, CountTypes, CameraTypes, QueueTypes, DeliverTypes, StateTypes

LEMMA PartsStay ==
  /\ CountTypes /\ UNCHANGED <<counter, reg>> => CountTypes'
  /\ CameraTypes /\ UNCHANGED <<write_index, latest_index, cam, at>> => CameraTypes'
  /\ QueueTypes /\ UNCHANGED queue => QueueTypes'
  /\ DeliverTypes /\ UNCHANGED <<dlv, hand>> => DeliverTypes'
  /\ StateTypes /\ UNCHANGED <<lock, running>> /\ raced' \in BOOLEAN => StateTypes'
<1>1. CountTypes /\ UNCHANGED <<counter, reg>> => CountTypes'
  BY DEF CountTypes
<1>2. CameraTypes /\ UNCHANGED <<write_index, latest_index, cam, at>> => CameraTypes'
  BY DEF CameraTypes
<1>3. QueueTypes /\ UNCHANGED queue => QueueTypes'
  BY DEF QueueTypes
<1>4. DeliverTypes /\ UNCHANGED <<dlv, hand>> => DeliverTypes'
  BY DEF DeliverTypes
<1>5. StateTypes /\ UNCHANGED <<lock, running>> /\ raced' \in BOOLEAN => StateTypes'
  BY DEF StateTypes
<1> QED
  BY <1>1, <1>2, <1>3, <1>4, <1>5, Zenon

LEMMA Constants ==
  /\ BufCount \in Nat \ {0} /\ QueueCap \in Nat \ {0}
  /\ 0 \in Buf /\ Other \notin Buf /\ Nothing \notin Buf /\ Other # Nothing
  /\ \A b \in Buf : b \in Nat
  /\ Len(Program) = 7 /\ Threads = {"camera", "deliver"}
BY CaptureAssumption DEF Buf, Other, Nothing, Program, Threads

LEMMA TypeInit == Init => TInv
<1> SUFFICES ASSUME Init PROVE TInv
  OBVIOUS
<1>1. QueueTypes
  BY Constants, EmptySeq DEF Init, QueueTypes
<1>2. CountTypes /\ CameraTypes /\ DeliverTypes /\ StateTypes
  BY Constants DEF Init, CountTypes, CameraTypes, DeliverTypes, StateTypes
<1> QED
  BY <1>1, <1>2, TypeParts DEF Init, TInv

(* The next place, or the next frame.                                      *)
LEMMA AdvanceProperties ==
  ASSUME CameraTypes, Advance
  PROVE  \/ cam' = "loop" /\ at = 7 /\ at' = at
         \/ cam' = "program" /\ at < 7 /\ at' = at + 1 /\ at' \in 1 .. 7
BY Constants DEF CameraTypes, Advance

(* The actions of the camera thread that leave the counters alone ...      *)
CameraMoves ==
  CaptureFrame \/ FrameCopied \/ Publish \/ DropFrame \/ DispatchFull \/ AlarmClock
    \/ CaptureStops

LEMMA CameraMovesLeave ==
  ASSUME CameraMoves
  PROVE  UNCHANGED <<counter, lock, queue, dlv, hand, reg, running>>
BY DEF CameraMoves, CaptureFrame, FrameCopied, Publish, DropFrame, DispatchFull, AlarmClock,
       CaptureStops, deliverVars

(* ... and those of the delivery thread.                                   *)
DeliverMoves == LoopCheck \/ ReceiveNothing \/ HandlerEnds

LEMMA DeliverLeaves ==
  ASSUME DeliverStep \/ OtherSends \/ StopHandler
  PROVE  UNCHANGED <<write_index, latest_index, cam, at>>
BY DEF DeliverStep, LoopCheck, HandlerBegins, ReceiveNothing, HandlerEnds, ReleaseLoad,
       ReleaseStore, OtherSends, StopHandler, cameraVars

(* A race is not forgotten.                                                *)
LEMMA RacedStays ==
  ASSUME raced \in BOOLEAN, [Next]_vars
  PROVE  raced' \in BOOLEAN /\ (raced => raced')
<1>1. CASE IncrementLoad
  BY <1>1 DEF IncrementLoad
<1>2. CASE ReleaseLoad
  BY <1>2 DEF ReleaseLoad
<1>3. CASE ~IncrementLoad /\ ~ReleaseLoad
  <2>1. raced' = raced
    BY <1>3 DEF Next, CameraStep, CaptureFrame, FrameCopied, Publish, DropFrame,
       IncrementStore, Dispatch, DispatchFull, RefusedLoad, RefusedStore, AlarmClock,
       CaptureStops, DeliverStep, LoopCheck, HandlerBegins, ReceiveNothing, HandlerEnds,
       ReleaseStore, OtherSends, StopHandler, vars
  <2> QED
    BY <2>1
<1> QED
  BY <1>1, <1>2, <1>3

LEMMA CameraTypeStep ==
  ASSUME TInv, CameraStep
  PROVE  TInv'
<1>0. CountTypes /\ CameraTypes /\ QueueTypes /\ DeliverTypes /\ StateTypes
  BY TypeParts DEF TInv
<1>m. UNCHANGED <<dlv, hand, running>>
  BY DEF CameraStep, CaptureFrame, FrameCopied, Publish, DropFrame, IncrementLoad,
     IncrementStore, Dispatch, DispatchFull, RefusedLoad, RefusedStore, AlarmClock,
     CaptureStops, deliverVars
<1>l. UNCHANGED <<dlv, hand, running>> /\ raced' \in BOOLEAN
  BY <1>0, <1>m, RacedStays DEF Next, StateTypes
<1>1. CASE CameraMoves
  <2>1. UNCHANGED <<counter, lock, queue, reg>>
    BY <1>1, CameraMovesLeave
  <2>2. CASE Publish
    <3>1. write_index' \in Buf
      <4>1. write_index' = (write_index + 1) % BufCount /\ write_index \in Nat
        BY <1>0, <2>2, Constants DEF Publish, NextIndex, CameraTypes
      <4>2. \A a \in Nat, n \in Nat \ {0} : a % n \in 0 .. n - 1
        OBVIOUS
      <4> QED
        BY <4>1, <4>2, Constants DEF Buf
    <3>2. /\ latest_index' = write_index /\ cam' = "program" /\ at' = 1 /\ cam = "check"
      BY <2>2 DEF Publish
    <3>3. CameraTypes'
      BY <1>0, <3>1, <3>2, Constants DEF CameraTypes
    <3>4. TypeOK'
      BY <1>0, <1>l, <2>1, <3>3, PartsStay, TypeParts
    <3> QED
      BY <1>0, <1>l, <2>1, <3>2, <3>4 DEF TInv, CameraTypes
  <2>3. CASE ~Publish
    <3>1. /\ UNCHANGED <<write_index, latest_index>>
          /\ \/ cam # "reset" /\ cam' \in {"loop", "copying", "check", "done"} /\ at' = at
             \/ cam = "program" /\ cam' = "refused" /\ at' = at
             \/ cam = "program" /\ (Advance \/ (cam' = "loop" /\ at' = at))
      <4>1. CASE AlarmClock
        <5>1. PICK due \in BOOLEAN : IF due THEN Advance ELSE cam' = "loop" /\ at' = at
          BY <4>1, Zenon DEF AlarmClock
        <5>2. Advance \/ (cam' = "loop" /\ at' = at)
          BY <5>1, Zenon
        <5>3. cam = "program" /\ UNCHANGED <<write_index, latest_index>>
          BY <4>1 DEF AlarmClock, indexVars
        <5> QED
          BY <5>2, <5>3
      <4> QED
        BY <1>1, <2>3, <4>1 DEF CameraMoves, CaptureFrame, FrameCopied, DropFrame,
           DispatchFull, CaptureStops, indexVars
    <3>2. /\ at' \in 1 .. 7 /\ cam # "reset"
          /\ \/ cam' \in {"loop", "copying", "check", "done"}
             \/ cam = "program" /\ cam' \in {"refused", "program"}
      BY <1>0, <3>1, AdvanceProperties, Constants DEF CameraTypes
    <3>3. CameraTypes'
      BY <1>0, <3>1, <3>2, Constants DEF CameraTypes
    <3>4. TypeOK'
      BY <1>0, <1>l, <2>1, <3>3, PartsStay, TypeParts
    <3> QED
      BY <1>l, <2>1, <3>1, <3>2, <3>4 DEF TInv
  <2> QED
    BY <2>2, <2>3
<1>2. CASE IncrementLoad
  <2>1. /\ UNCHANGED <<counter, write_index, latest_index, lock, queue, at>>
        /\ cam = "program" /\ cam' = "store"
        /\ reg' = [reg EXCEPT !["camera"] = counter[latest_index]]
    BY <1>2 DEF IncrementLoad, indexVars
  <2>2. CountTypes' /\ CameraTypes'
    BY <1>0, <2>1 DEF CountTypes, CameraTypes, TInv
  <2>3. TypeOK'
    BY <1>0, <1>l, <2>1, <2>2, PartsStay, TypeParts
  <2> QED
    BY <1>l, <2>1, <2>3 DEF TInv
<1>3. CASE IncrementStore
  <2>1. /\ UNCHANGED <<write_index, latest_index, lock, queue, reg>>
        /\ cam = "store" /\ Advance
        /\ counter' = [counter EXCEPT ![latest_index] = reg["camera"] + 1]
    BY <1>3 DEF IncrementStore, indexVars
  <2>2. cam' \in {"loop", "program"} /\ at' \in 1 .. 7
    BY <1>0, <2>1, AdvanceProperties, Constants DEF CameraTypes
  <2>3. CountTypes' /\ CameraTypes'
    <3>1. latest_index \in Buf /\ reg["camera"] + 1 \in Nat
      BY <1>0, <2>1, Constants DEF CountTypes, TInv
    <3> QED
      BY <1>0, <2>1, <2>2, <3>1, Constants DEF CountTypes, CameraTypes
  <2>4. TypeOK'
    BY <1>0, <1>l, <2>1, <2>3, PartsStay, TypeParts
  <2> QED
    BY <1>l, <2>1, <2>2, <2>4 DEF TInv
<1>4. CASE Dispatch
  <2>1. /\ UNCHANGED <<counter, write_index, latest_index, lock, reg>>
        /\ cam = "program" /\ Advance /\ latest_index \in Buf
        /\ queue' = Append(queue, latest_index) /\ Len(queue) < QueueCap
    BY <1>4 DEF Dispatch, indexVars, TInv
  <2>2. cam' \in {"loop", "program"} /\ at' \in 1 .. 7
    BY <1>0, <2>1, AdvanceProperties, Constants DEF CameraTypes
  <2>3. CameraTypes'
    BY <1>0, <2>1, <2>2, Constants DEF CameraTypes
  <2>4. QueueTypes'
    BY <1>0, <2>1, Constants, AppendProperties, LenProperties DEF QueueTypes
  <2>5. TypeOK'
    BY <1>0, <1>l, <2>1, <2>3, <2>4, PartsStay, TypeParts
  <2> QED
    BY <1>l, <2>1, <2>2, <2>5 DEF TInv
<1>5. CASE RefusedLoad
  <2>1. /\ UNCHANGED <<counter, write_index, latest_index, queue, at>>
        /\ cam = "refused" /\ cam' = "reset" /\ lock = "free" /\ lock' = "camera"
        /\ reg' = [reg EXCEPT !["camera"] = counter[latest_index]]
    BY <1>5 DEF RefusedLoad, ResetLoad, indexVars
  <2>2. CountTypes' /\ CameraTypes' /\ StateTypes'
    BY <1>0, <1>l, <2>1, Constants DEF CountTypes, CameraTypes, StateTypes, TInv
  <2>3. TypeOK'
    BY <1>0, <1>l, <2>1, <2>2, PartsStay, TypeParts
  <2> QED
    BY <1>l, <2>1, <2>3 DEF TInv
<1>6. CASE RefusedStore
  <2>1. /\ UNCHANGED <<write_index, latest_index, queue, reg>>
        /\ cam = "reset" /\ lock' = "free" /\ Advance
        /\ counter' = IF reg["camera"] > 0
                        THEN [counter EXCEPT ![latest_index] = reg["camera"] - 1]
                        ELSE counter
    BY <1>6 DEF RefusedStore, ResetStore, indexVars
  <2>2. cam' \in {"loop", "program"} /\ at' \in 1 .. 7
    BY <1>0, <2>1, AdvanceProperties, Constants DEF CameraTypes
  <2>3. CountTypes'
    <3>1. latest_index \in Buf /\ (reg["camera"] > 0 => reg["camera"] - 1 \in Nat)
      BY <1>0, <2>1, Constants DEF CountTypes, TInv
    <3> QED
      BY <1>0, <2>1, <3>1 DEF CountTypes
  <2>4. CameraTypes' /\ StateTypes'
    BY <1>0, <1>l, <2>1, <2>2, Constants DEF CameraTypes, StateTypes
  <2>5. TypeOK'
    BY <1>0, <1>l, <2>1, <2>3, <2>4, PartsStay, TypeParts
  <2> QED
    BY <1>l, <2>1, <2>2, <2>5 DEF TInv
<1> QED
  BY <1>1, <1>2, <1>3, <1>4, <1>5, <1>6 DEF CameraStep, CameraMoves

LEMMA DeliverTypeStep ==
  ASSUME TInv, DeliverStep \/ OtherSends \/ StopHandler
  PROVE  TInv'
<1>0. CountTypes /\ CameraTypes /\ QueueTypes /\ DeliverTypes /\ StateTypes
  BY TypeParts DEF TInv
<1>l. UNCHANGED <<write_index, latest_index, cam, at>> /\ raced' \in BOOLEAN
  BY <1>0, DeliverLeaves, RacedStays DEF Next, StateTypes
<1>1. CASE DeliverMoves
  <2>1. UNCHANGED <<counter, lock, queue, reg, running>>
    BY <1>1 DEF DeliverMoves, LoopCheck, ReceiveNothing, HandlerEnds
  <2>2. \/ dlv = "loop" /\ dlv' \in {"receive", "done"} /\ hand' = hand
        \/ dlv = "receive" /\ dlv' = "loop" /\ hand' = hand
        \/ dlv = "handling" /\ dlv' = "loop" /\ hand' = Nothing
        \/ dlv = "handling" /\ hand # Other /\ dlv' = "release" /\ hand' = hand
    BY <1>1 DEF DeliverMoves, LoopCheck, ReceiveNothing, HandlerEnds
  <2>3. DeliverTypes'
    BY <1>0, <2>2 DEF DeliverTypes
  <2>4. TypeOK'
    BY <1>0, <1>l, <2>1, <2>3, PartsStay, TypeParts
  <2> QED
    BY <1>0, <1>l, <2>1, <2>2, <2>4 DEF TInv, DeliverTypes
<1>2. CASE HandlerBegins
  <2>1. /\ UNCHANGED <<counter, lock, reg, running>>
        /\ dlv = "receive" /\ dlv' = "handling"
        /\ queue # <<>> /\ hand' = Head(queue) /\ queue' = Tail(queue)
    BY <1>2 DEF HandlerBegins
  <2>2. QueueTypes' /\ hand' \in Buf \cup {Other}
    BY <1>0, <2>1, HeadTailProperties, Constants, LenProperties DEF QueueTypes
  <2>3. DeliverTypes'
    BY <2>1, <2>2 DEF DeliverTypes
  <2>4. TypeOK'
    BY <1>0, <1>l, <2>1, <2>2, <2>3, PartsStay, TypeParts
  <2> QED
    BY <1>l, <2>1, <2>2, <2>4, Constants DEF TInv
<1>3. CASE ReleaseLoad
  <2>1. /\ UNCHANGED <<counter, queue, hand, running>>
        /\ dlv = "release" /\ dlv' = "reset" /\ lock = "free" /\ lock' = "deliver"
        /\ reg' = [reg EXCEPT !["deliver"] = counter[hand]]
    BY <1>3 DEF ReleaseLoad, ResetLoad
  <2>2. CountTypes' /\ DeliverTypes' /\ StateTypes'
    BY <1>0, <1>l, <2>1, Constants DEF CountTypes, DeliverTypes, StateTypes, TInv
  <2>3. TypeOK'
    BY <1>0, <1>l, <2>1, <2>2, PartsStay, TypeParts
  <2> QED
    BY <1>l, <2>1, <2>3 DEF TInv
<1>4. CASE ReleaseStore
  <2>1. /\ UNCHANGED <<queue, reg, running>>
        /\ dlv = "reset" /\ dlv' = "loop" /\ hand' = Nothing /\ lock' = "free"
        /\ counter' = IF reg["deliver"] > 0
                        THEN [counter EXCEPT ![hand] = reg["deliver"] - 1]
                        ELSE counter
    BY <1>4 DEF ReleaseStore, ResetStore
  <2>2. CountTypes'
    <3>1. hand \in Buf /\ (reg["deliver"] > 0 => reg["deliver"] - 1 \in Nat)
      BY <1>0, <2>1, Constants DEF CountTypes, TInv
    <3> QED
      BY <1>0, <2>1, <3>1 DEF CountTypes
  <2>3. DeliverTypes' /\ StateTypes'
    BY <1>0, <1>l, <2>1 DEF DeliverTypes, StateTypes
  <2>4. TypeOK'
    BY <1>0, <1>l, <2>1, <2>2, <2>3, PartsStay, TypeParts
  <2> QED
    BY <1>l, <2>1, <2>4 DEF TInv
<1>5. CASE OtherSends
  <2>1. /\ UNCHANGED <<counter, lock, dlv, hand, reg, running>>
        /\ queue' = Append(queue, Other) /\ Len(queue) < QueueCap
    BY <1>5 DEF OtherSends, deliverVars
  <2>2. QueueTypes'
    BY <1>0, <2>1, Constants, AppendProperties, LenProperties DEF QueueTypes
  <2>3. TypeOK'
    BY <1>0, <1>l, <2>1, <2>2, PartsStay, TypeParts
  <2> QED
    BY <1>l, <2>1, <2>3 DEF TInv
<1>6. CASE StopHandler
  <2>1. UNCHANGED <<counter, lock, queue, dlv, hand, reg>> /\ running' = FALSE
    BY <1>6 DEF StopHandler, deliverVars
  <2>2. StateTypes'
    BY <1>0, <1>l, <2>1 DEF StateTypes
  <2>3. TypeOK'
    BY <1>0, <1>l, <2>1, <2>2, PartsStay, TypeParts
  <2> QED
    BY <1>l, <2>1, <2>3 DEF TInv
<1> QED
  BY <1>1, <1>2, <1>3, <1>4, <1>5, <1>6 DEF DeliverStep, DeliverMoves

LEMMA TypeStep ==
  ASSUME TInv, [Next]_vars
  PROVE  TInv'
<1>1. CASE UNCHANGED vars
  <2>1. /\ UNCHANGED <<counter, write_index, latest_index, lock, queue, cam, at, dlv, hand>>
        /\ UNCHANGED <<reg, running, raced>>
    BY <1>1 DEF vars
  <2>2. TypeOK'
    BY <2>1, PartsStay, TypeParts DEF TInv, StateTypes
  <2> QED
    BY <2>1, <2>2 DEF TInv
<1> QED
  BY <1>1, CameraTypeStep, DeliverTypeStep DEF Next

(* Type correctness, for every number of buffers and length of the queue.  *)
THEOREM TypeCorrect == Spec => []TypeOK
<1>1. TInv => TypeOK
  BY DEF TInv
<1> QED
  BY <1>1, TypeInit, TypeStep, PTL DEF Spec

-----------------------------------------------------------------------------
(* The counters                                                            *)

(* The numbers that CountRight adds.                                       *)
LEMMA Numbers ==
  ASSUME TypeOK, AtPlace, NEW b \in Buf
  PROVE  /\ Count(queue, b) \in Nat /\ counter[b] \in Nat
         /\ InHand(b) \in {0, 1} /\ Refused(b) \in {0, 1} /\ Ahead \in Nat
<1>1. queue \in Seq(Buf \cup {Other}) /\ counter[b] \in Nat
  BY DEF TypeOK
<1>2. Count(queue, b) \in Nat
  BY ONLY <1>1, CountType, Zenon
<1>3. InHand(b) \in {0, 1} /\ Refused(b) \in {0, 1}
  BY DEF InHand, Refused
<1>4. Ahead \in Nat
  BY DEF AtPlace, Ahead
<1> QED
  BY <1>1, <1>2, <1>3, <1>4

(* What stands at the places the camera thread reaches.                    *)
LEMMA Places ==
  ASSUME AtPlace
  PROVE  /\ Program[at] = "inc" => at \in {1, 2, 6}
         /\ Program[at] \in Send => at \in {3, 4, 7}
         /\ Program[at] = "clock" => at = 5
         /\ Advance /\ at <= 6 => cam' = "program" /\ at' = at + 1
         /\ Advance /\ at = 7 => cam' = "loop" /\ at' = at
<1>1. /\ Program[1] = "inc" /\ Program[2] = "inc" /\ Program[3] = "UDP"
      /\ Program[4] = "STORAGE" /\ Program[5] = "clock" /\ Program[6] = "inc"
      /\ Program[7] = "ALARM"
  BY DEF Program
<1>2. at = 1 \/ at = 2 \/ at = 3 \/ at = 4 \/ at = 5 \/ at = 6 \/ at = 7
  BY DEF AtPlace
<1>3. Len(Program) = 7
  BY Constants
<1> QED
  BY <1>1, <1>2, <1>3 DEF Send, Advance

LEMMA CountInit == Init => CInv
<1> SUFFICES ASSUME Init PROVE CInv
  OBVIOUS
<1>1. \A b \in Buf : Count(queue, b) = 0
  BY CountEmpty DEF Init
<1> QED
  BY <1>1, Constants
  DEF Init, CInv, AtPlace, Loaded, Apart, CountRight, InHand, Refused, Publishing

(* One counter is stored to and the others stay.                            *)
LEMMA StoredCounter ==
  ASSUME NEW f \in [Buf -> Nat], NEW l \in Buf, NEW v \in Nat, NEW g,
         g = [f EXCEPT ![l] = v]
  PROVE  /\ g[l] = v
         /\ \A b \in Buf : g[b] \in Nat /\ f[b] \in Nat
         /\ \A b \in Buf : b # l => g[b] = f[b]
OBVIOUS

(* The camera thread keeps to its program.                                 *)
LEMMA PlaceStep ==
  ASSUME TInv, AtPlace, CameraStep
  PROVE  AtPlace'
<1>0. CameraTypes
  BY TypeParts DEF TInv
<1>1. CASE CaptureFrame \/ FrameCopied \/ DropFrame \/ CaptureStops
  <2>1. at' = at /\ cam' \in {"loop", "copying", "check", "done"}
    BY <1>1 DEF CaptureFrame, FrameCopied, DropFrame, CaptureStops
  <2> QED
    BY <2>1 DEF AtPlace
<1>2. CASE Publish
  <2>1. at' = 1 /\ cam' = "program"
    BY <1>2 DEF Publish
  <2> QED
    BY <2>1 DEF AtPlace
<1>3. CASE DispatchFull \/ RefusedLoad
  <2>1. /\ at' = at /\ cam' \in {"refused", "reset"}
        /\ (cam = "program" /\ Program[at] \in Send) \/ cam = "refused"
    BY <1>3 DEF DispatchFull, RefusedLoad
  <2>2. at \in {3, 4, 7}
    BY <2>1, Places DEF AtPlace
  <2> QED
    BY <2>1, <2>2 DEF AtPlace
<1>4. CASE IncrementLoad
  <2>1. at' = at /\ cam' = "store" /\ Program[at] = "inc"
    BY <1>4 DEF IncrementLoad
  <2> QED
    BY <2>1, Places DEF AtPlace
<1>5. CASE IncrementStore \/ Dispatch \/ RefusedStore
  <2>1. Advance
    BY <1>5 DEF IncrementStore, Dispatch, RefusedStore
  <2> QED
    BY <1>0, <2>1, AdvanceProperties DEF AtPlace
<1>6. CASE AlarmClock
  <2>1. PICK due \in BOOLEAN : IF due THEN Advance ELSE cam' = "loop" /\ at' = at
    BY <1>6, Zenon DEF AlarmClock
  <2>2. Advance \/ (cam' = "loop" /\ at' = at)
    BY <2>1, Zenon
  <2> QED
    BY <1>0, <2>2, AdvanceProperties DEF AtPlace
<1> QED
  BY <1>1, <1>2, <1>3, <1>4, <1>5, <1>6 DEF CameraStep

LEMMA CameraCountStep ==
  ASSUME TInv, CInv, CameraStep
  PROVE  CInv'
<1>a. AtPlace'
  BY PlaceStep DEF CInv
<1> SUFFICES ASSUME Good' PROVE Loaded' /\ Apart' /\ CountRight'
  BY <1>a DEF CInv
<1>g. Good
  <2>1. cam # "done"
    BY DEF CameraStep, CaptureFrame, FrameCopied, Publish, DropFrame, IncrementLoad,
       IncrementStore, Dispatch, DispatchFull, RefusedLoad, RefusedStore, AlarmClock,
       CaptureStops
  <2>2. ~raced
    BY RacedStays DEF Next, TInv, TypeOK, Good
  <2> QED
    BY <2>1, <2>2 DEF Good
<1>0. /\ TypeOK /\ AtPlace /\ Loaded /\ Apart /\ CountRight
      /\ \A b \in Buf : b \in Nat
  BY <1>g, Constants DEF TInv, CInv
<1>l. UNCHANGED <<dlv, hand, running>>
  BY DEF CameraStep, CaptureFrame, FrameCopied, Publish, DropFrame, IncrementLoad,
     IncrementStore, Dispatch, DispatchFull, RefusedLoad, RefusedStore, AlarmClock,
     CaptureStops, deliverVars
<1>h. \A b : InHand(b)' = InHand(b)
  BY <1>l DEF InHand
<1>n. \A b \in Buf : /\ Count(queue, b) \in Nat /\ counter[b] \in Nat
                     /\ InHand(b) \in {0, 1} /\ Refused(b) \in {0, 1} /\ Ahead \in Nat
  BY <1>0, Numbers
<1>b. \A b \in Buf : counter[b] = Count(queue, b) + InHand(b) + Refused(b)
                                    + (IF Publishing(b) THEN Ahead ELSE 0)
  BY <1>0 DEF CountRight
<1>1. CASE CaptureFrame \/ FrameCopied \/ DropFrame \/ CaptureStops
  <2>1. /\ UNCHANGED <<counter, latest_index, queue, at, reg>>
        /\ cam \in {"loop", "copying", "check"}
        /\ cam' \in {"loop", "copying", "check", "done"}
    BY <1>1 DEF CaptureFrame, FrameCopied, DropFrame, CaptureStops, indexVars
  <2>2. CountRight'
    BY <1>b, <1>h, <2>1 DEF CountRight, Refused, Publishing
  <2>3. Loaded' /\ Apart'
    BY <1>0, <1>l, <2>1 DEF Loaded, Apart
  <2> QED
    BY <2>2, <2>3
<1>2. CASE Publish
  <2>1. /\ UNCHANGED <<counter, queue, reg>> /\ cam = "check" /\ cam' = "program"
        /\ at' = 1 /\ latest_index' = write_index /\ counter[write_index] = 0
        /\ write_index \in Buf
    BY <1>0, <1>2 DEF Publish, TypeOK
  <2>2. \A b \in Buf : counter[b] = Count(queue, b) + InHand(b)
    BY <1>b, <1>n, <2>1 DEF Refused, Publishing
  <2>4. Ahead' = 0 /\ \A b : Refused(b)' = 0
    BY <2>1 DEF Ahead, Refused
  <2>5. CountRight'
    BY <1>h, <1>n, <2>1, <2>2, <2>4 DEF CountRight
  <2>6. Loaded' /\ Apart'
    BY <1>0, <1>l, <2>1 DEF Loaded, Apart
  <2> QED
    BY <2>5, <2>6
<1>3. CASE DispatchFull
  <2>1. /\ UNCHANGED <<counter, latest_index, queue, at, reg>>
        /\ cam = "program" /\ cam' = "refused" /\ at \in {3, 4, 7}
    BY <1>0, <1>3, Places DEF DispatchFull, indexVars
  <2>2. Ahead = Ahead' + 1 /\ Ahead' \in Nat
    BY <2>1 DEF Ahead
  <2>3. \A b : /\ Refused(b) = 0
               /\ Refused(b)' = (IF latest_index = b THEN 1 ELSE 0)
               /\ (IF Publishing(b) THEN Ahead ELSE 0)
                    = (IF latest_index = b THEN Ahead ELSE 0)
               /\ (IF Publishing(b)' THEN Ahead' ELSE 0)
                    = (IF latest_index = b THEN Ahead' ELSE 0)
    BY <2>1 DEF Refused, Publishing
  <2>4. CountRight'
    <3> SUFFICES ASSUME NEW b \in Buf
                 PROVE  counter[b] = Count(queue, b) + InHand(b)'
                                       + Refused(b)' + (IF Publishing(b)' THEN Ahead' ELSE 0)
      BY <2>1, Zenon DEF CountRight
    <3>1. /\ counter[b] = Count(queue, b) + InHand(b)
                            + (IF latest_index = b THEN Ahead ELSE 0)
          /\ Count(queue, b) \in Nat /\ InHand(b) \in {0, 1} /\ InHand(b)' = InHand(b)
      BY <1>b, <1>h, <1>n, <2>3
    <3> QED
      BY <2>2, <2>3, <3>1
  <2>5. Loaded' /\ Apart'
    BY <1>0, <1>l, <2>1 DEF Loaded, Apart
  <2> QED
    BY <2>4, <2>5
<1>4. CASE AlarmClock
  <2>1. /\ UNCHANGED <<counter, latest_index, queue, reg>>
        /\ cam = "program" /\ at = 5
    BY <1>0, <1>4, Places DEF AlarmClock, indexVars
  <2>2. PICK due \in BOOLEAN : IF due THEN Advance ELSE cam' = "loop" /\ at' = at
    BY <1>4, Zenon DEF AlarmClock
  <2>3. (cam' = "program" /\ at' = 6) \/ cam' = "loop"
    BY <1>0, <2>1, <2>2, Places
  <2>4. /\ \A b : Refused(b) = 0 /\ Refused(b)' = 0
        /\ Ahead = 0
        /\ \A b : (IF Publishing(b)' THEN Ahead' ELSE 0) = 0
    BY <2>1, <2>3 DEF Refused, Publishing, Ahead
  <2>5. CountRight'
    BY <1>b, <1>h, <1>n, <2>1, <2>4 DEF CountRight
  <2>6. Loaded' /\ Apart'
    BY <1>0, <1>l, <2>1, <2>3 DEF Loaded, Apart
  <2> QED
    BY <2>5, <2>6
<1>5. CASE IncrementLoad
  <2>1. /\ UNCHANGED <<counter, latest_index, queue, at>>
        /\ cam = "program" /\ cam' = "store"
        /\ reg' = [reg EXCEPT !["camera"] = counter[latest_index]]
    BY <1>5 DEF IncrementLoad, indexVars
  <2>2. CountRight'
    BY <1>b, <1>h, <1>n, <2>1 DEF CountRight, Refused, Publishing, Ahead
  <2>3. reg'["camera"] = counter[latest_index] /\ reg'["deliver"] = reg["deliver"]
    BY <1>0, <2>1, Constants DEF TypeOK
  <2>4. Loaded'
    BY <1>0, <1>l, <2>1, <2>3 DEF Loaded
  <2>5. ~(dlv = "reset" /\ hand = latest_index)
    BY <1>5 DEF IncrementLoad, Good
  <2>6. Apart'
    BY <1>l, <2>1, <2>5 DEF Apart
  <2> QED
    BY <2>2, <2>4, <2>6
<1>6. CASE IncrementStore
  <2>1. /\ UNCHANGED <<latest_index, queue, reg>>
        /\ cam = "store" /\ at \in {1, 2, 6} /\ latest_index \in Buf
        /\ cam' = "program" /\ at' = at + 1
    BY <1>0, <1>6, Places DEF IncrementStore, indexVars, TInv, AtPlace
  <2>2. counter' = [counter EXCEPT ![latest_index] = counter[latest_index] + 1]
    BY <1>0, <1>6, <2>1 DEF IncrementStore, Loaded
  <2>3. \A b \in Buf : counter'[b] = counter[b] + (IF b = latest_index THEN 1 ELSE 0)
    <3>1. counter \in [Buf -> Nat] /\ latest_index \in Buf /\ counter[latest_index] + 1 \in Nat
      BY <1>0, <2>1 DEF TypeOK
    <3>2. /\ counter'[latest_index] = counter[latest_index] + 1
          /\ \A b \in Buf : counter'[b] \in Nat /\ counter[b] \in Nat
          /\ \A b \in Buf : b # latest_index => counter'[b] = counter[b]
      BY ONLY <2>2, <3>1, StoredCounter, Zenon
    <3> QED
      BY ONLY <3>2
  <2>4. Ahead' = Ahead + 1
    BY <2>1 DEF Ahead
  <2>5. CountRight'
    BY <1>b, <1>h, <1>n, <2>1, <2>3, <2>4 DEF CountRight, Refused, Publishing
  <2>6. dlv = "reset" => hand # latest_index
    BY <1>0, <2>1 DEF Apart
  <2>7. dlv = "reset" => hand \in Buf
    BY DEF TInv
  <2>8. Loaded' /\ Apart'
    BY <1>0, <1>l, <1>n, <2>1, <2>3, <2>6, <2>7 DEF Loaded, Apart
  <2> QED
    BY <2>5, <2>8
<1>7. CASE Dispatch
  <2>1. /\ UNCHANGED <<counter, latest_index, reg>>
        /\ cam = "program" /\ at \in {3, 4, 7} /\ latest_index \in Buf
        /\ queue' = Append(queue, latest_index)
        /\ IF at = 7 THEN cam' = "loop" ELSE cam' = "program" /\ at' = at + 1
    BY <1>0, <1>7, Places DEF Dispatch, indexVars, TInv
  <2>2. queue \in Seq(Buf \cup {Other}) /\ latest_index \in Buf \cup {Other}
    BY <1>0, <2>1 DEF TypeOK
  <2>3. \A b : Count(queue, b)' = Count(queue, b) + (IF latest_index = b THEN 1 ELSE 0)
    <3>1. \A b : Count(Append(queue, latest_index), b)
                   = Count(queue, b) + (IF latest_index = b THEN 1 ELSE 0)
      BY ONLY <2>2, CountAppend, Zenon
    <3> QED
      BY <2>1, <3>1 DEF Count
  <2> DEFINE A(b) == IF Publishing(b) THEN Ahead ELSE 0
  <2>4. \A b : /\ Refused(b) = 0 /\ Refused(b)' = 0
               /\ A(b) = A(b)' + (IF latest_index = b THEN 1 ELSE 0)
               /\ A(b)' \in Nat
    BY <2>1 DEF Refused, Publishing, Ahead
  <2>6. CountRight'
    <3> SUFFICES ASSUME NEW b \in Buf
                 PROVE  counter[b] = Count(queue, b)' + InHand(b)' + Refused(b)' + A(b)'
      BY <2>1, Zenon DEF CountRight
    <3>1. /\ counter[b] = Count(queue, b) + InHand(b) + Refused(b) + A(b)
          /\ Count(queue, b) \in Nat /\ InHand(b) \in {0, 1} /\ InHand(b)' = InHand(b)
      BY <1>b, <1>h, <1>n
    <3> HIDE DEF A
    <3> QED
      BY <2>3, <2>4, <3>1
  <2>7. Loaded' /\ Apart'
    BY <1>0, <1>l, <2>1 DEF Loaded, Apart
  <2> QED
    BY <2>6, <2>7
<1>8. CASE RefusedLoad
  <2>1. /\ UNCHANGED <<counter, latest_index, queue, at>>
        /\ cam = "refused" /\ cam' = "reset" /\ dlv # "reset"
        /\ reg' = [reg EXCEPT !["camera"] = counter[latest_index]]
    BY <1>8 DEF RefusedLoad, ResetLoad, indexVars, TInv
  <2>2. CountRight'
    BY <1>b, <1>h, <1>n, <2>1 DEF CountRight, Refused, Publishing, Ahead
  <2>3. reg'["camera"] = counter[latest_index]
    BY <1>0, <2>1, Constants DEF TypeOK
  <2>4. Loaded' /\ Apart'
    BY <1>0, <1>l, <2>1, <2>3 DEF Loaded, Apart
  <2> QED
    BY <2>2, <2>4
<1>9. CASE RefusedStore
  <2>1. /\ UNCHANGED <<latest_index, queue, reg>>
        /\ cam = "reset" /\ at \in {3, 4, 7} /\ latest_index \in Buf /\ dlv # "reset"
        /\ IF at = 7 THEN cam' = "loop" ELSE cam' = "program" /\ at' = at + 1
    BY <1>0, <1>9, Places DEF RefusedStore, indexVars, TInv, AtPlace
  <2>2. counter[latest_index] > 0
    BY <1>b, <1>n, <2>1 DEF Refused
  <2>3. counter' = [counter EXCEPT ![latest_index] = counter[latest_index] - 1]
    BY <1>0, <1>9, <2>1, <2>2 DEF RefusedStore, ResetStore, Loaded
  <2>4. /\ counter'[latest_index] = counter[latest_index] - 1
        /\ \A b \in Buf : counter'[b] \in Nat /\ counter[b] \in Nat
        /\ \A b \in Buf : b # latest_index => counter'[b] = counter[b]
    <3>1. counter \in [Buf -> Nat] /\ latest_index \in Buf /\ counter[latest_index] - 1 \in Nat
      BY <1>0, <2>1, <2>2 DEF TypeOK
    <3> QED
      BY ONLY <2>3, <3>1, StoredCounter, Zenon
  <2>5. \A b \in Buf : counter'[b] + (IF b = latest_index THEN 1 ELSE 0) = counter[b]
    BY ONLY <2>4
  <2> DEFINE A(b) == IF Publishing(b) THEN Ahead ELSE 0
  <2>6. \A b : /\ Refused(b) = (IF latest_index = b THEN 1 ELSE 0) /\ Refused(b)' = 0
               /\ A(b)' = A(b) /\ A(b) \in Nat
    BY <2>1 DEF Refused, Publishing, Ahead
  <2>7. CountRight'
    <3> SUFFICES ASSUME NEW b \in Buf
                 PROVE  counter'[b] = Count(queue, b) + InHand(b)' + Refused(b)' + A(b)'
      BY <2>1, Zenon DEF CountRight, Count
    <3>1. counter[b] = Count(queue, b) + InHand(b) + Refused(b) + A(b)
      BY <1>b
    <3>2. /\ Count(queue, b) \in Nat /\ InHand(b) \in {0, 1} /\ InHand(b)' = InHand(b)
          /\ counter'[b] \in Nat /\ counter'[b] + (IF b = latest_index THEN 1 ELSE 0) = counter[b]
      BY <1>h, <1>n, <2>4, <2>5
    <3> HIDE DEF A
    <3> QED
      BY <2>6, <3>1, <3>2
  <2>8. Loaded' /\ Apart'
    BY <1>0, <1>l, <2>1 DEF Loaded, Apart
  <2> QED
    BY <2>7, <2>8
<1> QED
  BY <1>1, <1>2, <1>3, <1>4, <1>5, <1>6, <1>7, <1>8, <1>9 DEF CameraStep

LEMMA DeliverCountStep ==
  ASSUME TInv, CInv, DeliverStep \/ OtherSends \/ StopHandler
  PROVE  CInv'
<1>l. UNCHANGED <<latest_index, cam, at>>
  BY DeliverLeaves
<1>a. AtPlace'
  BY <1>l DEF CInv, AtPlace
<1> SUFFICES ASSUME Good' PROVE Loaded' /\ Apart' /\ CountRight'
  BY <1>a DEF CInv
<1>g. Good
  BY <1>l, RacedStays DEF Next, TInv, TypeOK, Good
<1>0. /\ TypeOK /\ AtPlace /\ Loaded /\ Apart /\ CountRight /\ cam # "done"
      /\ \A b \in Buf : b # Other /\ b # Nothing
  BY <1>g, Constants DEF TInv, CInv, Good
<1>h. /\ Ahead' = Ahead
      /\ \A b : Refused(b)' = Refused(b) /\ (Publishing(b)' <=> Publishing(b))
  BY <1>l DEF Ahead, Refused, Publishing
<1>n. \A b \in Buf : /\ Count(queue, b) \in Nat /\ counter[b] \in Nat
                     /\ InHand(b) \in {0, 1} /\ Refused(b) \in {0, 1} /\ Ahead \in Nat
  BY <1>0, Numbers
<1>b. \A b \in Buf : counter[b] = Count(queue, b) + InHand(b) + Refused(b)
                                    + (IF Publishing(b) THEN Ahead ELSE 0)
  BY <1>0 DEF CountRight
<1>f. cam \in {"program", "store"} => latest_index \in Buf
  BY DEF TInv
<1>1. CASE DeliverMoves \/ (StopHandler /\ dlv # "reset")
  <2>1. /\ UNCHANGED <<counter, queue, reg>> /\ dlv' # "reset"
        /\ hand' = hand \/ (hand = Other /\ hand' = Nothing)
    <3>1. CASE DeliverMoves
      BY <1>0, <3>1 DEF DeliverMoves, LoopCheck, ReceiveNothing, HandlerEnds
    <3>2. CASE StopHandler /\ dlv # "reset"
      BY <3>2 DEF StopHandler, deliverVars
    <3> QED
      BY <1>1, <3>1, <3>2
  <2>2. \A b \in Buf : InHand(b)' = InHand(b)
    BY <1>0, <2>1 DEF InHand
  <2>3. CountRight'
    BY <1>b, <1>h, <2>1, <2>2 DEF CountRight
  <2>4. Loaded' /\ Apart'
    BY <1>0, <1>f, <1>l, <2>1 DEF Loaded, Apart
  <2> QED
    BY <2>3, <2>4
<1>2. CASE HandlerBegins
  <2>1. /\ UNCHANGED <<counter, reg>> /\ dlv' = "handling" /\ queue # <<>>
        /\ hand' = Head(queue) /\ queue' = Tail(queue) /\ hand = Nothing
    BY <1>2 DEF HandlerBegins, TInv
  <2>2. queue \in Seq(Buf \cup {Other})
    BY <1>0 DEF TypeOK
  <2>3. \A b : Count(queue, b)
                 = Count(Tail(queue), b) + (IF Head(queue) = b THEN 1 ELSE 0)
    BY ONLY <2>1, <2>2, CountTail, Zenon
  <2>4. \A b : Count(Tail(queue), b) \in Nat
    <3>1. Tail(queue) \in Seq(Buf \cup {Other})
      BY <2>1, <2>2, HeadTailProperties
    <3> QED
      BY ONLY <3>1, CountType, Zenon
  <2>5. \A b \in Buf : /\ Count(queue, b) = Count(queue, b)' + InHand(b)'
                       /\ Count(queue, b)' \in Nat /\ InHand(b)' \in {0, 1}
                       /\ InHand(b) = 0
    BY <1>0, <2>1, <2>3, <2>4 DEF Count, InHand
  <2>6. CountRight'
    <3> SUFFICES ASSUME NEW b \in Buf
                 PROVE  counter[b] = Count(queue, b)' + InHand(b)'
                                       + Refused(b) + (IF Publishing(b) THEN Ahead ELSE 0)
      BY <1>h, <2>1, Zenon DEF CountRight
    <3> QED
      BY <1>b, <1>n, <2>5
  <2>7. Loaded' /\ Apart'
    BY <1>0, <1>l, <2>1 DEF Loaded, Apart
  <2> QED
    BY <2>6, <2>7
<1>3. CASE ReleaseLoad
  <2>1. /\ UNCHANGED <<counter, queue, hand>> /\ cam # "reset"
        /\ reg' = [reg EXCEPT !["deliver"] = counter[hand]]
    BY <1>3 DEF ReleaseLoad, ResetLoad, TInv
  <2>2. reg'["deliver"] = counter[hand] /\ reg'["camera"] = reg["camera"]
    BY <1>0, <2>1, Constants DEF TypeOK
  <2>3. CountRight'
    BY <1>0, <1>b, <1>h, <1>l, <2>1 DEF CountRight, InHand
  <2>4. Loaded'
    BY <1>0, <1>l, <2>1, <2>2 DEF Loaded
  <2>5. ~(cam = "store" /\ hand = latest_index)
    BY <1>3 DEF ReleaseLoad, Good
  <2>6. Apart'
    BY <1>l, <2>1, <2>5 DEF Apart
  <2> QED
    BY <2>3, <2>4, <2>6
<1>4. CASE ReleaseStore
  <2>1. /\ UNCHANGED <<queue, reg>> /\ dlv = "reset" /\ dlv' = "loop"
        /\ cam # "reset" /\ hand \in Buf /\ hand' = Nothing
    BY <1>4 DEF ReleaseStore, TInv
  <2>2. counter[hand] > 0
    BY <1>b, <1>n, <2>1 DEF InHand
  <2>3. counter' = [counter EXCEPT ![hand] = counter[hand] - 1]
    BY <1>0, <1>4, <2>1, <2>2 DEF ReleaseStore, ResetStore, Loaded
  <2>4. /\ \A b \in Buf : counter'[b] + (IF b = hand THEN 1 ELSE 0) = counter[b]
        /\ \A b \in Buf : counter'[b] \in Int
    BY <1>0, <1>n, <2>1, <2>3 DEF TypeOK
  <2>5. \A b \in Buf : InHand(b) = (IF b = hand THEN 1 ELSE 0) /\ InHand(b)' = 0
    BY <1>0, <2>1 DEF InHand
  <2>6. CountRight'
    <3> SUFFICES ASSUME NEW b \in Buf
                 PROVE  counter'[b] = Count(queue, b) + InHand(b)'
                                       + Refused(b) + (IF Publishing(b) THEN Ahead ELSE 0)
      BY <1>h, <2>1, Zenon DEF CountRight, Count
    <3> QED
      BY <1>b, <1>n, <2>4, <2>5
  <2>8. Loaded' /\ Apart'
    <3>1. cam = "store" => latest_index # hand /\ latest_index \in Buf
      BY <1>0, <1>f, <2>1 DEF Apart
    <3>2. cam = "store" => counter'[latest_index] = counter[latest_index]
      BY <1>n, <2>4, <3>1
    <3> QED
      BY <1>0, <1>l, <2>1, <3>2 DEF Loaded, Apart
  <2> QED
    BY <2>6, <2>8
<1>5. CASE OtherSends
  <2>1. UNCHANGED <<counter, dlv, hand, reg>> /\ queue' = Append(queue, Other)
    BY <1>5 DEF OtherSends, deliverVars
  <2>2. queue \in Seq(Buf \cup {Other}) /\ Other \in Buf \cup {Other}
    BY <1>0 DEF TypeOK
  <2>3. \A b : Count(Append(queue, Other), b)
                 = Count(queue, b) + (IF Other = b THEN 1 ELSE 0)
    BY ONLY <2>2, CountAppend, Zenon
  <2>4. \A b \in Buf : Count(queue, b)' = Count(queue, b) /\ InHand(b)' = InHand(b)
    <3>1. \A b \in Buf : Count(queue, b) \in Nat /\ Other # b
      BY <1>0, <1>n
    <3>2. \A b \in Buf : Count(Append(queue, Other), b) = Count(queue, b)
      BY ONLY <2>3, <3>1
    <3> QED
      BY <2>1, <3>2 DEF Count, InHand
  <2>5. CountRight'
    BY <1>b, <1>h, <2>1, <2>4 DEF CountRight
  <2>7. Loaded' /\ Apart'
    BY <1>0, <1>l, <2>1 DEF Loaded, Apart
  <2> QED
    BY <2>5, <2>7
<1>6. CASE StopHandler /\ dlv = "reset"
  <2>1. UNCHANGED <<counter, queue, reg, dlv, hand>>
    BY <1>6 DEF StopHandler, deliverVars
  <2>2. CountRight'
    BY <1>b, <1>h, <2>1 DEF CountRight, InHand
  <2>3. Loaded' /\ Apart'
    BY <1>0, <1>l, <2>1 DEF Loaded, Apart
  <2> QED
    BY <2>2, <2>3
<1> QED
  BY <1>1, <1>2, <1>3, <1>4, <1>5, <1>6 DEF DeliverStep, DeliverMoves

LEMMA CountStep ==
  ASSUME TInv, CInv, [Next]_vars
  PROVE  CInv'
<1>1. CASE UNCHANGED vars
  <2>1. UNCHANGED <<counter, latest_index, queue, cam, at, dlv, hand, reg, raced>>
    BY <1>1 DEF vars
  <2>2. AtPlace' /\ (Good' <=> Good) /\ (Loaded' <=> Loaded) /\ (Apart' <=> Apart)
    BY <2>1 DEF CInv, AtPlace, Good, Loaded, Apart
  <2>3. CountRight => CountRight'
    BY <2>1 DEF CountRight, InHand, Refused, Publishing, Ahead
  <2> QED
    BY <2>2, <2>3 DEF CInv
<1> QED
  BY <1>1, CameraCountStep, DeliverCountStep DEF Next

(* A buffer's counter is the number of its loans that are out and of those *)
(* counted ahead, whenever nobody is in the middle of changing it, as long *)
(* as Change_Image_Taken_Flag, which does without the lock, has not met    *)
(* Reset_Image_Taken_Flag on the same buffer: nothing else, no refused     *)
(* loan, no third receiver and no order of the threads, makes it wrong.    *)
THEOREM CounterIsRight == Spec => []CounterCountsLoans
<1>1. CInv => CounterCountsLoans
  <2> SUFFICES ASSUME CInv, ~raced, cam # "done", NEW b \in Buf
               PROVE  counter[b] = Loans(b) + Counted(b)
    BY DEF CounterCountsLoans, CounterIsExact
  <2>1. Loans(b) = Count(queue, b) + InHand(b) + Refused(b)
    BY LoansAre
  <2>2. Counted(b) = IF Publishing(b) THEN Ahead ELSE 0
    BY CountedIs DEF CInv
  <2> QED
    BY <2>1, <2>2 DEF CInv, CountRight, Good
<1>2. TInv /\ CInv /\ [Next]_vars => CInv'
  BY CountStep
<1> QED
  BY <1>1, <1>2, TypeInit, TypeStep, CountInit, PTL DEF Spec
=============================================================================
