------------------------- MODULE CameraCaptureProofs -------------------------
(***************************************************************************)
(* Proofs about CameraCapture, for a frame of any number of rows.  The     *)
(* handlers write where the main loop reads; what keeps them apart is an   *)
(* agreement between the sensor's line, the channel's address and the two  *)
(* counts of rows, which IInv states.                                      *)
(***************************************************************************)
EXTENDS CameraCapture, TLAPS

\* A row of a frame, or a torn one.
BlockType == [frame : -1..MaxRequests, row : Rows]

\* The points of the main loop outside of compress_macroblock.
Waiting == {"top", "process", "apps"}

\* The buffer of the definition that was linked holds a frame.
Roomy == bufRows >= MACROLINES

\* Only a buffer that does not is written behind, and then the rows that the
\* handlers report, and the main loop takes, are behind it also.
BufferInv ==
  /\ behind => ~Roomy
  /\ inRow /\ dmaOn /\ DADDR >= bufRows => behind
  /\ cur_flexio_macroblk_ >= bufRows \/ cur_stack_macroblk_ >= bufRows => behind

\* The channel is never ahead of the sensor, and what a handler reports is a row.
DmaInv ==
  /\ inRow => line < MACROLINES
  /\ mblk_cnt_ = DADDR
  /\ dmaOn => DADDR <= line
  /\ frame + s_FlexioStartCapture <= requests

\* The encoder has been given a row for each step of cur_stack_macroblk_.
CountInv ==
  /\ pc \in Waiting /\ cur_stack_macroblk_ >= 0
       => Len(picture) = cur_stack_macroblk_ + 1
  /\ pc = "finish" => Len(picture) = MACROLINES
  /\ pc \in Waiting => cur_stack_macroblk_ < MACROLINES - 1
  /\ pc = "finish" => cur_stack_macroblk_ = MACROLINES - 1
  /\ RowsInOrder

\* No row of the sensor is being captured, and the main loop knows of none.
Quiet ==
  /\ pc \in Waiting
  /\ cur_flexio_macroblk_ = -1 /\ cur_stack_macroblk_ = -1
  /\ dmaOn => line = MACROLINES

\* The first n rows in memory are of the frame that was captured last.
Stable(n) == \A r \in Rows : r < n => g_FlexioCameraMacroblockBuffer[r] = Block(frame, r)

\* What the encoder was given of the current picture is of that frame.
Given ==
  /\ cur_stack_macroblk_ <= cur_flexio_macroblk_
  /\ pc \in {"encode", "finish"} => cur_stack_macroblk_ >= 0
  /\ cur_stack_macroblk_ > 0 \/ (cur_stack_macroblk_ = 0 /\ pc # "encode")
       => \A i \in 1..Len(picture) : picture[i] = Block(frame, i - 1)

\* The sensor is sending the frame: the rows it has sent are in memory.
Capturing ==
  /\ s_FlexioStartCapture = 0 /\ dmaOn
  /\ DADDR = line /\ cur_flexio_macroblk_ = line - 1
  /\ Stable(line)
  /\ Given

\* The frame is in memory, and the channel is off until the next capture.
Captured ==
  /\ s_FlexioStartCapture = 0 /\ ~dmaOn
  /\ cur_flexio_macroblk_ = MACROLINES - 1
  /\ Stable(MACROLINES)
  /\ Given

\* An undisturbed capture to a buffer that holds a frame is in one of three phases.
CleanInv == clean /\ requests > 0 /\ Roomy => Quiet \/ Capturing \/ Captured

\* The inductive invariant.
IInv == TypeOK /\ DmaInv /\ BufferInv /\ CountInv /\ CleanInv

-----------------------------------------------------------------------------
(* Types.                                                                    *)

FlagTypes ==
  /\ inRow \in BOOLEAN /\ dmaOn \in BOOLEAN
  /\ shot_done \in BOOLEAN /\ clean \in BOOLEAN /\ behind \in BOOLEAN

CountTypes ==
  /\ line \in 0..MACROLINES /\ DADDR \in 0..MACROLINES /\ frame \in 0..MaxRequests
  /\ bufRows \in Definitions
  /\ s_FlexioStartCapture \in {0, 1}
  /\ cur_flexio_macroblk_ \in -1..(MACROLINES - 1)
  /\ mblk_cnt_ \in 0..MACROLINES
  /\ cur_stack_macroblk_ \in -1..(MACROLINES - 1)
  /\ video_type_ \in {"no_video", "bitbang", "single_capture", "single_2sdcard"}
  /\ _imgPtr \in Nat /\ _imgSize \in Nat
  /\ pc \in {"top", "process", "encode", "finish", "apps"}
  /\ requests \in 0..MaxRequests

DataTypes ==
  /\ g_FlexioCameraMacroblockBuffer \in [Rows -> BlockType]
  /\ picture \in Seq(BlockType)

\* The parts of the type invariant.
LEMMA TypeParts == TypeOK <=> FlagTypes /\ CountTypes /\ DataTypes
BY DEF TypeOK, FlagTypes, CountTypes, DataTypes, BlockType

\* The rows the sensor sends, and torn ones, are rows.
LEMMA BlockTyped ==
  /\ \A f \in -1..MaxRequests, r \in Rows : Block(f, r) \in BlockType
  /\ Torn \in BlockType
BY CameraAssumption DEF Block, Torn, BlockType, Rows

\* Every step keeps the types of the flags.
LEMMA FlagTypesStep == IInv /\ [Next]_vars => FlagTypes'
<1> SUFFICES ASSUME IInv, [Next]_vars PROVE FlagTypes'
  OBVIOUS
<1> USE DEF FlagTypes, memoryVars, sensorVars, mainVars, imgVars
<1>0. FlagTypes
  BY TypeParts DEF IInv
<1>1. CASE RowStart BY Zenon, <1>0, <1>1 DEF RowStart
<1>2. CASE RowEnd BY Zenon, <1>0, <1>2 DEF RowEnd
<1>3. CASE Vsync BY Zenon, <1>0, <1>3 DEF Vsync, FLEXIO_Ov7670AsynCallback
<1>4. CASE Top BY Zenon, <1>0, <1>4 DEF Top, Snapshot, Nothing
<1>5. CASE Apps BY Zenon, <1>0, <1>5 DEF Apps, Snapshot, StartVideo, StopVideo, Nothing
<1>6. CASE Process BY Zenon, <1>0, <1>6 DEF Process
<1>7. CASE Encode BY Zenon, <1>0, <1>7 DEF Encode
<1>8. CASE Finish BY Zenon, <1>0, <1>8 DEF Finish
<1>9. CASE UNCHANGED vars BY Zenon, <1>0, <1>9 DEF vars
<1> QED
  BY <1>1, <1>2, <1>3, <1>4, <1>5, <1>6, <1>7, <1>8, <1>9 DEF Next, Sensor, Main

\* Every step keeps the ranges of the counts: a handler reports a row of the
\* frame because the channel is never ahead of the sensor.
LEMMA CountTypesStep == IInv /\ [Next]_vars => CountTypes' /\ DmaInv'
<1> SUFFICES ASSUME IInv, [Next]_vars PROVE CountTypes' /\ DmaInv'
  OBVIOUS
<1> USE CameraAssumption DEF CountTypes, DmaInv, memoryVars, sensorVars, mainVars, imgVars
<1>0. CountTypes /\ DmaInv /\ CountInv /\ inRow \in BOOLEAN
  BY TypeParts DEF IInv, FlagTypes
<1>1. CASE RowStart BY <1>0, <1>1 DEF RowStart
<1>2. CASE RowEnd BY <1>0, <1>2 DEF RowEnd, Camera_Handler
<1>3. CASE Vsync BY <1>0, <1>3 DEF Vsync, FLEXIO_Ov7670AsynCallback
<1>4. CASE Top BY <1>0, <1>4 DEF Top, Snapshot, Nothing
<1>5. CASE Apps BY <1>0, <1>5 DEF Apps, Snapshot, StartVideo, StopVideo, Nothing
<1>6. CASE Process BY <1>0, <1>6 DEF Process
<1>7. CASE Encode BY <1>0, <1>7 DEF Encode
<1>8. CASE Finish BY <1>0, <1>8 DEF Finish
<1>9. CASE UNCHANGED vars BY <1>0, <1>9 DEF vars
<1> QED
  BY <1>1, <1>2, <1>3, <1>4, <1>5, <1>6, <1>7, <1>8, <1>9 DEF Next, Sensor, Main

\* A row written to memory is a row, wherever the channel aims.
LEMMA StoredTyped ==
  ASSUME g_FlexioCameraMacroblockBuffer \in [Rows -> BlockType],
         NEW b \in BlockType
  PROVE  Stored(b) \in [Rows -> BlockType]
BY DEF Stored

\* Every step keeps the types of the rows in memory and of the picture.
LEMMA DataTypesStep == IInv /\ [Next]_vars => DataTypes'
<1> SUFFICES ASSUME IInv, [Next]_vars PROVE DataTypes'
  OBVIOUS
<1> USE DEF DataTypes, memoryVars, sensorVars, mainVars, imgVars
<1>0. DataTypes /\ CountTypes
  BY TypeParts DEF IInv
<1>1. CASE RowStart BY <1>0, <1>1, StoredTyped, BlockTyped DEF RowStart
<1>2. CASE RowEnd
  <2>1. Block(frame, line) \in BlockType
    BY <1>0, <1>2, BlockTyped, CameraAssumption DEF RowEnd, CountTypes, IInv, DmaInv, Rows
  <2> QED
    BY <1>0, <1>2, <2>1, StoredTyped DEF RowEnd
<1>3. CASE Vsync BY <1>0, <1>3 DEF Vsync
<1>4. CASE Top BY <1>0, <1>4 DEF Top
<1>5. CASE Apps BY <1>0, <1>5 DEF Apps
<1>6. CASE Process BY <1>0, <1>6 DEF Process
<1>7. CASE Encode
  <2>1. PICK b \in RowRead(cur_stack_macroblk_) :
          picture' = IF cur_stack_macroblk_ = 0 THEN <<b>> ELSE Append(picture, b)
    BY <1>7 DEF Encode
  <2>2. b \in BlockType
    BY <1>0, <1>7, BlockTyped DEF RowRead, Encode, IInv, CountInv, RowsInOrder
  <2>3. picture' \in Seq(BlockType)
    <3>1. <<b>> \in Seq(BlockType)
      BY <2>2
    <3>2. Append(picture, b) \in Seq(BlockType)
      BY <1>0, <2>2
    <3> QED BY <2>1, <3>1, <3>2
  <2> QED
    BY <1>0, <1>7, <2>3 DEF Encode
<1>8. CASE Finish BY <1>0, <1>8 DEF Finish
<1>9. CASE UNCHANGED vars BY <1>0, <1>9 DEF vars
<1> QED
  BY <1>1, <1>2, <1>3, <1>4, <1>5, <1>6, <1>7, <1>8, <1>9 DEF Next, Sensor, Main

-----------------------------------------------------------------------------
(* The counts.                                                               *)

\* process() takes one row at a time, and a request never moves the counts apart.
LEMMA CountInvStep == IInv /\ [Next]_vars => CountInv'
<1> SUFFICES ASSUME IInv, [Next]_vars PROVE CountInv'
  OBVIOUS
<1> USE CameraAssumption
    DEF CountInv, RowsInOrder, Rows, Waiting, memoryVars, sensorVars, mainVars, imgVars
<1>0. CountTypes /\ CountInv /\ DataTypes
  BY TypeParts DEF IInv
<1>1. CASE RowStart BY <1>0, <1>1 DEF RowStart
<1>2. CASE RowEnd BY <1>0, <1>2 DEF RowEnd
<1>3. CASE Vsync BY <1>0, <1>3 DEF Vsync
<1>4. CASE Top BY <1>0, <1>4 DEF Top, Snapshot, Nothing
<1>5. CASE Apps BY <1>0, <1>5 DEF Apps, Snapshot, StartVideo, StopVideo, Nothing
<1>6. CASE Process BY <1>0, <1>6 DEF Process, CountTypes
<1>7. CASE Encode
  <2>1. PICK b \in RowRead(cur_stack_macroblk_) :
          picture' = IF cur_stack_macroblk_ = 0 THEN <<b>> ELSE Append(picture, b)
    BY <1>7 DEF Encode
  <2>3. Len(picture') = cur_stack_macroblk_ + 1
    BY <1>0, <1>7, <2>1 DEF DataTypes, Encode
  <2> QED
    BY <1>0, <1>7, <2>3 DEF Encode, CountTypes
<1>8. CASE Finish BY <1>0, <1>8 DEF Finish
<1>9. CASE UNCHANGED vars BY <1>0, <1>9 DEF vars
<1> QED
  BY <1>1, <1>2, <1>3, <1>4, <1>5, <1>6, <1>7, <1>8, <1>9 DEF Next, Sensor, Main

\* The channel writes behind the buffer only where a row of the frame has no place
\* in it, and a count that is past the buffer was reported after such a row.
LEMMA BufferInvStep == IInv /\ [Next]_vars => BufferInv'
<1> SUFFICES ASSUME IInv, [Next]_vars PROVE BufferInv'
  OBVIOUS
<1> USE CameraAssumption
    DEF BufferInv, Roomy, DmaInv, CountTypes, memoryVars, sensorVars, mainVars, imgVars
<1>0. CountTypes /\ DmaInv /\ BufferInv /\ inRow \in BOOLEAN /\ behind \in BOOLEAN
  BY TypeParts DEF IInv, FlagTypes
<1>b. bufRows \in Nat /\ bufRows > 0
  BY <1>0
<1>1. CASE RowStart
  <2>1. behind' <=> behind \/ (dmaOn /\ DADDR >= bufRows)
    BY <1>1 DEF RowStart
  <2> QED BY <1>0, <1>b, <1>1, <2>1 DEF RowStart
<1>2. CASE RowEnd BY <1>0, <1>b, <1>2 DEF RowEnd, Camera_Handler
<1>3. CASE Vsync BY <1>0, <1>b, <1>3 DEF Vsync, FLEXIO_Ov7670AsynCallback
<1>4. CASE Top BY <1>0, <1>b, <1>4 DEF Top, Snapshot, Nothing
<1>5. CASE Apps BY <1>0, <1>b, <1>5 DEF Apps, Snapshot, StartVideo, StopVideo, Nothing
<1>6. CASE Process BY <1>0, <1>b, <1>6 DEF Process
<1>7. CASE Encode BY <1>0, <1>b, <1>7 DEF Encode
<1>8. CASE Finish BY <1>0, <1>b, <1>8 DEF Finish
<1>9. CASE UNCHANGED vars BY <1>0, <1>b, <1>9 DEF vars
<1> QED
  BY <1>1, <1>2, <1>3, <1>4, <1>5, <1>6, <1>7, <1>8, <1>9 DEF Next, Sensor, Main

-----------------------------------------------------------------------------
(* One frame to a picture.                                                   *)

\* A write of the channel changes the row it is aimed at.
LEMMA StoredAt ==
  ASSUME g_FlexioCameraMacroblockBuffer \in [Rows -> BlockType], NEW b, NEW r \in Rows
  PROVE  /\ dmaOn /\ DADDR = r => Stored(b)[r] = b
         /\ ~dmaOn \/ DADDR # r => Stored(b)[r] = g_FlexioCameraMacroblockBuffer[r]
BY DEF Stored

\* A request that finds nothing of an earlier capture leaves nothing of it.
LEMMA RequestIsQuiet ==
  ASSUME Snapshot \/ StartVideo, clean', pc' \in Waiting, UNCHANGED <<dmaOn, line>>,
         line \in 0..MACROLINES
  PROVE  Quiet'
<1>1. CASE Snapshot
  <2>0. clean' = ~InProgress
    BY <1>1 DEF Snapshot
  <2>1. ~InProgress
    BY Zenon, <2>0
  <2> QED BY <1>1, <2>1, CameraAssumption DEF Snapshot, InProgress, Quiet
<1>2. CASE StartVideo
  <2>1. ~(dmaOn /\ line < MACROLINES)
    BY Zenon, <1>2 DEF StartVideo
  <2> QED BY <1>2, <2>1, CameraAssumption DEF StartVideo, Quiet
<1> QED BY <1>1, <1>2

\* The other steps of the main loop between rows keep what is known of them.
LEMMA IdleKeeps ==
  ASSUME IInv, StopVideo \/ Nothing, clean', requests' > 0, Roomy,
         pc \in Waiting, pc' \in Waiting,
         UNCHANGED <<sensorVars, mblk_cnt_, _imgPtr, picture>>
  PROVE  Quiet' \/ Capturing' \/ Captured'
<1> USE DEF memoryVars, sensorVars, StopVideo, Nothing
<1>1. Quiet \/ Capturing \/ Captured
  BY DEF IInv, CleanInv
<1>2. CASE Quiet
  BY <1>2 DEF Quiet
<1>3. Stable(line)' = Stable(line) /\ Stable(MACROLINES)' = Stable(MACROLINES)
  BY DEF Stable
<1>4. Given => Given'
  BY DEF Given, Waiting
<1>5. CASE Capturing
  BY <1>3, <1>4, <1>5 DEF Capturing
<1>6. CASE Captured
  BY <1>3, <1>4, <1>6 DEF Captured
<1> QED
  BY <1>1, <1>2, <1>5, <1>6

\* The sensor's signals: a row is written behind those that are there, and a
\* frame begins or ends.
LEMMA CleanSensor ==
  ASSUME IInv, Sensor, clean', requests' > 0, Roomy
  PROVE  Quiet' \/ Capturing' \/ Captured'
<1> USE CameraAssumption DEF memoryVars, sensorVars, mainVars, imgVars
<1>0. CountTypes /\ DataTypes /\ DmaInv /\ inRow \in BOOLEAN
  BY TypeParts DEF IInv, FlagTypes
<1>1. UNCHANGED mainVars
  BY DEF Sensor, RowStart, RowEnd, Vsync
<1>2. Quiet \/ Capturing \/ Captured
  BY <1>1 DEF IInv, CleanInv
<1>3. CASE RowStart
  <2>1. CASE Quiet BY <1>3, <2>1 DEF RowStart, Quiet
  <2>2. Given => Given' BY <1>3 DEF RowStart, Given
  <2>3. CASE Capturing
    <3>1. Stable(line)'
      BY <1>0, <1>3, <2>3, StoredAt DEF RowStart, Capturing, Stable, DataTypes, Rows
    <3> QED BY <1>3, <2>2, <2>3, <3>1 DEF RowStart, Capturing
  <2>4. CASE Captured
    <3>1. Stable(MACROLINES)'
      BY <1>0, <1>3, <2>4, StoredAt DEF RowStart, Captured, Stable, DataTypes
    <3> QED BY <1>3, <2>2, <2>4, <3>1 DEF RowStart, Captured
  <2> QED BY <1>2, <2>1, <2>3, <2>4
<1>4. CASE RowEnd
  <2>1. CASE Quiet
    BY <1>0, <1>4, <2>1 DEF RowEnd, Camera_Handler, Quiet, CountTypes, DmaInv
  <2>3. CASE Capturing
    <3>1. line' = line + 1 /\ DADDR' = line + 1 /\ cur_flexio_macroblk_' = line
          /\ line \in Rows
      BY <1>0, <1>4, <2>3 DEF RowEnd, Camera_Handler, Capturing, DmaInv, CountTypes, Rows
    <3>2. \A r \in Rows : r < line + 1 =>
             g_FlexioCameraMacroblockBuffer'[r] = Block(frame, r)
      <4> SUFFICES ASSUME NEW r \in Rows, r < line + 1
                   PROVE  g_FlexioCameraMacroblockBuffer'[r] = Block(frame, r)
        OBVIOUS
      <4>1. g_FlexioCameraMacroblockBuffer' = Stored(Block(frame, line))
        BY <1>4 DEF RowEnd
      <4>2. CASE r = line
        BY <1>0, <2>3, <4>1, <4>2, StoredAt DEF Capturing, DataTypes
      <4>3. CASE r # line
        <5>1. r < line
          BY <3>1, <4>3 DEF Rows
        <5>2. g_FlexioCameraMacroblockBuffer[r] = Block(frame, r)
          BY <2>3, <5>1 DEF Capturing, Stable
        <5> QED BY <1>0, <2>3, <4>1, <4>3, <5>2, StoredAt DEF Capturing, DataTypes
      <4> QED BY <4>2, <4>3
    <3>3. Stable(line)'
      BY <1>4, <3>1, <3>2 DEF Stable, RowEnd
    <3>4. Given'
      BY <1>0, <1>4, <2>3, <3>1 DEF Given, Capturing, RowEnd, CountTypes
    <3> QED BY <1>0, <1>4, <2>3, <3>1, <3>3, <3>4 DEF Capturing, RowEnd, CountTypes
  <2>4. CASE Captured
    <3>1. Stable(MACROLINES)'
      BY <1>0, <1>4, <2>4, StoredAt DEF RowEnd, Captured, Stable, DataTypes
    <3>2. Given'
      BY <1>4, <2>4 DEF RowEnd, Camera_Handler, Captured, Given
    <3> QED BY <1>4, <2>4, <3>1, <3>2 DEF RowEnd, Camera_Handler, Captured
  <2> QED BY <1>2, <2>1, <2>3, <2>4
<1>5. CASE Vsync
  <2> USE DEF Vsync, FLEXIO_Ov7670AsynCallback
  <2>1. CASE Quiet /\ s_FlexioStartCapture = 0
    BY <1>5, <2>1 DEF Quiet
  <2>2. CASE Quiet /\ s_FlexioStartCapture # 0
    <3>1. s_FlexioStartCapture' = 0 /\ dmaOn' /\ DADDR' = 0 /\ line' = 0
      BY <1>0, <1>5, <2>2 DEF CountTypes
    <3>2. cur_flexio_macroblk_' = -1 /\ cur_stack_macroblk_' = -1 /\ pc' \in Waiting
      BY <1>5, <2>2 DEF Quiet
    <3>3. Stable(line)'
      BY <3>1 DEF Stable, Rows
    <3>4. Given'
      BY <3>2 DEF Given, Waiting
    <3> QED BY <3>1, <3>2, <3>3, <3>4 DEF Capturing
  <2>3. CASE Capturing
    <3>1. s_FlexioStartCapture' = 0 /\ ~dmaOn' /\ frame' = frame /\ line = MACROLINES
      BY <1>5, <2>3 DEF Capturing
    <3>2. Stable(MACROLINES)'
      BY <1>5, <2>3, <3>1 DEF Capturing, Stable
    <3>3. Given'
      BY <1>5, <2>3, <3>1 DEF Capturing, Given
    <3> QED BY <1>5, <2>3, <3>1, <3>2, <3>3 DEF Capturing, Captured
  <2>4. CASE Captured
    <3>1. s_FlexioStartCapture' = 0 /\ ~dmaOn' /\ frame' = frame
      BY <1>5, <2>4 DEF Captured
    <3>2. Stable(MACROLINES)'
      BY <1>5, <2>4, <3>1 DEF Captured, Stable
    <3>3. Given'
      BY <1>5, <2>4, <3>1 DEF Captured, Given
    <3> QED BY <1>5, <2>4, <3>1, <3>2, <3>3 DEF Captured
  <2> QED BY <1>2, <2>1, <2>2, <2>3, <2>4
<1> QED
  BY <1>3, <1>4, <1>5 DEF Sensor

\* The encoder reads a row that is of the frame and does not change any more.
LEMMA CleanEncode ==
  ASSUME IInv, Encode, clean', requests' > 0, Roomy
  PROVE  Capturing' \/ Captured'
<1> USE CameraAssumption DEF memoryVars, sensorVars, mainVars, imgVars
<1> DEFINE b == g_FlexioCameraMacroblockBuffer[cur_stack_macroblk_]
<1>0. CountTypes /\ DataTypes /\ CountInv
  BY TypeParts DEF IInv
<1>1. Capturing \/ Captured
  BY DEF IInv, CleanInv, Encode, Quiet, Waiting
<1>2. cur_stack_macroblk_ \in Rows /\ Given
  BY <1>0, <1>1 DEF Encode, CountInv, RowsInOrder, Capturing, Captured
<1>3. b = Block(frame, cur_stack_macroblk_)
  BY <1>0, <1>1, <1>2 DEF Capturing, Captured, Stable, Given, CountTypes, Rows
<1>4. RowRead(cur_stack_macroblk_) = {b} /\ (cur_stack_macroblk_ = 0 => picture' = <<b>>)
  <2>1. cur_stack_macroblk_ < bufRows
    BY <1>0, <1>2 DEF Roomy, Rows, CountTypes
  <2>2. RowRead(cur_stack_macroblk_) = {b}
    BY <2>1 DEF RowRead
  <2> HIDE DEF b
  <2> QED BY <2>2 DEF Encode
<1>5. cur_stack_macroblk_ # 0 =>
        /\ picture' = Append(picture, b)
        /\ Len(picture) = cur_stack_macroblk_
        /\ \A i \in 1..Len(picture) : picture[i] = Block(frame, i - 1)
  <2> HIDE DEF b
  <2> QED BY <1>0, <1>2, <1>4 DEF Encode, CountInv, RowsInOrder, Given, Rows
<1>6. b \in BlockType /\ picture \in Seq(BlockType)
  BY <1>0, <1>2 DEF DataTypes
<1> HIDE DEF b
<1>7. \A i \in 1..Len(picture') : picture'[i] = Block(frame, i - 1)
  <2>1. CASE cur_stack_macroblk_ = 0
    <3>1. Len(picture') = 1 /\ picture'[1] = b
      BY <1>4, <2>1
    <3>2. b = Block(frame, 1 - 1)
      BY <1>3, <2>1
    <3> QED BY <3>1, <3>2
  <2>2. CASE cur_stack_macroblk_ # 0
    BY <1>2, <1>3, <1>5, <1>6, <2>2
  <2> QED BY <2>1, <2>2
<1>8. Given'
  BY <1>2, <1>7 DEF Encode, Given, Rows
<1>9. Stable(line)' = Stable(line) /\ Stable(MACROLINES)' = Stable(MACROLINES)
  BY DEF Encode, Stable
<1> QED
  BY <1>1, <1>8, <1>9 DEF Encode, Capturing, Captured

\* Every step keeps an undisturbed capture quiet, capturing or captured.
LEMMA CleanInvStep == IInv /\ [Next]_vars => CleanInv'
<1>r. ASSUME [Next]_vars PROVE bufRows' = bufRows
  BY <1>r DEF Next, Sensor, Main, RowStart, RowEnd, Vsync, Top, Process, Encode, Finish, Apps,
              vars, sensorVars, memoryVars
<1> SUFFICES ASSUME IInv, [Next]_vars, clean', requests' > 0, Roomy
             PROVE  Quiet' \/ Capturing' \/ Captured'
  BY <1>r DEF CleanInv, Roomy
<1> USE CameraAssumption DEF memoryVars, sensorVars, mainVars, imgVars
<1>0. CountTypes /\ CountInv
  BY TypeParts DEF IInv
<1>1. CASE Sensor BY <1>1, CleanSensor
<1>2. CASE Top
  BY <1>0, <1>2, RequestIsQuiet, IdleKeeps DEF Top, Waiting, CountTypes
<1>3. CASE Apps
  BY <1>0, <1>3, RequestIsQuiet, IdleKeeps DEF Apps, Waiting, CountTypes
<1>4. CASE Process
  <2>1. Quiet \/ Capturing \/ Captured
    BY <1>4 DEF IInv, CleanInv, Process
  <2>2. CASE Quiet BY <1>4, <2>2 DEF Process, Quiet, Waiting
  <2>3. Stable(line)' = Stable(line) /\ Stable(MACROLINES)' = Stable(MACROLINES)
    BY <1>4 DEF Process, Stable
  <2>4. Given => Given'
    BY <1>0, <1>4 DEF Process, Given, CountTypes
  <2>5. CASE Capturing BY <1>4, <2>3, <2>4, <2>5 DEF Process, Capturing
  <2>6. CASE Captured BY <1>4, <2>3, <2>4, <2>6 DEF Process, Captured
  <2> QED BY <2>1, <2>2, <2>5, <2>6
<1>5. CASE Encode BY <1>5, CleanEncode
<1>6. CASE Finish
  <2>1. Capturing \/ Captured
    BY <1>6 DEF IInv, CleanInv, Finish, Quiet, Waiting
  <2>2. dmaOn => line = MACROLINES
    BY <1>0, <1>6, <2>1 DEF Finish, Capturing, Captured, Given, CountInv, CountTypes
  <2> QED BY <1>6, <2>2 DEF Finish, Quiet, Waiting
<1>7. CASE UNCHANGED vars
  <2>1. Quiet \/ Capturing \/ Captured
    BY <1>7 DEF IInv, CleanInv, vars
  <2> QED BY <1>7, <2>1 DEF vars, Quiet, Capturing, Captured, Stable, Given
<1> QED
  BY <1>1, <1>2, <1>3, <1>4, <1>5, <1>6, <1>7 DEF Next, Main

-----------------------------------------------------------------------------
(* The theorems.                                                             *)

\* The initial states satisfy the inductive invariant.
LEMMA InitIInv == Init => IInv
<1> SUFFICES ASSUME Init PROVE IInv
  OBVIOUS
<1> USE CameraAssumption DEF Init
<1>1. FlagTypes BY Zenon DEF FlagTypes
<1>2. CountTypes BY DEF CountTypes
<1>3. DataTypes BY BlockTyped DEF DataTypes
<1>4. DmaInv BY DEF DmaInv
<1>5. CountInv BY DEF CountInv, RowsInOrder, Waiting
<1>7. BufferInv BY DEF BufferInv
<1>6. CleanInv BY DEF CleanInv
<1> QED BY <1>1, <1>2, <1>3, <1>4, <1>5, <1>6, <1>7, TypeParts DEF IInv

\* The inductive invariant holds in every state of every behavior.
THEOREM Invariance == Spec => []IInv
<1>1. IInv /\ [Next]_vars => IInv'
  <2> SUFFICES ASSUME IInv, [Next]_vars PROVE IInv'
    OBVIOUS
  <2>1. FlagTypes' /\ CountTypes' /\ DmaInv' /\ BufferInv' /\ DataTypes' /\ CountInv' /\ CleanInv'
    BY FlagTypesStep, CountTypesStep, BufferInvStep, DataTypesStep, CountInvStep, CleanInvStep
  <2>2. TypeOK'
    BY <2>1 DEF TypeOK, FlagTypes, CountTypes, DataTypes, BlockType
  <2> QED BY <2>1, <2>2 DEF IInv
<1> QED
  BY InitIInv, <1>1, PTL DEF Spec

\* Counts, addresses and rows stay in their ranges, for any number of rows.
THEOREM TypeCorrect == Spec => []TypeOK
<1>1. IInv => TypeOK BY DEF IInv
<1> QED BY Invariance, <1>1, PTL

\* The channel writes behind g_FlexioCameraMacroblockBuffer if and only if the
\* definition that the linker took has fewer rows than a frame: then for every
\* picture that is finished.
THEOREM DmaStaysInBuffer == Spec => []DmaInBuffer
<1>1. IInv => DmaInBuffer
  <2> SUFFICES ASSUME IInv PROVE DmaInBuffer
    OBVIOUS
  <2>1. CountTypes /\ BufferInv /\ CountInv /\ bufRows \in Nat
    BY CameraAssumption, TypeParts DEF IInv, CountTypes
  <2> QED
    BY <2>1, CameraAssumption DEF BufferInv, Roomy, CountInv, DmaInBuffer, CountTypes
<1> QED BY Invariance, <1>1, PTL

\* The encoder gets the rows one after the other.
THEOREM EncodesInOrder == Spec => []RowsInOrder
<1>1. IInv => RowsInOrder BY DEF IInv, CountInv
<1> QED BY Invariance, <1>1, PTL

\* A picture that was asked for undisturbed is one frame, in a buffer that holds one.
THEOREM OneFrame == Spec => []PictureOfOneFrame
<1>1. IInv => PictureOfOneFrame
  <2> SUFFICES ASSUME IInv, pc = "finish", clean, requests > 0, Roomy
               PROVE  Whole(picture)
    BY DEF PictureOfOneFrame, Roomy
  <2>0. CountTypes /\ DataTypes /\ CountInv
    BY TypeParts DEF IInv
  <2>1. Given
    BY DEF IInv, CleanInv, Quiet, Waiting, Capturing, Captured
  <2>2. \A i \in 1..MACROLINES : picture[i] = Block(frame, i - 1)
    BY <2>0, <2>1, CameraAssumption DEF Given, CountInv, CountTypes
  <2>3. picture = [i \in 1..MACROLINES |-> picture[i]]
    BY <2>0 DEF DataTypes, CountInv
  <2>4. picture = [i \in 1..MACROLINES |-> Block(frame, i - 1)]
    BY <2>2, <2>3
  <2>5. frame \in 0..frame
    BY <2>0 DEF CountTypes
  <2> QED BY <2>4, <2>5 DEF Whole
<1> QED BY Invariance, <1>1, PTL

=============================================================================
