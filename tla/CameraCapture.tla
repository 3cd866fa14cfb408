--------------------------- MODULE CameraCapture ---------------------------
(***************************************************************************)
(* One picture from the OV7670: the sensor's frame signals, the DMA        *)
(* channel that copies macroblock rows to memory, the two interrupt        *)
(* handlers of flexio_ov7670.c, and the main loop that compresses the      *)
(* rows in camera.cpp.  The rows and the variable cur_flexio_macroblk_     *)
(* are all that the handlers and the main loop share.                      *)
(*                                                                         *)
(* A row of the sensor is one major loop of the DMA channel.  A handler is *)
(* done before the next row or the next frame begins.                      *)
(***************************************************************************)
EXTENDS Integers, Sequences

CONSTANTS
  MACROLINES,   \* macroblock rows of a frame
  Definitions,  \* the rows of each definition of g_FlexioCameraMacroblockBuffer
  Modes,        \* what picturemode() was called with before the main loop
  MaxRequests   \* bound: captures asked for

ASSUME CameraAssumption ==
  /\ MACROLINES \in Nat /\ MACROLINES > 0
  /\ Definitions \subseteq Nat \ {0}
  /\ MaxRequests \in Nat
  /\ Modes \subseteq {"single_capture", "single_2sdcard"}

Rows == 0..(MACROLINES - 1)

VARIABLES
  \* the sensor and the DMA channel
  line,      \* rows of the frame that the sensor has sent
  inRow,     \* it is sending a row
  dmaOn,     \* FLEXIO_CAMERA_EnableRxDMA
  DADDR,     \* the row of memory the channel writes next
  frame,     \* history: frames captured, which names the frame of a row
  bufRows,   \* the rows of the definition the linker took (-z muldefs)
  g_FlexioCameraMacroblockBuffer,   \* the memory from its start, a frame of it
  behind,    \* history: the channel has written behind the buffer
  \* shared between the handlers and the main loop
  s_FlexioStartCapture, cur_flexio_macroblk_,
  \* the handlers'
  mblk_cnt_,
  \* the main loop's
  cur_stack_macroblk_, shot_done, video_type_,
  _imgPtr, _imgSize,   \* in rows; _imgPtr as an offset in imgBuffer
  pc,
  picture,   \* history: what the encoder has been given since huffman_start
  clean,     \* history: the last request found nothing of an earlier one left
  requests   \* used up bound

memoryVars == <<bufRows, g_FlexioCameraMacroblockBuffer, behind>>
sensorVars == <<line, inRow, dmaOn, DADDR, frame, memoryVars>>
imgVars == <<_imgPtr, _imgSize>>
mainVars == <<cur_stack_macroblk_, shot_done, video_type_, imgVars, pc, picture,
              clean, requests>>
vars == <<sensorVars, s_FlexioStartCapture, cur_flexio_macroblk_, mblk_cnt_, mainVars>>

Block(f, r) == [frame |-> f, row |-> r]
Torn == Block(-1, 0)    \* a row that is being written

\* camera.begin() leaves the channel on, wherever the sensor is in its frame.
Init ==
  /\ line \in 0..MACROLINES /\ inRow = FALSE
  /\ dmaOn = TRUE /\ DADDR = 0 /\ frame = 0
  /\ bufRows \in Definitions /\ behind = FALSE
  /\ g_FlexioCameraMacroblockBuffer = [r \in Rows |-> Torn]
  /\ s_FlexioStartCapture = 0 /\ cur_flexio_macroblk_ = -1 /\ mblk_cnt_ = 0
  /\ cur_stack_macroblk_ = -1 /\ shot_done = FALSE /\ video_type_ \in Modes
  /\ _imgPtr = 0 /\ _imgSize = 0
  /\ pc = "top" /\ picture = <<>> /\ clean = TRUE /\ requests = 0

-----------------------------------------------------------------------------
(* The sensor, with the handlers its signals run.                            *)

Stored(b) ==
  IF dmaOn /\ DADDR \in Rows
  THEN [g_FlexioCameraMacroblockBuffer EXCEPT ![DADDR] = b]
  ELSE g_FlexioCameraMacroblockBuffer

RowStart ==
  /\ line < MACROLINES /\ ~inRow
  /\ inRow' = TRUE
  /\ g_FlexioCameraMacroblockBuffer' = Stored(Torn)
  /\ behind' = (behind \/ (dmaOn /\ DADDR >= bufRows))
  /\ UNCHANGED <<line, dmaOn, DADDR, frame, bufRows, s_FlexioStartCapture,
                 cur_flexio_macroblk_, mblk_cnt_, mainVars>>

\* Slip: the count goes up before it is reported.
Camera_HandlerAhead ==
  IF dmaOn
  THEN /\ cur_flexio_macroblk_' = mblk_cnt_ + 1
       /\ mblk_cnt_' = mblk_cnt_ + 1
       /\ DADDR' = mblk_cnt_ + 1
  ELSE UNCHANGED <<cur_flexio_macroblk_, mblk_cnt_, DADDR>>

\* The interrupt of a finished major loop: webCam::jpegMacroBlkCb, and the
\* channel is aimed at the next row.
Camera_Handler ==
  IF dmaOn
  THEN /\ cur_flexio_macroblk_' = mblk_cnt_
       /\ mblk_cnt_' = mblk_cnt_ + 1
       /\ DADDR' = mblk_cnt_ + 1
  ELSE UNCHANGED <<cur_flexio_macroblk_, mblk_cnt_, DADDR>>

RowEnd ==
  /\ inRow
  /\ inRow' = FALSE
  /\ line' = line + 1
  /\ g_FlexioCameraMacroblockBuffer' = Stored(Block(frame, line))
  /\ Camera_Handler
  /\ UNCHANGED <<dmaOn, frame, bufRows, behind, s_FlexioStartCapture, mainVars>>

\* Slip: the channel is stopped only where a capture begins.
FLEXIO_Ov7670AsynCallbackRunsOn ==
  IF s_FlexioStartCapture > 0
  THEN /\ s_FlexioStartCapture' = 0
       /\ mblk_cnt_' = 0 /\ DADDR' = 0
       /\ dmaOn' = TRUE
       /\ frame' = frame + 1
  ELSE UNCHANGED <<s_FlexioStartCapture, mblk_cnt_, DADDR, frame, dmaOn>>

\* The interrupt of the VSYNC pin.
FLEXIO_Ov7670AsynCallback ==
  IF s_FlexioStartCapture > 0
  THEN /\ s_FlexioStartCapture' = 0
       /\ mblk_cnt_' = 0 /\ DADDR' = 0
       /\ dmaOn' = TRUE
       /\ frame' = frame + 1
  ELSE /\ dmaOn' = FALSE
       /\ UNCHANGED <<s_FlexioStartCapture, mblk_cnt_, DADDR, frame>>

Vsync ==
  /\ line = MACROLINES
  /\ line' = 0
  /\ FLEXIO_Ov7670AsynCallback
  /\ UNCHANGED <<inRow, memoryVars, cur_flexio_macroblk_, mainVars>>

-----------------------------------------------------------------------------
(* The main loop: a frame of a video is asked for, process(), the callbacks  *)
(* of the network and of Firmata, and again.                                 *)

\* Rows of an earlier capture are still to come, or have not been used up.
InProgress ==
  \/ dmaOn /\ line < MACROLINES
  \/ cur_flexio_macroblk_ # -1 \/ cur_stack_macroblk_ # -1

\* snapshot()
Snapshot ==
  /\ requests < MaxRequests
  /\ requests' = requests + 1
  /\ shot_done' = FALSE
  /\ _imgSize' = 0
  /\ s_FlexioStartCapture' = 1
  /\ clean' = ~InProgress
  /\ UNCHANGED <<cur_flexio_macroblk_, cur_stack_macroblk_, video_type_>>

\* Slip: startvideo() leaves the counts of the rows as they are, like snapshot().
StartVideoKeepsCounts ==
  /\ requests < MaxRequests
  /\ requests' = requests + 1
  /\ shot_done' = FALSE
  /\ video_type_' = "bitbang"
  /\ s_FlexioStartCapture' = 1
  /\ clean' = ~(dmaOn /\ line < MACROLINES)
  /\ UNCHANGED <<_imgSize, cur_stack_macroblk_, cur_flexio_macroblk_>>

\* startvideo(wsnum)
StartVideo ==
  /\ requests < MaxRequests
  /\ requests' = requests + 1
  /\ shot_done' = FALSE
  /\ cur_stack_macroblk_' = -1 /\ cur_flexio_macroblk_' = -1
  /\ video_type_' = "bitbang"
  /\ s_FlexioStartCapture' = 1
  /\ clean' = ~(dmaOn /\ line < MACROLINES)
  /\ UNCHANGED _imgSize

\* stopvideo()
StopVideo ==
  /\ video_type_ = "bitbang"
  /\ video_type_' = "no_video"
  /\ s_FlexioStartCapture' = 0
  /\ UNCHANGED <<requests, shot_done, cur_flexio_macroblk_, cur_stack_macroblk_,
                 _imgSize, clean>>

Nothing ==
  UNCHANGED <<requests, shot_done, cur_flexio_macroblk_, cur_stack_macroblk_,
              video_type_, _imgSize, clean, s_FlexioStartCapture>>

NextFrame == video_type_ = "bitbang" /\ shot_done

Top ==
  /\ pc = "top" /\ pc' = "process"
  /\ IF NextFrame /\ requests < MaxRequests THEN Snapshot ELSE Nothing
  /\ UNCHANGED <<sensorVars, mblk_cnt_, _imgPtr, picture>>

\* take_picture_cb and webSocketEvent run in the rest of the loop.
Apps ==
  /\ pc = "apps" /\ pc' = "top"
  /\ Snapshot \/ StartVideo \/ StopVideo \/ Nothing
  /\ UNCHANGED <<sensorVars, mblk_cnt_, _imgPtr, picture>>

\* Slip: the row taken is the one last reported.
ProcessSkips ==
  /\ pc = "process"
  /\ IF cur_stack_macroblk_ < cur_flexio_macroblk_
     THEN /\ cur_stack_macroblk_' = cur_flexio_macroblk_
          /\ pc' = "encode"
     ELSE pc' = "apps" /\ UNCHANGED cur_stack_macroblk_
  /\ UNCHANGED <<sensorVars, s_FlexioStartCapture, cur_flexio_macroblk_, mblk_cnt_,
                 shot_done, video_type_, imgVars, picture, clean, requests>>

\* Slip: a row is taken when the one after it is there.
ProcessLate ==
  /\ pc = "process"
  /\ IF cur_stack_macroblk_ + 1 < cur_flexio_macroblk_
     THEN /\ cur_stack_macroblk_' = cur_stack_macroblk_ + 1
          /\ pc' = "encode"
     ELSE pc' = "apps" /\ UNCHANGED cur_stack_macroblk_
  /\ UNCHANGED <<sensorVars, s_FlexioStartCapture, cur_flexio_macroblk_, mblk_cnt_,
                 shot_done, video_type_, imgVars, picture, clean, requests>>

\* process() up to compress_macroblock
Process ==
  /\ pc = "process"
  /\ IF cur_stack_macroblk_ < cur_flexio_macroblk_
     THEN /\ cur_stack_macroblk_' = cur_stack_macroblk_ + 1
          /\ pc' = "encode"
     ELSE pc' = "apps" /\ UNCHANGED cur_stack_macroblk_
  /\ UNCHANGED <<sensorVars, s_FlexioStartCapture, cur_flexio_macroblk_, mblk_cnt_,
                 shot_done, video_type_, imgVars, picture, clean, requests>>

InMemory == video_type_ \in {"single_capture", "single_2sdcard"}

\* A row of the memory as the main loop reads it: what is behind the buffer is some
\* other variable's also, and may have been written over.
RowRead(r) == {g_FlexioCameraMacroblockBuffer[r]} \union (IF r < bufRows THEN {} ELSE {Torn})

\* compress_macroblock: row 0 starts a file, and write_jpeg puts what the encoder
\* makes of a row behind what is in imgBuffer or sends it off.
Encode ==
  /\ pc = "encode"
  /\ \E b \in RowRead(cur_stack_macroblk_) :
       picture' = IF cur_stack_macroblk_ = 0 THEN <<b>> ELSE Append(picture, b)
  /\ _imgPtr' = IF InMemory THEN _imgPtr + 1 ELSE _imgPtr
  /\ pc' = IF cur_stack_macroblk_ >= MACROLINES - 1 THEN "finish" ELSE "apps"
  /\ UNCHANGED <<sensorVars, s_FlexioStartCapture, cur_flexio_macroblk_, mblk_cnt_,
                 cur_stack_macroblk_, shot_done, video_type_, _imgSize, clean, requests>>

\* compress_macroblock after the last row; captureCb, or a file of the SD card
Finish ==
  /\ pc = "finish" /\ pc' = "apps"
  /\ shot_done' = TRUE
  /\ cur_stack_macroblk_' = -1 /\ cur_flexio_macroblk_' = -1
  /\ _imgSize' = IF InMemory THEN _imgPtr ELSE _imgSize
  /\ UNCHANGED <<sensorVars, s_FlexioStartCapture, mblk_cnt_, video_type_, _imgPtr,
                 picture, clean, requests>>

-----------------------------------------------------------------------------
Sensor == RowStart \/ RowEnd \/ Vsync
Main == Top \/ Process \/ Encode \/ Finish \/ Apps

Next == Sensor \/ Main

Spec == Init /\ [][Next]_vars

\* The sensor runs freely, and so does the main loop.
FairSpec == Spec /\ WF_vars(Sensor) /\ WF_vars(Main)

-----------------------------------------------------------------------------
(* Properties.                                                               *)

TypeOK ==
  /\ line \in 0..MACROLINES /\ inRow \in BOOLEAN /\ dmaOn \in BOOLEAN
  /\ DADDR \in 0..MACROLINES /\ frame \in 0..MaxRequests
  /\ bufRows \in Definitions /\ behind \in BOOLEAN
  /\ g_FlexioCameraMacroblockBuffer \in [Rows -> [frame : -1..MaxRequests, row : Rows]]
  /\ s_FlexioStartCapture \in {0, 1}
  /\ cur_flexio_macroblk_ \in -1..(MACROLINES - 1)
  /\ mblk_cnt_ \in 0..MACROLINES
  /\ cur_stack_macroblk_ \in -1..(MACROLINES - 1)
  /\ shot_done \in BOOLEAN
  /\ video_type_ \in {"no_video", "bitbang", "single_capture", "single_2sdcard"}
  /\ _imgPtr \in Nat /\ _imgSize \in Nat
  /\ pc \in {"top", "process", "encode", "finish", "apps"}
  /\ picture \in Seq([frame : -1..MaxRequests, row : Rows])
  /\ clean \in BOOLEAN /\ requests \in 0..MaxRequests

\* Which of its two definitions the linker takes decides whether the buffer holds
\* a frame.  If it does, the DMA channel never writes behind it: Camera_Handler aims
\* it there after the last row, and the handler of VSYNC stops it or aims it anew
\* before the sensor sends another.  If it does not (camera.cpp has fewer rows than
\* MACROLINES), no picture is finished without that.
DmaInBuffer ==
  /\ behind => bufRows < MACROLINES
  /\ pc = "finish" /\ bufRows < MACROLINES => behind

\* The encoder is given row 0, 1, 2 and so on, each once, and a file starts with
\* row 0, whatever the handlers do to cur_flexio_macroblk_ meanwhile.
RowsInOrder ==
  pc = "encode" => /\ cur_stack_macroblk_ \in Rows
                   /\ cur_stack_macroblk_ = 0 \/ Len(picture) = cur_stack_macroblk_

Whole(p) == \E f \in 0..frame : p = [i \in 1..MACROLINES |-> Block(f, i - 1)]

\* In a buffer that holds a frame a finished picture is the rows of one frame, from
\* top to bottom, none of them overwritten before it was read, if the request for it
\* found the capture before it over: snapshot() leaves the counts of the rows as they
\* are.
PictureOfOneFrame ==
  pc = "finish" /\ clean /\ requests > 0 /\ bufRows >= MACROLINES => Whole(picture)

\* What the comments of flexio_ov7670.c claim without the condition: the handler
\* of VSYNC resets the channel "to sync picture frame".
PictureInSync == pc = "finish" => Whole(picture)

\* Every capture asked for in this way is brought to its end, unless it is
\* stopped, or disturbed by another.
SnapshotCompletes ==
  [](s_FlexioStartCapture = 1 /\ clean
       => <>(shot_done \/ ~clean \/ video_type_ = "no_video"))

\* single_capture keeps one image in RAM, "since we will discard it when the next
\* one come" (camera.h): a finished picture is all there is in imgBuffer.
ImageAlone == _imgSize <= MACROLINES
=============================================================================
