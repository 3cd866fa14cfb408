---------------------------- MODULE MicRecorder ----------------------------
(***************************************************************************)
(* A recording from the microphone: the DMA channel that fills the two     *)
(* halves of PDMRxData, its interrupt handler MEMS_Handler in pdm2pcm.c,   *)
(* and the first part of AudioFlexClass::process(), which filters a half   *)
(* and writes it to the SD card.  A handler is done before the channel is  *)
(* asked for the next sample.                                              *)
(*                                                                         *)
(* The contents of a half are the number of the half in the recording.     *)
(***************************************************************************)
EXTENDS Integers, Sequences

CONSTANTS
  MaxHalves,      \* bound: halves of a recording before it is stopped
  MaxRecordings   \* bound: calls of startMic()

VARIABLES
  \* the channel
  micOn,       \* FLEXIO_MEMS_Enable with the channel's request
  DADDR,       \* the half it writes; 2 is behind the buffer
  PDMRxData,
  \* the handler's
  Recording_Buff_A,
  \* shared with the main loop
  mems_dma_rdy_, mems_cur_buf_, should_stop_, stopped_,
  \* the main loop's
  pc,
  buf,           \* the argument of worker()
  record2file_,
  written,       \* history: the halves in the file, while none was late
  acquired,      \* history: halves of this recording the channel has filled
  late,          \* history: one was reported before the last one was dealt with
  displaced,     \* history: a recording began with the channel aimed elsewhere
  recordings     \* used up bound

channelVars == <<micOn, DADDR, PDMRxData, Recording_Buff_A, acquired, late>>
sharedVars == <<mems_dma_rdy_, mems_cur_buf_, stopped_>>
fileVars == <<buf, record2file_, written>>
callVars == <<should_stop_, displaced, recordings>>
micVars == <<channelVars, sharedVars, fileVars, callVars>>
vars == <<micVars, pc>>

Halves == {0, 1}
Torn == -1     \* a half that is being written, or never was

Init ==
  /\ micOn = FALSE /\ DADDR = 0 /\ PDMRxData = [h \in Halves |-> Torn]
  /\ Recording_Buff_A = 0
  /\ mems_dma_rdy_ = FALSE /\ mems_cur_buf_ = 0
  /\ should_stop_ = FALSE /\ stopped_ = TRUE
  /\ pc = "process" /\ buf = 0 /\ record2file_ = FALSE /\ written = <<>>
  /\ acquired = 0 /\ late = FALSE /\ displaced = FALSE /\ recordings = 0

-----------------------------------------------------------------------------
(* The channel, and the handler its interrupt runs.                          *)

\* The half is whole, and the one the channel goes on with is not.
Filled(next) ==
  [h \in Halves |-> IF h = next THEN Torn
                    ELSE IF h = DADDR THEN acquired + 1 ELSE PDMRxData[h]]

\* Slip: the channel is aimed at the half it has just filled.
MEMS_HandlerNoFlip ==
  /\ mems_dma_rdy_' = TRUE /\ mems_cur_buf_' = Recording_Buff_A
  /\ stopped_' = (stopped_ \/ should_stop_)
  /\ IF should_stop_
     THEN /\ micOn' = FALSE
          /\ PDMRxData' = Filled(2)
          /\ DADDR' = IF DADDR = 0 THEN 1 ELSE 2
          /\ UNCHANGED Recording_Buff_A
     ELSE /\ Recording_Buff_A' = Recording_Buff_A
          /\ DADDR' = Recording_Buff_A
          /\ PDMRxData' = Filled(DADDR')
          /\ UNCHANGED micOn

\* Slip: what shouldStop() answers is ignored.
MEMS_HandlerGoesOn ==
  /\ mems_dma_rdy_' = TRUE /\ mems_cur_buf_' = Recording_Buff_A
  /\ stopped_' = (stopped_ \/ should_stop_)
  /\ Recording_Buff_A' = 1 - Recording_Buff_A
  /\ DADDR' = 1 - Recording_Buff_A
  /\ PDMRxData' = Filled(DADDR')
  /\ UNCHANGED micOn

\* MEMS_Handler: mems_event_cb reports the half, and the channel is aimed at the
\* other one or, when shouldStop() says so, left behind the half it has filled.
MEMS_Handler ==
  /\ mems_dma_rdy_' = TRUE /\ mems_cur_buf_' = Recording_Buff_A
  /\ stopped_' = (stopped_ \/ should_stop_)
  /\ IF should_stop_
     THEN /\ micOn' = FALSE
          /\ PDMRxData' = Filled(2)
          /\ DADDR' = IF DADDR = 0 THEN 1 ELSE 2
          /\ UNCHANGED Recording_Buff_A
     ELSE /\ Recording_Buff_A' = 1 - Recording_Buff_A
          /\ DADDR' = 1 - Recording_Buff_A
          /\ PDMRxData' = Filled(DADDR')
          /\ UNCHANGED micOn

HalfDone ==
  /\ micOn
  /\ acquired < MaxHalves \/ should_stop_
  /\ MEMS_Handler
  /\ acquired' = acquired + 1
  /\ late' = (late \/ mems_dma_rdy_)
  /\ UNCHANGED <<fileVars, callVars, pc>>

-----------------------------------------------------------------------------
(* process(), as far as the recording goes.                                  *)

\* worker() is called with the half that was reported last.
Process ==
  /\ pc = "process"
  /\ IF mems_dma_rdy_ THEN pc' = "work" /\ buf' = mems_cur_buf_
                      ELSE pc' = "player" /\ UNCHANGED buf
  /\ UNCHANGED <<channelVars, sharedVars, record2file_, written, callVars>>

\* The half is filtered, and written if there is a file.
Work ==
  /\ pc = "work" /\ pc' = "clear"
  /\ written' = IF record2file_ /\ ~late /\ ~displaced
                THEN Append(written, PDMRxData[buf]) ELSE written
  /\ buf' = 0
  /\ UNCHANGED <<channelVars, sharedVars, record2file_, callVars>>

ClearReady ==
  /\ pc = "clear" /\ pc' = "test"
  /\ mems_dma_rdy_' = FALSE
  /\ UNCHANGED <<channelVars, mems_cur_buf_, stopped_, fileVars, callVars>>

\* Slip: a recording that has stopped is not noticed.
TestStoppedNever ==
  /\ pc = "test" /\ pc' = "player"
  /\ UNCHANGED <<channelVars, sharedVars, fileVars, callVars>>

\* turnRecordingOff() after the last half
TestStopped ==
  /\ pc = "test" /\ pc' = "player"
  /\ record2file_' = (record2file_ /\ ~stopped_)
  /\ UNCHANGED <<channelVars, sharedVars, buf, written, callVars>>

-----------------------------------------------------------------------------
(* The calls of main().                                                      *)

\* turnRecordingOn(), which may fail to open the file, and startMic().  The
\* channel goes on where it is aimed.
Record ==
  /\ pc = "apps" /\ pc' = "process"
  /\ recordings < MaxRecordings /\ ~micOn /\ ~record2file_
  /\ recordings' = recordings + 1
  /\ record2file_' \in BOOLEAN /\ written' = <<>>
  /\ should_stop_' = FALSE /\ stopped_' = FALSE
  /\ Recording_Buff_A' = 0 /\ micOn' = TRUE
  /\ PDMRxData' = [h \in Halves |-> IF h = DADDR THEN Torn ELSE PDMRxData[h]]
  /\ acquired' = 0
  /\ late' = mems_dma_rdy_
  /\ displaced' = (displaced \/ DADDR # 0)
  /\ UNCHANGED <<DADDR, mems_dma_rdy_, mems_cur_buf_, buf>>

\* stopMic(), which main() calls once
StopMic ==
  /\ pc = "apps" /\ pc' = "process"
  /\ ~should_stop_ /\ recordings > 0
  /\ should_stop_' = TRUE
  /\ UNCHANGED <<channelVars, sharedVars, fileVars, displaced, recordings>>

-----------------------------------------------------------------------------
Main == Process \/ Work \/ ClearReady \/ TestStopped

Calls == Record \/ StopMic

\* What else the main loop does.
Elsewhere ==
  /\ \/ pc = "player" /\ pc' = "apps"
     \/ pc = "apps" /\ pc' = "process"
  /\ UNCHANGED micVars

Next == HalfDone \/ Main \/ Calls \/ Elsewhere

Spec == Init /\ [][Next]_vars

-----------------------------------------------------------------------------
(* Properties.                                                               *)

MicTypes ==
  /\ micOn \in BOOLEAN /\ DADDR \in 0..2 /\ Recording_Buff_A \in Halves
  /\ PDMRxData \in [Halves -> -1..(MaxHalves + 1)]
  /\ mems_dma_rdy_ \in BOOLEAN /\ mems_cur_buf_ \in Halves
  /\ should_stop_ \in BOOLEAN /\ stopped_ \in BOOLEAN
  /\ pc \in {"process", "work", "clear", "test", "player", "pingpong", "refill", "apps"}
  /\ buf \in Halves /\ record2file_ \in BOOLEAN
  /\ written \in Seq(-1..(MaxHalves + 1))
  /\ acquired \in 0..(MaxHalves + 1) /\ late \in BOOLEAN
  /\ displaced \in BOOLEAN /\ recordings \in 0..MaxRecordings

\* The half that is reported and not yet in the file.
Pending == IF mems_dma_rdy_ /\ pc # "clear" THEN 1 ELSE 0

\* While a file is open it holds the halves of the recording so far, whole, each
\* once and in order, as long as process() is done with a half before the next
\* one is reported: the half that worker() reads is not the one MEMS_Handler has
\* aimed the channel at.  A recording after the first begins with the channel
\* where the last one left it, and is displaced.
RecordedInOrder ==
  record2file_ /\ ~late /\ ~displaced => written = [i \in 1..(acquired - Pending) |-> i]

\* A recording that was asked to stop is brought to its end: the channel is off and
\* the file is closed.
StopCloses == [](should_stop_ => <>(~should_stop_ \/ (~micOn /\ ~record2file_)))
=============================================================================
