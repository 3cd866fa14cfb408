----------------------------- MODULE AudioFlex -----------------------------
(***************************************************************************)
(* AudioFlexClass: a recording and a playback at the same time.  The two   *)
(* have their own channels and handlers, and one main loop, in which       *)
(* process() sees to the recording first: while it filters a half and      *)
(* writes it to the card nobody refills the buffer of the playback.        *)
(***************************************************************************)
EXTENDS Integers, Sequences

CONSTANTS MaxHalves, MaxRecordings, Blocks, MaxPlays   \* bounds, of the two parts

ASSUME AudioAssumption == {MaxHalves, MaxRecordings, Blocks, MaxPlays} \subseteq Nat

VARIABLES
  micOn, DADDR, PDMRxData, Recording_Buff_A, mems_dma_rdy_, mems_cur_buf_,
  should_stop_, stopped_, buf, record2file_, written, acquired, late, displaced,
  recordings,
  ERQ, SADDR, Audio_Source_Blk, Playing_Buff_A, event_dma_rdy_, p_buf, wav_hlr_, pos,
  stop_, playing_, played, missed, fresh, plays,
  pc   \* where the main loop is

Recorder == INSTANCE MicRecorder
Playback == INSTANCE AudioPlayer

micVars ==
  <<micOn, DADDR, PDMRxData, Recording_Buff_A, mems_dma_rdy_, mems_cur_buf_, should_stop_,
    stopped_, buf, record2file_, written, acquired, late, displaced, recordings>>
playerVars ==
  <<ERQ, SADDR, Audio_Source_Blk, Playing_Buff_A, event_dma_rdy_, p_buf, wav_hlr_, pos,
    stop_, playing_, played, missed, fresh, plays>>
vars == <<micVars, playerVars, pc>>

Init == Recorder!Init /\ Playback!Init

Microphone == Recorder!HalfDone /\ UNCHANGED playerVars
Dac == Playback!BufferDone /\ UNCHANGED micVars

\* process()
RecorderPart == Recorder!Main /\ UNCHANGED playerVars
PlaybackPart == Playback!Main /\ UNCHANGED micVars

\* The rest of the main loop.
Calls ==
  \/ Recorder!Calls /\ UNCHANGED playerVars
  \/ Playback!Play /\ UNCHANGED micVars
NoCall ==
  /\ pc = "apps" /\ pc' = "process"
  /\ UNCHANGED <<micVars, playerVars>>

MainLoop == RecorderPart \/ PlaybackPart \/ Calls \/ NoCall

Next == Microphone \/ Dac \/ MainLoop

Spec == Init /\ [][Next]_vars

\* The channels run by themselves, and so does the main loop.
FairSpec == Spec /\ WF_vars(Microphone) /\ WF_vars(Dac) /\ WF_vars(MainLoop)

-----------------------------------------------------------------------------
(* Properties.                                                               *)

\* The types of both parts.
TypeOK == Recorder!MicTypes /\ Playback!PlayerTypes

\* MicRecorder and AudioPlayer state what these promise; here the two delay each
\* other.
RecordedInOrder == Recorder!RecordedInOrder
PlayedInOrder == Playback!PlayedInOrder
PlayedAll == Playback!PlayedAll
StopCloses == Recorder!StopCloses
PlaybackEnds == Playback!PlaybackEnds
=============================================================================
