---------------------------- MODULE AudioPlayer ----------------------------
(***************************************************************************)
(* Playing a file: the DMA channel that feeds the DAC from two buffers in  *)
(* turn, its interrupt handler Audio_Handler in audio_dma.c, and the       *)
(* second part of AudioFlexClass::process(), pingPongManager, which fills  *)
(* the buffer that is not being played from the SD card.                   *)
(*                                                                         *)
(* A block is what one buffer holds; 0 is silence.  A file has a number of *)
(* whole blocks, and a rest that is shorter than a block.                  *)
(***************************************************************************)
EXTENDS Integers, Sequences

CONSTANTS
  Blocks,     \* whole blocks of a file
  MaxPlays    \* bound: calls of play()

VARIABLES
  \* the channel
  ERQ,         \* its request is enabled
  SADDR,       \* the buffer it plays: "A", "B", or "S", Audio_Silence
  Audio_Source_Blk,   \* Audio_Source_Blk_A and _B
  \* the handler's
  Playing_Buff_A,
  \* shared with the main loop
  event_dma_rdy_,
  \* the main loop's
  pc,
  p_buf,       \* the buffer pingPongManager has chosen
  wav_hlr_,    \* the file is open
  pos,         \* blocks of it that have been read
  stop_, playing_,
  played,      \* history: what of the file has been played to its end
  missed,      \* history: a buffer ran out before the last one was refilled
  fresh,       \* history: play() was called with no stop left of an earlier one
  plays        \* used up bound

dmaVars == <<ERQ, SADDR, Audio_Source_Blk, Playing_Buff_A>>
historyVars == <<played, missed, fresh>>
playerVars == <<dmaVars, event_dma_rdy_, p_buf, wav_hlr_, pos, stop_, playing_,
                historyVars, plays>>
vars == <<playerVars, pc>>

Rest == Blocks + 1
Buffers == {"A", "B"}
Cleared == [b \in Buffers |-> 0]

\* Init_Audio leaves the channel running.
Init ==
  /\ ERQ = TRUE /\ SADDR = "A" /\ Audio_Source_Blk = Cleared /\ Playing_Buff_A = TRUE
  /\ event_dma_rdy_ = FALSE
  /\ pc = "process" /\ p_buf = "A" /\ wav_hlr_ = FALSE /\ pos = 0
  /\ stop_ = FALSE /\ playing_ = FALSE
  /\ played = <<>> /\ missed = FALSE /\ fresh = FALSE /\ plays = 0

-----------------------------------------------------------------------------
(* The channel, and the handler its interrupt runs.                          *)

Audio_Handler ==
  /\ Playing_Buff_A' = ~Playing_Buff_A
  /\ SADDR' = IF Playing_Buff_A THEN "B" ELSE "A"
  /\ event_dma_rdy_' = TRUE

\* The buffer that was played had something of the file in it.
Played ==
  IF SADDR \in Buffers /\ Audio_Source_Blk[SADDR] # 0 /\ ~missed /\ fresh
  THEN Append(played, Audio_Source_Blk[SADDR])
  ELSE played

BufferDone ==
  /\ ERQ
  /\ Audio_Handler
  /\ played' = Played
  /\ missed' = (missed \/ event_dma_rdy_ \/ pc \in {"pingpong", "refill"})
  /\ UNCHANGED <<ERQ, Audio_Source_Blk, pc, p_buf, wav_hlr_, pos, stop_, playing_,
                 fresh, plays>>

-----------------------------------------------------------------------------
(* process(), as far as playing goes.                                        *)

Player ==
  /\ pc = "player"
  /\ event_dma_rdy_' = FALSE
  /\ pc' = IF event_dma_rdy_ THEN "pingpong" ELSE "apps"
  /\ UNCHANGED <<dmaVars, p_buf, wav_hlr_, pos, stop_, playing_, historyVars, plays>>

Stop_Audio ==
  /\ ERQ' = FALSE /\ SADDR' = "S" /\ Audio_Source_Blk' = Cleared
  /\ UNCHANGED Playing_Buff_A

Idle ==
  /\ pc = "pingpong" /\ ~playing_ /\ pc' = "apps"
  /\ UNCHANGED playerVars

\* The file ended with the last refill.
StopAtEnd ==
  /\ pc = "pingpong" /\ playing_ /\ stop_ /\ pc' = "apps"
  /\ stop_' = FALSE /\ wav_hlr_' = FALSE
  /\ Stop_Audio
  /\ UNCHANGED <<event_dma_rdy_, p_buf, pos, playing_, historyVars, plays>>

\* The event came after the end of a playback.
StopClosed ==
  /\ pc = "pingpong" /\ playing_ /\ ~stop_ /\ ~wav_hlr_ /\ pc' = "apps"
  /\ stop_' = TRUE
  /\ Stop_Audio
  /\ UNCHANGED <<event_dma_rdy_, p_buf, wav_hlr_, pos, playing_, historyVars, plays>>

\* Slip: the buffer that is being played is chosen.
ChoosePlaying ==
  /\ pc = "pingpong" /\ playing_ /\ ~stop_ /\ wav_hlr_ /\ pc' = "refill"
  /\ p_buf' = IF Playing_Buff_A THEN "A" ELSE "B"
  /\ UNCHANGED <<dmaVars, event_dma_rdy_, wav_hlr_, pos, stop_, playing_, historyVars,
                 plays>>

\* "if DMA0 reads buff A, reload B by CPU otherwise reload A by CPU"
Choose ==
  /\ pc = "pingpong" /\ playing_ /\ ~stop_ /\ wav_hlr_ /\ pc' = "refill"
  /\ p_buf' = IF Playing_Buff_A THEN "B" ELSE "A"
  /\ UNCHANGED <<dmaVars, event_dma_rdy_, wav_hlr_, pos, stop_, playing_, historyVars,
                 plays>>

\* Slip: the end of the file is seen one block early.
RefillShort ==
  /\ pc = "refill" /\ pc' = "apps"
  /\ p_buf' = "A"
  /\ Audio_Source_Blk' = [Audio_Source_Blk EXCEPT ![p_buf] = pos + 1]
  /\ pos' = IF pos < Blocks THEN pos + 1 ELSE pos
  /\ stop_' = (pos + 1 >= Blocks)
  /\ UNCHANGED <<ERQ, SADDR, Playing_Buff_A, event_dma_rdy_, wav_hlr_, playing_,
                 historyVars, plays>>

\* Slip: a short read is taken for a block like the others.
RefillOn ==
  /\ pc = "refill" /\ pc' = "apps"
  /\ p_buf' = "A"
  /\ Audio_Source_Blk' = [Audio_Source_Blk EXCEPT ![p_buf] = pos + 1]
  /\ pos' = IF pos < Blocks THEN pos + 1 ELSE pos
  /\ UNCHANGED <<ERQ, SADDR, Playing_Buff_A, event_dma_rdy_, wav_hlr_, stop_,
                 playing_, historyVars, plays>>

\* The next block is read; a short one is the last.
Refill ==
  /\ pc = "refill" /\ pc' = "apps"
  /\ p_buf' = "A"
  /\ Audio_Source_Blk' = [Audio_Source_Blk EXCEPT ![p_buf] = pos + 1]
  /\ pos' = IF pos < Blocks THEN pos + 1 ELSE pos
  /\ stop_' = (pos = Blocks)
  /\ UNCHANGED <<ERQ, SADDR, Playing_Buff_A, event_dma_rdy_, wav_hlr_, playing_,
                 historyVars, plays>>

-----------------------------------------------------------------------------
(* play(), called by main().                                                 *)

\* stopPlayback(); the file cannot be opened, or is not what its name says, or
\* Start_Audio() clears the buffers and lets the channel go on.
Play ==
  /\ pc = "apps" /\ pc' = "process"
  /\ plays < MaxPlays /\ plays' = plays + 1
  /\ pos' = 0 /\ played' = <<>> /\ missed' = FALSE
  /\ \/ /\ wav_hlr_' \in BOOLEAN
        /\ fresh' = FALSE
        /\ UNCHANGED <<ERQ, Audio_Source_Blk, playing_>>
     \/ /\ wav_hlr_' = TRUE
        /\ fresh' = ~stop_
        /\ playing_' = TRUE
        /\ Audio_Source_Blk' = Cleared
        /\ ERQ' = TRUE
  /\ UNCHANGED <<SADDR, Playing_Buff_A, event_dma_rdy_, p_buf, stop_>>

-----------------------------------------------------------------------------
Main == Player \/ Idle \/ StopAtEnd \/ StopClosed \/ Choose \/ Refill

\* What else the main loop does.
Elsewhere ==
  /\ \/ pc = "process" /\ pc' = "player"
     \/ pc = "apps" /\ pc' = "process"
  /\ UNCHANGED playerVars

Next == BufferDone \/ Main \/ Play \/ Elsewhere

Spec == Init /\ [][Next]_vars

-----------------------------------------------------------------------------
(* Properties.                                                               *)

PlayerTypes ==
  /\ ERQ \in BOOLEAN /\ SADDR \in Buffers \union {"S"}
  /\ Audio_Source_Blk \in [Buffers -> 0..Rest] /\ Playing_Buff_A \in BOOLEAN
  /\ event_dma_rdy_ \in BOOLEAN /\ p_buf \in Buffers
  /\ wav_hlr_ \in BOOLEAN /\ pos \in 0..Blocks
  /\ stop_ \in BOOLEAN /\ playing_ \in BOOLEAN
  /\ played \in Seq(1..Rest) /\ missed \in BOOLEAN /\ fresh \in BOOLEAN
  /\ plays \in 0..MaxPlays

\* A file is played from its first block, in order, no block twice and none of
\* them overwritten, as long as a buffer is refilled before the other one runs
\* out: what pingPongManager makes of Playing_Buff_A agrees with the buffer
\* Audio_Handler has aimed the channel at, from the first playback to a restart in
\* the middle of another.
PlayedInOrder ==
  fresh /\ ~missed => \A i \in 1..Len(played) : played[i] = i

\* When a playback has ended by itself its whole blocks have all been played.  Of
\* the rest, which was read to the other buffer, nothing need be: the channel is
\* stopped when its turn comes.
PlayedAll ==
  fresh /\ ~missed /\ playing_ /\ ~wav_hlr_ => Len(played) >= Blocks

\* A playback that is on comes to its end, and the file is closed, however often a
\* buffer runs out before it is refilled.
PlaybackEnds == [](wav_hlr_ /\ playing_ /\ ERQ => <>~wav_hlr_)
=============================================================================
