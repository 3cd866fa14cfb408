------------------------- MODULE HostInterfaceProofs -------------------------
(***************************************************************************)
(* Proofs about HostInterface.  No single property of it is inductive: that *)
(* an interrupt is not lost depends on who owns the packet buffer, that     *)
(* depends on the order of the registers' accesses, and the counters do not *)
(* wrap because every surplus count comes from a failed transfer.  IInv is  *)
(* the conjunction of these arguments.                                      *)
(***************************************************************************)
EXTENDS HostInterface, TLAPS

IsrEntry == {"wake", "ctrl", "mask", "clear"}
DonePoints == {"doneIrq", "doneRead", "doneWrite"}
SendPoints == {"sendStart", "sendPoll", "sendCommit", "sendSleep"}

\* The packet is the host's: its bit is cleared and RX done is not yet set.
Held == waiting /\ "new" \notin rcvCtrl /\ "done" \notin rcvCtrl

\* The points of the main loop that belong to one control path.
PathInv ==
  /\ pc \in {"small", "smallRead"} => hif_small_xfer # 0
  /\ pc \in IsrEntry \cup {"check", "store", "fetch", "reply", "payload", "sleep"}
       => hif_small_xfer = 0
  /\ hif_small_xfer = 3
       => \/ pc \in {"smallRead", "appCb", "smallEnd"}
          \/ pc \in DonePoints /\ cont = "appCb"
          \/ pc \in SendPoints /\ back = "smallEnd"
  /\ pc \in DonePoints
       => /\ cont # "idle"
          /\ hif_small_xfer \in {0, 3}
          /\ cont # "sleep" => gu8HifSizeDone
          /\ cont # "appCb" => hif_small_xfer = 0
  /\ pc \in SendPoints /\ back = "smallEnd" => hif_small_xfer \in {2, 3}
  /\ pc \in SendPoints /\ back = "finish" => hif_small_xfer \in {0, 1}
  /\ pc = "smallRead" => hif_small_xfer \in {2, 3} /\ left > 0
  /\ pc = "smallEnd" => hif_small_xfer \in {2, 3}
  /\ pc = "finish" => hif_small_xfer \in {0, 1}
  /\ pc \in {"fetch", "reply", "payload"} => ~gu8HifSizeDone
  /\ pc = "appCb" \/ (pc \in SendPoints /\ back = "finish")
       => gu8HifSizeDone \/ hif_small_xfer \in {1, 2}

\* Who may touch the chip's buffer and its control register.
BufferInv ==
  /\ "new" \in rcvCtrl => waiting /\ "done" \notin rcvCtrl
  /\ "done" \in rcvCtrl => waiting
  /\ pc \in {"mask", "clear"} => "new" \in rcvCtrl /\ reg = rcvCtrl
  /\ pc \in {"fetch", "reply", "payload", "smallRead"} \cup DonePoints => Held
  /\ hif_small_xfer \in {1, 2} => Held
  /\ pc = "finish" /\ ~gu8HifSizeDone => Held
  /\ pc = "doneWrite" => reg = rcvCtrl

\* The interrupt is enabled whenever the chip may raise it.
IrqInv ==
  /\ ~waiting \/ "done" \in rcvCtrl => irqEnabled
  /\ pc \in {"doneRead", "doneWrite"} => irqEnabled
  /\ "new" \in rcvCtrl /\ ~irqEnabled => pc \in IsrEntry

\* Edges and counts: at most one for the packet in the chip, and one for every
\* failed transfer.
One(b) == IF b THEN 1 ELSE 0

Edge == One(isf /\ ~inIsr)

Tokens == gu8Interrupt + Edge + One(pc \in IsrEntry)

TokenInv ==
  /\ inIsr => gu8Interrupt > 0
  /\ pc = "store" => tmp > 0 /\ tmp <= gu8Interrupt
  /\ faults <= MaxFaults
  /\ Tokens <= faults + 1
  /\ "new" \in rcvCtrl \/ dropped \/ Tokens <= faults

\* Callers between their hif_chip_wake and their hif_chip_sleep.
IsrHolds ==
  \/ hif_small_xfer # 0
  \/ pc \in {"ctrl", "mask", "clear", "fetch", "reply", "payload", "appCb",
             "finish", "sleep"} \cup DonePoints
  \/ pc \in SendPoints /\ back # "idle"

SendHolds == pc \in {"sendPoll", "sendCommit", "sendSleep"}

Holders == One(IsrHolds) + One(SendHolds)

WakeInv ==
  /\ Holders <= gu8ChipSleep
  /\ gu8ChipSleep <= Holders + faults + 1
  /\ dropped \/ gu8ChipSleep <= Holders + faults
  /\ gu8ChipMode = "deep" /\ gu8ChipSleep > 0 => awake

\* A packet whose attempt failed past its bit is left in the chip's buffer.
DropInv ==
  dropped =>
    /\ Held
    /\ pc \notin {"mask", "clear", "fetch", "reply", "payload", "smallRead", "appCb"}
                \cup DonePoints
    /\ pc = "finish" => gu8HifSizeDone
    /\ pc \in SendPoints => back = "idle"
    /\ hif_small_xfer = 0 \/ (hif_small_xfer = 3 /\ pc = "smallEnd")

\* What was handed to the callbacks.
OrderInv ==
  /\ waiting => posted > 0
  /\ Len(handled) <= posted
  /\ ~waiting \/ "done" \in rcvCtrl => Len(handled) = posted
  /\ "new" \in rcvCtrl \/ pc = "fetch" => Len(handled) + 1 = posted
  /\ pc \in {"reply", "payload", "smallRead"} \cup DonePoints
       => Len(handled) = posted
  /\ hif_small_xfer \in {1, 2} => Len(handled) = posted
  /\ pc = "finish" /\ ~gu8HifSizeDone => Len(handled) = posted

CoreInv == NoInterruptLost /\ PathInv /\ BufferInv /\ IrqInv /\ TokenInv
           /\ WakeInv
           /\ DropInv /\ OrderInv

IInv == TypeOK /\ CoreInv

-----------------------------------------------------------------------------
\* The initial states satisfy the inductive invariant.
LEMMA InitIInv == Init => IInv
<1> SUFFICES ASSUME Init PROVE IInv
  OBVIOUS
<1> USE HifAssumption
    DEF Init, Points, AllKinds, IsrEntry, DonePoints, SendPoints
<1>1. FlagsOK
  BY Zenon DEF FlagsOK
<1>2. BitsOK /\ ValuesOK
  BY DEF BitsOK, ValuesOK
<1>3. NoInterruptLost /\ PathInv /\ BufferInv /\ IrqInv /\ DropInv
  BY DEF NoInterruptLost, PathInv, BufferInv, IrqInv, DropInv
<1>4. TokenInv
  BY DEF TokenInv, Tokens, Edge, One
<1>5. WakeInv
  BY DEF WakeInv, Holders, IsrHolds, SendHolds, One
<1>6. OrderInv
  BY DEF OrderInv
<1> QED
  BY <1>1, <1>2, <1>3, <1>4, <1>5, <1>6 DEF IInv, TypeOK, CoreInv

\* A counter that is not yet 255 counts the chip's wake-up; the chip is awake.
LEMMA ChipWakeCount ==
  ASSUME gu8ChipSleep \in 0..254, ChipWake
  PROVE  gu8ChipSleep' = gu8ChipSleep + 1
BY DEF ChipWake, Byte

\* Whatever the counter is, waking the chip leaves it a byte and keeps the mode.
LEMMA ChipWakeRange ==
  ASSUME gu8ChipSleep \in 0..255, ChipWake
  PROVE  gu8ChipSleep' \in 0..255 /\ gu8ChipMode' = gu8ChipMode
BY DEF ChipWake, Byte

\* After hif_chip_wake the chip is awake, if a counter above 0 meant so before.
LEMMA ChipWakeAwake ==
  ASSUME awake \in BOOLEAN, ChipWake, gu8ChipSleep \in Nat,
         gu8ChipMode = "deep" /\ gu8ChipSleep > 0 => awake
  PROVE  gu8ChipMode' = gu8ChipMode /\ (gu8ChipMode = "deep" => awake')
<1>1. gu8ChipMode' = gu8ChipMode
  BY DEF ChipWake
<1>2. ASSUME gu8ChipMode = "deep", ~awake PROVE awake'
  <2>1. MustWake
    BY <1>2 DEF MustWake
  <2> QED
    BY <2>1 DEF ChipWake
<1>3. awake => awake'
  BY DEF ChipWake
<1> QED
  BY <1>1, <1>2, <1>3

\* hif_chip_sleep leaves a byte.
LEMMA SleepCountRange ==
  ASSUME gu8ChipSleep \in 0..255
  PROVE  SleepCount \in 0..255
BY DEF SleepCount

-----------------------------------------------------------------------------
(* The type invariant is kept.  It has three parts because the provers differ: *)
(* Zenon for the flags, SMT for the rest.                                      *)

\* The flags stay Boolean.
LEMMA FlagsOKStep == IInv /\ [Next]_vars => FlagsOK'
<1> SUFFICES ASSUME IInv, [Next]_vars PROVE FlagsOK'
  OBVIOUS
<1> USE DEF IInv, TypeOK, FlagsOK
<1> USE DEF At, Go, Ok, Fail, EnableIrq, DisableIrq, MustWake,
    ChipWake, SleepCount, ChipSleep, ChipSleepFails,
    ReceiveDone, DoneFails, CbReturn, chipVars, irqVars,
    wakeVars, xferVars, ctlVars, histVars
<1>1. CASE Release           BY <1>1, Zenon DEF Release
<1>2. ASSUME NEW k \in Kinds, Post(k) PROVE FlagsOK'
  BY <1>2, Zenon DEF Post
<1>3. CASE IsrEnter          BY <1>3, Zenon DEF IsrEnter
<1>4. CASE IsrExit           BY <1>4, Zenon DEF IsrExit
<1>5. CASE HandleEvents      BY <1>5, Zenon DEF HandleEvents
<1>6. CASE TestInterrupt     BY <1>6, Zenon DEF TestInterrupt
<1>7. CASE TakeInterrupt     BY <1>7, Zenon DEF TakeInterrupt
<1>8. CASE IsrWake           BY <1>8, Zenon DEF IsrWake
<1>9. CASE ReadCtrl          BY <1>9, Zenon DEF ReadCtrl
<1>10. CASE MaskInterrupt    BY <1>10, Zenon DEF MaskInterrupt
<1>11. CASE ClearInterrupt   BY <1>11, Zenon DEF ClearInterrupt
<1>12. CASE Fetch            BY <1>12, Zenon DEF Fetch
<1>13. CASE ReceiveReply     BY <1>13, Zenon DEF ReceiveReply
<1>14. CASE ReceivePayload   BY <1>14, Zenon DEF ReceivePayload
<1>15. CASE DoneEnable       BY <1>15, Zenon DEF DoneEnable
<1>16. CASE DoneRead         BY <1>16, Zenon DEF DoneRead
<1>17. CASE DoneWrite        BY <1>17, Zenon DEF DoneWrite
<1>18. CASE AppCallback      BY <1>18, Zenon DEF AppCallback
<1>19. CASE FinishIsr        BY <1>19, Zenon DEF FinishIsr
<1>20. CASE IsrSleep         BY <1>20, Zenon DEF IsrSleep
<1>21. CASE SmallStart       BY <1>21, Zenon DEF SmallStart
<1>22. CASE SmallRead        BY <1>22, Zenon DEF SmallRead
<1>23. CASE SmallEnd         BY <1>23, Zenon DEF SmallEnd
<1>24. CASE SendStart        BY <1>24, Zenon DEF SendStart
<1>25. CASE SendPoll         BY <1>25, Zenon DEF SendPoll
<1>26. CASE SendCommit       BY <1>26, Zenon DEF SendCommit
<1>27. CASE SendSleep        BY <1>27, Zenon DEF SendSleep
<1>28. CASE CallSend         BY <1>28, Zenon DEF CallSend
<1>29. CASE AppRead          BY <1>29, Zenon DEF AppRead
<1>30. CASE CloseSocket      BY <1>30, Zenon DEF CloseSocket
<1>31. CASE OpenSocket       BY <1>31, Zenon DEF OpenSocket
<1>32. CASE UNCHANGED vars   BY <1>32, Zenon DEF vars
<1> QED
  BY <1>1, <1>2, <1>3, <1>4, <1>5, <1>6, <1>7, <1>8, <1>9,
     <1>10, <1>11, <1>12, <1>13, <1>14, <1>15, <1>16, <1>17,
     <1>18, <1>19, <1>20, <1>21, <1>22, <1>23, <1>24, <1>25,
     <1>26, <1>27, <1>28, <1>29, <1>30, <1>31, <1>32
     DEF Next, Chip, Handler, Driver, Application

\* The register and its copy hold no other bits than new and done.
LEMMA BitsOKStep == IInv /\ [Next]_vars => BitsOK'
<1> SUFFICES ASSUME IInv, [Next]_vars PROVE BitsOK'
  OBVIOUS
<1> USE DEF IInv, TypeOK, BitsOK, Bits
<1> USE DEF At, Go, Ok, Fail, EnableIrq, DisableIrq, MustWake,
    ChipWake, SleepCount, ChipSleep, ChipSleepFails,
    ReceiveDone, DoneFails, CbReturn, chipVars, irqVars,
    wakeVars, xferVars, ctlVars, histVars
<1>1. CASE Release           BY <1>1 DEF Release
<1>2. ASSUME NEW k \in Kinds, Post(k) PROVE BitsOK'
  BY <1>2 DEF Post
<1>3. CASE IsrEnter          BY <1>3 DEF IsrEnter
<1>4. CASE IsrExit           BY <1>4 DEF IsrExit
<1>5. CASE HandleEvents      BY <1>5 DEF HandleEvents
<1>6. CASE TestInterrupt     BY <1>6 DEF TestInterrupt
<1>7. CASE TakeInterrupt     BY <1>7 DEF TakeInterrupt
<1>8. CASE IsrWake           BY <1>8 DEF IsrWake
<1>9. CASE ReadCtrl          BY <1>9 DEF ReadCtrl
<1>10. CASE MaskInterrupt    BY <1>10 DEF MaskInterrupt
<1>11. CASE ClearInterrupt   BY <1>11 DEF ClearInterrupt
<1>12. CASE Fetch            BY <1>12 DEF Fetch
<1>13. CASE ReceiveReply     BY <1>13 DEF ReceiveReply
<1>14. CASE ReceivePayload   BY <1>14 DEF ReceivePayload
<1>15. CASE DoneEnable       BY <1>15 DEF DoneEnable
<1>16. CASE DoneRead         BY <1>16 DEF DoneRead
<1>17. CASE DoneWrite        BY <1>17 DEF DoneWrite
<1>18. CASE AppCallback      BY <1>18 DEF AppCallback
<1>19. CASE FinishIsr        BY <1>19 DEF FinishIsr
<1>20. CASE IsrSleep         BY <1>20 DEF IsrSleep
<1>21. CASE SmallStart       BY <1>21 DEF SmallStart
<1>22. CASE SmallRead        BY <1>22 DEF SmallRead
<1>23. CASE SmallEnd         BY <1>23 DEF SmallEnd
<1>24. CASE SendStart        BY <1>24 DEF SendStart
<1>25. CASE SendPoll         BY <1>25 DEF SendPoll
<1>26. CASE SendCommit       BY <1>26 DEF SendCommit
<1>27. CASE SendSleep        BY <1>27 DEF SendSleep
<1>28. CASE CallSend         BY <1>28 DEF CallSend
<1>29. CASE AppRead          BY <1>29 DEF AppRead
<1>30. CASE CloseSocket      BY <1>30 DEF CloseSocket
<1>31. CASE OpenSocket       BY <1>31 DEF OpenSocket
<1>32. CASE UNCHANGED vars   BY <1>32 DEF vars
<1> QED
  BY <1>1, <1>2, <1>3, <1>4, <1>5, <1>6, <1>7, <1>8, <1>9,
     <1>10, <1>11, <1>12, <1>13, <1>14, <1>15, <1>16, <1>17,
     <1>18, <1>19, <1>20, <1>21, <1>22, <1>23, <1>24, <1>25,
     <1>26, <1>27, <1>28, <1>29, <1>30, <1>31, <1>32
     DEF Next, Chip, Handler, Driver, Application

\* The control points and the counters stay in their ranges; u16RemainingSize
\* is not decremented below 0, because the last piece ends the transfer.
LEMMA ValuesOKStep == IInv /\ [Next]_vars => ValuesOK'
<1> SUFFICES ASSUME IInv, [Next]_vars PROVE ValuesOK'
  OBVIOUS
<1> USE HifAssumption DEF IInv, TypeOK, ValuesOK, Points, AllKinds, CoreInv, PathInv
<1> USE DEF At, Go, Ok, Fail, EnableIrq, DisableIrq, MustWake,
    ReceiveDone, DoneFails, CbReturn, chipVars, irqVars,
    wakeVars, xferVars, ctlVars, histVars
<1>1. CASE Release           BY <1>1 DEF Release
<1>2. ASSUME NEW k \in Kinds, Post(k) PROVE ValuesOK'
  BY <1>2 DEF Post
<1>3. CASE IsrEnter
  <2>1. gu8Interrupt' \in 0..255
    BY <1>3 DEF IsrEnter, Byte
  <2> QED
    BY <1>3, <2>1 DEF IsrEnter, chipVars, wakeVars, xferVars, ctlVars, histVars
<1>4. CASE IsrExit           BY <1>4 DEF IsrExit
<1>5. CASE HandleEvents      BY <1>5 DEF HandleEvents
<1>6. CASE TestInterrupt
  <2>1. tmp' \in 0..255 /\ pc' \in Points
    BY <1>6 DEF TestInterrupt, Go
  <2> QED
    BY <1>6, <2>1 DEF TestInterrupt, chipVars, irqVars, wakeVars, xferVars, histVars
<1>7. CASE TakeInterrupt
  <2>1. gu8Interrupt' \in 0..255
    BY <1>7 DEF TakeInterrupt, Byte
  <2> QED
    BY <1>7, <2>1 DEF TakeInterrupt, Go, chipVars, wakeVars, xferVars, ctlVars, histVars
<1>8. CASE IsrWake
  <2>1. gu8ChipSleep' \in 0..255 /\ gu8ChipMode' = gu8ChipMode
    BY <1>8, ChipWakeRange DEF IsrWake, wakeVars
  <2>2. pc' \in Points /\ faults' \in Nat
    BY <1>8 DEF IsrWake, Go, Ok, Fail
  <2> QED
    BY <1>8, <2>1, <2>2 DEF IsrWake, chipVars, irqVars, xferVars, ctlVars, histVars
<1>9. CASE ReadCtrl          BY <1>9 DEF ReadCtrl
<1>10. CASE MaskInterrupt    BY <1>10 DEF MaskInterrupt
<1>11. CASE ClearInterrupt   BY <1>11 DEF ClearInterrupt
<1>12. CASE Fetch
  <2>1. handled' \in Seq(Nat)
    BY <1>12 DEF Fetch
  <2>2. pc' \in Points /\ faults' \in Nat
    BY <1>12 DEF Fetch, Go, Ok, Fail
  <2> QED
    BY <1>12, <2>1, <2>2 DEF Fetch, chipVars, wakeVars, xferVars, ctlVars
<1>13. CASE ReceiveReply     BY <1>13 DEF ReceiveReply
<1>14. CASE ReceivePayload   BY <1>14 DEF ReceivePayload
<1>15. CASE DoneEnable       BY <1>15 DEF DoneEnable
<1>16. CASE DoneRead         BY <1>16 DEF DoneRead
<1>17. CASE DoneWrite        BY <1>17 DEF DoneWrite
<1>18. CASE AppCallback      BY <1>18 DEF AppCallback
<1>19. CASE FinishIsr        BY <1>19 DEF FinishIsr
<1>20. CASE IsrSleep
  <2>1. gu8ChipSleep' \in 0..255 /\ gu8ChipMode' = gu8ChipMode
    BY <1>20, SleepCountRange DEF IsrSleep, ChipSleep, ChipSleepFails
  <2>2. pc' \in Points /\ faults' \in Nat
    BY <1>20 DEF IsrSleep, Go, Ok, Fail
  <2> QED
    BY <1>20, <2>1, <2>2 DEF IsrSleep, chipVars, irqVars, xferVars, ctlVars, histVars
<1>21. CASE SmallStart       BY <1>21 DEF SmallStart
<1>22. CASE SmallRead        BY <1>22 DEF SmallRead
<1>23. CASE SmallEnd
  <2>1. gu8ChipSleep' \in 0..255 /\ gu8ChipMode' = gu8ChipMode
    BY <1>23, SleepCountRange DEF SmallEnd, ChipSleep, ChipSleepFails, wakeVars
  <2>2. pc' \in Points /\ faults' \in Nat
    BY <1>23 DEF SmallEnd, Go, Ok, Fail
  <2>3. hif_small_xfer' \in 0..3
    BY <1>23 DEF SmallEnd
  <2> QED
    BY <1>23, <2>1, <2>2, <2>3 DEF SmallEnd, chipVars, irqVars, ctlVars, histVars
<1>24. CASE SendStart
  <2>1. gu8ChipSleep' \in 0..255 /\ gu8ChipMode' = gu8ChipMode
    BY <1>24, ChipWakeRange DEF SendStart, wakeVars
  <2>2. pc' \in Points /\ faults' \in Nat
    BY <1>24 DEF SendStart, Go, Ok, Fail
  <2> QED
    BY <1>24, <2>1, <2>2 DEF SendStart, chipVars, irqVars, xferVars, ctlVars, histVars
<1>25. CASE SendPoll         BY <1>25 DEF SendPoll
<1>26. CASE SendCommit       BY <1>26 DEF SendCommit
<1>27. CASE SendSleep
  <2>1. gu8ChipSleep' \in 0..255 /\ gu8ChipMode' = gu8ChipMode
    BY <1>27, SleepCountRange DEF SendSleep, ChipSleep, ChipSleepFails
  <2>2. pc' \in Points /\ faults' \in Nat
    BY <1>27 DEF SendSleep, Go, Ok, Fail
  <2> QED
    BY <1>27, <2>1, <2>2 DEF SendSleep, chipVars, irqVars, xferVars, ctlVars, histVars
<1>28. CASE CallSend         BY <1>28 DEF CallSend
<1>29. CASE AppRead          BY <1>29 DEF AppRead
<1>30. CASE CloseSocket      BY <1>30 DEF CloseSocket
<1>31. CASE OpenSocket       BY <1>31 DEF OpenSocket
<1>32. CASE UNCHANGED vars   BY <1>32 DEF vars
<1> QED
  BY <1>1, <1>2, <1>3, <1>4, <1>5, <1>6, <1>7, <1>8, <1>9,
     <1>10, <1>11, <1>12, <1>13, <1>14, <1>15, <1>16, <1>17,
     <1>18, <1>19, <1>20, <1>21, <1>22, <1>23, <1>24, <1>25,
     <1>26, <1>27, <1>28, <1>29, <1>30, <1>31, <1>32
     DEF Next, Chip, Handler, Driver, Application

-----------------------------------------------------------------------------
(* The control paths, the buffer, the interrupt enable, dropped packets, the   *)
(* order of packets, and the edges that announce them.                         *)

\* Every point of the main loop is reached with the paused transfer it is for.
LEMMA PathInvStep == IInv /\ [Next]_vars => PathInv'
<1> SUFFICES ASSUME IInv, [Next]_vars PROVE PathInv'
  OBVIOUS
<1> USE DEF IInv, TypeOK, FlagsOK, BitsOK, ValuesOK, CoreInv, PathInv,
    BufferInv, Bits, IsrEntry, DonePoints, SendPoints, Held
<1> USE DEF At, Go, Ok, Fail, EnableIrq, DisableIrq, MustWake,
    ChipWake, SleepCount, ChipSleep, ChipSleepFails,
    ReceiveDone, DoneFails, CbReturn, chipVars, irqVars,
    wakeVars, xferVars, ctlVars, histVars
<1>1. CASE Release           BY <1>1 DEF Release
<1>2. ASSUME NEW k \in Kinds, Post(k) PROVE PathInv'
  BY <1>2 DEF Post
<1>3. CASE IsrEnter          BY <1>3 DEF IsrEnter
<1>4. CASE IsrExit           BY <1>4 DEF IsrExit
<1>5. CASE HandleEvents      BY <1>5 DEF HandleEvents
<1>6. CASE TestInterrupt     BY <1>6 DEF TestInterrupt
<1>7. CASE TakeInterrupt     BY <1>7 DEF TakeInterrupt
<1>8. CASE IsrWake           BY <1>8 DEF IsrWake
<1>9. CASE ReadCtrl          BY <1>9 DEF ReadCtrl
<1>10. CASE MaskInterrupt    BY <1>10 DEF MaskInterrupt
<1>11. CASE ClearInterrupt   BY <1>11 DEF ClearInterrupt
<1>12. CASE Fetch
  <2>1. pc = "fetch" /\ pc' \in {"finish", "reply", "wake"}
    BY <1>12 DEF Fetch, At, Go
  <2> QED
    BY <1>12, <2>1 DEF Fetch, xferVars, ctlVars
<1>13. CASE ReceiveReply     BY <1>13 DEF ReceiveReply
<1>14. CASE ReceivePayload   BY <1>14 DEF ReceivePayload
<1>15. CASE DoneEnable       BY <1>15 DEF DoneEnable
<1>16. CASE DoneRead         BY <1>16 DEF DoneRead
<1>17. CASE DoneWrite        BY <1>17 DEF DoneWrite
<1>18. CASE AppCallback      BY <1>18 DEF AppCallback
<1>19. CASE FinishIsr        BY <1>19 DEF FinishIsr
<1>20. CASE IsrSleep         BY <1>20 DEF IsrSleep
<1>21. CASE SmallStart       BY <1>21 DEF SmallStart
<1>22. CASE SmallRead        BY <1>22 DEF SmallRead
<1>23. CASE SmallEnd         BY <1>23 DEF SmallEnd
<1>24. CASE SendStart        BY <1>24 DEF SendStart
<1>25. CASE SendPoll         BY <1>25 DEF SendPoll
<1>26. CASE SendCommit       BY <1>26 DEF SendCommit
<1>27. CASE SendSleep        BY <1>27 DEF SendSleep
<1>28. CASE CallSend         BY <1>28 DEF CallSend
<1>29. CASE AppRead          BY <1>29 DEF AppRead
<1>30. CASE CloseSocket      BY <1>30 DEF CloseSocket
<1>31. CASE OpenSocket       BY <1>31 DEF OpenSocket
<1>32. CASE UNCHANGED vars   BY <1>32 DEF vars
<1> QED
  BY <1>1, <1>2, <1>3, <1>4, <1>5, <1>6, <1>7, <1>8, <1>9,
     <1>10, <1>11, <1>12, <1>13, <1>14, <1>15, <1>16, <1>17,
     <1>18, <1>19, <1>20, <1>21, <1>22, <1>23, <1>24, <1>25,
     <1>26, <1>27, <1>28, <1>29, <1>30, <1>31, <1>32
     DEF Next, Chip, Handler, Driver, Application

\* The chip's buffer has one owner at a time.
LEMMA BufferInvStep == IInv /\ [Next]_vars => BufferInv'
<1> SUFFICES ASSUME IInv, [Next]_vars PROVE BufferInv'
  OBVIOUS
<1> USE DEF IInv, TypeOK, FlagsOK, BitsOK, ValuesOK, CoreInv, PathInv,
    BufferInv, Bits, IsrEntry, DonePoints, SendPoints, Held
<1> USE DEF At, Go, Ok, Fail, EnableIrq, DisableIrq, MustWake,
    ChipWake, SleepCount, ChipSleep, ChipSleepFails,
    ReceiveDone, DoneFails, CbReturn, chipVars, irqVars,
    wakeVars, xferVars, ctlVars, histVars
<1>1. CASE Release           BY <1>1 DEF Release
<1>2. ASSUME NEW k \in Kinds, Post(k) PROVE BufferInv'
  BY <1>2 DEF Post
<1>3. CASE IsrEnter          BY <1>3 DEF IsrEnter
<1>4. CASE IsrExit           BY <1>4 DEF IsrExit
<1>5. CASE HandleEvents      BY <1>5 DEF HandleEvents
<1>6. CASE TestInterrupt     BY <1>6 DEF TestInterrupt
<1>7. CASE TakeInterrupt     BY <1>7 DEF TakeInterrupt
<1>8. CASE IsrWake           BY <1>8 DEF IsrWake
<1>9. CASE ReadCtrl          BY <1>9 DEF ReadCtrl
<1>10. CASE MaskInterrupt    BY <1>10 DEF MaskInterrupt
<1>11. CASE ClearInterrupt   BY <1>11 DEF ClearInterrupt
<1>12. CASE Fetch            BY <1>12 DEF Fetch
<1>13. CASE ReceiveReply     BY <1>13 DEF ReceiveReply
<1>14. CASE ReceivePayload   BY <1>14 DEF ReceivePayload
<1>15. CASE DoneEnable       BY <1>15 DEF DoneEnable
<1>16. CASE DoneRead         BY <1>16 DEF DoneRead
<1>17. CASE DoneWrite        BY <1>17 DEF DoneWrite
<1>18. CASE AppCallback      BY <1>18 DEF AppCallback
<1>19. CASE FinishIsr        BY <1>19 DEF FinishIsr
<1>20. CASE IsrSleep         BY <1>20 DEF IsrSleep
<1>21. CASE SmallStart       BY <1>21 DEF SmallStart
<1>22. CASE SmallRead        BY <1>22 DEF SmallRead
<1>23. CASE SmallEnd         BY <1>23 DEF SmallEnd
<1>24. CASE SendStart        BY <1>24 DEF SendStart
<1>25. CASE SendPoll         BY <1>25 DEF SendPoll
<1>26. CASE SendCommit       BY <1>26 DEF SendCommit
<1>27. CASE SendSleep        BY <1>27 DEF SendSleep
<1>28. CASE CallSend         BY <1>28 DEF CallSend
<1>29. CASE AppRead          BY <1>29 DEF AppRead
<1>30. CASE CloseSocket      BY <1>30 DEF CloseSocket
<1>31. CASE OpenSocket       BY <1>31 DEF OpenSocket
<1>32. CASE UNCHANGED vars   BY <1>32 DEF vars
<1> QED
  BY <1>1, <1>2, <1>3, <1>4, <1>5, <1>6, <1>7, <1>8, <1>9,
     <1>10, <1>11, <1>12, <1>13, <1>14, <1>15, <1>16, <1>17,
     <1>18, <1>19, <1>20, <1>21, <1>22, <1>23, <1>24, <1>25,
     <1>26, <1>27, <1>28, <1>29, <1>30, <1>31, <1>32
     DEF Next, Chip, Handler, Driver, Application

\* The interrupt is enabled again before the chip can raise it.
LEMMA IrqInvStep == IInv /\ [Next]_vars => IrqInv'
<1> SUFFICES ASSUME IInv, [Next]_vars PROVE IrqInv'
  OBVIOUS
<1> USE DEF IInv, TypeOK, FlagsOK, BitsOK, ValuesOK, CoreInv, PathInv,
    BufferInv, Bits, IsrEntry, DonePoints, SendPoints, Held,
    IrqInv
<1> USE DEF At, Go, Ok, Fail, EnableIrq, DisableIrq, MustWake,
    ChipWake, SleepCount, ChipSleep, ChipSleepFails,
    ReceiveDone, DoneFails, CbReturn, chipVars, irqVars,
    wakeVars, xferVars, ctlVars, histVars
<1>1. CASE Release           BY <1>1 DEF Release
<1>2. ASSUME NEW k \in Kinds, Post(k) PROVE IrqInv'
  BY <1>2 DEF Post
<1>3. CASE IsrEnter          BY <1>3 DEF IsrEnter
<1>4. CASE IsrExit           BY <1>4 DEF IsrExit
<1>5. CASE HandleEvents      BY <1>5 DEF HandleEvents
<1>6. CASE TestInterrupt     BY <1>6 DEF TestInterrupt
<1>7. CASE TakeInterrupt     BY <1>7 DEF TakeInterrupt
<1>8. CASE IsrWake           BY <1>8 DEF IsrWake
<1>9. CASE ReadCtrl          BY <1>9 DEF ReadCtrl
<1>10. CASE MaskInterrupt    BY <1>10 DEF MaskInterrupt
<1>11. CASE ClearInterrupt   BY <1>11 DEF ClearInterrupt
<1>12. CASE Fetch            BY <1>12 DEF Fetch
<1>13. CASE ReceiveReply     BY <1>13 DEF ReceiveReply
<1>14. CASE ReceivePayload   BY <1>14 DEF ReceivePayload
<1>15. CASE DoneEnable       BY <1>15 DEF DoneEnable
<1>16. CASE DoneRead         BY <1>16 DEF DoneRead
<1>17. CASE DoneWrite        BY <1>17 DEF DoneWrite
<1>18. CASE AppCallback      BY <1>18 DEF AppCallback
<1>19. CASE FinishIsr        BY <1>19 DEF FinishIsr
<1>20. CASE IsrSleep         BY <1>20 DEF IsrSleep
<1>21. CASE SmallStart       BY <1>21 DEF SmallStart
<1>22. CASE SmallRead        BY <1>22 DEF SmallRead
<1>23. CASE SmallEnd         BY <1>23 DEF SmallEnd
<1>24. CASE SendStart        BY <1>24 DEF SendStart
<1>25. CASE SendPoll         BY <1>25 DEF SendPoll
<1>26. CASE SendCommit       BY <1>26 DEF SendCommit
<1>27. CASE SendSleep        BY <1>27 DEF SendSleep
<1>28. CASE CallSend         BY <1>28 DEF CallSend
<1>29. CASE AppRead          BY <1>29 DEF AppRead
<1>30. CASE CloseSocket      BY <1>30 DEF CloseSocket
<1>31. CASE OpenSocket       BY <1>31 DEF OpenSocket
<1>32. CASE UNCHANGED vars   BY <1>32 DEF vars
<1> QED
  BY <1>1, <1>2, <1>3, <1>4, <1>5, <1>6, <1>7, <1>8, <1>9,
     <1>10, <1>11, <1>12, <1>13, <1>14, <1>15, <1>16, <1>17,
     <1>18, <1>19, <1>20, <1>21, <1>22, <1>23, <1>24, <1>25,
     <1>26, <1>27, <1>28, <1>29, <1>30, <1>31, <1>32
     DEF Next, Chip, Handler, Driver, Application

\* After a failure past the interrupt bit no point that could set RX done for
\* the packet is reached again.
LEMMA DropInvStep == IInv /\ [Next]_vars => DropInv'
<1> SUFFICES ASSUME IInv, [Next]_vars PROVE DropInv'
  OBVIOUS
<1> USE DEF IInv, TypeOK, FlagsOK, BitsOK, ValuesOK, CoreInv, PathInv,
    BufferInv, Bits, IsrEntry, DonePoints, SendPoints, Held,
    DropInv, AllKinds
<1> USE DEF At, Go, Ok, Fail, EnableIrq, DisableIrq, MustWake,
    ChipWake, SleepCount, ChipSleep, ChipSleepFails,
    ReceiveDone, DoneFails, CbReturn, chipVars, irqVars,
    wakeVars, xferVars, ctlVars, histVars
<1>1. CASE Release           BY <1>1 DEF Release
<1>2. ASSUME NEW k \in Kinds, Post(k) PROVE DropInv'
  BY <1>2 DEF Post
<1>3. CASE IsrEnter          BY <1>3 DEF IsrEnter
<1>4. CASE IsrExit           BY <1>4 DEF IsrExit
<1>5. CASE HandleEvents      BY <1>5 DEF HandleEvents
<1>6. CASE TestInterrupt     BY <1>6 DEF TestInterrupt
<1>7. CASE TakeInterrupt     BY <1>7 DEF TakeInterrupt
<1>8. CASE IsrWake           BY <1>8 DEF IsrWake
<1>9. CASE ReadCtrl          BY <1>9 DEF ReadCtrl
<1>10. CASE MaskInterrupt    BY <1>10 DEF MaskInterrupt
<1>11. CASE ClearInterrupt   BY <1>11 DEF ClearInterrupt
<1>12. CASE Fetch            BY <1>12 DEF Fetch
<1>13. CASE ReceiveReply     BY <1>13 DEF ReceiveReply
<1>14. CASE ReceivePayload   BY <1>14 DEF ReceivePayload
<1>15. CASE DoneEnable       BY <1>15 DEF DoneEnable
<1>16. CASE DoneRead         BY <1>16 DEF DoneRead
<1>17. CASE DoneWrite        BY <1>17 DEF DoneWrite
<1>18. CASE AppCallback      BY <1>18 DEF AppCallback
<1>19. CASE FinishIsr        BY <1>19 DEF FinishIsr
<1>20. CASE IsrSleep         BY <1>20 DEF IsrSleep
<1>21. CASE SmallStart       BY <1>21 DEF SmallStart
<1>22. CASE SmallRead        BY <1>22 DEF SmallRead
<1>23. CASE SmallEnd         BY <1>23 DEF SmallEnd
<1>24. CASE SendStart        BY <1>24 DEF SendStart
<1>25. CASE SendPoll         BY <1>25 DEF SendPoll
<1>26. CASE SendCommit       BY <1>26 DEF SendCommit
<1>27. CASE SendSleep        BY <1>27 DEF SendSleep
<1>28. CASE CallSend         BY <1>28 DEF CallSend
<1>29. CASE AppRead          BY <1>29 DEF AppRead
<1>30. CASE CloseSocket      BY <1>30 DEF CloseSocket
<1>31. CASE OpenSocket       BY <1>31 DEF OpenSocket
<1>32. CASE UNCHANGED vars   BY <1>32 DEF vars
<1> QED
  BY <1>1, <1>2, <1>3, <1>4, <1>5, <1>6, <1>7, <1>8, <1>9,
     <1>10, <1>11, <1>12, <1>13, <1>14, <1>15, <1>16, <1>17,
     <1>18, <1>19, <1>20, <1>21, <1>22, <1>23, <1>24, <1>25,
     <1>26, <1>27, <1>28, <1>29, <1>30, <1>31, <1>32
     DEF Next, Chip, Handler, Driver, Application

\* The callbacks have seen every packet but the one that is waiting.
LEMMA OrderInvStep == IInv /\ [Next]_vars => OrderInv'
<1> SUFFICES ASSUME IInv, [Next]_vars PROVE OrderInv'
  OBVIOUS
<1> USE DEF IInv, TypeOK, FlagsOK, BitsOK, ValuesOK, CoreInv, PathInv,
    BufferInv, Bits, IsrEntry, DonePoints, SendPoints, Held,
    OrderInv
<1> USE DEF At, Go, Ok, Fail, EnableIrq, DisableIrq, MustWake,
    ChipWake, SleepCount, ChipSleep, ChipSleepFails,
    ReceiveDone, DoneFails, CbReturn, chipVars, irqVars,
    wakeVars, xferVars, ctlVars, histVars
<1>1. CASE Release           BY <1>1 DEF Release
<1>2. ASSUME NEW k \in Kinds, Post(k) PROVE OrderInv'
  BY <1>2 DEF Post
<1>3. CASE IsrEnter          BY <1>3 DEF IsrEnter
<1>4. CASE IsrExit           BY <1>4 DEF IsrExit
<1>5. CASE HandleEvents      BY <1>5 DEF HandleEvents
<1>6. CASE TestInterrupt     BY <1>6 DEF TestInterrupt
<1>7. CASE TakeInterrupt     BY <1>7 DEF TakeInterrupt
<1>8. CASE IsrWake           BY <1>8 DEF IsrWake
<1>9. CASE ReadCtrl          BY <1>9 DEF ReadCtrl
<1>10. CASE MaskInterrupt    BY <1>10 DEF MaskInterrupt
<1>11. CASE ClearInterrupt   BY <1>11 DEF ClearInterrupt
<1>12. CASE Fetch            BY <1>12 DEF Fetch
<1>13. CASE ReceiveReply     BY <1>13 DEF ReceiveReply
<1>14. CASE ReceivePayload   BY <1>14 DEF ReceivePayload
<1>15. CASE DoneEnable       BY <1>15 DEF DoneEnable
<1>16. CASE DoneRead         BY <1>16 DEF DoneRead
<1>17. CASE DoneWrite        BY <1>17 DEF DoneWrite
<1>18. CASE AppCallback      BY <1>18 DEF AppCallback
<1>19. CASE FinishIsr        BY <1>19 DEF FinishIsr
<1>20. CASE IsrSleep         BY <1>20 DEF IsrSleep
<1>21. CASE SmallStart       BY <1>21 DEF SmallStart
<1>22. CASE SmallRead        BY <1>22 DEF SmallRead
<1>23. CASE SmallEnd         BY <1>23 DEF SmallEnd
<1>24. CASE SendStart        BY <1>24 DEF SendStart
<1>25. CASE SendPoll         BY <1>25 DEF SendPoll
<1>26. CASE SendCommit       BY <1>26 DEF SendCommit
<1>27. CASE SendSleep        BY <1>27 DEF SendSleep
<1>28. CASE CallSend         BY <1>28 DEF CallSend
<1>29. CASE AppRead          BY <1>29 DEF AppRead
<1>30. CASE CloseSocket      BY <1>30 DEF CloseSocket
<1>31. CASE OpenSocket       BY <1>31 DEF OpenSocket
<1>32. CASE UNCHANGED vars   BY <1>32 DEF vars
<1> QED
  BY <1>1, <1>2, <1>3, <1>4, <1>5, <1>6, <1>7, <1>8, <1>9,
     <1>10, <1>11, <1>12, <1>13, <1>14, <1>15, <1>16, <1>17,
     <1>18, <1>19, <1>20, <1>21, <1>22, <1>23, <1>24, <1>25,
     <1>26, <1>27, <1>28, <1>29, <1>30, <1>31, <1>32
     DEF Next, Chip, Handler, Driver, Application

\* No step makes the driver forget a packet whose bit is set.
LEMMA NoInterruptLostStep == IInv /\ [Next]_vars => NoInterruptLost'
<1> SUFFICES ASSUME IInv, [Next]_vars PROVE NoInterruptLost'
  OBVIOUS
<1> USE DEF IInv, TypeOK, FlagsOK, BitsOK, ValuesOK, CoreInv, PathInv,
    BufferInv, Bits, IsrEntry, DonePoints, SendPoints, Held,
    IrqInv, TokenInv, NoInterruptLost, Pending
<1> USE DEF At, Go, Ok, Fail, EnableIrq, DisableIrq, MustWake,
    ChipWake, SleepCount, ChipSleep, ChipSleepFails,
    ReceiveDone, DoneFails, CbReturn, chipVars, irqVars,
    wakeVars, xferVars, ctlVars, histVars
<1>1. CASE Release           BY <1>1 DEF Release
<1>2. ASSUME NEW k \in Kinds, Post(k) PROVE NoInterruptLost'
  BY <1>2 DEF Post
<1>3. CASE IsrEnter
  <2>1. gu8Interrupt < 255
    BY <1>3, HifAssumption DEF IsrEnter, Tokens, Edge, One
  <2>2. gu8Interrupt' = gu8Interrupt + 1
    BY <1>3, <2>1 DEF IsrEnter, Byte
  <2> QED
    BY <1>3, <2>1, <2>2 DEF IsrEnter
<1>4. CASE IsrExit           BY <1>4 DEF IsrExit
<1>5. CASE HandleEvents      BY <1>5 DEF HandleEvents
<1>6. CASE TestInterrupt     BY <1>6 DEF TestInterrupt
<1>7. CASE TakeInterrupt     BY <1>7 DEF TakeInterrupt
<1>8. CASE IsrWake           BY <1>8 DEF IsrWake
<1>9. CASE ReadCtrl          BY <1>9 DEF ReadCtrl
<1>10. CASE MaskInterrupt    BY <1>10 DEF MaskInterrupt
<1>11. CASE ClearInterrupt   BY <1>11 DEF ClearInterrupt
<1>12. CASE Fetch            BY <1>12 DEF Fetch
<1>13. CASE ReceiveReply     BY <1>13 DEF ReceiveReply
<1>14. CASE ReceivePayload   BY <1>14 DEF ReceivePayload
<1>15. CASE DoneEnable       BY <1>15 DEF DoneEnable
<1>16. CASE DoneRead         BY <1>16 DEF DoneRead
<1>17. CASE DoneWrite        BY <1>17 DEF DoneWrite
<1>18. CASE AppCallback      BY <1>18 DEF AppCallback
<1>19. CASE FinishIsr        BY <1>19 DEF FinishIsr
<1>20. CASE IsrSleep         BY <1>20 DEF IsrSleep
<1>21. CASE SmallStart       BY <1>21 DEF SmallStart
<1>22. CASE SmallRead        BY <1>22 DEF SmallRead
<1>23. CASE SmallEnd         BY <1>23 DEF SmallEnd
<1>24. CASE SendStart        BY <1>24 DEF SendStart
<1>25. CASE SendPoll         BY <1>25 DEF SendPoll
<1>26. CASE SendCommit       BY <1>26 DEF SendCommit
<1>27. CASE SendSleep        BY <1>27 DEF SendSleep
<1>28. CASE CallSend         BY <1>28 DEF CallSend
<1>29. CASE AppRead          BY <1>29 DEF AppRead
<1>30. CASE CloseSocket      BY <1>30 DEF CloseSocket
<1>31. CASE OpenSocket       BY <1>31 DEF OpenSocket
<1>32. CASE UNCHANGED vars   BY <1>32 DEF vars
<1> QED
  BY <1>1, <1>2, <1>3, <1>4, <1>5, <1>6, <1>7, <1>8, <1>9,
     <1>10, <1>11, <1>12, <1>13, <1>14, <1>15, <1>16, <1>17,
     <1>18, <1>19, <1>20, <1>21, <1>22, <1>23, <1>24, <1>25,
     <1>26, <1>27, <1>28, <1>29, <1>30, <1>31, <1>32
     DEF Next, Chip, Handler, Driver, Application

-----------------------------------------------------------------------------
(* The counters.                                                               *)

\* ClearInterrupt spends the edge of the packet whose bit it clears.
LEMMA TokenClear == IInv /\ ClearInterrupt => TokenInv'
<1> SUFFICES ASSUME IInv, ClearInterrupt PROVE TokenInv'
  OBVIOUS
<1> USE HifAssumption DEF IInv, TypeOK, CoreInv
<1>1. /\ pc = "clear" /\ ~dropped /\ reg = rcvCtrl /\ "new" \in rcvCtrl
      /\ UNCHANGED <<isf, inIsr, gu8Interrupt>>
  BY DEF ClearInterrupt, At, irqVars, DropInv, BufferInv
<1>2. Edge' = Edge /\ Edge \in 0..1
  BY <1>1 DEF Edge, One
<1>3. gu8Interrupt \in Nat /\ faults \in Nat
  BY DEF ValuesOK
<1>4. Tokens = gu8Interrupt + Edge + 1
  BY <1>1 DEF Tokens, One, IsrEntry
<1>5. CASE pc' = "wake" /\ faults' = faults + 1 /\ faults < MaxFaults
  <2>1. Tokens' = Tokens
    BY <1>1, <1>2, <1>4, <1>5 DEF Tokens, One, IsrEntry
  <2> QED
    BY <1>1, <1>3, <1>2, <1>4, <1>5, <2>1 DEF TokenInv
<1>6. CASE pc' = "wake" /\ faults' = faults /\ dropped'
  <2>1. Tokens' = Tokens
    BY <1>1, <1>2, <1>4, <1>6 DEF Tokens, One, IsrEntry
  <2> QED
    BY <1>1, <1>3, <1>2, <1>4, <1>6, <2>1 DEF TokenInv
<1>7. CASE pc' = "fetch" /\ faults' = faults
  <2>1. Tokens' = gu8Interrupt + Edge
    BY <1>1, <1>2, <1>3, <1>7 DEF Tokens, One, IsrEntry
  <2> QED
    BY <1>1, <1>3, <1>2, <1>4, <1>7, <2>1 DEF TokenInv
<1> QED
  BY <1>5, <1>6, <1>7 DEF ClearInterrupt, Ok, Fail, Go

\* Fetch owes one edge more for a failed attempt, and marks it as dropped.
LEMMA TokenFetch == IInv /\ Fetch => TokenInv'
<1> SUFFICES ASSUME IInv, Fetch PROVE TokenInv'
  OBVIOUS
<1> USE HifAssumption DEF IInv, TypeOK, CoreInv
<1>1. /\ pc = "fetch" /\ ~dropped /\ "new" \notin rcvCtrl
      /\ UNCHANGED <<inIsr, gu8Interrupt>>
  BY DEF Fetch, At, DropInv, BufferInv, Held
<1>2. gu8Interrupt \in Nat /\ faults \in Nat
  BY DEF ValuesOK
<1>3. PICK d \in 0..1, e \in 0..1 : Edge = d /\ Edge' = e /\ e <= d
  BY DEF Fetch, EnableIrq, Edge, One
<1>4. Tokens = gu8Interrupt + d
  BY <1>1, <1>2, <1>3 DEF Tokens, One, IsrEntry
<1>5. gu8Interrupt + e <= faults
  BY <1>1, <1>2, <1>3, <1>4 DEF TokenInv
<1>6. CASE /\ pc' = "wake" /\ dropped'
           /\ faults' = faults \/ (faults' = faults + 1 /\ faults < MaxFaults)
  <2>1. Tokens' = gu8Interrupt + e + 1
    BY <1>1, <1>2, <1>3, <1>6 DEF Tokens, One, IsrEntry
  <2> QED
    BY <1>1, <1>2, <1>5, <1>6, <2>1 DEF TokenInv
<1>7. CASE pc' \in {"finish", "reply"} /\ faults' = faults
  <2>1. Tokens' = gu8Interrupt + e
    BY <1>1, <1>2, <1>3, <1>7 DEF Tokens, One, IsrEntry
  <2> QED
    BY <1>1, <1>2, <1>5, <1>7, <2>1 DEF TokenInv
<1> QED
  BY <1>6, <1>7 DEF Fetch, Ok, Fail, Go

\* A new packet brings at most one new edge.
LEMMA TokenPost == ASSUME IInv, NEW k \in Kinds, Post(k) PROVE TokenInv'
<1> USE HifAssumption DEF IInv, TypeOK, CoreInv
<1>1. "new" \in rcvCtrl' /\ "new" \notin rcvCtrl /\ ~dropped
      /\ UNCHANGED <<pc, tmp, inIsr, gu8Interrupt, faults>>
  BY DEF Post, DropInv, BufferInv, Held, ctlVars
<1>2. Edge \in 0..1 /\ Edge' \in 0..1 /\ gu8Interrupt \in Nat /\ faults \in Nat
  BY DEF Edge, One, ValuesOK
<1>4. PICK t \in 0..1 : t = One(pc \in IsrEntry)
  BY DEF One
<1>3. Tokens = gu8Interrupt + Edge + t /\ Tokens' = gu8Interrupt + Edge' + t
  BY <1>1, <1>2, <1>4 DEF Tokens
<1> QED
  BY <1>1, <1>2, <1>3, <1>4 DEF TokenInv

\* The surplus of edges and counts is paid for by failed transfers.
LEMMA TokenInvStep == IInv /\ [Next]_vars => TokenInv'
<1> SUFFICES ASSUME IInv, [Next]_vars PROVE TokenInv'
  OBVIOUS
<1> USE HifAssumption DEF IInv, TypeOK, FlagsOK, BitsOK, ValuesOK, CoreInv, PathInv,
    BufferInv, Bits, IsrEntry, DonePoints, SendPoints, Held,
    IrqInv, TokenInv, Tokens, Edge, One, Byte
<1> USE DEF At, Go, Ok, Fail, EnableIrq, DisableIrq, MustWake,
    ChipWake, SleepCount, ChipSleep, ChipSleepFails,
    ReceiveDone, DoneFails, CbReturn, chipVars, irqVars,
    wakeVars, xferVars, ctlVars, histVars
<1>1. CASE Release           BY <1>1 DEF Release
<1>2. ASSUME NEW k \in Kinds, Post(k) PROVE TokenInv'
  BY <1>2, TokenPost DEF TokenInv
<1>3. CASE IsrEnter          BY <1>3 DEF IsrEnter
<1>4. CASE IsrExit           BY <1>4 DEF IsrExit
<1>5. CASE HandleEvents      BY <1>5 DEF HandleEvents
<1>6. CASE TestInterrupt     BY <1>6 DEF TestInterrupt
<1>7. CASE TakeInterrupt     BY <1>7 DEF TakeInterrupt
<1>8. CASE IsrWake           BY <1>8 DEF IsrWake
<1>9. CASE ReadCtrl          BY <1>9 DEF ReadCtrl
<1>10. CASE MaskInterrupt    BY <1>10 DEF MaskInterrupt
<1>11. CASE ClearInterrupt BY <1>11, TokenClear
<1>12. CASE Fetch BY <1>12, TokenFetch
<1>13. CASE ReceiveReply     BY <1>13 DEF ReceiveReply
<1>14. CASE ReceivePayload   BY <1>14 DEF ReceivePayload
<1>15. CASE DoneEnable       BY <1>15 DEF DoneEnable
<1>16. CASE DoneRead         BY <1>16 DEF DoneRead
<1>17. CASE DoneWrite        BY <1>17 DEF DoneWrite
<1>18. CASE AppCallback      BY <1>18 DEF AppCallback
<1>19. CASE FinishIsr        BY <1>19 DEF FinishIsr
<1>20. CASE IsrSleep         BY <1>20 DEF IsrSleep
<1>21. CASE SmallStart       BY <1>21 DEF SmallStart
<1>22. CASE SmallRead        BY <1>22 DEF SmallRead
<1>23. CASE SmallEnd         BY <1>23 DEF SmallEnd
<1>24. CASE SendStart        BY <1>24 DEF SendStart
<1>25. CASE SendPoll         BY <1>25 DEF SendPoll
<1>26. CASE SendCommit       BY <1>26 DEF SendCommit
<1>27. CASE SendSleep        BY <1>27 DEF SendSleep
<1>28. CASE CallSend         BY <1>28 DEF CallSend
<1>29. CASE AppRead          BY <1>29 DEF AppRead
<1>30. CASE CloseSocket      BY <1>30 DEF CloseSocket
<1>31. CASE OpenSocket       BY <1>31 DEF OpenSocket
<1>32. CASE UNCHANGED vars   BY <1>32 DEF vars
<1> QED
  BY <1>1, <1>2, <1>3, <1>4, <1>5, <1>6, <1>7, <1>8, <1>9,
     <1>10, <1>11, <1>12, <1>13, <1>14, <1>15, <1>16, <1>17,
     <1>18, <1>19, <1>20, <1>21, <1>22, <1>23, <1>24, <1>25,
     <1>26, <1>27, <1>28, <1>29, <1>30, <1>31, <1>32
     DEF Next, Chip, Handler, Driver, Application

\* A failed ClearInterrupt leaks the count of hif_chip_wake.
LEMMA WakeClear == IInv /\ ClearInterrupt => WakeInv'
<1> SUFFICES ASSUME IInv, ClearInterrupt PROVE WakeInv'
  OBVIOUS
<1> USE DEF IInv, TypeOK, CoreInv
<1>1. /\ pc = "clear" /\ ~dropped /\ hif_small_xfer = 0
      /\ UNCHANGED <<gu8ChipSleep, gu8ChipMode, awake, hif_small_xfer>>
  BY DEF ClearInterrupt, At, wakeVars, xferVars, DropInv, PathInv, IsrEntry
<1>2. Holders = 1
  BY <1>1 DEF Holders, IsrHolds, SendHolds, One, SendPoints
<1>3. gu8ChipSleep \in Nat /\ faults \in Nat
  BY DEF ValuesOK
<1>4. CASE pc' = "wake" /\ faults' = faults + 1
  <2>1. Holders' = 0
    BY <1>1, <1>4 DEF Holders, IsrHolds, SendHolds, One, SendPoints, DonePoints
  <2> QED
    BY <1>1, <1>2, <1>3, <1>4, <2>1 DEF WakeInv
<1>5. CASE pc' = "wake" /\ faults' = faults /\ dropped'
  <2>1. Holders' = 0
    BY <1>1, <1>5 DEF Holders, IsrHolds, SendHolds, One, SendPoints, DonePoints
  <2> QED
    BY <1>1, <1>2, <1>3, <1>5, <2>1 DEF WakeInv
<1>6. CASE pc' = "fetch" /\ faults' = faults
  <2>1. Holders' = 1
    BY <1>1, <1>6 DEF Holders, IsrHolds, SendHolds, One, SendPoints, DonePoints
  <2> QED
    BY <1>1, <1>2, <1>3, <1>6, <2>1 DEF WakeInv
<1> QED
  BY <1>4, <1>5, <1>6 DEF ClearInterrupt, Ok, Fail, Go

\* gu8ChipSleep counts the holders, and the leaks of failed transfers.
LEMMA WakeInvStep == IInv /\ [Next]_vars => WakeInv'
<1> SUFFICES ASSUME IInv, [Next]_vars PROVE WakeInv'
  OBVIOUS
<1> USE HifAssumption DEF IInv, TypeOK, FlagsOK, BitsOK, ValuesOK, CoreInv, PathInv,
    BufferInv, Bits, IsrEntry, DonePoints, SendPoints, Held,
    DropInv, WakeInv, TokenInv, One, Holders, SendHolds,
    IsrHolds
<1> USE DEF At, Go, Ok, Fail, EnableIrq, DisableIrq, MustWake,
    SleepCount, ChipSleep, ChipSleepFails, ReceiveDone,
    DoneFails, CbReturn, chipVars, irqVars, wakeVars,
    xferVars, ctlVars, histVars
<1>1. CASE Release           BY <1>1 DEF Release
<1>2. ASSUME NEW k \in Kinds, Post(k) PROVE WakeInv'
  BY <1>2 DEF Post
<1>3. CASE IsrEnter          BY <1>3 DEF IsrEnter
<1>4. CASE IsrExit           BY <1>4 DEF IsrExit
<1>5. CASE HandleEvents      BY <1>5 DEF HandleEvents
<1>6. CASE TestInterrupt     BY <1>6 DEF TestInterrupt
<1>7. CASE TakeInterrupt     BY <1>7 DEF TakeInterrupt
<1>8. CASE IsrWake
  <2>1. /\ pc = "wake" /\ gu8ChipSleep \in 0..254 
        /\ Holders = 0
    BY <1>8 DEF IsrWake, At, Holders, IsrHolds, SendHolds
  <2>2. CASE ChipWake /\ pc' = "ctrl" /\ faults' = faults
   <3>1. gu8ChipSleep' = gu8ChipSleep + 1
     BY <2>1, <2>2, ChipWakeCount
   <3>2. gu8ChipMode' = gu8ChipMode /\ (gu8ChipMode = "deep" => awake')
     BY <2>1, <2>2, ChipWakeAwake
   <3>3. Holders' = 1 
     BY <1>8, <2>1, <2>2 DEF IsrWake, Holders, IsrHolds, SendHolds, xferVars
   <3> QED
    BY <1>8, <2>1, <2>2, <3>1, <3>2, <3>3 DEF IsrWake, chipVars, xferVars, ctlVars, histVars
  <2>3. CASE UNCHANGED <<wakeVars, pc>> /\ faults' = faults + 1
    BY <1>8, <2>1, <2>3 DEF IsrWake, chipVars, xferVars, ctlVars, histVars, wakeVars, Holders, IsrHolds, SendHolds
  <2> QED BY <1>8, <2>2, <2>3 DEF IsrWake, Ok, Fail, Go
<1>9. CASE ReadCtrl          BY <1>9 DEF ReadCtrl
<1>10. CASE MaskInterrupt    BY <1>10 DEF MaskInterrupt
<1>11. CASE ClearInterrupt BY <1>11, WakeClear
<1>12. CASE Fetch            BY <1>12 DEF Fetch
<1>13. CASE ReceiveReply     BY <1>13 DEF ReceiveReply
<1>14. CASE ReceivePayload   BY <1>14 DEF ReceivePayload
<1>15. CASE DoneEnable       BY <1>15 DEF DoneEnable
<1>16. CASE DoneRead         BY <1>16 DEF DoneRead
<1>17. CASE DoneWrite
  <2>1. pc = "doneWrite" /\ UNCHANGED <<waiting, wakeVars, hif_small_xfer, back, gu8HifSizeDone>>
    BY <1>17 DEF DoneWrite, At, chipVars, xferVars, ctlVars
  <2>2. Holders = 1 /\ Holders' = 1
    BY <1>17, <2>1 DEF DoneWrite, DoneFails, Go, Holders, IsrHolds, SendHolds
  <2>3. reg = rcvCtrl /\ Held
    BY <2>1
  <2>4. ~dropped
    BY <2>1
  <2>5. CASE faults' = faults + 1
    BY <1>17, <2>1, <2>2, <2>3, <2>4, <2>5 DEF DoneWrite, DoneFails, Go, Ok, Fail, wakeVars
  <2>6. CASE faults' = faults
    BY <1>17, <2>1, <2>2, <2>3, <2>4, <2>6 DEF DoneWrite, DoneFails, Go, Ok, Fail, wakeVars
  <2> QED BY <1>17, <2>5, <2>6 DEF DoneWrite, DoneFails, Ok, Fail
<1>18. CASE AppCallback      BY <1>18 DEF AppCallback
<1>19. CASE FinishIsr        BY <1>19 DEF FinishIsr
<1>20. CASE IsrSleep         BY <1>20 DEF IsrSleep
<1>21. CASE SmallStart       BY <1>21 DEF SmallStart
<1>22. CASE SmallRead        BY <1>22 DEF SmallRead
<1>23. CASE SmallEnd         BY <1>23 DEF SmallEnd
<1>24. CASE SendStart
  <2>1. pc = "sendStart" /\ gu8ChipSleep \in 0..254
    BY <1>24 DEF SendStart, At, Holders, SendHolds, IsrHolds
  <2>2. Holders' = Holders + One(pc' = "sendPoll") /\ Holders \in 0..1 /\ dropped' = dropped
    BY <1>24, <2>1 DEF SendStart, Go, Holders, SendHolds, IsrHolds, xferVars, ctlVars, histVars
  <2>4. CASE ChipWake 
   <3>1. gu8ChipSleep' = gu8ChipSleep + 1
     BY <2>1, <2>4, ChipWakeCount
   <3>2. gu8ChipMode' = gu8ChipMode /\ (gu8ChipMode = "deep" => awake')
     BY <2>1, <2>4, ChipWakeAwake
   <3> QED
    BY <1>24, <2>1, <2>2, <2>4, <3>1, <3>2 DEF SendStart, Go, Ok, Fail, chipVars, xferVars, ctlVars, histVars
  <2>5. CASE ~ChipWake
    BY <1>24, <2>1, <2>2, <2>5 DEF SendStart, Go, Ok, Fail, chipVars, xferVars, ctlVars, histVars, wakeVars
  <2> QED BY <2>4, <2>5
<1>25. CASE SendPoll         BY <1>25 DEF SendPoll
<1>26. CASE SendCommit       BY <1>26 DEF SendCommit
<1>27. CASE SendSleep        BY <1>27 DEF SendSleep
<1>28. CASE CallSend         BY <1>28 DEF CallSend
<1>29. CASE AppRead          BY <1>29 DEF AppRead
<1>30. CASE CloseSocket      BY <1>30 DEF CloseSocket
<1>31. CASE OpenSocket       BY <1>31 DEF OpenSocket
<1>32. CASE UNCHANGED vars   BY <1>32 DEF vars
<1> QED
  BY <1>1, <1>2, <1>3, <1>4, <1>5, <1>6, <1>7, <1>8, <1>9,
     <1>10, <1>11, <1>12, <1>13, <1>14, <1>15, <1>16, <1>17,
     <1>18, <1>19, <1>20, <1>21, <1>22, <1>23, <1>24, <1>25,
     <1>26, <1>27, <1>28, <1>29, <1>30, <1>31, <1>32
     DEF Next, Chip, Handler, Driver, Application

-----------------------------------------------------------------------------
(* The theorems.                                                               *)

\* The inductive invariant holds in every state of every behavior.
THEOREM Invariance == Spec => []IInv
<1>1. IInv /\ [Next]_vars => IInv'
  BY FlagsOKStep, BitsOKStep, ValuesOKStep, NoInterruptLostStep, PathInvStep,
     BufferInvStep, IrqInvStep, TokenInvStep, WakeInvStep, DropInvStep,
     OrderInvStep
     DEF IInv, TypeOK, CoreInv
<1> QED
  BY InitIInv, <1>1, PTL DEF Spec

\* The type invariant; the driver's byte counters stay bytes because no
\* increment meets 255 while fewer than 252 transfers fail.
THEOREM TypeCorrect == Spec => []TypeOK
<1>1. IInv => TypeOK
  BY DEF IInv
<1> QED
  BY Invariance, <1>1, PTL

\* A packet whose interrupt bit is set is always going to be noticed: enabling
\* the interrupt clears the pin's edge flag, and never that of such a packet.
THEOREM InterruptsKept == Spec => []NoInterruptLost
<1>1. IInv => NoInterruptLost
  BY DEF IInv, CoreInv
<1> QED
  BY Invariance, <1>1, PTL

\* Until a transfer fails, gu8Interrupt-- is not interrupted by the handler.
THEOREM DecrementSafe == Spec => []DecrementNotRaced
<1>1. IInv => DecrementNotRaced
  <2> SUFFICES ASSUME IInv, pc = "store", faults = 0
               PROVE  gu8Interrupt = tmp
    BY DEF DecrementNotRaced
  <2>1. gu8Interrupt \in Nat /\ tmp \in Nat /\ tmp > 0 /\ tmp <= gu8Interrupt
    BY DEF IInv, TypeOK, ValuesOK, CoreInv, TokenInv
  <2>2. Tokens <= 1
    BY DEF IInv, CoreInv, TokenInv
  <2>3. Tokens = gu8Interrupt \/ Tokens = gu8Interrupt + 1
    BY <2>1 DEF Tokens, Edge, One, IsrEntry
  <2> QED
    BY <2>1, <2>2, <2>3
<1> QED
  BY Invariance, <1>1, PTL

\* hif_receive is never called for a packet that was given back.
THEOREM OwnPacketRead == Spec => []ReadsOwnPacket
<1>1. IInv => ReadsOwnPacket
  BY DEF IInv, CoreInv, BufferInv, Held, ReadsOwnPacket, ReadPoints, DonePoints
<1> QED
  BY Invariance, <1>1, PTL

\* The chip's clocks run whenever a transfer needs them.
THEOREM ChipAwake == Spec => []AwakeOnAccess
<1>1. IInv => AwakeOnAccess
  <2> SUFFICES ASSUME IInv, gu8ChipMode = "deep", pc \in BusPoints
               PROVE  awake
    BY DEF AwakeOnAccess
  <2>1. IsrHolds \/ SendHolds
    BY DEF IInv, CoreInv, PathInv, BusPoints, ReadPoints, IsrHolds, SendHolds,
           DonePoints
  <2>2. gu8ChipSleep > 0
    BY <2>1 DEF IInv, TypeOK, ValuesOK, CoreInv, WakeInv, Holders, One
  <2> QED
    BY <2>2 DEF IInv, CoreInv, WakeInv
<1> QED
  BY Invariance, <1>1, PTL

\* hif_chip_wake and hif_chip_sleep are paired on every path without an error.
THEOREM WakePaired == Spec => []WakeBalanced
<1>1. IInv => WakeBalanced
  <2> SUFFICES ASSUME IInv, pc = "idle", faults = 0, ~dropped
               PROVE  gu8ChipSleep = IF hif_small_xfer # 0 THEN 1 ELSE 0
    BY DEF WakeBalanced
  <2>1. Holders = IF hif_small_xfer # 0 THEN 1 ELSE 0
    BY DEF Holders, IsrHolds, SendHolds, One, DonePoints, SendPoints
  <2>2. Holders <= gu8ChipSleep /\ gu8ChipSleep <= Holders + 0
    BY DEF IInv, CoreInv, WakeInv
  <2> QED
    BY <2>1, <2>2 DEF IInv, TypeOK, ValuesOK
<1> QED
  BY Invariance, <1>1, PTL

-----------------------------------------------------------------------------
(* The host interface implements the mailbox.                                  *)

mailbox == <<waiting, posted, handled>>

\* A new packet is posted in an empty mailbox.
LEMMA PostRefines == ASSUME NEW k \in Kinds, IInv, Post(k) PROVE Mail!Post
<1>1. ~waiting /\ waiting' /\ posted' = posted + 1 /\ handled' = handled
  BY DEF Post, histVars
<1> QED
  BY <1>1 DEF Mail!Post

\* The chip's release empties it, after its packet was taken.
LEMMA ReleaseRefines == ASSUME IInv, Release PROVE Mail!Release
<1>1. waiting /\ ~waiting' /\ posted' = posted /\ handled' = handled
  BY DEF Release, histVars
<1>2. posted # 0 /\ Len(handled) = posted
  <2>1. "done" \in rcvCtrl /\ posted \in Nat
    BY DEF Release, IInv, TypeOK, ValuesOK
  <2> QED
    BY <1>1, <2>1 DEF IInv, CoreInv, OrderInv
<1> QED
  BY <1>1, <1>2 DEF Mail!Release

\* Reading a packet's header takes it, or fails and takes nothing.
LEMMA FetchRefines ==
  ASSUME IInv, Fetch PROVE Mail!Take \/ UNCHANGED mailbox
<1>1. pc = "fetch" /\ waiting /\ waiting' = waiting /\ posted' = posted
  BY DEF Fetch, At, chipVars, IInv, CoreInv, BufferInv, Held
<1>2. posted # 0 /\ Len(handled) + 1 = posted
  BY <1>1 DEF IInv, TypeOK, ValuesOK, CoreInv, OrderInv
<1>3. CASE handled' = handled
  BY <1>1, <1>3 DEF mailbox
<1>4. CASE handled' = Append(handled, posted)
  BY <1>1, <1>2, <1>4 DEF Mail!Take
<1> QED
  BY <1>3, <1>4 DEF Fetch

\* Packets are handed to the callbacks once each, in the order of posting, and
\* the chip's buffer is reused only after: the driver implements Mailbox.
THEOREM Refinement == Spec => TakenOnceInOrder
<1>1. Init => Mail!Init
  BY DEF Init, Mail!Init
<1>2. IInv /\ [Next]_vars => [Mail!Next]_(Mail!mailVars)
  <2> SUFFICES ASSUME IInv, [Next]_vars
               PROVE  Mail!Next \/ UNCHANGED mailbox
    BY DEF Mail!mailVars, mailbox
  <2> USE DEF mailbox, chipVars, histVars
  <2>1. ASSUME NEW k \in Kinds, Post(k) PROVE Mail!Next
    BY <2>1, PostRefines DEF Mail!Next
  <2>2. CASE Release
    BY <2>2, ReleaseRefines DEF Mail!Next
  <2>3. CASE Fetch
    BY <2>3, FetchRefines DEF Mail!Next
  <2>4. CASE Handler
    BY <2>4 DEF Handler, IsrEnter, IsrExit
  <2>5. CASE Application
    BY <2>5 DEF Application, CallSend, AppRead, CloseSocket, OpenSocket
  <2>6. CASE Driver /\ ~Fetch
    BY <2>6 DEF Driver, HandleEvents, TestInterrupt, TakeInterrupt, IsrWake,
       ReadCtrl, MaskInterrupt, ClearInterrupt, ReceiveReply, ReceivePayload,
       DoneEnable, DoneRead, DoneWrite, AppCallback, FinishIsr, IsrSleep,
       SmallStart, SmallRead, SmallEnd, SendStart, SendPoll, SendCommit,
       SendSleep
  <2>7. CASE UNCHANGED vars
    BY <2>7 DEF vars
  <2> QED
    BY <2>1, <2>2, <2>3, <2>4, <2>5, <2>6, <2>7 DEF Next, Chip
<1> QED
  BY <1>1, <1>2, Invariance, PTL DEF Spec, TakenOnceInOrder, Mail!Spec

=============================================================================
