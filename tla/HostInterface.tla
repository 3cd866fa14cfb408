---------------------------- MODULE HostInterface ----------------------------
(***************************************************************************)
(* The host interface (HIF) of the WINC1500 driver: the main loop calling  *)
(* hif_handle_isr, hif_isr, hif_receive and hif_send, the interrupt        *)
(* handler of the chip's IRQ pin that preempts it, and the chip on the     *)
(* other side of the SPI bus.                                              *)
(*                                                                         *)
(* The host's locals and control point are variables, one step is one bus  *)
(* transfer, one access to an interrupt register or one access to a        *)
(* variable shared with the handler.  Every bus transfer may fail.         *)
(***************************************************************************)
EXTENDS Naturals, Sequences

CONSTANTS
  Kinds,      \* the kinds of packet the chip posts, see AllKinds
  Chunks,     \* how many user buffers a "big" packet fills
  MaxPosts,   \* bound: packets posted by the chip
  MaxFaults,  \* bound: failed bus transfers
  MaxSends    \* bound: requests sent by the host

(***************************************************************************)
(* What the callback of a packet's group does with it:                     *)
(*   whole     one hif_receive that reads the packet to its end            *)
(*   split     reads a reply header, then the payload with isDone          *)
(*   discard   reads a reply header, then hif_receive(0, NULL, 0, 1)       *)
(*   ignored   no hif_receive at all (no callback, or an unknown opcode)   *)
(*   big       header, then a payload larger than the user's buffer        *)
(*   empty, badGroup   malformed: size 0, or a group no callback is for    *)
(***************************************************************************)
AllKinds == {"whole", "split", "discard", "ignored", "big", "empty", "badGroup"}

ASSUME HifAssumption ==
  /\ Kinds \subseteq AllKinds
  /\ Chunks \in Nat /\ Chunks > 1
  /\ MaxPosts \in Nat
  /\ MaxFaults \in Nat /\ MaxFaults < 252   \* the host counts in bytes
  /\ MaxSends \in Nat

VARIABLES
  \* the chip
  posted, kind,    \* number and kind of the last packet posted
  waiting,         \* the chip waits for RX done before it reuses its buffer
  rcvCtrl,         \* WIFI_HOST_RCV_CTRL_0: those of Bits that are set
  awake,           \* the chip's clocks are on
  \* the IRQ pin
  isf,             \* the port's edge flag of the pin
  irqEnabled,      \* NVIC enable of the port's interrupt
  inIsr,           \* BOARD_WINC_INT_IRQ_HANDLER is running
  \* the host
  gu8Interrupt, gu8ChipSleep, gu8HifSizeDone, gu8ChipMode,
  hif_small_xfer,
  left,            \* msg_xfer.u16RemainingSize, in user buffers
  sockOpen,        \* gastrSockets[sock_xfer] is used and has a buffer
  full,            \* SOCKET_BUFFER_FLAG_FULL of that socket's buffer
  pc, cont,        \* control point, and where hif_set_rx_done returns to
  back,            \* where hif_send returns to
  tmp,             \* the register gu8Interrupt-- is computed in
  reg,             \* the local copy of rcvCtrl
  \* bookkeeping of the model
  handled,         \* history: packets handed to their group's callback
  faults, sends,   \* used up bounds
  dropped          \* history: an attempt failed past the interrupt bit

chipVars == <<posted, kind, waiting>>
irqVars  == <<isf, irqEnabled, inIsr, gu8Interrupt>>
wakeVars == <<awake, gu8ChipSleep, gu8ChipMode>>
xferVars == <<hif_small_xfer, left, sockOpen, full>>
ctlVars  == <<cont, back, tmp, reg>>
histVars == <<handled, dropped>>
vars == <<chipVars, rcvCtrl, irqVars, wakeVars, xferVars, gu8HifSizeDone,
          pc, ctlVars, histVars, faults, sends>>

Points == {"idle", "check", "store", "wake", "ctrl", "mask", "clear", "fetch",
           "reply", "payload", "doneIrq", "doneRead", "doneWrite", "appCb",
           "finish", "sleep", "small", "smallRead", "smallEnd",
           "sendStart", "sendPoll", "sendCommit", "sendSleep"}

\* The two bits of WIFI_HOST_RCV_CTRL_0 the host and the chip talk with.
Bits == {"new", "done"}

Init ==
  /\ posted = 0 /\ kind = "whole" /\ waiting = FALSE
  /\ rcvCtrl = {}
  /\ awake = TRUE
  /\ isf = FALSE /\ irqEnabled = TRUE /\ inIsr = FALSE
  /\ gu8Interrupt = 0 /\ gu8ChipSleep = 0 /\ gu8HifSizeDone = FALSE
  /\ gu8ChipMode \in {"noPs", "deep"}
  /\ hif_small_xfer = 0 /\ left = 0 /\ sockOpen = TRUE /\ full = FALSE
  /\ pc = "idle" /\ cont = "idle" /\ back = "idle" /\ tmp = 0
  /\ reg = {}
  /\ handled = <<>> /\ faults = 0 /\ sends = 0 /\ dropped = FALSE

\* Slip: the byte counters are taken for unbounded ones.
ByteUnbounded(n) == n

Byte(n) == n % 256

-----------------------------------------------------------------------------
(* The chip, and the interrupt handler.                                      *)

\* The firmware writes a packet to its buffer, raises bit 0 and pulls the pin.
Post(k) ==
  /\ posted < MaxPosts
  /\ ~waiting
  /\ posted' = posted + 1
  /\ kind' = k
  /\ waiting' = TRUE
  /\ rcvCtrl' = {"new"}
  /\ isf' = TRUE
  /\ UNCHANGED <<irqEnabled, inIsr, gu8Interrupt, wakeVars, xferVars,
                 gu8HifSizeDone, pc, ctlVars, histVars, faults, sends>>

\* The firmware sees RX done and may use its buffer again.
Release ==
  /\ waiting /\ "done" \in rcvCtrl
  /\ waiting' = FALSE
  /\ rcvCtrl' = rcvCtrl \ {"done"}
  /\ UNCHANGED <<posted, kind, irqVars, wakeVars, xferVars, gu8HifSizeDone,
                 pc, ctlVars, histVars, faults, sends>>

\* BOARD_WINC_INT_IRQ_HANDLER up to its call of isr: gu8Interrupt++.
IsrEnter ==
  /\ isf /\ irqEnabled /\ ~inIsr
  /\ inIsr' = TRUE
  /\ gu8Interrupt' = Byte(gu8Interrupt + 1)
  /\ UNCHANGED <<chipVars, rcvCtrl, isf, irqEnabled, wakeVars, xferVars,
                 gu8HifSizeDone, pc, ctlVars, histVars, faults, sends>>

\* Its last statement clears the edge flag, whatever set it.
IsrExit ==
  /\ inIsr
  /\ inIsr' = FALSE
  /\ isf' = FALSE
  /\ UNCHANGED <<chipVars, rcvCtrl, irqEnabled, gu8Interrupt, wakeVars, xferVars,
                 gu8HifSizeDone, pc, ctlVars, histVars, faults, sends>>

-----------------------------------------------------------------------------
(* The main loop.  The handler preempts it between any two steps.            *)

At(p) == pc = p /\ ~inIsr

Go(p) == pc' = p

\* A bus transfer succeeds, or fails while the bound on failures allows it.
Ok == UNCHANGED faults
Fail == faults < MaxFaults /\ faults' = faults + 1

\* nm_bsp_interrupt_ctrl(1): rewriting the pin's control register writes its
\* edge flag back to itself, which clears it (write one to clear).
EnableIrq == irqEnabled' = TRUE /\ isf' = FALSE

\* nm_bsp_interrupt_ctrl(0)
DisableIrq == irqEnabled' = FALSE /\ UNCHANGED isf

\* hif_chip_wake writes to the chip only when nobody holds it awake.
MustWake == gu8ChipSleep = 0 /\ gu8ChipMode = "deep"

ChipWake ==
  /\ gu8ChipSleep' = Byte(gu8ChipSleep + 1)
  /\ awake' = (awake \/ MustWake)
  /\ UNCHANGED gu8ChipMode

\* The count hif_chip_sleep leaves behind.
SleepCount == IF gu8ChipSleep >= 1 THEN gu8ChipSleep - 1 ELSE 0

\* Slip: every hif_chip_sleep lets the chip sleep, not only the last holder's.
ChipSleepAlways ==
  /\ gu8ChipSleep' = SleepCount
  /\ awake' = (awake /\ gu8ChipMode # "deep")
  /\ UNCHANGED gu8ChipMode

\* hif_chip_sleep: the last holder lets the chip stop its clocks.
ChipSleep ==
  /\ gu8ChipSleep' = SleepCount
  /\ awake' = (awake /\ ~(SleepCount = 0 /\ gu8ChipMode = "deep"))
  /\ UNCHANGED gu8ChipMode

\* Its transfers fail: the chip may or may not have got the sleep value.
ChipSleepFails ==
  /\ gu8ChipSleep' = SleepCount
  /\ SleepCount = 0 /\ gu8ChipMode = "deep"
  /\ \/ awake' = awake
     \/ awake' = FALSE
  /\ UNCHANGED gu8ChipMode

\* m2m_wifi_handle_events waits for the reader of a full socket buffer;
\* hif_handle_isr continues a paused transfer before it looks at interrupts.
HandleEvents ==
  /\ At("idle") /\ ~full
  /\ Go(IF hif_small_xfer # 0 THEN "small" ELSE "check")
  /\ UNCHANGED <<chipVars, rcvCtrl, irqVars, wakeVars, xferVars,
                 gu8HifSizeDone, ctlVars, histVars, faults, sends>>

\* while (gu8Interrupt), and the load of gu8Interrupt--.
TestInterrupt ==
  /\ At("check")
  /\ \/ gu8Interrupt = 0 /\ Go("idle") /\ UNCHANGED tmp
     \/ gu8Interrupt # 0 /\ Go("store") /\ tmp' = gu8Interrupt
  /\ UNCHANGED <<chipVars, rcvCtrl, irqVars, wakeVars, xferVars,
                 gu8HifSizeDone, cont, back, reg, histVars, faults, sends>>

\* The store of gu8Interrupt--.
TakeInterrupt ==
  /\ At("store")
  /\ gu8Interrupt' = Byte(tmp + 255)
  /\ Go("wake")
  /\ UNCHANGED <<chipVars, rcvCtrl, isf, irqEnabled, inIsr, wakeVars, xferVars,
                 gu8HifSizeDone, ctlVars, histVars, faults, sends>>

\* hif_isr begins.  A failure makes hif_handle_isr call it again.
IsrWake ==
  /\ At("wake")
  /\ \/ Ok /\ ChipWake /\ Go("ctrl")
     \/ Fail /\ MustWake /\ UNCHANGED <<wakeVars, pc>>
  /\ UNCHANGED <<chipVars, rcvCtrl, irqVars, xferVars, gu8HifSizeDone,
                 ctlVars, histVars, sends>>

\* WIFI_HOST_RCV_CTRL_0 is read; bit 0 clear is a false interrupt.
ReadCtrl ==
  /\ At("ctrl")
  /\ \/ Ok /\ reg' = rcvCtrl /\ Go(IF "new" \in rcvCtrl THEN "mask" ELSE "sleep")
     \/ Fail /\ Go("wake") /\ UNCHANGED reg
  /\ UNCHANGED <<chipVars, rcvCtrl, irqVars, wakeVars, xferVars,
                 gu8HifSizeDone, cont, back, tmp, histVars, sends>>

MaskInterrupt ==
  /\ At("mask")
  /\ DisableIrq
  /\ Go("clear")
  /\ UNCHANGED <<chipVars, rcvCtrl, inIsr, gu8Interrupt, wakeVars, xferVars,
                 gu8HifSizeDone, ctlVars, histVars, faults, sends>>

\* Slip: the flag of the previous packet's RX done is not reset.
ClearKeepsSizeDone ==
  /\ At("clear")
  /\ \/ /\ Ok
        /\ rcvCtrl' = reg \ {"new"}
        /\ Go(IF kind = "empty" THEN "wake" ELSE "fetch")
        /\ dropped' = (dropped \/ kind = "empty")
     \/ Fail /\ Go("wake") /\ UNCHANGED <<rcvCtrl, dropped>>
  /\ UNCHANGED <<chipVars, irqVars, wakeVars, xferVars, gu8HifSizeDone, ctlVars,
                 handled, sends>>

\* Slip: the register is written back as it was read.
ClearKeepsBit ==
  /\ At("clear")
  /\ \/ /\ Ok
        /\ rcvCtrl' = reg
        /\ gu8HifSizeDone' = FALSE
        /\ Go(IF kind = "empty" THEN "wake" ELSE "fetch")
        /\ dropped' = (dropped \/ kind = "empty")
     \/ Fail /\ Go("wake") /\ UNCHANGED <<rcvCtrl, gu8HifSizeDone, dropped>>
  /\ UNCHANGED <<chipVars, irqVars, wakeVars, xferVars, ctlVars, handled, sends>>

\* Bit 0 is written back clear; a packet of size 0 is an error.
ClearInterrupt ==
  /\ At("clear")
  /\ \/ /\ Ok
        /\ rcvCtrl' = reg \ {"new"}
        /\ gu8HifSizeDone' = FALSE
        /\ Go(IF kind = "empty" THEN "wake" ELSE "fetch")
        /\ dropped' = (dropped \/ kind = "empty")
     \/ /\ Fail
        /\ Go("wake")
        /\ UNCHANGED <<rcvCtrl, gu8HifSizeDone, dropped>>
  /\ UNCHANGED <<chipVars, irqVars, wakeVars, xferVars, ctlVars, handled, sends>>

\* The packet's address and header are read, and its callback is called.
Fetch ==
  /\ At("fetch")
  /\ \/ /\ Ok
        /\ kind # "badGroup"
        /\ handled' = Append(handled, posted)
        /\ Go(IF kind = "ignored" THEN "finish" ELSE "reply")
        /\ UNCHANGED <<isf, irqEnabled, dropped>>
     \/ /\ Ok
        /\ kind = "badGroup"
        /\ Go("wake")
        /\ dropped' = TRUE
        /\ UNCHANGED <<isf, irqEnabled, handled>>
     \/ /\ Fail                  \* a bus error, or a header with a bad length
        /\ EnableIrq
        /\ Go("wake")
        /\ dropped' = TRUE
        /\ UNCHANGED handled
  /\ UNCHANGED <<chipVars, rcvCtrl, inIsr, gu8Interrupt, wakeVars, xferVars,
                 gu8HifSizeDone, ctlVars, sends>>

\* hif_receive found that it is the last one: mark it, then RX done.
ReceiveDone(next) ==
  /\ gu8HifSizeDone' = TRUE
  /\ cont' = next
  /\ Go("doneIrq")

\* Slip: the reply header is received with isDone set.
ReplyWithDone ==
  /\ At("reply")
  /\ \/ Ok /\ ReceiveDone(IF kind = "whole" THEN "appCb" ELSE "payload")
     \/ Fail /\ Go("finish") /\ UNCHANGED <<gu8HifSizeDone, cont>>
  /\ UNCHANGED <<chipVars, rcvCtrl, irqVars, wakeVars, xferVars, back, tmp, reg,
                 histVars, sends>>

\* The callback's first hif_receive, of the reply structure.
ReceiveReply ==
  /\ At("reply")
  /\ \/ Ok /\ kind = "whole" /\ ReceiveDone("appCb")
     \/ /\ Ok /\ kind # "whole"
        /\ Go("payload")
        /\ UNCHANGED <<gu8HifSizeDone, cont>>
     \/ Fail /\ Go("finish") /\ UNCHANGED <<gu8HifSizeDone, cont>>
  /\ UNCHANGED <<chipVars, rcvCtrl, irqVars, wakeVars, xferVars, back, tmp, reg,
                 histVars, sends>>

\* The rest of m2m_ip_cb: the payload, by Socket_ReadSocketData.
ReceivePayload ==
  /\ At("payload")
  /\ \/ /\ Ok                    \* a stale session: drop it with RX done
        /\ kind = "discard"
        /\ ReceiveDone("finish")
        /\ UNCHANGED xferVars
     \/ /\ Ok
        /\ kind = "split" /\ sockOpen
        /\ ReceiveDone("appCb")
        /\ UNCHANGED xferVars
     \/ /\ kind = "big" /\ sockOpen
        /\ hif_small_xfer' = 1
        /\ \/ Ok /\ left' = Chunks - 1 /\ Go("appCb")
           \/ Fail /\ left' = Chunks /\ Go("finish")
        /\ UNCHANGED <<sockOpen, full, gu8HifSizeDone, cont>>
     \/ /\ kind \in {"split", "big"}
        /\ \/ Ok /\ ~sockOpen    \* no buffer to read it into
           \/ Fail /\ kind = "split"
        /\ Go("finish")
        /\ UNCHANGED <<xferVars, gu8HifSizeDone, cont>>
  /\ UNCHANGED <<chipVars, rcvCtrl, irqVars, wakeVars, back, tmp, reg,
                 histVars, sends>>

-----------------------------------------------------------------------------
(* hif_set_rx_done, with NM_EDGE_INTERRUPT.                                  *)

\* Slip: RX done is set with the interrupt still masked.
DoneStaysMasked ==
  /\ At("doneIrq")
  /\ Go("doneRead")
  /\ UNCHANGED <<chipVars, rcvCtrl, irqVars, wakeVars, xferVars,
                 gu8HifSizeDone, ctlVars, histVars, faults, sends>>

DoneEnable ==
  /\ At("doneIrq")
  /\ EnableIrq
  /\ Go("doneRead")
  /\ UNCHANGED <<chipVars, rcvCtrl, inIsr, gu8Interrupt, wakeVars, xferVars,
                 gu8HifSizeDone, ctlVars, histVars, faults, sends>>

\* hif_receive returns the error and the callback is left without its data.
DoneFails ==
  /\ Fail
  /\ Go(IF cont = "appCb"
        THEN IF hif_small_xfer = 3 THEN "smallEnd" ELSE "finish"
        ELSE IF cont = "finish" THEN "finish" ELSE "sleep")
  /\ dropped' = TRUE

DoneRead ==
  /\ At("doneRead")
  /\ \/ Ok /\ reg' = rcvCtrl /\ Go("doneWrite") /\ UNCHANGED dropped
     \/ DoneFails /\ UNCHANGED reg
  /\ UNCHANGED <<chipVars, rcvCtrl, irqVars, wakeVars, xferVars, gu8HifSizeDone,
                 cont, back, tmp, handled, sends>>

DoneWrite ==
  /\ At("doneWrite")
  /\ \/ /\ Ok
        /\ rcvCtrl' = reg \cup {"done"}
        /\ Go(cont)
        /\ UNCHANGED dropped
     \/ DoneFails /\ UNCHANGED rcvCtrl
  /\ UNCHANGED <<chipVars, irqVars, wakeVars, xferVars, gu8HifSizeDone,
                 ctlVars, handled, sends>>

-----------------------------------------------------------------------------
(* The way out of hif_isr.                                                   *)

CbReturn == IF hif_small_xfer \in {2, 3} THEN "smallEnd" ELSE "finish"

\* The application's callback: the socket buffer is full until it is read when
\* more of the packet is to come; the callback may send (recv re-arms itself).
AppCallback ==
  /\ At("appCb")
  /\ full' = (hif_small_xfer # 0 /\ left # 0)
  /\ \/ Go(CbReturn) /\ UNCHANGED <<back, sends>>
     \/ /\ sends < MaxSends
        /\ sends' = sends + 1
        /\ back' = CbReturn
        /\ Go("sendStart")
  /\ UNCHANGED <<chipVars, rcvCtrl, irqVars, wakeVars, hif_small_xfer, left,
                 sockOpen, gu8HifSizeDone, cont, tmp, reg, histVars, faults>>

\* A paused transfer leaves hif_isr here, the chip kept awake; otherwise RX
\* done is set for a callback that did not.
FinishIsr ==
  /\ At("finish")
  /\ \/ hif_small_xfer # 0 /\ Go("idle") /\ UNCHANGED cont
     \/ hif_small_xfer = 0 /\ ~gu8HifSizeDone /\ Go("doneIrq") /\ cont' = "sleep"
     \/ hif_small_xfer = 0 /\ gu8HifSizeDone /\ Go("sleep") /\ UNCHANGED cont
  /\ UNCHANGED <<chipVars, rcvCtrl, irqVars, wakeVars, xferVars, gu8HifSizeDone,
                 back, tmp, reg, histVars, faults, sends>>

IsrSleep ==
  /\ At("sleep")
  /\ \/ Ok /\ ChipSleep /\ Go("check")
     \/ Fail /\ ChipSleepFails /\ Go("wake")
  /\ UNCHANGED <<chipVars, rcvCtrl, irqVars, xferVars, gu8HifSizeDone, ctlVars,
                 histVars, sends>>

-----------------------------------------------------------------------------
(* Socket_ReadSocketData_Small: one more piece of a paused transfer.         *)

SmallStart ==
  /\ At("small")
  /\ \/ /\ left > 0 /\ sockOpen
        /\ hif_small_xfer' = (IF left > 1 THEN 2 ELSE 3)
        /\ Go("smallRead")
     \/ /\ ~(left > 0 /\ sockOpen)
        /\ Go("idle")
        /\ UNCHANGED hif_small_xfer
  /\ UNCHANGED <<chipVars, rcvCtrl, irqVars, wakeVars, left, sockOpen, full,
                 gu8HifSizeDone, ctlVars, histVars, faults, sends>>

SmallRead ==
  /\ At("smallRead")
  /\ \/ /\ Ok
        /\ left' = left - 1
        /\ \/ hif_small_xfer = 3 /\ ReceiveDone("appCb")
           \/ /\ hif_small_xfer # 3
              /\ Go("appCb")
              /\ UNCHANGED <<gu8HifSizeDone, cont>>
        /\ UNCHANGED dropped
     \/ /\ Fail
        /\ Go("smallEnd")
        /\ dropped' = (dropped \/ hif_small_xfer = 3)
        /\ UNCHANGED <<left, gu8HifSizeDone, cont>>
  /\ UNCHANGED <<chipVars, rcvCtrl, irqVars, wakeVars, hif_small_xfer, sockOpen,
                 full, back, tmp, reg, handled, sends>>

\* Slip: the paused transfer ends without hif_chip_sleep.
SmallEndAwake ==
  /\ At("smallEnd")
  /\ Go("idle")
  /\ hif_small_xfer' = (IF hif_small_xfer = 3 THEN 0 ELSE hif_small_xfer)
  /\ UNCHANGED <<chipVars, rcvCtrl, irqVars, wakeVars, left, sockOpen, full,
                 gu8HifSizeDone, ctlVars, histVars, faults, sends>>

\* After the last piece, whether it was read or not, the pause is over.
SmallEnd ==
  /\ At("smallEnd")
  /\ Go("idle")
  /\ \/ /\ hif_small_xfer = 3
        /\ hif_small_xfer' = 0
        /\ \/ Ok /\ ChipSleep
           \/ Fail /\ ChipSleepFails
     \/ /\ hif_small_xfer # 3
        /\ Ok
        /\ UNCHANGED <<hif_small_xfer, wakeVars>>
  /\ UNCHANGED <<chipVars, rcvCtrl, irqVars, left, sockOpen, full,
                 gu8HifSizeDone, ctlVars, histVars, sends>>

-----------------------------------------------------------------------------
(* hif_send, called by the main loop or from inside a callback.  Its error   *)
(* paths return without hif_chip_sleep.                                      *)

CallSend ==
  /\ At("idle")
  /\ sends < MaxSends
  /\ sends' = sends + 1
  /\ back' = "idle"
  /\ Go("sendStart")
  /\ UNCHANGED <<chipVars, rcvCtrl, irqVars, wakeVars, xferVars, gu8HifSizeDone,
                 cont, tmp, reg, histVars, faults>>

\* The chip is woken and the request registers are written.
SendStart ==
  /\ At("sendStart")
  /\ \/ Ok /\ ChipWake /\ Go("sendPoll")
     \/ Fail /\ ChipWake /\ Go(back)
     \/ Fail /\ MustWake /\ UNCHANGED wakeVars /\ Go(back)
  /\ UNCHANGED <<chipVars, rcvCtrl, irqVars, xferVars, gu8HifSizeDone, ctlVars,
                 histVars, sends>>

\* The chip grants a buffer within 1000 polls, or M2M_ERR_MEM_ALLOC.
SendPoll ==
  /\ At("sendPoll")
  /\ \/ Ok /\ Go("sendCommit")
     \/ Fail /\ Go(back)
  /\ UNCHANGED <<chipVars, rcvCtrl, irqVars, wakeVars, xferVars, gu8HifSizeDone,
                 ctlVars, histVars, sends>>

\* The packet is written and handed over by WIFI_HOST_RCV_CTRL_3.
SendCommit ==
  /\ At("sendCommit")
  /\ \/ Ok /\ Go("sendSleep")
     \/ Fail /\ Go(back)
  /\ UNCHANGED <<chipVars, rcvCtrl, irqVars, wakeVars, xferVars, gu8HifSizeDone,
                 ctlVars, histVars, sends>>

SendSleep ==
  /\ At("sendSleep")
  /\ \/ Ok /\ ChipSleep
     \/ Fail /\ ChipSleepFails
  /\ Go(back)
  /\ UNCHANGED <<chipVars, rcvCtrl, irqVars, xferVars, gu8HifSizeDone, ctlVars,
                 histVars, sends>>

-----------------------------------------------------------------------------
(* The application, between two calls of the driver.                         *)

\* It reads its socket buffer empty.
AppRead ==
  /\ At("idle") /\ full
  /\ full' = FALSE
  /\ UNCHANGED <<chipVars, rcvCtrl, irqVars, wakeVars, hif_small_xfer, left,
                 sockOpen, gu8HifSizeDone, pc, ctlVars, histVars, faults, sends>>

\* WiFiClient::stop: the socket is released and its buffer freed.
CloseSocket ==
  /\ At("idle") /\ sockOpen
  /\ sockOpen' = FALSE
  /\ full' = FALSE
  /\ UNCHANGED <<chipVars, rcvCtrl, irqVars, wakeVars, hif_small_xfer, left,
                 gu8HifSizeDone, pc, ctlVars, histVars, faults, sends>>

\* A new connection; its reply comes through hif_isr, which a paused transfer
\* keeps from running.
OpenSocket ==
  /\ At("idle") /\ ~sockOpen /\ hif_small_xfer = 0
  /\ sockOpen' = TRUE
  /\ UNCHANGED <<chipVars, rcvCtrl, irqVars, wakeVars, hif_small_xfer, left, full,
                 gu8HifSizeDone, pc, ctlVars, histVars, faults, sends>>

-----------------------------------------------------------------------------
Chip == Release \/ \E k \in Kinds : Post(k)

Handler == IsrEnter \/ IsrExit

Driver ==
  \/ HandleEvents \/ TestInterrupt \/ TakeInterrupt
  \/ IsrWake \/ ReadCtrl \/ MaskInterrupt \/ ClearInterrupt \/ Fetch
  \/ ReceiveReply \/ ReceivePayload
  \/ DoneEnable \/ DoneRead \/ DoneWrite
  \/ AppCallback \/ FinishIsr \/ IsrSleep
  \/ SmallStart \/ SmallRead \/ SmallEnd
  \/ SendStart \/ SendPoll \/ SendCommit \/ SendSleep

Application == CallSend \/ AppRead \/ CloseSocket \/ OpenSocket

Next == Chip \/ Handler \/ Driver \/ Application

Spec == Init /\ [][Next]_vars

\* The main loop calls m2m_wifi_handle_events for ever, an enabled interrupt is
\* taken, the chip's firmware looks at RX done, and the application reads what
\* its sockets hold.  It need not send, close or connect.
FairSpec ==
  /\ Spec
  /\ WF_vars(Driver)
  /\ WF_vars(Handler)
  /\ WF_vars(Release)
  /\ WF_vars(AppRead)
-----------------------------------------------------------------------------
(* Properties.                                                               *)

FlagsOK ==
  /\ waiting \in BOOLEAN /\ awake \in BOOLEAN
  /\ isf \in BOOLEAN /\ irqEnabled \in BOOLEAN /\ inIsr \in BOOLEAN
  /\ gu8HifSizeDone \in BOOLEAN
  /\ sockOpen \in BOOLEAN /\ full \in BOOLEAN /\ dropped \in BOOLEAN

BitsOK == rcvCtrl \in SUBSET Bits /\ reg \in SUBSET Bits

ValuesOK ==
  /\ posted \in Nat /\ kind \in AllKinds
  /\ gu8Interrupt \in 0..255 /\ gu8ChipSleep \in 0..255
  /\ gu8ChipMode \in {"noPs", "deep"}
  /\ hif_small_xfer \in 0..3 /\ left \in Nat
  /\ pc \in Points /\ cont \in {"idle", "appCb", "finish", "sleep"}
  /\ back \in {"idle", "finish", "smallEnd"}
  /\ tmp \in 0..255
  /\ handled \in Seq(Nat) /\ faults \in Nat /\ sends \in Nat

\* The type invariant; the counters that are bytes in the code stay bytes.
TypeOK == FlagsOK /\ BitsOK /\ ValuesOK

\* Every packet whose interrupt bit is still set will be seen: its edge is in
\* the port's flag with the interrupt enabled, or counted in gu8Interrupt, or
\* the main loop is already on its way to clear the bit.
Pending ==
  \/ isf /\ irqEnabled /\ ~inIsr
  \/ gu8Interrupt > 0 /\ pc # "store"
  \/ pc \in {"store", "wake", "ctrl", "mask", "clear"}

NoInterruptLost == "new" \in rcvCtrl => Pending

\* gu8Interrupt-- is a load and a store; the comment in hif_handle_isr says where
\* it must stand because of the race with the handler's increment.  As long as no
\* bus transfer failed the two cannot meet.  After a failed hif_chip_sleep, which
\* makes hif_handle_isr handle a packet on the count of the one before, they can:
\* the increment that is lost is then one too many, and NoInterruptLost holds.
DecrementNotRaced == pc = "store" /\ faults = 0 => gu8Interrupt = tmp

\* The points at which the host reads the chip's packet buffer.
ReadPoints == {"fetch", "reply", "payload", "smallRead"}

\* The host never reads a packet it has given back to the chip.
ReadsOwnPacket == pc \in ReadPoints => waiting /\ "done" \notin rcvCtrl

\* The points of a bus transfer that needs the chip's clocks.
BusPoints ==
  {"ctrl", "clear", "doneRead", "doneWrite", "sendPoll", "sendCommit"} \cup ReadPoints

\* No transfer is made to a chip that was allowed to sleep.
AwakeOnAccess == gu8ChipMode = "deep" /\ pc \in BusPoints => awake

\* Only an error path keeps the chip awake for good: without one the main loop
\* leaves hif with the count at 0, or 1 for a paused transfer.
WakeBalanced ==
  pc = "idle" /\ faults = 0 /\ ~dropped =>
    gu8ChipSleep = IF hif_small_xfer # 0 THEN 1 ELSE 0

\* Packets are taken once, in order, and the chip's buffer is not reused before.
Mail == INSTANCE Mailbox WITH
          slot <- IF waiting THEN posted ELSE 0,
          taken <- handled

TakenOnceInOrder == Mail!Spec

\* A posted packet is released in the end, unless an attempt failed after the
\* interrupt bit was cleared or the socket was closed under a paused transfer.
ReleasedUnlessDropped ==
  waiting ~> (~waiting \/ dropped \/ (hif_small_xfer # 0 /\ ~sockOpen))

\* What the comment in hif_handle_isr promises: try until the packet is got.
AlwaysReleased == waiting ~> ~waiting
=============================================================================
