------------------------------ MODULE Mailbox ------------------------------
(***************************************************************************)
(* What the host interface promises to the layers above it, and nothing    *)
(* about how: a mailbox of one slot between the radio chip and the host.   *)
(* The chip posts packets one at a time.  The host takes each posted       *)
(* packet exactly once, in the order of posting, and the chip reuses the   *)
(* slot only after the host has taken its packet.                          *)
(***************************************************************************)
EXTENDS Naturals, Sequences

VARIABLES
  slot,    \* 0, or the number of the packet the chip holds for the host
  posted,  \* how many packets were posted
  taken    \* the numbers of the packets handed to the host, oldest first

mailVars == <<slot, posted, taken>>

Init ==
  /\ slot = 0
  /\ posted = 0
  /\ taken = <<>>

Post ==
  /\ slot = 0
  /\ posted' = posted + 1
  /\ slot' = posted + 1
  /\ UNCHANGED taken

Take ==
  /\ slot # 0
  /\ Len(taken) + 1 = slot
  /\ taken' = Append(taken, slot)
  /\ UNCHANGED <<slot, posted>>

Release ==
  /\ slot # 0
  /\ Len(taken) = slot
  /\ slot' = 0
  /\ UNCHANGED <<posted, taken>>

Next == Post \/ Take \/ Release

Spec == Init /\ [][Next]_mailVars
=============================================================================
