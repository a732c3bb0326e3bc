--------------------------- MODULE XmodemTransfer ---------------------------
(* What an XMODEM transfer promises: packets reach the flash in order, once *)
(* each, and the sender reports success only when the flash holds all there *)
(* was room for and the receiver has stopped writing to it.  The receiver   *)
(* may still report a failure then: a loose byte of a damaged packet can    *)
(* look like the end, or like CAN, to it.                                   *)
EXTENDS Naturals, Sequences

CONSTANTS
    N,          \* packets the sender has
    Cap         \* packets the receiver has room for (XMD_MAX_TRANS_SIZE)

VARIABLES flash, sres, rres

Room == IF N < Cap THEN N ELSE Cap
Ends == {"ok", "failed"}

Init == flash = <<>> /\ sres = "run" /\ rres = "run"

Store ==
    /\ rres = "run" /\ Len(flash) < Room
    /\ flash' = Append(flash, Len(flash) + 1)
    /\ UNCHANGED <<sres, rres>>

ReceiverEnds ==
    /\ rres = "run" /\ rres' \in Ends
    /\ UNCHANGED <<flash, sres>>

SenderEnds ==
    /\ sres = "run" /\ sres' \in Ends
    /\ sres' = "ok" => rres # "run" /\ Len(flash) = Room
    /\ UNCHANGED <<flash, rres>>

Next == Store \/ ReceiverEnds \/ SenderEnds

Spec == Init /\ [][Next]_<<flash, sres, rres>>
=============================================================================
