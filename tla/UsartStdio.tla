----------------------------- MODULE UsartStdio -----------------------------
(***************************************************************************)
(* The CMSIS USART driver of a UART, its PDMA channels, and the standard    *)
(* input and output that use it: the thread is inside stdout_putchar or    *)
(* stdin_getchar, or in neither; UART_Event_Callback starts the next       *)
(* reception from the interrupt handler.                                   *)
(*                                                                         *)
(* Each direction works with interrupts or, when PowerControl was given a  *)
(* channel, with the PDMA.  The two interrupts have the same priority and  *)
(* do not preempt each other; the line and the PDMA engine go on meanwhile. *)
(* A character is its number in its stream.                                *)
(***************************************************************************)
EXTENDS Naturals, Sequences

CONSTANTS
    OutSize,    \* size of the output buffer
    InSize,     \* size of the input buffer
    Depth,      \* depth of the receive and of the transmit FIFO
    Puts,       \* bound: how many characters are put
    Feeds,      \* bound: how many characters come in
    Liberties   \* what the line may do: "burst", "late" and "lag", see below

ASSUME ConstAssumption ==
    /\ OutSize \in Nat \ {0} /\ InSize \in Nat \ {0} /\ Depth \in Nat \ {0}
    /\ Puts \in Nat /\ Feeds \in Nat
    /\ Liberties \subseteq {"burst", "late", "lag"}

VARIABLES
    tmode, rmode,   \* "irq" or "pdma" (pdma_tx_chan_id and pdma_rx_chan_id)
    inten,          \* the bits set in INTEN
    txfifo, rxfifo,
    isr,            \* "idle", or "drain": in UART_WAIT_TX_EMPTY
    \* sending: UART_StdOutBuf, tx_trans, the channel
    obuf, oidx, tnum, tcnt,
    tleft, ttd,     \* what the descriptor still has to move; its done flag
    \* receiving: UART_StdInBuf, rx_trans (of InSize bytes), the channel
    ibuf, icnt, rcnt,
    rleft, rtd,
    \* the thread: where it is, its copy of INTEN, the count it read
    tpc, reg, seen,
    \* the two streams, see Console
    put, wire, fed, got,
    taken           \* the line has taken a liberty

mode     == <<tmode, rmode>>
sending  == <<obuf, oidx, tnum, tcnt, tleft, ttd>>
received == <<ibuf, icnt, rcnt, rleft, rtd>>
thread   == <<tpc, reg, seen>>
streams  == <<put, wire, fed, got, taken>>
vars     == <<mode, inten, txfifo, rxfifo, isr, sending, received, thread, streams>>

TxBit == IF tmode = "pdma" THEN "TXPDMA" ELSE "THRE"
RxBit == IF rmode = "pdma" THEN "RXPDMA" ELSE "RDA"

---------------------------------------------------------------------------
(* The line and the PDMA engine. *)

LineOut ==
    /\ txfifo # <<>>
    /\ wire' = Append(wire, Head(txfifo))
    /\ txfifo' = Tail(txfifo)
    /\ UNCHANGED <<mode, inten, rxfifo, isr, sending, received, thread, put, fed, got, taken>>

\* How much of the current reception is still to come out of the FIFO.
Remaining == IF rmode = "pdma" THEN rleft ELSE InSize - rcnt

\* The thread has read how much was received and not yet used it.
Counting == tpc \in {"getstore", "getcnt"}

\* The liberties of the line and the engine:
\*   "burst": a character comes after the end of a reception before the next has
\*            begun, or finds the FIFO full and is lost;
\*   "late":  a reception ends while the thread is counting;
\*   "lag":   the line gets further ahead of the reader than the buffer is long.
Bursts == Len(rxfifo) >= Remaining \/ Len(rxfifo) >= Depth
Late(more) == more = Remaining /\ Counting
Lags   == fed - Len(got) >= InSize

LineIn ==
    /\ fed < Feeds
    /\ Bursts => "burst" \in Liberties
    /\ Late(Len(rxfifo) + 1) => "late" \in Liberties
    /\ Lags => "lag" \in Liberties
    /\ taken' = (taken \/ Bursts \/ Late(Len(rxfifo) + 1) \/ Lags)
    /\ fed' = fed + 1
    /\ rxfifo' = IF Len(rxfifo) < Depth THEN Append(rxfifo, fed + 1) ELSE rxfifo
    /\ UNCHANGED <<mode, inten, txfifo, isr, sending, received, thread, put, wire, got>>

DmaOut ==
    /\ "TXPDMA" \in inten /\ tleft > 0 /\ Len(txfifo) < Depth
    /\ txfifo' = Append(txfifo, obuf[tnum - tleft + 1])
    /\ tleft' = tleft - 1
    /\ ttd' = (ttd \/ tleft = 1)
    /\ UNCHANGED <<mode, inten, rxfifo, isr, obuf, oidx, tnum, tcnt, received, thread, streams>>

DmaIn ==
    /\ "RXPDMA" \in inten /\ rleft > 0 /\ rxfifo # <<>>
    /\ Late(1) => "late" \in Liberties
    /\ taken' = (taken \/ Late(1))
    /\ ibuf' = [ibuf EXCEPT ![InSize - rleft] = Head(rxfifo)]
    /\ rxfifo' = Tail(rxfifo)
    /\ rleft' = rleft - 1
    /\ rtd' = (rtd \/ rleft = 1)
    /\ UNCHANGED <<mode, inten, txfifo, isr, sending, icnt, rcnt, thread, put, wire, fed, got>>

---------------------------------------------------------------------------
(* The interrupt handlers. *)

RxReady  == "RDA" \in inten /\ rxfifo # <<>>
TxReady  == "THRE" \in inten /\ txfifo = <<>>
Pending  == RxReady \/ TxReady \/ ttd \/ rtd

\* What arrived is stored up to the end of the reception; then the callback
\* counts it and calls Receive, which begins at the start of the buffer and
\* resets the FIFO.
RxStored == IF Len(rxfifo) < InSize - rcnt THEN Len(rxfifo) ELSE InSize - rcnt
ReadFifo ==
    /\ ibuf' = [i \in 0..InSize - 1 |-> IF i >= rcnt /\ i < rcnt + RxStored
                                        THEN rxfifo[i - rcnt + 1] ELSE ibuf[i]]
    /\ IF rcnt + RxStored = InSize THEN rcnt' = 0 /\ icnt' = icnt + InSize
                                   ELSE rcnt' = rcnt + RxStored /\ UNCHANGED icnt
    /\ rxfifo' = <<>>

\* One byte per interrupt.  After the last one the handler waits for the FIFO to
\* become empty.
MutLastByte == tcnt + 1 > tnum             \* an interrupt later
LastByte    == tcnt + 1 >= tnum
WriteFifo ==
    /\ txfifo' = IF tcnt < tnum THEN <<obuf[tcnt + 1]>> ELSE <<>>
    /\ tcnt'   = IF tcnt < tnum THEN tcnt + 1 ELSE tcnt
    /\ inten'  = IF LastByte THEN inten \ {"THRE"} ELSE inten
    /\ isr'    = IF LastByte THEN "drain" ELSE "idle"

UARTn_IRQHandler ==
    /\ isr = "idle" /\ (RxReady \/ TxReady)
    /\ IF RxReady THEN ReadFifo ELSE UNCHANGED <<ibuf, rcnt, icnt, rxfifo>>
    /\ IF TxReady THEN WriteFifo ELSE UNCHANGED <<txfifo, tcnt, inten, isr>>
    /\ UNCHANGED <<mode, obuf, oidx, tnum, tleft, ttd, rleft, rtd, thread, streams>>

\* PDMA_TX_CB_Handler
PdmaTxDone ==
    /\ isr = "idle" /\ ttd
    /\ ttd' = FALSE
    /\ inten' = inten \ {"TXPDMA"}
    /\ tcnt' = tnum
    /\ isr' = "drain"
    /\ UNCHANGED <<mode, txfifo, rxfifo, obuf, oidx, tnum, tleft, received, thread, streams>>

\* PDMA_RX_CB_Handler, with the Receive its callback calls.
MutRestarted(bits) == (bits \cup {"RXPDMA"}) \ {"RXPDMA"}    \* the other order
Restarted(bits)    == (bits \ {"RXPDMA"}) \cup {"RXPDMA"}
PdmaRxDone ==
    /\ isr = "idle" /\ rtd
    /\ rtd' = FALSE
    /\ inten' = Restarted(inten)
    /\ icnt' = icnt + InSize
    /\ rcnt' = 0 /\ rleft' = InSize
    /\ rxfifo' = <<>>
    /\ UNCHANGED <<mode, txfifo, isr, sending, ibuf, thread, streams>>

\* UART_WAIT_TX_EMPTY is over; the event it then signals is ignored.
Drained ==
    /\ isr = "drain" /\ txfifo = <<>>
    /\ isr' = "idle"
    /\ UNCHANGED <<mode, inten, txfifo, rxfifo, sending, received, thread, streams>>

---------------------------------------------------------------------------
(* The thread.  It runs when no interrupt is pending or served. *)

Turn(place) == tpc = place /\ isr = "idle" /\ ~Pending
Goto(place) == tpc' = place

\* stdout_putchar stores the character; a full buffer or a newline sends it.
Putchar ==
    /\ Turn("idle") /\ put < Puts
    /\ put' = put + 1
    /\ obuf' = [obuf EXCEPT ![oidx + 1] = put + 1]
    /\ oidx' = oidx + 1
    /\ \E newline \in BOOLEAN : Goto(IF oidx + 1 = OutSize \/ newline THEN "send" ELSE "idle")
    /\ UNCHANGED <<mode, inten, txfifo, rxfifo, isr, tnum, tcnt, tleft, ttd, received,
                   reg, seen, wire, fed, got, taken>>

Busy == tnum # tcnt

\* USARTn_Send up to the enabling of the interrupt; when the driver is busy
\* putchar notes an error and waits all the same.
Send ==
    /\ Turn("send")
    /\ IF Busy THEN Goto("status") /\ UNCHANGED <<tnum, tcnt, tleft>>
       ELSE /\ tnum' = oidx
            /\ tcnt' = 0
            /\ tleft' = IF tmode = "pdma" THEN oidx ELSE tleft
            /\ Goto("read")
    /\ UNCHANGED <<mode, inten, txfifo, rxfifo, isr, obuf, oidx, ttd, received, reg, seen, streams>>

\* UART_EnableInt reads INTEN and writes it back with the bits added.
ReadInten ==
    /\ Turn("read")
    /\ reg' = inten
    /\ Goto("write")
    /\ UNCHANGED <<mode, inten, txfifo, rxfifo, isr, sending, received, seen, streams>>

\* The two versions of stdout_putchar wait by GetStatus or, after a single
\* character, by GetTxCount.
MutEnabled == reg                          \* the bit is not set
Enabled    == reg \cup {TxBit}
WriteInten ==
    /\ Turn("write")
    /\ inten' = Enabled
    /\ \/ Goto("status")
       \/ tnum = 1 /\ Goto("count")
    /\ UNCHANGED <<mode, txfifo, rxfifo, isr, sending, received, reg, seen, streams>>

MutEmptied == oidx                         \* the index is not reset
Emptied    == 0
WaitStatus ==
    /\ Turn("status") /\ ~Busy
    /\ Goto("idle")
    /\ oidx' = Emptied
    /\ UNCHANGED <<mode, inten, txfifo, rxfifo, isr, obuf, tnum, tcnt, tleft, ttd, received,
                   reg, seen, streams>>

\* USARTn_GetTxCount reads the descriptor's count and stores it in tx_trans.
TxCount ==
    /\ Turn("count")
    /\ seen' = IF tmode = "pdma" THEN tnum - tleft ELSE tcnt
    /\ Goto("countstore")
    /\ UNCHANGED <<mode, inten, txfifo, rxfifo, isr, sending, received, reg, streams>>

WaitCount ==
    /\ Turn("countstore")
    /\ tcnt' = IF tmode = "pdma" THEN seen ELSE tcnt
    /\ IF seen = 1 THEN Goto("idle") /\ oidx' = Emptied ELSE Goto("count") /\ UNCHANGED oidx
    /\ UNCHANGED <<mode, inten, txfifo, rxfifo, isr, obuf, tnum, tleft, ttd, received,
                   reg, seen, streams>>

\* stdin_getchar: USARTn_GetRxCount, which also stores what it read, ...
Getchar ==
    /\ Turn("idle") /\ Len(got) < Feeds
    /\ Goto("getnum")
    /\ UNCHANGED <<mode, inten, txfifo, rxfifo, isr, sending, received, reg, seen, streams>>

RxCount ==
    /\ Turn("getnum")
    /\ seen' = IF rmode = "pdma" THEN InSize - rleft ELSE rcnt
    /\ Goto("getstore")
    /\ UNCHANGED <<mode, inten, txfifo, rxfifo, isr, sending, received, reg, streams>>

RxStore ==
    /\ Turn("getstore")
    /\ rcnt' = IF rmode = "pdma" THEN seen ELSE rcnt
    /\ Goto("getcnt")
    /\ UNCHANGED <<mode, inten, txfifo, rxfifo, isr, sending, ibuf, icnt, rleft, rtd, reg,
                   seen, streams>>

\* ... then the number of earlier characters, and the next character if there is
\* one.  UART_StdInBuf.idx is the number of characters returned.
MutAvailable == Len(got) <= icnt + seen    \* one too many
Available    == Len(got) < icnt + seen
TakeChar ==
    /\ Turn("getcnt")
    /\ IF Available THEN got' = Append(got, ibuf[Len(got) % InSize]) /\ Goto("idle")
                    ELSE Goto("getnum") /\ UNCHANGED got
    /\ UNCHANGED <<mode, inten, txfifo, rxfifo, isr, sending, received, reg, seen,
                   put, wire, fed, taken>>

---------------------------------------------------------------------------
\* After stdio_cmsis_uart_init: the port is configured and the first reception
\* begun.  Whether a direction has a PDMA channel depends on the configuration
\* and on whether the channel was free.
Init ==
    /\ tmode \in {"irq", "pdma"} /\ rmode \in {"irq", "pdma"}
    /\ inten = {RxBit}
    /\ txfifo = <<>> /\ rxfifo = <<>> /\ isr = "idle"
    /\ obuf = [i \in 1..OutSize |-> 0] /\ oidx = 0 /\ tnum = 0 /\ tcnt = 0
    /\ tleft = 0 /\ ttd = FALSE
    /\ ibuf = [i \in 0..InSize - 1 |-> 0] /\ icnt = 0 /\ rcnt = 0
    /\ rleft = (IF rmode = "pdma" THEN InSize ELSE 0) /\ rtd = FALSE
    /\ tpc = "idle" /\ reg = {} /\ seen = 0
    /\ put = 0 /\ wire = <<>> /\ fed = 0 /\ got = <<>> /\ taken = FALSE

Dma    == DmaOut \/ DmaIn
Isr    == UARTn_IRQHandler \/ PdmaTxDone \/ PdmaRxDone \/ Drained
Output == Putchar \/ Send \/ ReadInten \/ WriteInten \/ WaitStatus \/ TxCount \/ WaitCount
Input  == Getchar \/ RxCount \/ RxStore \/ TakeChar
Thread == Output \/ Input

Next == LineOut \/ LineIn \/ Dma \/ Isr \/ Thread

Spec == Init /\ [][Next]_vars

\* The CPU, the line and the PDMA engine go on.
FairSpec == /\ Spec
            /\ WF_vars(Thread) /\ WF_vars(Isr) /\ WF_vars(LineOut)
            /\ WF_vars(DmaOut) /\ WF_vars(DmaIn)

---------------------------------------------------------------------------
(* Properties *)

Places == {"idle", "send", "read", "write", "status", "count", "countstore",
           "getnum", "getstore", "getcnt"}
Bits == {"THRE", "RDA", "TXPDMA", "RXPDMA"}

\* Every variable has its type.
TypeOK ==
    /\ tmode \in {"irq", "pdma"} /\ rmode \in {"irq", "pdma"}
    /\ inten \subseteq Bits /\ reg \subseteq Bits
    /\ txfifo \in Seq(Nat) /\ rxfifo \in Seq(Nat) /\ isr \in {"idle", "drain"}
    /\ obuf \in [1..OutSize -> Nat] /\ oidx \in 0..OutSize
    /\ tnum \in 0..OutSize /\ tcnt \in 0..OutSize
    /\ tleft \in 0..OutSize /\ ttd \in BOOLEAN
    /\ ibuf \in [0..InSize - 1 -> Nat] /\ icnt \in Nat /\ rcnt \in 0..InSize
    /\ rleft \in 0..InSize /\ rtd \in BOOLEAN
    /\ tpc \in Places /\ seen \in Nat
    /\ put \in Nat /\ wire \in Seq(Nat) /\ fed \in Nat /\ got \in Seq(Nat)
    /\ taken \in BOOLEAN

\* Reception never stops: whatever the thread does to INTEN meanwhile, the
\* receive interrupt stays enabled, or the channel has room left or its interrupt
\* pending.
ReceptionArmed ==
    /\ RxBit \in inten
    /\ rmode = "pdma" => rleft > 0 \/ rtd

\* When putchar may write the buffer again the driver has no more use for it: it
\* has read and counted everything, and no interrupt will read it again.
QuietBetweenSends ==
    tpc = "idle" => ~Busy /\ TxBit \notin inten /\ tleft = 0 /\ ~ttd

\* stdio over the driver keeps the promise of Console.
Stream == INSTANCE Console
ImplementsConsole == Stream!Spec

\* stdin_getchar: "The next character from the input".
NextFromInput == \A i \in DOMAIN got : got[i] = i

\* stdout_putchar returns.
PutReturns == (tpc = "send") ~> (tpc = "idle")

\* stdin_getchar returns when there is a character it has not returned, unless
\* the line has taken a liberty.
GetReturns == (tpc = "getnum" /\ Len(got) < fed) ~> (tpc = "idle" \/ taken)
=============================================================================
