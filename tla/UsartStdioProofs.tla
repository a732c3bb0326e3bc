--------------------------- MODULE UsartStdioProofs ---------------------------
(***************************************************************************)
(* Proofs about UsartStdio: its types, that reception stays armed, that     *)
(* the driver leaves the output buffer alone between two sends, and the     *)
(* order of the output, for buffers and FIFOs of any size and any line.     *)
(***************************************************************************)
EXTENDS UsartStdio, TLAPS

-----------------------------------------------------------------------------
(* Where each place of the thread finds the driver.                         *)

\* Nothing is being sent, and all was; a send is prepared; it is going on; its
\* interrupts are over, only the count of a channel may have been set back.
Quiet == tcnt = tnum /\ TxBit \notin inten /\ tleft = 0 /\ ~ttd
Ready == /\ tcnt = 0 /\ tnum > 0 /\ TxBit \notin inten /\ ~ttd
         /\ tleft = IF tmode = "pdma" THEN tnum ELSE 0
Running == /\ TxBit \in inten /\ tcnt < tnum
           /\ tmode = "pdma" => (ttd <=> tleft = 0)
           /\ tmode = "irq" => ~ttd /\ tleft = 0
Over == /\ TxBit \notin inten /\ tleft = 0 /\ ~ttd
        /\ tmode = "irq" \/ tpc = "status" => tcnt = tnum

SendInv ==
    /\ inten \subseteq {TxBit, RxBit} /\ tleft <= tnum
    /\ tpc \in {"idle", "send", "getnum", "getstore", "getcnt"} => Quiet
    /\ tpc \in {"idle", "getnum", "getstore", "getcnt"} => oidx < OutSize
    /\ tpc = "send" => oidx > 0
    /\ tpc \in {"read", "write"} => Ready
    /\ tpc = "write" => reg = inten
    /\ tpc \in {"status", "count", "countstore"} => Running \/ Over
    /\ tpc \in {"count", "countstore"} => tnum = 1
    /\ tpc = "countstore" => /\ seen <= tnum
                             /\ tmode = "irq" => seen <= tcnt
                             /\ tmode = "pdma" /\ seen = tnum => Over

ReceiveInv ==
    /\ RxBit \in inten
    /\ rmode = "pdma" => rleft > 0 \/ rtd
    /\ rmode = "irq" => rleft = 0 /\ ~rtd
    /\ tpc = "getstore" => seen <= InSize

IInv == TypeOK /\ SendInv /\ ReceiveInv

-----------------------------------------------------------------------------
\* Every step keeps the types.
LEMMA TypeStep ==
    ASSUME IInv, Next
    PROVE  TypeOK'
<1> USE ConstAssumption
    DEF IInv, mode, sending, received, thread, streams, TypeOK, Places, Bits,
        SendInv, ReceiveInv, Quiet, Ready, Running, Over, TxBit, RxBit
<1>1. CASE LineOut
  BY <1>1 DEF LineOut
<1>2. CASE LineIn
  BY <1>2 DEF LineIn
<1>3. CASE DmaOut
  <2>1. ttd' \in BOOLEAN
    BY <1>3, Zenon DEF DmaOut
  <2>2. tnum - tleft + 1 \in 1..OutSize /\ tleft' \in 0..OutSize
    BY <1>3 DEF DmaOut
  <2>3. obuf[tnum - tleft + 1] \in Nat
    BY <2>2
  <2>4. txfifo' \in Seq(Nat)
    BY <1>3, <2>3 DEF DmaOut
  <2> QED BY <1>3, <2>1, <2>2, <2>4 DEF DmaOut
<1>4. CASE DmaIn
  <2>1. rtd' \in BOOLEAN /\ taken' \in BOOLEAN
    BY <1>4, Zenon DEF DmaIn
  <2>2. rleft' \in 0..InSize
    BY <1>4 DEF DmaIn
  <2>3. Head(rxfifo) \in Nat /\ rxfifo' \in Seq(Nat)
    BY <1>4 DEF DmaIn
  <2>4. ibuf' \in [0..InSize - 1 -> Nat]
    BY <1>4, <2>3 DEF DmaIn
  <2> QED BY <1>4, <2>1, <2>2, <2>3, <2>4 DEF DmaIn
<1>5. CASE UARTn_IRQHandler
  <2>1. RxStored \in Nat /\ RxStored <= Len(rxfifo) /\ rcnt + RxStored <= InSize
    BY DEF RxStored
  <2>2. ASSUME ReadFifo
        PROVE  /\ ibuf' \in [0..InSize - 1 -> Nat] /\ rxfifo' \in Seq(Nat)
               /\ icnt' \in Nat /\ rcnt' \in 0..InSize
    <3>1. ASSUME NEW i \in 0..InSize - 1, i >= rcnt, i < rcnt + RxStored
          PROVE  rxfifo[i - rcnt + 1] \in Nat
      <4>1. i - rcnt + 1 \in 1..Len(rxfifo)
        BY <2>1, <3>1
      <4> QED BY <4>1
    <3>2. ibuf' \in [0..InSize - 1 -> Nat]
      BY <2>2, <3>1 DEF ReadFifo
    <3>3. rxfifo' \in Seq(Nat)
      BY <2>2 DEF ReadFifo
    <3>4. icnt' \in Nat /\ rcnt' \in 0..InSize
      <4>1. /\ icnt' \in {icnt, icnt + InSize}
            /\ rcnt' \in {0, rcnt + RxStored}
        BY <2>2 DEF ReadFifo
      <4>2. /\ icnt \in Nat /\ InSize \in Nat
            /\ 0 \in 0..InSize /\ rcnt + RxStored \in 0..InSize
        BY <2>1
      <4> QED BY <4>1, <4>2
    <3> QED BY <3>2, <3>3, <3>4
  <2>3. TxReady => tcnt < tnum
    BY DEF TxReady
  <2>4. ASSUME tcnt < tnum, WriteFifo
        PROVE  /\ txfifo' \in Seq(Nat) /\ tcnt' \in 0..OutSize
               /\ inten' \subseteq Bits /\ isr' \in {"idle", "drain"}
    <3>1. obuf[tcnt + 1] \in Nat /\ tcnt + 1 \in 0..OutSize
      BY <2>4
    <3>2. txfifo' = <<obuf[tcnt + 1]>> /\ tcnt' = tcnt + 1
      BY <2>4 DEF WriteFifo
    <3>3. inten' \subseteq Bits /\ isr' \in {"idle", "drain"}
      BY <2>4 DEF WriteFifo
    <3> QED BY <3>1, <3>2, <3>3
  <2>5. /\ ibuf' \in [0..InSize - 1 -> Nat] /\ rxfifo' \in Seq(Nat)
        /\ icnt' \in Nat /\ rcnt' \in 0..InSize
    <3>1. CASE RxReady
      BY <1>5, <2>2, <3>1, Zenon DEF UARTn_IRQHandler
    <3>2. CASE ~RxReady
      BY <1>5, <3>2, Zenon DEF UARTn_IRQHandler
    <3> QED BY <3>1, <3>2
  <2>6. /\ txfifo' \in Seq(Nat) /\ tcnt' \in 0..OutSize
        /\ inten' \subseteq Bits /\ isr' \in {"idle", "drain"}
    <3>1. CASE TxReady
      BY <1>5, <2>3, <2>4, <3>1, Zenon DEF UARTn_IRQHandler
    <3>2. CASE ~TxReady
      BY <1>5, <3>2, Zenon DEF UARTn_IRQHandler
    <3> QED BY <3>1, <3>2
  <2>7. UNCHANGED <<mode, obuf, oidx, tnum, tleft, ttd, rleft, rtd, thread, streams>>
    BY <1>5 DEF UARTn_IRQHandler
  <2> QED BY <2>5, <2>6, <2>7 DEF mode, thread, streams
<1>6. CASE PdmaTxDone
  BY <1>6 DEF PdmaTxDone
<1>7. CASE PdmaRxDone
  <2>1. inten' \subseteq Bits
    BY <1>7 DEF PdmaRxDone, Restarted
  <2>2. rtd' \in BOOLEAN /\ ttd' \in BOOLEAN /\ taken' \in BOOLEAN
    BY <1>7 DEF PdmaRxDone
  <2>3. rleft' \in 0..InSize /\ rcnt' \in 0..InSize /\ icnt' \in Nat
    BY <1>7 DEF PdmaRxDone
  <2>4. rxfifo' \in Seq(Nat)
    BY <1>7 DEF PdmaRxDone
  <2> QED BY <1>7, <2>1, <2>2, <2>3, <2>4 DEF PdmaRxDone
<1>8. CASE Drained
  BY <1>8 DEF Drained
<1>9. CASE Putchar
  BY <1>9 DEF Putchar, Turn, Goto
<1>10. CASE Send
  BY <1>10 DEF Send, Turn, Goto, Busy
<1>11. CASE ReadInten
  BY <1>11 DEF ReadInten, Turn, Goto
<1>12. CASE WriteInten
  BY <1>12 DEF WriteInten, Turn, Goto, Enabled
<1>13. CASE WaitStatus
  BY <1>13 DEF WaitStatus, Turn, Goto, Busy, Emptied
<1>14. CASE TxCount
  BY <1>14 DEF TxCount, Turn, Goto
<1>15. CASE WaitCount
  BY <1>15 DEF WaitCount, Turn, Goto, Emptied
<1>16. CASE Getchar
  BY <1>16 DEF Getchar, Turn, Goto
<1>17. CASE RxCount
  BY <1>17 DEF RxCount, Turn, Goto
<1>18. CASE RxStore
  BY <1>18 DEF RxStore, Turn, Goto
<1>19. CASE TakeChar
  <2>1. Len(got) % InSize \in 0..InSize - 1
    OBVIOUS
  <2>2. ibuf[Len(got) % InSize] \in Nat
    BY <2>1
  <2>3. got' = Append(got, ibuf[Len(got) % InSize]) \/ got' = got
    BY <1>19, Zenon DEF TakeChar
  <2>4. Append(got, ibuf[Len(got) % InSize]) \in Seq(Nat)
    BY <2>2
  <2>5. got' \in Seq(Nat)
    BY <2>3, <2>4
  <2> QED BY <1>19, <2>5 DEF TakeChar, Turn, Goto
<1> QED BY <1>1, <1>2, <1>3, <1>4, <1>5, <1>6, <1>7, <1>8, <1>9, <1>10, <1>11, <1>12,
         <1>13, <1>14, <1>15, <1>16, <1>17, <1>18, <1>19
      DEF Next, Dma, Isr, Thread, Output, Input

\* Every step keeps what each place of the thread relies on.
LEMMA SendStep ==
    ASSUME IInv, Next
    PROVE  SendInv'
<1> USE ConstAssumption
    DEF IInv, mode, sending, received, thread, streams, TypeOK, Places, Bits,
        SendInv, ReceiveInv, Quiet, Ready, Running, Over, TxBit, RxBit
<1>1. CASE LineOut
  BY <1>1 DEF LineOut
<1>2. CASE LineIn
  BY <1>2 DEF LineIn
<1>3. CASE DmaOut
  <2>1. tmode = "pdma" /\ Running /\ ~ttd /\ tleft > 0
    BY <1>3 DEF DmaOut
  <2>2. /\ tleft' = tleft - 1 /\ (ttd' <=> tleft = 1)
        /\ UNCHANGED <<tmode, rmode, inten, tnum, tcnt, oidx, tpc, reg, seen>>
    BY <1>3, <2>1 DEF DmaOut
  <2>3. Running'
    BY <2>1, <2>2
  <2>4. tpc \in {"status", "count", "countstore"} /\ ~Over
    BY <2>1
  <2> QED BY <2>1, <2>2, <2>3, <2>4
<1>4. CASE DmaIn
  BY <1>4 DEF DmaIn
<1>5. CASE UARTn_IRQHandler
  <2>1. CASE TxReady
    <3>1. tmode = "irq" /\ Running
      BY <2>1 DEF TxReady
    <3>2. /\ tcnt' = tcnt + 1 /\ inten' = IF tcnt + 1 >= tnum THEN inten \ {"THRE"} ELSE inten
          /\ UNCHANGED <<tmode, rmode, tnum, oidx, tleft, ttd, tpc, reg, seen>>
      BY <1>5, <2>1, <3>1 DEF UARTn_IRQHandler, WriteFifo, LastByte
    <3>3. tpc \in {"status", "count", "countstore"}
      BY <3>1
    <3>4. CASE tcnt + 1 >= tnum
      <4>1. tcnt + 1 = tnum
        BY <3>1, <3>4
      <4>2. Over'
        BY <3>1, <3>2, <4>1
      <4> QED BY <3>1, <3>2, <3>3, <4>1, <4>2
    <3>5. CASE ~(tcnt + 1 >= tnum)
      <4>1. Running'
        BY <3>1, <3>2, <3>5
      <4> QED BY <3>1, <3>2, <3>3, <3>5, <4>1
    <3> QED BY <3>4, <3>5
  <2>2. CASE ~TxReady
    BY <1>5, <2>2 DEF UARTn_IRQHandler
  <2> QED BY <2>1, <2>2
<1>6. CASE PdmaTxDone
  BY <1>6 DEF PdmaTxDone
<1>7. CASE PdmaRxDone
  BY <1>7 DEF PdmaRxDone, Restarted
<1>8. CASE Drained
  BY <1>8 DEF Drained
<1>9. CASE Putchar
  BY <1>9 DEF Putchar, Turn, Goto, Pending, RxReady, TxReady
<1>10. CASE Send
  BY <1>10 DEF Send, Turn, Goto, Busy, Pending, RxReady, TxReady
<1>11. CASE ReadInten
  BY <1>11 DEF ReadInten, Turn, Goto, Pending, RxReady, TxReady
<1>12. CASE WriteInten
  <2>1. tnum > 0 /\ Ready /\ reg = inten
    BY <1>12 DEF WriteInten, Turn
  <2>2. Running'
    BY <1>12, <2>1 DEF WriteInten, Turn, Enabled
  <2>3. inten' \subseteq {TxBit, RxBit}'
    BY <1>12, <2>1 DEF WriteInten, Enabled
  <2> QED BY <1>12, <2>1, <2>2, <2>3 DEF WriteInten, Goto
<1>13. CASE WaitStatus
  BY <1>13 DEF WaitStatus, Turn, Goto, Busy, Emptied, Pending, RxReady, TxReady
<1>14. CASE TxCount
  BY <1>14 DEF TxCount, Turn, Goto, Pending, RxReady, TxReady
<1>15. CASE WaitCount
  <2>1. /\ tpc = "countstore" /\ ~ttd /\ tnum = 1
        /\ tcnt' = IF tmode = "pdma" THEN seen ELSE tcnt
        /\ UNCHANGED <<mode, inten, tnum, tleft, ttd, reg, seen>>
    BY <1>15 DEF WaitCount, Turn, Pending
  <2>2. CASE seen = 1
    <3>1. tpc' = "idle" /\ oidx' = 0
      BY <1>15, <2>2 DEF WaitCount, Goto, Emptied
    <3>2. Quiet'
      BY <2>1, <2>2
    <3> QED BY <2>1, <3>1, <3>2
  <2>3. CASE seen # 1
    <3>1. tpc' = "count" /\ oidx' = oidx
      BY <1>15, <2>3 DEF WaitCount, Goto
    <3>2. Running' \/ Over'
      BY <2>1, <2>3, <3>1
    <3> QED BY <2>1, <3>1, <3>2
  <2> QED BY <2>2, <2>3
<1>16. CASE Getchar
  BY <1>16 DEF Getchar, Turn, Goto, Pending, RxReady, TxReady
<1>17. CASE RxCount
  BY <1>17 DEF RxCount, Turn, Goto, Pending, RxReady, TxReady
<1>18. CASE RxStore
  BY <1>18 DEF RxStore, Turn, Goto, Pending, RxReady, TxReady
<1>19. CASE TakeChar
  BY <1>19 DEF TakeChar, Turn, Goto, Pending, RxReady, TxReady
<1> QED BY <1>1, <1>2, <1>3, <1>4, <1>5, <1>6, <1>7, <1>8, <1>9, <1>10, <1>11, <1>12,
         <1>13, <1>14, <1>15, <1>16, <1>17, <1>18, <1>19
      DEF Next, Dma, Isr, Thread, Output, Input

\* Every step keeps the reception armed.
LEMMA ReceiveStep ==
    ASSUME IInv, Next
    PROVE  ReceiveInv'
<1> USE ConstAssumption
    DEF IInv, mode, sending, received, thread, streams, TypeOK, Places, Bits,
        SendInv, ReceiveInv, TxBit, RxBit
<1>1. CASE LineOut
  BY <1>1 DEF LineOut
<1>2. CASE LineIn
  BY <1>2 DEF LineIn
<1>3. CASE DmaOut
  BY <1>3 DEF DmaOut
<1>4. CASE DmaIn
  <2>1. rmode = "pdma" /\ rmode' = "pdma"
    BY <1>4 DEF DmaIn
  <2>2. CASE rleft = 1
    BY <1>4, <2>2 DEF DmaIn
  <2>3. CASE rleft # 1
    <3>1. rleft' > 0
      BY <1>4, <2>3 DEF DmaIn
    <3> QED BY <1>4, <2>1, <3>1 DEF DmaIn
  <2> QED BY <2>2, <2>3
<1>5. CASE UARTn_IRQHandler
  BY <1>5 DEF UARTn_IRQHandler, RxReady, TxReady, ReadFifo, WriteFifo, RxStored, LastByte
<1>6. CASE PdmaTxDone
  BY <1>6 DEF PdmaTxDone
<1>7. CASE PdmaRxDone
  BY <1>7 DEF PdmaRxDone, Restarted
<1>8. CASE Drained
  BY <1>8 DEF Drained
<1>9. CASE Putchar
  BY <1>9 DEF Putchar, Turn, Goto
<1>10. CASE Send
  BY <1>10 DEF Send, Turn, Goto, Busy
<1>11. CASE ReadInten
  BY <1>11 DEF ReadInten, Turn, Goto
<1>12. CASE WriteInten
  BY <1>12 DEF WriteInten, Turn, Goto, Enabled
<1>13. CASE WaitStatus
  BY <1>13 DEF WaitStatus, Turn, Goto, Busy, Emptied
<1>14. CASE TxCount
  BY <1>14 DEF TxCount, Turn, Goto
<1>15. CASE WaitCount
  BY <1>15 DEF WaitCount, Turn, Goto, Emptied
<1>16. CASE Getchar
  BY <1>16 DEF Getchar, Turn, Goto
<1>17. CASE RxCount
  BY <1>17 DEF RxCount, Turn, Goto
<1>18. CASE RxStore
  BY <1>18 DEF RxStore, Turn, Goto
<1>19. CASE TakeChar
  BY <1>19 DEF TakeChar, Turn, Goto
<1> QED BY <1>1, <1>2, <1>3, <1>4, <1>5, <1>6, <1>7, <1>8, <1>9, <1>10, <1>11, <1>12,
         <1>13, <1>14, <1>15, <1>16, <1>17, <1>18, <1>19
      DEF Next, Dma, Isr, Thread, Output, Input

\* It all holds after stdio_cmsis_uart_init, and while nothing happens.
LEMMA IInvInit == Init => IInv
<1> SUFFICES ASSUME Init PROVE IInv
  OBVIOUS
<1> USE ConstAssumption DEF Init
<1>1. rmode = "pdma" \/ rmode = "irq"
  OBVIOUS
<1>2. inten \subseteq Bits /\ RxBit \in inten /\ TxBit \notin inten
  BY DEF TxBit, RxBit, Bits
<1>3. rleft \in 0..InSize /\ (rmode = "pdma" => rleft > 0) /\ (rmode = "irq" => rleft = 0)
  BY <1>1
<1>4. obuf \in [1..OutSize -> Nat] /\ ibuf \in [0..InSize - 1 -> Nat]
  OBVIOUS
<1>5. TypeOK
  <2>1. <<>> \in Seq(Nat)
    OBVIOUS
  <2>2. ttd \in BOOLEAN /\ rtd \in BOOLEAN /\ taken \in BOOLEAN
    OBVIOUS
  <2>3. reg \subseteq Bits /\ tpc \in Places
    BY DEF Places
  <2>4. icnt \in Nat /\ put \in Nat /\ fed \in Nat /\ seen \in Nat
    OBVIOUS
  <2>5. oidx \in 0..OutSize /\ tnum \in 0..OutSize /\ tcnt \in 0..OutSize /\ tleft \in 0..OutSize
        /\ rcnt \in 0..InSize
    OBVIOUS
  <2> QED BY <1>2, <1>3, <1>4, <2>1, <2>2, <2>3, <2>4, <2>5 DEF TypeOK
<1>6. SendInv
  BY <1>2 DEF SendInv, Quiet
<1>7. ReceiveInv
  BY <1>2, <1>3 DEF ReceiveInv
<1> QED BY <1>5, <1>6, <1>7 DEF IInv

LEMMA IInvStutter == IInv /\ UNCHANGED vars => IInv'
BY DEF vars, mode, sending, received, thread, streams, IInv, TypeOK, SendInv, ReceiveInv,
       Quiet, Ready, Running, Over, TxBit, RxBit

LEMMA IInvHolds == Spec => []IInv
<1>1. IInv /\ [Next]_vars => IInv'
  BY TypeStep, SendStep, ReceiveStep, IInvStutter DEF IInv
<1> QED BY <1>1, IInvInit, PTL DEF Spec

\* Every variable of the driver, the buffers and the line keeps its type.
THEOREM TypeCorrect == Spec => []TypeOK
<1>1. IInv => TypeOK
  BY DEF IInv
<1> QED BY <1>1, IInvHolds, PTL

\* The reception that UART_Event_Callback starts is never lost, for buffers and
\* FIFOs of any size, with interrupts or with a PDMA channel.
THEOREM ReceptionArmedHolds == Spec => []ReceptionArmed
<1>1. IInv => ReceptionArmed
  BY DEF IInv, ReceiveInv, ReceptionArmed
<1> QED BY <1>1, IInvHolds, PTL

\* When stdout_putchar writes the output buffer the driver reads it no more.
THEOREM QuietHolds == Spec => []QuietBetweenSends
<1>1. IInv => QuietBetweenSends
  BY DEF IInv, SendInv, Quiet, QuietBetweenSends, Busy
<1> QED BY <1>1, IInvHolds, PTL

-----------------------------------------------------------------------------
(* The order of the output.                                                 *)

Outside == {"idle", "send", "getnum", "getstore", "getcnt"}

\* How many characters of the buffer are out of it while it is being sent.
Moved == IF tpc \in Outside THEN 0 ELSE IF tmode = "pdma" THEN tnum - tleft ELSE tcnt

\* The buffer holds the last characters put, and all of them are sent.
BufferInv ==
    /\ oidx <= put
    /\ \A i \in 1..oidx : obuf[i] = put - oidx + i
    /\ tpc \notin Outside => tnum = oidx

\* The line and the FIFO hold 1, 2, 3, ... up to the last one moved.
FifoInv ==
    /\ \A i \in 1..Len(wire) : wire[i] = i
    /\ \A i \in 1..Len(txfifo) : txfifo[i] = Len(wire) + i
OutInv == BufferInv /\ FifoInv /\ Len(wire) + Len(txfifo) = put - oidx + Moved

OutputInOrder == Len(wire) <= put /\ \A i \in DOMAIN wire : wire[i] = i

\* Nothing happens to the output.
OutUnchanged == UNCHANGED <<tmode, obuf, oidx, tnum, tleft, put, wire, txfifo>>

\* Nothing that leaves the output alone changes the order.
LEMMA OutSame ==
    ASSUME IInv, OutInv, OutUnchanged, tpc' \in Outside <=> tpc \in Outside,
           tmode = "irq" /\ tpc \notin Outside => tcnt' = tcnt
    PROVE  OutInv'
BY DEF IInv, TypeOK, OutInv, BufferInv, FifoInv, Moved, OutUnchanged

\* The next index is the only new one.
LEMMA UpToNext ==
    ASSUME NEW n \in Nat, NEW i \in 1..n + 1
    PROVE  i \in 1..n \/ i = n + 1
OBVIOUS

\* The driver takes the next character of the buffer.
LEMMA OutMoves ==
    ASSUME IInv, OutInv, tpc \notin Outside, Moved < tnum,
           txfifo' = Append(txfifo, obuf[Moved + 1]), Moved' = Moved + 1,
           UNCHANGED <<obuf, oidx, tnum, put, wire, tpc>>
    PROVE  OutInv'
<1> USE DEF IInv, TypeOK
<1>1. Moved \in Nat
  BY DEF Moved, SendInv
<1>2. obuf[Moved + 1] = Len(wire) + Len(txfifo) + 1
  <2>1. /\ Moved + 1 \in 1..oidx /\ oidx \in Nat /\ put \in Nat
        /\ Len(wire) \in Nat /\ Len(txfifo) \in Nat
    BY <1>1 DEF OutInv, BufferInv
  <2>2. obuf[Moved + 1] = put - oidx + (Moved + 1)
    BY <2>1 DEF OutInv, BufferInv
  <2>3. Len(wire) + Len(txfifo) = put - oidx + Moved
    BY DEF OutInv
  <2> HIDE DEF IInv, TypeOK
  <2> QED BY <1>1, <2>1, <2>2, <2>3
<1>3. /\ txfifo \in Seq(Nat) /\ wire \in Seq(Nat) /\ obuf[Moved + 1] \in Nat
  BY <1>2
<1>4. /\ Len(txfifo') = Len(txfifo) + 1
      /\ txfifo'[Len(txfifo) + 1] = Len(wire) + Len(txfifo) + 1
      /\ \A i \in 1..Len(txfifo) : txfifo'[i] = txfifo[i]
  BY <1>2, <1>3
<1>5. FifoInv'
  <2>1. \A i \in 1..Len(txfifo) : txfifo'[i] = Len(wire) + i
    BY <1>4 DEF OutInv, FifoInv
  <2>2. ASSUME NEW i \in 1..Len(txfifo) + 1
        PROVE  txfifo'[i] = Len(wire) + i
    <3>1. Len(txfifo) \in Nat /\ Len(wire) \in Nat
      BY <1>3
    <3>2. i \in 1..Len(txfifo) \/ i = Len(txfifo) + 1
      BY <3>1, UpToNext
    <3>3. CASE i \in 1..Len(txfifo)
      BY <1>4, <2>1, <3>3
    <3>4. CASE i = Len(txfifo) + 1
      BY <1>4, <3>1, <3>4
    <3> QED BY <3>2, <3>3, <3>4
  <2> QED BY <1>4, <2>2 DEF OutInv, FifoInv
<1>6. BufferInv'
  BY DEF OutInv, BufferInv
<1>7. Len(wire) + Len(txfifo') = put - oidx + Moved + 1
  <2>1. /\ Len(wire) + Len(txfifo) = put - oidx + Moved
        /\ oidx \in Nat /\ put \in Nat /\ Len(wire) \in Nat /\ Len(txfifo) \in Nat
    BY DEF OutInv
  <2> HIDE DEF IInv, TypeOK
  <2> QED BY <1>1, <1>4, <2>1
<1> QED BY <1>5, <1>6, <1>7, <1>1 DEF OutInv

\* A character leaves the FIFO for the line.
LEMMA OutLeaves ==
    ASSUME IInv, OutInv, LineOut
    PROVE  OutInv'
<1> USE DEF IInv, TypeOK
<1> DEFINE n == Len(wire)
<1>1. txfifo # <<>> /\ txfifo \in Seq(Nat) /\ wire \in Seq(Nat) /\ n \in Nat
      /\ wire' = Append(wire, Head(txfifo)) /\ txfifo' = Tail(txfifo)
  BY DEF LineOut
<1>2. Head(txfifo) = n + 1 /\ Len(txfifo) \in Nat \ {0}
  BY <1>1 DEF OutInv, FifoInv
<1>3. /\ Len(wire') = n + 1 /\ wire'[n + 1] = n + 1
      /\ \A i \in 1..n : wire'[i] = wire[i]
  BY <1>1, <1>2
<1>4. /\ Len(txfifo') = Len(txfifo) - 1
      /\ \A i \in 1..Len(txfifo) - 1 : txfifo'[i] = txfifo[i + 1]
  BY <1>1, <1>2
<1>5. ASSUME NEW i \in 1..n + 1
      PROVE  wire'[i] = i
  <2>1. \A j \in 1..n : wire[j] = j
    BY DEF OutInv, FifoInv
  <2> HIDE DEF IInv, TypeOK, n
  <2>2. i \in 1..n \/ i = n + 1
    BY <1>1, UpToNext
  <2> QED BY <1>3, <2>1, <2>2
<1>6. \A i \in 1..Len(txfifo) - 1 : txfifo'[i] = n + 1 + i
  BY <1>1, <1>2, <1>4 DEF OutInv, FifoInv
<1>7. FifoInv'
  BY <1>3, <1>4, <1>5, <1>6 DEF FifoInv
<1>8. BufferInv' /\ Moved' = Moved
  BY DEF OutInv, BufferInv, Moved, LineOut, mode, sending, thread
<1>9. Len(wire') + Len(txfifo') = Len(wire) + Len(txfifo) /\ put' = put /\ oidx' = oidx
  BY <1>1, <1>2, <1>3, <1>4 DEF LineOut, sending
<1> QED BY <1>7, <1>8, <1>9 DEF OutInv

\* Every step keeps the order.
LEMMA OutStep ==
    ASSUME IInv, OutInv, Next
    PROVE  OutInv'
<1>1. CASE LineOut
  BY <1>1, OutLeaves
<1>2. CASE LineIn
  BY <1>2, OutSame DEF LineIn, OutUnchanged, Outside, mode, sending, received, thread, streams
<1>3. CASE DmaOut
  <2> USE DEF IInv, TypeOK
  <2>1. tmode = "pdma" /\ Running /\ tleft > 0 /\ tleft <= tnum
    BY <1>3 DEF DmaOut, SendInv, Quiet, Ready, Over, TxBit, RxBit, Places
  <2>2. tpc \notin Outside
    BY <2>1 DEF SendInv, Quiet, Running, Outside
  <2>3. Moved = tnum - tleft /\ Moved' = tnum - (tleft - 1)
    BY <1>3, <2>1, <2>2 DEF Moved, DmaOut, mode, thread
  <2>4. Moved < tnum /\ Moved' = Moved + 1
    BY <2>1, <2>3
  <2> QED BY <1>3, <2>2, <2>3, <2>4, OutMoves DEF DmaOut, thread, streams
<1>4. CASE DmaIn
  BY <1>4, OutSame DEF DmaIn, OutUnchanged, Outside, mode, sending, received, thread, streams
<1>5. CASE UARTn_IRQHandler
  <2> USE DEF IInv, TypeOK
  <2>1. CASE TxReady
    <3>1. tmode = "irq" /\ Running /\ txfifo = <<>>
      BY <2>1 DEF TxReady, SendInv, Quiet, Ready, Over, TxBit, RxBit, Places
    <3>2. tpc \notin Outside
      BY <3>1 DEF SendInv, Quiet, Running, Outside
    <3>3. tcnt < tnum /\ txfifo' = <<obuf[tcnt + 1]>> /\ tcnt' = tcnt + 1
      BY <1>5, <2>1, <3>1 DEF UARTn_IRQHandler, WriteFifo, Running
    <3>4. Moved = tcnt /\ Moved' = tcnt + 1
      BY <1>5, <3>1, <3>2, <3>3 DEF Moved, UARTn_IRQHandler, mode, thread
    <3>5. txfifo' = Append(txfifo, obuf[Moved + 1])
      BY <3>1, <3>3, <3>4
    <3> QED BY <1>5, <3>2, <3>3, <3>4, <3>5, OutMoves DEF UARTn_IRQHandler, thread, streams
  <2>2. CASE ~TxReady
    BY <1>5, <2>2, OutSame DEF UARTn_IRQHandler, OutUnchanged, Outside, mode, thread, streams
  <2> QED BY <2>1, <2>2
<1>6. CASE PdmaTxDone
  <2>1. tmode = "pdma"
    BY <1>6 DEF PdmaTxDone, IInv, TypeOK, SendInv, Quiet, Ready, Running, Over, Places
  <2> QED BY <1>6, <2>1, OutSame DEF PdmaTxDone, OutUnchanged, mode, thread, streams
<1>7. CASE PdmaRxDone
  BY <1>7, OutSame DEF PdmaRxDone, OutUnchanged, Outside, mode, sending, received, thread, streams
<1>8. CASE Drained
  BY <1>8, OutSame DEF Drained, OutUnchanged, Outside, mode, sending, received, thread, streams
<1>9. CASE Putchar
  <2> USE DEF IInv, TypeOK
  <2>1. tpc \in Outside /\ tpc' \in Outside
    BY <1>9 DEF Putchar, Turn, Goto, Outside
  <2>2. Moved = 0 /\ Moved' = 0
    BY <2>1 DEF Moved
  <2>3. oidx + 1 \in 1..OutSize /\ put' = put + 1 /\ oidx' = oidx + 1
    <3>1. tpc = "idle" /\ put' = put + 1 /\ oidx' = oidx + 1
      BY <1>9 DEF Putchar, Turn
    <3>2. oidx < OutSize
      BY <3>1 DEF SendInv
    <3> QED BY <3>1, <3>2, ConstAssumption
  <2>4. obuf' = [obuf EXCEPT ![oidx + 1] = put + 1]
    BY <1>9 DEF Putchar
  <2>5. BufferInv'
    <3>1. ASSUME NEW i \in 1..oidx
          PROVE  obuf'[i] = put - oidx + i
      <4>1. obuf[i] = put - oidx + i
        BY DEF OutInv, BufferInv
      <4>2. i \in 1..OutSize /\ i # oidx + 1
        <5>1. oidx \in Nat /\ OutSize \in Nat /\ oidx + 1 <= OutSize
          BY <2>3, ConstAssumption
        <5> HIDE DEF IInv, TypeOK
        <5> QED BY <5>1
      <4> QED BY <2>4, <4>1, <4>2
    <3>2. obuf'[oidx + 1] = put + 1
      BY <2>3, <2>4
    <3>3. ASSUME NEW i \in 1..oidx + 1
          PROVE  obuf'[i] = (put + 1) - (oidx + 1) + i
      <4>1. i \in 1..oidx \/ i = oidx + 1
        OBVIOUS
      <4>2. CASE i \in 1..oidx
        BY <3>1, <4>2
      <4>3. CASE i = oidx + 1
        BY <3>2, <4>3
      <4> QED BY <4>1, <4>2, <4>3
    <3> QED BY <3>3, <2>1, <2>3 DEF OutInv, BufferInv
  <2>6. FifoInv' /\ Len(wire') = Len(wire) /\ Len(txfifo') = Len(txfifo)
    BY <1>9 DEF Putchar, OutInv, FifoInv
  <2> QED BY <2>2, <2>3, <2>5, <2>6 DEF OutInv
<1>10. CASE Send
  <2> USE DEF IInv, TypeOK
  <2>1. tpc \in Outside /\ ~Busy
    BY <1>10 DEF Send, Turn, SendInv, Quiet, Busy, Outside
  <2>2. /\ tnum' = oidx /\ tcnt' = 0 /\ tmode' = tmode /\ tpc' = "read"
        /\ tmode = "pdma" => tleft' = oidx
        /\ UNCHANGED <<obuf, oidx, put, wire, txfifo>>
    BY <1>10, <2>1 DEF Send, Goto, mode, streams
  <2>3. Moved = 0 /\ Moved' = 0
    BY <2>1, <2>2 DEF Moved, Outside
  <2> QED BY <2>1, <2>2, <2>3 DEF OutInv, BufferInv, FifoInv, Outside
<1>11. CASE ReadInten
  BY <1>11, OutSame DEF ReadInten, OutUnchanged, Outside, mode, sending, received, thread,
                     streams, Turn, Goto
<1>12. CASE WriteInten
  BY <1>12, OutSame DEF WriteInten, OutUnchanged, Outside, mode, sending, received, thread,
                     streams, Turn, Goto
<1>13. CASE WaitStatus
  <2> USE DEF IInv, TypeOK
  <2>1. tpc \notin Outside /\ tcnt = tnum /\ (tmode = "pdma" => tleft = 0)
    BY <1>13 DEF WaitStatus, Turn, Busy, SendInv, Running, Over, Outside
  <2>2. Moved = oidx /\ oidx <= put
    BY <2>1 DEF Moved, OutInv, BufferInv
  <2>3. Moved' = 0 /\ oidx' = 0 /\ tpc' \in Outside
    BY <1>13 DEF Moved, WaitStatus, Goto, Emptied, Outside
  <2> QED BY <1>13, <2>2, <2>3 DEF WaitStatus, OutInv, BufferInv, FifoInv, streams
<1>14. CASE TxCount
  BY <1>14, OutSame DEF TxCount, OutUnchanged, Outside, mode, sending, received, thread,
                     streams, Turn, Goto
<1>15. CASE WaitCount
  <2> USE DEF IInv, TypeOK
  <2>1. CASE seen = 1
    <3>1. /\ tpc \notin Outside /\ tnum = 1 /\ (tmode = "pdma" => tleft = 0)
          /\ (tmode = "irq" => tcnt = tnum)
      BY <1>15, <2>1 DEF WaitCount, Turn, SendInv, Running, Over, Outside
    <3>2. Moved = oidx /\ oidx <= put
      BY <3>1 DEF Moved, OutInv, BufferInv
    <3>3. Moved' = 0 /\ oidx' = 0 /\ tpc' \in Outside
      BY <1>15, <2>1 DEF Moved, WaitCount, Goto, Emptied, Outside
    <3> QED BY <1>15, <3>2, <3>3 DEF WaitCount, OutInv, BufferInv, FifoInv, streams
  <2>2. CASE seen # 1
    BY <1>15, <2>2, OutSame DEF WaitCount, OutUnchanged, Outside, Turn, Goto, mode, streams
  <2> QED BY <2>1, <2>2
<1>16. CASE Getchar
  BY <1>16, OutSame DEF Getchar, OutUnchanged, Outside, mode, sending, received, thread,
                     streams, Turn, Goto
<1>17. CASE RxCount
  BY <1>17, OutSame DEF RxCount, OutUnchanged, Outside, mode, sending, received, thread,
                     streams, Turn, Goto
<1>18. CASE RxStore
  BY <1>18, OutSame DEF RxStore, OutUnchanged, Outside, mode, sending, received, thread,
                     streams, Turn, Goto
<1>19. CASE TakeChar
  BY <1>19, OutSame DEF TakeChar, OutUnchanged, Outside, mode, sending, received, thread,
                     streams, Turn, Goto
<1> QED BY <1>1, <1>2, <1>3, <1>4, <1>5, <1>6, <1>7, <1>8, <1>9, <1>10, <1>11, <1>12,
         <1>13, <1>14, <1>15, <1>16, <1>17, <1>18, <1>19
      DEF Next, Dma, Isr, Thread, Output, Input

\* It holds at first, and while nothing happens.
LEMMA OutInit == Init => IInv /\ OutInv
<1> SUFFICES ASSUME Init PROVE OutInv
  BY IInvInit
<1>1. Moved = 0
  BY DEF Init, Moved, Outside
<1> QED BY <1>1 DEF Init, OutInv, BufferInv, FifoInv, Outside

LEMMA OutStutter == IInv /\ OutInv /\ UNCHANGED vars => OutInv'
BY OutSame DEF OutUnchanged, vars, mode, sending, thread, streams

\* The characters given to stdout_putchar come out on the line each once and in
\* order, for an output buffer and a FIFO of any size: the output half of Console.
THEOREM OutputInOrderHolds == Spec => []OutputInOrder
<1>1. IInv /\ OutInv => OutputInOrder
  <2> SUFFICES ASSUME IInv, OutInv PROVE OutputInOrder
    OBVIOUS
  <2> USE DEF IInv, TypeOK
  <2>1. \A i \in DOMAIN wire : wire[i] = i
    BY DEF OutInv, FifoInv
  <2>2. Moved <= oidx
    BY DEF Moved, OutInv, BufferInv, SendInv, Ready, Running, Over, Places, Outside
  <2>3. Len(wire) <= put
    BY <2>2 DEF OutInv, BufferInv, Moved
  <2> QED BY <2>1, <2>3 DEF OutputInOrder
<1>2. IInv /\ OutInv /\ [Next]_vars => IInv' /\ OutInv'
  BY TypeStep, SendStep, ReceiveStep, IInvStutter, OutStep, OutStutter DEF IInv
<1> QED BY <1>1, <1>2, OutInit, PTL DEF Spec
=============================================================================
