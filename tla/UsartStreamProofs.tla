-------------------------- MODULE UsartStreamProofs --------------------------
(***************************************************************************)
(* UsartStdio implements Console: the order of the output is proved in      *)
(* UsartStdioProofs, the order of the input here, for a receive buffer and  *)
(* a FIFO of any size, as long as the line has taken no liberty.            *)
(***************************************************************************)
EXTENDS UsartStdioProofs, SequenceTheorems

\* How much of the current reception is stored.
Current == IF rmode = "pdma" THEN InSize - rleft ELSE rcnt

\* What every line leaves true of the receive buffer.
StoreInv ==
    /\ icnt % InSize = 0
    /\ rmode = "pdma" => (rtd <=> rleft = 0)
    /\ rmode = "irq" => rcnt < InSize

\* The reader is not behind by more than the buffer; the buffer and the FIFO hold
\* the last characters of the line, in order.
BehindInv ==
    /\ icnt + Current + Len(rxfifo) = fed
    /\ Len(got) <= icnt + Current
    /\ fed <= Len(got) + InSize
    /\ Len(rxfifo) <= InSize - Current
ContentInv ==
    /\ \A i \in 1..Len(rxfifo) : rxfifo[i] = icnt + Current + i
    /\ \A k \in 0..InSize - 1 :
         /\ k < Current => ibuf[k] = icnt + k + 1
         /\ k >= Current /\ icnt > 0 => ibuf[k] = icnt - InSize + k + 1

\* What the thread has read is still true, and no reception ends before it is used.
CountInv ==
    Counting => /\ seen <= Current /\ Current < InSize
                /\ rmode = "irq" => Len(rxfifo) < InSize - Current

GotInv == \A i \in 1..Len(got) : got[i] = i

InInv == StoreInv /\ (~taken => BehindInv /\ ContentInv /\ CountInv /\ GotInv)

-----------------------------------------------------------------------------
(* Arithmetic.                                                              *)

\* The position of a character in the buffer.
LEMMA ModAdd ==
    ASSUME NEW b \in Nat, NEW m \in Nat \ {0}, NEW k \in 0..m - 1, b % m = 0
    PROVE  (b + k) % m = k
OBVIOUS

LEMMA ModMul ==
    ASSUME NEW q \in Nat, NEW m \in Nat \ {0}, NEW k \in 0..m - 1
    PROVE  (q * m + k) % m = k
OBVIOUS

\* Another buffer full is again a multiple of the size.
LEMMA ModNext ==
    ASSUME NEW b \in Nat, NEW m \in Nat \ {0}, b % m = 0
    PROVE  (b + m) % m = 0
<1>1. b = m * (b \div m) /\ b \div m \in Nat
  OBVIOUS
<1> DEFINE q == (b \div m) + 1
<1>2. b + m = q * m + 0 /\ q \in Nat
  BY <1>1
<1> HIDE DEF q
<1>3. (q * m + 0) % m = 0
  BY <1>2, ModMul, 0 \in 0..m - 1
<1> QED BY <1>2, <1>3

\* One buffer full less is one too, if there was one.
LEMMA ModBefore ==
    ASSUME NEW b \in Nat \ {0}, NEW m \in Nat \ {0}, b % m = 0
    PROVE  b - m \in Nat /\ (b - m) % m = 0
<1>1. b = m * (b \div m) /\ b \div m \in Nat
  OBVIOUS
<1> DEFINE d == b \div m
<1>2. d # 0 /\ d - 1 \in Nat
  BY <1>1
<1> DEFINE q == d - 1
<1>3. b = m * (q + 1) /\ q \in Nat
  BY <1>1, <1>2
<1> HIDE DEF q
<1>4. b - m = q * m + 0 /\ q * m \in Nat
  BY <1>3
<1>5. (q * m + 0) % m = 0
  BY <1>3, ModMul, 0 \in 0..m - 1
<1> QED BY <1>4, <1>5

\* Appending leaves the beginning of a sequence.
LEMMA SubSeqAppend ==
    ASSUME NEW s \in Seq(Nat), NEW c \in Nat
    PROVE  Len(Append(s, c)) = Len(s) + 1 /\ SubSeq(Append(s, c), 1, Len(s)) = s
OBVIOUS

\* The numbers of the input and their ranges.
LEMMA InTypes ==
    ASSUME IInv
    PROVE  /\ InSize \in Nat \ {0} /\ Depth \in Nat \ {0}
           /\ icnt \in Nat /\ rcnt \in 0..InSize /\ rleft \in 0..InSize /\ fed \in Nat
           /\ seen \in Nat /\ Current \in 0..InSize
           /\ got \in Seq(Nat) /\ Len(got) \in Nat
           /\ rxfifo \in Seq(Nat) /\ Len(rxfifo) \in Nat
           /\ ibuf \in [0..InSize - 1 -> Nat]
           /\ taken \in BOOLEAN /\ rtd \in BOOLEAN
           /\ rmode \in {"irq", "pdma"}
           /\ RxBit \in inten /\ inten \subseteq {TxBit, RxBit}
BY ConstAssumption DEF IInv, TypeOK, SendInv, ReceiveInv, Current

LEMMA InNumbers ==
    ASSUME IInv
    PROVE  /\ InSize \in Nat /\ Depth \in Nat /\ icnt \in Nat /\ fed \in Nat /\ seen \in Nat
           /\ rleft \in Nat /\ rcnt \in Nat /\ Current \in Nat /\ Current <= InSize
           /\ Len(got) \in Nat /\ Len(rxfifo) \in Nat
BY InTypes

\* A thread that is about to count finds the interrupts served.
LEMMA NonePending ==
    ASSUME IInv, StoreInv, NEW place, Turn(place)
    PROVE  /\ rmode = "irq" => rxfifo = <<>> /\ rcnt < InSize
           /\ rmode = "pdma" => rleft > 0
           /\ Current < InSize
BY InTypes DEF StoreInv, Turn, Pending, RxReady, RxBit, Current

-----------------------------------------------------------------------------
(* The input of a step.                                                     *)

\* Nothing happens to the input.
InUnchanged == UNCHANGED <<rmode, rxfifo, ibuf, icnt, rcnt, rleft, rtd, fed, got, taken>>

LEMMA InSame ==
    ASSUME InInv, InUnchanged, Counting' => Counting /\ seen' = seen
    PROVE  InInv'
BY DEF InInv, StoreInv, BehindInv, ContentInv, CountInv, GotInv, Current, InUnchanged

\* A character comes in.
LEMMA InLine ==
    ASSUME IInv, InInv, LineIn
    PROVE  InInv'
<1>0. /\ InSize \in Nat /\ Depth \in Nat /\ icnt \in Nat /\ fed \in Nat /\ seen \in Nat
      /\ rleft \in Nat /\ rcnt \in Nat /\ Current \in Nat /\ Current <= InSize
      /\ Len(got) \in Nat /\ Len(rxfifo) \in Nat
  BY InNumbers
<1>1. StoreInv'
  BY DEF InInv, StoreInv, LineIn, mode, received
<1> SUFFICES ASSUME ~taken'
             PROVE  (BehindInv /\ ContentInv /\ CountInv /\ GotInv)'
  BY <1>1 DEF InInv
<1>2. ~taken /\ ~Bursts /\ ~Late(Len(rxfifo) + 1) /\ ~Lags
  BY InTypes, Zenon DEF LineIn
<1>3. BehindInv /\ ContentInv /\ CountInv /\ GotInv
  BY <1>2 DEF InInv
<1>4. /\ Len(rxfifo) < Depth /\ Len(rxfifo) < InSize - Current
      /\ Counting => Len(rxfifo) + 1 # InSize - Current
      /\ fed - Len(got) < InSize
  BY <1>2, InTypes DEF Bursts, Late, Lags, Remaining, Current
<1>5. /\ fed' = fed + 1 /\ rxfifo' = Append(rxfifo, fed + 1)
      /\ got' = got /\ icnt' = icnt /\ ibuf' = ibuf /\ seen' = seen
      /\ rmode' = rmode /\ Current' = Current
      /\ Counting' = Counting
  BY <1>4 DEF LineIn, mode, received, thread, Current, Counting
<1>6. Len(rxfifo') = Len(rxfifo) + 1 /\ rxfifo'[Len(rxfifo) + 1] = fed + 1
      /\ \A i \in 1..Len(rxfifo) : rxfifo'[i] = rxfifo[i]
  BY <1>5, InTypes
<1>7. BehindInv'
  <2>1. /\ icnt + Current + Len(rxfifo) = fed /\ Len(got) <= icnt + Current
        /\ fed <= Len(got) + InSize
    BY <1>3 DEF BehindInv
  <2>2. /\ icnt + Current + (Len(rxfifo) + 1) = fed + 1
        /\ fed + 1 <= Len(got) + InSize
        /\ Len(rxfifo) + 1 <= InSize - Current
    BY <1>0, <1>4, <2>1
  <2> QED BY <1>5, <1>6, <2>1, <2>2 DEF BehindInv
<1>8. ASSUME NEW i \in 1..Len(rxfifo) + 1
      PROVE  rxfifo'[i] = icnt + Current + i
  <2>1. CASE i \in 1..Len(rxfifo)
    BY <1>3, <1>6, <2>1 DEF ContentInv
  <2>2. CASE i = Len(rxfifo) + 1
    BY <1>0, <1>3, <1>6, <2>2 DEF BehindInv
  <2> QED BY <2>1, <2>2, UpToNext, InTypes
<1>9. ContentInv'
  BY <1>3, <1>5, <1>6, <1>8 DEF ContentInv
<1>10. CountInv'
  <2>1. Counting => /\ seen <= Current /\ Current < InSize
                    /\ rmode = "irq" => Len(rxfifo) < InSize - Current
    BY <1>3 DEF CountInv
  <2>2. Counting /\ rmode = "irq" => Len(rxfifo) + 1 < InSize - Current
    BY <1>0, <1>4, <2>1
  <2> QED BY <1>5, <1>6, <2>1, <2>2 DEF CountInv
<1> QED BY <1>3, <1>5, <1>7, <1>9, <1>10 DEF GotInv

\* The engine stores a character.
LEMMA InDma ==
    ASSUME IInv, InInv, DmaIn
    PROVE  InInv'
<1>0. /\ InSize \in Nat /\ Depth \in Nat /\ icnt \in Nat /\ fed \in Nat /\ seen \in Nat
      /\ rleft \in Nat /\ rcnt \in Nat /\ Current \in Nat /\ Current <= InSize
      /\ Len(got) \in Nat /\ Len(rxfifo) \in Nat
  BY InNumbers
<1>1. /\ rmode = "pdma" /\ rmode' = rmode /\ rleft > 0 /\ rxfifo # <<>>
      /\ rleft' = rleft - 1 /\ rxfifo' = Tail(rxfifo)
      /\ ibuf' = [ibuf EXCEPT ![Current] = Head(rxfifo)]
      /\ UNCHANGED <<icnt, rcnt, fed, got, seen>>
  <2>1. rmode = "pdma"
    BY InTypes DEF DmaIn, TxBit, RxBit
  <2>2. Current = InSize - rleft
    BY <2>1 DEF Current
  <2> QED BY <2>1, <2>2 DEF DmaIn, mode, thread
<1>2. rtd' <=> (rtd \/ rleft = 1)
  BY InTypes DEF DmaIn
<1>3. StoreInv'
  BY <1>1, <1>2, InTypes DEF InInv, StoreInv
<1> SUFFICES ASSUME ~taken'
             PROVE  (BehindInv /\ ContentInv /\ CountInv /\ GotInv)'
  BY <1>3 DEF InInv
<1>4. ~taken /\ ~Late(1)
  BY InTypes, Zenon DEF DmaIn
<1>5. BehindInv /\ ContentInv /\ CountInv /\ GotInv
  BY <1>4 DEF InInv
<1>6. Current = InSize - rleft /\ Current' = Current + 1 /\ Current < InSize
  <2>1. Current = InSize - rleft /\ Current' = InSize - (rleft - 1)
    BY <1>1 DEF Current
  <2>2. rleft \in Nat /\ InSize \in Nat /\ rleft > 0
    BY <1>0, <1>1
  <2> HIDE DEF Current
  <2> QED BY <2>1, <2>2
<1>7. Counting => rleft # 1
  BY <1>1, <1>4 DEF Late, Remaining
<1>8. Counting' = Counting
  BY DEF DmaIn, thread, Counting
<1>9. /\ Head(rxfifo) = icnt + Current + 1
      /\ Len(rxfifo) > 0 /\ Len(rxfifo') = Len(rxfifo) - 1
      /\ \A i \in 1..Len(rxfifo) - 1 : rxfifo'[i] = rxfifo[i + 1]
  <2>1. rxfifo \in Seq(Nat) /\ rxfifo # <<>>
    BY <1>1, InTypes
  <2>2. /\ Len(rxfifo) > 0 /\ Len(rxfifo') = Len(rxfifo) - 1 /\ Head(rxfifo) = rxfifo[1]
        /\ \A i \in 1..Len(rxfifo) - 1 : rxfifo'[i] = rxfifo[i + 1]
    BY <1>1, <2>1
  <2>3. 1 \in 1..Len(rxfifo)
    BY <2>1, <2>2
  <2> QED BY <1>5, <2>2, <2>3 DEF ContentInv
<1>10. BehindInv'
  <2>1. /\ icnt + Current + Len(rxfifo) = fed /\ Len(got) <= icnt + Current
        /\ fed <= Len(got) + InSize /\ Len(rxfifo) <= InSize - Current
    BY <1>5 DEF BehindInv
  <2>2. /\ icnt + (Current + 1) + (Len(rxfifo) - 1) = fed
        /\ Len(got) <= icnt + (Current + 1)
        /\ Len(rxfifo) - 1 <= InSize - (Current + 1)
    BY <1>0, <2>1
  <2> QED BY <1>1, <1>6, <1>9, <2>1, <2>2 DEF BehindInv
<1>11. ASSUME NEW i \in 1..Len(rxfifo')
       PROVE  rxfifo'[i] = icnt + (Current + 1) + i
  <2>1. i + 1 \in 1..Len(rxfifo) /\ i \in 1..Len(rxfifo) - 1
    BY <1>9, <1>11, InTypes
  <2>2. rxfifo[i + 1] = icnt + Current + (i + 1)
    BY <1>5, <2>1 DEF ContentInv
  <2> QED BY <1>9, <2>1, <2>2, InTypes
<1>12. ASSUME NEW k \in 0..InSize - 1
       PROVE  /\ k < Current + 1 => ibuf'[k] = icnt + k + 1
              /\ k >= Current + 1 /\ icnt > 0 => ibuf'[k] = icnt - InSize + k + 1
  <2>1. CASE k = Current
    BY <1>1, <1>9, <2>1, InTypes
  <2>2. CASE k # Current
    <3>1. ibuf'[k] = ibuf[k]
      BY <1>1, <2>2, InTypes
    <3>2. /\ k < Current => ibuf[k] = icnt + k + 1
          /\ k >= Current /\ icnt > 0 => ibuf[k] = icnt - InSize + k + 1
      BY <1>5 DEF ContentInv
    <3> QED BY <2>2, <3>1, <3>2, InTypes
  <2> QED BY <2>1, <2>2
<1>13. ContentInv'
  BY <1>1, <1>6, <1>11, <1>12 DEF ContentInv
<1>14. CountInv'
  <2>1. Counting => seen <= Current + 1 /\ Current + 1 < InSize
    BY <1>5, <1>6, <1>7, InTypes DEF CountInv
  <2> QED BY <1>1, <1>6, <1>8, <2>1 DEF CountInv
<1> QED BY <1>1, <1>5, <1>10, <1>13, <1>14 DEF GotInv

\* The interrupt handler stores what the FIFO holds.
LEMMA InRead ==
    ASSUME IInv, InInv, RxReady, ReadFifo, UNCHANGED <<rmode, rleft, rtd, fed, got, taken, seen, tpc>>
    PROVE  InInv'
<1>0. /\ InSize \in Nat /\ Depth \in Nat /\ icnt \in Nat /\ fed \in Nat /\ seen \in Nat
      /\ rleft \in Nat /\ rcnt \in Nat /\ Current \in Nat /\ Current <= InSize
      /\ Len(got) \in Nat /\ Len(rxfifo) \in Nat
  BY InNumbers
<1>1. rmode = "irq" /\ rmode' = "irq" /\ ~rtd /\ rleft = 0 /\ rxfifo # <<>> /\ Current = rcnt
  BY InTypes DEF RxReady, TxBit, RxBit, IInv, ReceiveInv, Current
<1>2. /\ rcnt < InSize
      /\ RxStored \in Nat /\ RxStored <= Len(rxfifo) /\ rcnt + RxStored <= InSize
      /\ Len(rxfifo) <= InSize - rcnt => RxStored = Len(rxfifo)
  BY <1>0, <1>1 DEF InInv, StoreInv, RxStored
<1>3. /\ Current' = rcnt' /\ Counting' = Counting /\ rxfifo' = <<>> /\ Len(rxfifo') = 0
      /\ rcnt + RxStored = InSize => rcnt' = 0 /\ icnt' = icnt + InSize
      /\ rcnt + RxStored # InSize => rcnt' = rcnt + RxStored /\ icnt' = icnt
  BY <1>1 DEF ReadFifo, Current, Counting
<1>4. StoreInv'
  <2>1. rcnt' < InSize
    BY <1>0, <1>2, <1>3
  <2>2. icnt' % InSize = 0
    <3>1. icnt % InSize = 0
      BY DEF InInv, StoreInv
    <3>2. icnt' = icnt \/ icnt' = icnt + InSize
      BY <1>3
    <3> QED BY <3>1, <3>2, ModNext, InTypes
  <2> QED BY <1>1, <2>1, <2>2 DEF StoreInv
<1> SUFFICES ASSUME ~taken
             PROVE  (BehindInv /\ ContentInv /\ CountInv /\ GotInv)'
  BY <1>4 DEF InInv
<1>5. BehindInv /\ ContentInv /\ CountInv /\ GotInv
  BY DEF InInv
<1>6. RxStored = Len(rxfifo) /\ icnt' + rcnt' = icnt + rcnt + Len(rxfifo)
      /\ rcnt' \in Nat /\ rcnt' < InSize /\ icnt' \in Nat
  BY <1>0, <1>1, <1>2, <1>3, <1>5 DEF BehindInv
<1>7. BehindInv'
  <2>1. /\ icnt + rcnt + Len(rxfifo) = fed /\ Len(got) <= icnt + rcnt
        /\ fed <= Len(got) + InSize
    BY <1>1, <1>5 DEF BehindInv
  <2>2. icnt' + rcnt' = fed /\ Len(got) <= fed /\ 0 <= InSize - rcnt'
    <3>1. icnt' + rcnt' = fed
      BY <1>6, <2>1, Zenon
    <3>2. Len(got) <= icnt + rcnt + Len(rxfifo)
      BY <1>0, <2>1
    <3>3. \A r \in Nat : r < InSize => 0 <= InSize - r
      BY <1>0
    <3> QED BY <1>6, <2>1, <3>1, <3>2, <3>3, Zenon
  <2>3. icnt' + rcnt' + 0 = fed /\ Len(got) <= icnt' + rcnt'
    BY <1>6, <2>2
  <2> QED BY <1>3, <2>1, <2>2, <2>3 DEF BehindInv
<1>8. ASSUME NEW k \in 0..InSize - 1
      PROVE  /\ k < rcnt + RxStored => ibuf'[k] = icnt + k + 1
             /\ k >= rcnt + RxStored /\ icnt > 0 => ibuf'[k] = icnt - InSize + k + 1
  <2>1. CASE k >= rcnt /\ k < rcnt + RxStored
    <3>1. ibuf'[k] = rxfifo[k - rcnt + 1]
      BY <2>1 DEF ReadFifo
    <3>2. k - rcnt + 1 \in 1..Len(rxfifo)
      BY <1>0, <1>2, <2>1
    <3>3. rxfifo[k - rcnt + 1] = icnt + rcnt + (k - rcnt + 1)
      BY <1>1, <1>5, <3>2 DEF ContentInv
    <3> QED BY <1>0, <1>2, <2>1, <3>1, <3>3
  <2>2. CASE ~(k >= rcnt /\ k < rcnt + RxStored)
    <3>1. ibuf'[k] = ibuf[k]
      BY <2>2 DEF ReadFifo
    <3>2. /\ k < rcnt => ibuf[k] = icnt + k + 1
          /\ k >= rcnt /\ icnt > 0 => ibuf[k] = icnt - InSize + k + 1
      BY <1>1, <1>5 DEF ContentInv
    <3> QED BY <1>0, <1>2, <2>2, <3>1, <3>2
  <2> QED BY <2>1, <2>2
<1>9. ASSUME NEW k \in 0..InSize - 1
      PROVE  /\ k < rcnt' => ibuf'[k] = icnt' + k + 1
             /\ k >= rcnt' /\ icnt' > 0 => ibuf'[k] = icnt' - InSize + k + 1
  <2>1. CASE rcnt + RxStored = InSize
    BY <1>0, <1>3, <1>8, <2>1
  <2>2. CASE rcnt + RxStored # InSize
    BY <1>3, <1>8, <2>2
  <2> QED BY <2>1, <2>2
<1>10. ContentInv'
  BY <1>3, <1>9 DEF ContentInv
<1>11. CountInv'
  <2>1. Counting => seen <= rcnt /\ Len(rxfifo) < InSize - rcnt
    BY <1>1, <1>5 DEF CountInv
  <2>2. Counting => seen <= rcnt' /\ rcnt' < InSize /\ 0 < InSize - rcnt'
    <3> SUFFICES ASSUME Counting PROVE seen <= rcnt' /\ rcnt' < InSize /\ 0 < InSize - rcnt'
      OBVIOUS
    <3>1. rcnt + RxStored # InSize /\ rcnt + RxStored < InSize
      BY <1>0, <1>2, <1>6, <2>1
    <3>2. rcnt' = rcnt + RxStored
      BY <1>3, <3>1
    <3> QED BY <1>0, <1>2, <2>1, <3>1, <3>2
  <2> QED BY <1>1, <1>3, <2>2 DEF CountInv
<1> QED BY <1>5, <1>7, <1>10, <1>11 DEF GotInv

\* The reception of a channel is over, and the next one begins.
LEMMA InRestart ==
    ASSUME IInv, InInv, PdmaRxDone
    PROVE  InInv'
<1>0. /\ InSize \in Nat /\ Depth \in Nat /\ icnt \in Nat /\ fed \in Nat /\ seen \in Nat
      /\ rleft \in Nat /\ rcnt \in Nat /\ Current \in Nat /\ Current <= InSize
      /\ Len(got) \in Nat /\ Len(rxfifo) \in Nat
  BY InNumbers
<1>1. /\ rmode = "pdma" /\ rleft = 0 /\ rmode' = "pdma" /\ rtd' = FALSE /\ rleft' = InSize
      /\ icnt' = icnt + InSize /\ rxfifo' = <<>>
      /\ UNCHANGED <<ibuf, fed, got, taken, seen>>
      /\ Counting' = Counting
  BY InTypes DEF PdmaRxDone, InInv, StoreInv, IInv, ReceiveInv, mode, thread, streams, Counting
<1>2. Current = InSize /\ Current' = 0 /\ Len(rxfifo') = 0
  BY <1>0, <1>1 DEF Current
<1>3. StoreInv'
  <2>1. icnt' % InSize = 0
    BY <1>1, ModNext, InTypes DEF InInv, StoreInv
  <2>2. rleft' # 0
    BY <1>1, InTypes
  <2> QED BY <1>1, <2>1, <2>2 DEF StoreInv
<1> SUFFICES ASSUME ~taken
             PROVE  (BehindInv /\ ContentInv /\ CountInv /\ GotInv)'
  BY <1>1, <1>3 DEF InInv
<1>4. BehindInv /\ ContentInv /\ CountInv /\ GotInv
  BY DEF InInv
<1>5. BehindInv'
  <2>1. /\ icnt + InSize + Len(rxfifo) = fed /\ Len(got) <= icnt + InSize
        /\ fed <= Len(got) + InSize /\ Len(rxfifo) <= InSize - InSize
    BY <1>2, <1>4 DEF BehindInv
  <2>2. (icnt + InSize) + 0 + 0 = fed /\ Len(got) <= (icnt + InSize) + 0 /\ 0 <= InSize - 0
    BY <1>0, <2>1
  <2> QED BY <1>1, <1>2, <2>1, <2>2 DEF BehindInv
<1>6. ASSUME NEW k \in 0..InSize - 1
      PROVE  ibuf[k] = (icnt + InSize) - InSize + k + 1
  <2>1. ibuf[k] = icnt + k + 1
    BY <1>0, <1>2, <1>4 DEF ContentInv
  <2> QED BY <1>0, <2>1
<1>7. ContentInv'
  BY <1>1, <1>2, <1>6 DEF ContentInv
<1>8. CountInv'
  BY <1>0, <1>1, <1>2, <1>4 DEF CountInv
<1> QED BY <1>1, <1>4, <1>5, <1>7, <1>8 DEF GotInv

\* The thread reads how much of the reception is there, and uses it.
LEMMA InCount ==
    ASSUME IInv, InInv, RxCount
    PROVE  InInv'
<1>0. /\ InSize \in Nat /\ Depth \in Nat /\ icnt \in Nat /\ fed \in Nat /\ seen \in Nat
      /\ rleft \in Nat /\ rcnt \in Nat /\ Current \in Nat /\ Current <= InSize
      /\ Len(got) \in Nat /\ Len(rxfifo) \in Nat
  BY InNumbers
<1>1. /\ rmode = "irq" => rxfifo = <<>> /\ rcnt < InSize
      /\ Current < InSize
  BY NonePending DEF InInv, RxCount
<1>2. InUnchanged /\ seen' = Current
  BY DEF RxCount, InUnchanged, mode, received, streams, Current
<1>3. StoreInv' /\ (~taken' => BehindInv' /\ ContentInv' /\ GotInv')
  BY <1>2 DEF InInv, StoreInv, BehindInv, ContentInv, GotInv, Current, InUnchanged
<1>4. CountInv'
  <2>1. Current' = Current /\ Len(rxfifo') = Len(rxfifo)
    BY <1>2 DEF Current, InUnchanged
  <2>2. /\ Current <= Current /\ Current < InSize
        /\ rmode = "irq" => Len(rxfifo) < InSize - Current
    BY <1>0, <1>1
  <2> QED BY <1>2, <2>1, <2>2 DEF CountInv, InUnchanged
<1> QED BY <1>3, <1>4 DEF InInv

LEMMA InStore ==
    ASSUME IInv, InInv, RxStore
    PROVE  InInv'
<1>1. /\ UNCHANGED <<rmode, rxfifo, ibuf, icnt, rleft, rtd, fed, got, taken, seen>>
      /\ rmode = "irq" => rcnt' = rcnt
      /\ Counting
  BY DEF RxStore, Turn, Counting, mode, streams
<1>2. Current' = Current
  BY <1>1, InTypes DEF Current
<1> QED BY <1>1, <1>2 DEF InInv, StoreInv, BehindInv, ContentInv, CountInv, GotInv

\* The next character is where stdin_getchar looks for it.
LEMMA NextChar ==
    ASSUME IInv, InInv, ~taken, Turn("getcnt"), Available
    PROVE  Len(got) < fed /\ ibuf[Len(got) % InSize] = Len(got) + 1
<1>0. /\ InSize \in Nat /\ Depth \in Nat /\ icnt \in Nat /\ fed \in Nat /\ seen \in Nat
      /\ rleft \in Nat /\ rcnt \in Nat /\ Current \in Nat /\ Current <= InSize
      /\ Len(got) \in Nat /\ Len(rxfifo) \in Nat
  BY InNumbers
<1> DEFINE n == Len(got)
<1>m. icnt % InSize = 0
  BY DEF InInv, StoreInv
<1>1. BehindInv /\ ContentInv /\ CountInv /\ Counting
  BY DEF InInv, Turn, Counting
<1>2. n < icnt + Current /\ n < fed /\ icnt + Current <= n + InSize
  BY <1>0, <1>1 DEF BehindInv, CountInv, Available
<1>3. CASE n >= icnt
  <2> DEFINE k == n - icnt
  <2>1. k \in 0..InSize - 1 /\ k < Current /\ icnt + k = n
    BY <1>0, <1>2, <1>3
  <2>2. (icnt + k) % InSize = k
    BY <1>m, <2>1, ModAdd, InTypes
  <2>3. ibuf[k] = icnt + k + 1
    BY <1>1, <2>1 DEF ContentInv
  <2> QED BY <1>2, <2>1, <2>2, <2>3
<1>4. CASE n < icnt
  <2> DEFINE base == icnt - InSize
  <2>1. base \in Nat /\ base % InSize = 0
    <3>1. InSize \in Nat \ {0} /\ icnt \in Nat \ {0}
      BY <1>0, <1>4, InTypes
    <3> QED BY <1>m, <3>1, ModBefore
  <2> DEFINE k == n - base
  <2>2. k \in 0..InSize - 1 /\ k >= Current /\ icnt > 0 /\ base + k = n
    BY <1>0, <1>2, <1>4
  <2>3. (base + k) % InSize = k
    BY <2>1, <2>2, ModAdd, InTypes
  <2>4. ibuf[k] = icnt - InSize + k + 1
    BY <1>1, <2>2 DEF ContentInv
  <2>5. icnt - InSize + k + 1 = n + 1
    BY <1>0, <2>2
  <2> QED BY <1>2, <2>2, <2>3, <2>4, <2>5
<1> QED BY <1>0, <1>3, <1>4

LEMMA InTake ==
    ASSUME IInv, InInv, TakeChar
    PROVE  InInv'
<1>0. /\ InSize \in Nat /\ Depth \in Nat /\ icnt \in Nat /\ fed \in Nat /\ seen \in Nat
      /\ rleft \in Nat /\ rcnt \in Nat /\ Current \in Nat /\ Current <= InSize
      /\ Len(got) \in Nat /\ Len(rxfifo) \in Nat
  BY InNumbers
<1>1. /\ UNCHANGED <<rmode, rxfifo, ibuf, icnt, rcnt, rleft, rtd, fed, taken>>
      /\ ~Counting' /\ Turn("getcnt")
  BY DEF TakeChar, Goto, Counting, mode, received
<1>2. CASE ~Available
  BY <1>1, <1>2, InSame DEF TakeChar, InUnchanged
<1>3. CASE Available
  <2>1. got' = Append(got, ibuf[Len(got) % InSize])
    BY <1>3 DEF TakeChar
  <2>2. StoreInv' /\ (~taken' => ContentInv' /\ CountInv')
    BY <1>1 DEF InInv, StoreInv, ContentInv, CountInv, Current
  <2> SUFFICES ASSUME ~taken PROVE BehindInv' /\ GotInv'
    BY <1>1, <2>2 DEF InInv
  <2>3. ibuf[Len(got) % InSize] = Len(got) + 1
    BY <1>1, <1>3, NextChar
  <2>4. BehindInv /\ CountInv /\ GotInv /\ Counting
    BY <1>1 DEF InInv, Turn, Counting
  <2>5. /\ Len(got') = Len(got) + 1 /\ got'[Len(got) + 1] = Len(got) + 1
        /\ \A i \in 1..Len(got) : got'[i] = got[i]
    BY <2>1, <2>3, InTypes
  <2>6. BehindInv'
    <3>1. /\ icnt + Current + Len(rxfifo) = fed /\ Len(got) < icnt + Current
          /\ fed <= Len(got) + InSize
      BY <1>0, <1>3, <2>4 DEF BehindInv, CountInv, Available
    <3>2. Len(got) + 1 <= icnt + Current /\ fed <= (Len(got) + 1) + InSize
      BY <1>0, <3>1
    <3>3. Current' = Current
      BY <1>1 DEF Current
    <3> QED BY <1>1, <2>4, <2>5, <3>2, <3>3 DEF BehindInv
  <2>7. GotInv'
    <3>1. \A i \in 1..Len(got) : got[i] = i
      BY <2>4 DEF GotInv
    <3>2. ASSUME NEW i \in 1..Len(got) + 1 PROVE got'[i] = i
      BY <2>5, <3>1, UpToNext, InTypes
    <3> QED BY <2>5, <3>2 DEF GotInv
  <2> QED BY <2>6, <2>7
<1> QED BY <1>2, <1>3

-----------------------------------------------------------------------------
(* The order of the input.                                                  *)

\* Every step keeps it.
LEMMA InStep ==
    ASSUME IInv, InInv, Next
    PROVE  InInv'
<1>1. CASE LineOut
  BY <1>1, InSame DEF LineOut, InUnchanged, Counting, mode, received, thread
<1>2. CASE LineIn
  BY <1>2, InLine
<1>3. CASE DmaOut
  BY <1>3, InSame DEF DmaOut, InUnchanged, Counting, mode, received, thread, streams
<1>4. CASE DmaIn
  BY <1>4, InDma
<1>5. CASE UARTn_IRQHandler
  <2>1. CASE RxReady
    BY <1>5, <2>1, InRead DEF UARTn_IRQHandler, mode, thread, streams
  <2>2. CASE ~RxReady
    BY <1>5, <2>2, InSame DEF UARTn_IRQHandler, InUnchanged, Counting, mode, thread, streams
  <2> QED BY <2>1, <2>2
<1>6. CASE PdmaTxDone
  BY <1>6, InSame DEF PdmaTxDone, InUnchanged, Counting, mode, received, thread, streams
<1>7. CASE PdmaRxDone
  BY <1>7, InRestart
<1>8. CASE Drained
  BY <1>8, InSame DEF Drained, InUnchanged, Counting, mode, received, thread, streams
<1>9. CASE Output
  <2>1. InUnchanged
    BY <1>9 DEF Output, Putchar, Send, ReadInten, WriteInten, WaitStatus, TxCount, WaitCount,
                InUnchanged, mode, received, streams
  <2>2. ~Counting'
    BY <1>9 DEF Output, Putchar, Send, ReadInten, WriteInten, WaitStatus, TxCount, WaitCount,
                Counting, Goto
  <2> QED BY <2>1, <2>2, InSame
<1>10. CASE Getchar
  BY <1>10, InSame DEF Getchar, InUnchanged, Counting, Goto, mode, received, streams
<1>11. CASE RxCount
  BY <1>11, InCount
<1>12. CASE RxStore
  BY <1>12, InStore
<1>13. CASE TakeChar
  BY <1>13, InTake
<1> QED BY <1>1, <1>2, <1>3, <1>4, <1>5, <1>6, <1>7, <1>8, <1>9, <1>10, <1>11, <1>12, <1>13
      DEF Next, Dma, Isr, Thread, Input

\* It holds at first, and while nothing happens.
LEMMA InInit == Init => InInv
<1> SUFFICES ASSUME Init PROVE InInv
  OBVIOUS
<1>1. Current = 0 /\ Len(got) = 0 /\ Len(rxfifo) = 0 /\ icnt = 0 /\ fed = 0
  BY ConstAssumption DEF Init, Current
<1>2. InSize \in Nat \ {0}
  BY ConstAssumption
<1>3. 0 % InSize = 0
  BY <1>2
<1>4. StoreInv
  BY <1>1, <1>2, <1>3 DEF Init, StoreInv
<1>5. BehindInv /\ ContentInv
  BY <1>1, <1>2 DEF BehindInv, ContentInv
<1> QED BY <1>1, <1>4, <1>5 DEF InInv, CountInv, GotInv, Counting, Init

LEMMA InStutter == InInv /\ UNCHANGED vars => InInv'
BY InSame DEF InUnchanged, Counting, vars, mode, received, thread, streams

\* stdin_getchar returns the characters of the line each once and in order, until
\* the line takes a liberty, for a buffer and a FIFO of any size.
InputInOrder == ~taken => Len(got) <= fed /\ \A i \in DOMAIN got : got[i] = i

THEOREM InputInOrderHolds == Spec => []InputInOrder
<1>1. IInv /\ InInv => InputInOrder
  <2> SUFFICES ASSUME IInv, InInv, ~taken PROVE Len(got) <= fed /\ \A i \in DOMAIN got : got[i] = i
    BY DEF InputInOrder
  <2>1. DOMAIN got = 1..Len(got)
    BY InTypes
  <2>2. Len(got) <= fed
    BY InNumbers DEF InInv, BehindInv
  <2> QED BY <2>1, <2>2 DEF InInv, GotInv
<1>2. IInv /\ InInv /\ [Next]_vars => IInv' /\ InInv'
  BY TypeStep, SendStep, ReceiveStep, IInvStutter, InStep, InStutter DEF IInv
<1> QED BY <1>1, <1>2, IInvInit, InInit, PTL DEF Spec

-----------------------------------------------------------------------------
(* Console.                                                                 *)

\* A character leaves for the line: the next one that was put.
LEMMA EmitStep ==
    ASSUME IInv, OutInv, LineOut
    PROVE  Stream!Emit
<1> DEFINE n == Len(wire)
<1>1. /\ txfifo # <<>> /\ txfifo \in Seq(Nat) /\ n \in Nat /\ put \in Nat /\ oidx \in Nat
      /\ wire' = Append(wire, Head(txfifo)) /\ UNCHANGED <<put, fed, got, taken>>
  BY DEF LineOut, IInv, TypeOK
<1>2. Head(txfifo) = n + 1 /\ Len(txfifo) \in Nat \ {0}
  BY <1>1 DEF OutInv, FifoInv
<1>3. Moved \in Nat /\ Moved <= oidx
  BY DEF IInv, TypeOK, Moved, OutInv, BufferInv, SendInv, Ready, Running, Over, Places, Outside
<1>4. n < put
  <2>1. n + Len(txfifo) = put - oidx + Moved /\ oidx <= put
    BY DEF OutInv, BufferInv
  <2> HIDE DEF n
  <2> QED BY <1>1, <1>2, <1>3, <2>1
<1> QED BY <1>1, <1>2, <1>4 DEF Stream!Emit

\* stdin_getchar returns the next character or, after a liberty, any other.
LEMMA GetStep ==
    ASSUME IInv, InInv, TakeChar
    PROVE  Stream!Get \/ Stream!Misread \/ UNCHANGED Stream!vars
<1>1. Turn("getcnt") /\ UNCHANGED <<put, wire, fed, taken>>
  BY DEF TakeChar
<1>2. CASE ~Available
  BY <1>1, <1>2 DEF TakeChar, Stream!vars
<1>3. CASE Available
  <2> DEFINE c == ibuf[Len(got) % InSize]
  <2>1. got' = Append(got, c)
    BY <1>3 DEF TakeChar
  <2>2. CASE ~taken
    BY <1>1, <1>3, <2>1, <2>2, NextChar DEF Stream!Get
  <2>3. CASE taken
    <3>1. c \in Nat
      <4>1. Len(got) % InSize \in 0..InSize - 1
        BY InTypes
      <4> QED BY <4>1, InTypes
    <3>2. Len(got') = Len(got) + 1 /\ SubSeq(got', 1, Len(got)) = got
      <4>1. got \in Seq(Nat)
        BY InTypes
      <4> HIDE DEF c
      <4> QED BY <2>1, <3>1, <4>1, SubSeqAppend
    <3> QED BY <1>1, <2>3, <3>2 DEF Stream!Misread
  <2> QED BY <2>2, <2>3
<1> QED BY <1>2, <1>3

\* Every step of the driver and of stdio is one of Console, or changes neither stream.
LEMMA ConsoleStep ==
    ASSUME IInv, OutInv, InInv, Next
    PROVE  Stream!Next \/ UNCHANGED Stream!vars
<1> USE DEF Stream!Next
<1>1. CASE LineOut
  BY <1>1, EmitStep
<1>2. CASE LineIn
  BY <1>2, InTypes, Zenon DEF LineIn, Stream!Feed
<1>3. CASE DmaOut
  BY <1>3 DEF DmaOut, Stream!vars, streams
<1>4. CASE DmaIn
  BY <1>4, InTypes, Zenon DEF DmaIn, Stream!Feed
<1>5. CASE Isr
  BY <1>5 DEF Isr, UARTn_IRQHandler, PdmaTxDone, PdmaRxDone, Drained, Stream!vars, streams
<1>6. CASE Putchar
  BY <1>6 DEF Putchar, Stream!Put
<1>7. CASE Send \/ ReadInten \/ WriteInten \/ WaitStatus \/ TxCount \/ WaitCount
  BY <1>7 DEF Send, ReadInten, WriteInten, WaitStatus, TxCount, WaitCount, Stream!vars, streams
<1>8. CASE Getchar \/ RxCount \/ RxStore
  BY <1>8 DEF Getchar, RxCount, RxStore, Stream!vars, streams
<1>9. CASE TakeChar
  BY <1>9, GetStep
<1> QED BY <1>1, <1>2, <1>3, <1>4, <1>5, <1>6, <1>7, <1>8, <1>9
      DEF Next, Dma, Thread, Output, Input

\* stdio over the driver implements Console, in any combination of interrupts and
\* PDMA and for buffers and FIFOs of any size: what is put goes out and what comes
\* in is returned, each character once and in order, until the line takes a liberty.
THEOREM ImplementsConsoleHolds == Spec => ImplementsConsole
<1> DEFINE Inv == IInv /\ OutInv /\ InInv
<1>1. Init => Inv /\ Stream!Init
  BY IInvInit, OutInit, InInit DEF Init, Stream!Init
<1>2. Inv /\ [Next]_vars => Inv'
  BY TypeStep, SendStep, ReceiveStep, IInvStutter, OutStep, OutStutter, InStep, InStutter
     DEF IInv
<1>3. Inv /\ [Next]_vars => [Stream!Next]_(Stream!vars)
  BY ConsoleStep DEF vars, streams, Stream!vars
<1> HIDE DEF Inv
<1> QED BY <1>1, <1>2, <1>3, PTL DEF Spec, ImplementsConsole, Stream!Spec
=============================================================================
