---------------------------- MODULE XmodemProofs ----------------------------
(***************************************************************************)
(* Proofs about Xmodem: its types, the order of the packets in the flash,  *)
(* the distance of the two ends, and that the pair implements the abstract *)
(* transfer, for any number of packets, any limits and any line.           *)
(***************************************************************************)
EXTENDS Xmodem, TLAPS

-----------------------------------------------------------------------------
(* The types, with what makes them inductive: the packet that waits for an  *)
(* answer exists, so does every packet on the line, and XmodemRecv returns  *)
(* nothing while it runs.                                                   *)

Numbered(q) == \A i \in 1..Len(q) : q[i].c = "packet" => q[i].k \in 1..N

TypeInv ==
    /\ TypeOK
    /\ spc \in {"wait", "wait_can"} => slen < N
    /\ rres # "run" => rpc = "end"
    /\ Numbered(toR)

-----------------------------------------------------------------------------
(* The order.  The receiver has accepted n packets and stored those it had   *)
(* room for.  While it runs the sender is there or one behind, what is on    *)
(* its way to the receiver is the last packet accepted, then the next one,   *)
(* and at most one ACK is on its way back, none if the sender has caught up. *)

Between(q, lo, hi) == \A i \in 1..Len(q) : q[i].c = "packet" => lo <= q[i].k /\ q[i].k <= hi
Sorted(q) == \A i, j \in 1..Len(q) :
                 i < j /\ q[i].c = "packet" /\ q[j].c = "packet" => q[i].k <= q[j].k
NoAck(q)   == \A i \in 1..Len(q) : q[i].c # "ACK"
OneAck(q)  == \A i, j \in 1..Len(q) : q[i].c = "ACK" /\ q[j].c = "ACK" => i = j
TwoAcks(q) == \A i, j, k \in 1..Len(q) :
                  q[i].c = "ACK" /\ q[j].c = "ACK" /\ q[k].c = "ACK" => i = j \/ j = k \/ i = k

LineInv(n) ==
    /\ n - 1 <= slen /\ slen <= n
    /\ rno = No(n + 1)
    /\ Between(toR, n, slen + 1) /\ Sorted(toR)
    /\ OneAck(toS) /\ (slen = n => NoAck(toS))

\* The receiver may end with one more ACK, of EOT or of CAN, which the sender can
\* take for that of a packet.
EndInv(n) ==
    /\ n - 1 <= slen /\ slen <= n + 1
    /\ TwoAcks(toS) /\ (slen >= n => OneAck(toS)) /\ (slen = n + 1 => NoAck(toS))

Accepted(n) ==
    /\ Len(flash) = IF n < Cap THEN n ELSE Cap
    /\ rres = "run" => LineInv(n)
    /\ rres # "run" => EndInv(n)

\* XmodemSend returns nothing while it runs, and sends EOT when all is acknowledged.
SendingInv ==
    /\ spc # "end" => sres = "run"
    /\ spc = "eot_wait" => slen = N

OrderInv == InOrder /\ SendingInv /\ \E n \in 0..N : Accepted(n)

-----------------------------------------------------------------------------
(* What the operations on the line do to these.                             *)

\* r holds no packet that q did not, and keeps the order.
Orderly(q, r) ==
    /\ r \in Seq(Tokens)
    /\ Numbered(q) => Numbered(r)
    /\ \A lo, hi \in Int : Between(q, lo, hi) => Between(r, lo, hi)
    /\ Sorted(q) => Sorted(r)

\* ... and no ACK either.
Calm(q, r) ==
    /\ Orderly(q, r)
    /\ NoAck(q) => NoAck(r)
    /\ OneAck(q) => OneAck(r)

\* Nothing changes on a line that nothing happens on.
LEMMA CalmSame ==
    ASSUME NEW q \in Seq(Tokens)
    PROVE  Calm(q, q)
BY DEF Calm, Orderly

LEMMA CalmTrans ==
    ASSUME NEW q, NEW r, NEW s, Calm(q, r), Calm(r, s)
    PROVE  Calm(q, s)
BY DEF Calm, Orderly

\* A character other than ACK that is appended changes none of them.
LEMMA CalmAppend ==
    ASSUME NEW q \in Seq(Tokens), NEW t \in Tokens, t.c \notin {"ACK", "packet"}
    PROVE  Calm(q, Append(q, t))
<1> DEFINE r == Append(q, t)
<1>1. /\ r \in Seq(Tokens) /\ Len(r) = Len(q) + 1 /\ Len(q) \in Nat
      /\ r[Len(q) + 1] = t
      /\ \A i \in 1..Len(q) : r[i] = q[i]
  OBVIOUS
<1>2. \A i \in 1..Len(r) : r[i].c \in {"ACK", "packet"} => i \in 1..Len(q) /\ r[i] = q[i]
  BY <1>1
<1> HIDE DEF r
<1>3. Numbered(q) => Numbered(r)
  BY <1>2 DEF Numbered
<1>4. \A lo, hi \in Int : Between(q, lo, hi) => Between(r, lo, hi)
  BY <1>2 DEF Between
<1>5. Sorted(q) => Sorted(r)
  BY <1>2 DEF Sorted
<1>6. NoAck(q) => NoAck(r)
  BY <1>2 DEF NoAck
<1>7. OneAck(q) => OneAck(r)
  BY <1>2 DEF OneAck
<1> QED BY <1>1, <1>3, <1>4, <1>5, <1>6, <1>7 DEF Calm, Orderly, r

\* So does reading the first one ...
LEMMA CalmTail ==
    ASSUME NEW q \in Seq(Tokens), q # <<>>
    PROVE  Calm(q, Tail(q))
<1> DEFINE r == Tail(q)
<1>1. /\ r \in Seq(Tokens) /\ Len(r) = Len(q) - 1 /\ Len(q) \in Nat /\ Len(r) \in Nat
      /\ \A i \in 1..Len(r) : r[i] = q[i + 1]
  OBVIOUS
<1>2. \A i \in 1..Len(r) : i \in Int /\ i + 1 \in 1..Len(q) /\ r[i] = q[i + 1]
  BY <1>1
<1> HIDE DEF r
<1>3. Numbered(q) => Numbered(r)
  BY <1>2 DEF Numbered
<1>4. \A lo, hi \in Int : Between(q, lo, hi) => Between(r, lo, hi)
  BY <1>2 DEF Between
<1>5. Sorted(q) => Sorted(r)
  BY <1>2 DEF Sorted
<1>6. NoAck(q) => NoAck(r)
  BY <1>2 DEF NoAck
<1>7. OneAck(q) => OneAck(r)
  BY <1>2 DEF OneAck
<1> QED BY <1>1, <1>3, <1>4, <1>5, <1>6, <1>7 DEF Calm, Orderly, r

\* ... or leaving loose bytes of it.
LEMMA CalmStray ==
    ASSUME NEW q \in Seq(Tokens), q # <<>>
    PROVE  Calm(q, <<[Head(q) EXCEPT !.c = "stray"]>> \o Tail(q))
<1> DEFINE t == [Head(q) EXCEPT !.c = "stray"]
<1> DEFINE r == <<t>> \o Tail(q)
<1>1. Head(q) \in Tokens /\ Len(q) \in Nat /\ Len(q) > 0
  OBVIOUS
<1>2. t \in Tokens /\ t.c = "stray"
  BY <1>1 DEF Tokens, PacketKinds
<1> HIDE DEF t
<1>3. /\ r \in Seq(Tokens) /\ Len(r) = Len(q) /\ r[1] = t
      /\ \A i \in 2..Len(q) : r[i] = q[i]
  BY <1>1, <1>2
<1> HIDE DEF r
<1>4. \A i \in 1..Len(r) : r[i].c \in {"ACK", "packet"} => i \in 1..Len(q) /\ r[i] = q[i]
  BY <1>1, <1>2, <1>3
<1>5. Numbered(q) => Numbered(r)
  BY <1>4 DEF Numbered
<1>6. \A lo, hi \in Int : Between(q, lo, hi) => Between(r, lo, hi)
  BY <1>4 DEF Between
<1>7. Sorted(q) => Sorted(r)
  BY <1>4 DEF Sorted
<1>8. NoAck(q) => NoAck(r)
  BY <1>4 DEF NoAck
<1>9. OneAck(q) => OneAck(r)
  BY <1>4 DEF OneAck
<1>10. Calm(q, r)
  BY <1>3, <1>5, <1>6, <1>7, <1>8, <1>9 DEF Calm, Orderly
<1> QED BY <1>10 DEF r, t

\* A character on the line that is not an ACK.
LEMMA PutCalm ==
    ASSUME NEW q \in Seq(Tokens), NEW c \in {"C", "NAK", "CAN", "EOT"}, NEW r \in Put(q, c)
    PROVE  Calm(q, r)
<1>1. /\ Char(c) \in Tokens /\ Char(c).c \notin {"ACK", "packet"}
      /\ Char("noise") \in Tokens /\ Char("noise").c \notin {"ACK", "packet"}
  BY ConstAssumption DEF Char, Tokens
<1>2. r = q \/ r = Append(q, Char(c)) \/ r = Append(q, Char("noise"))
  BY DEF Put
<1> QED BY <1>1, <1>2, CalmSame, CalmAppend

LEMMA PutCansCalm ==
    ASSUME NEW q \in Seq(Tokens), NEW r \in PutCans(q)
    PROVE  Calm(q, r)
<1>1. PICK s \in Put(q, "CAN") : r \in UNION {Put(v, "CAN") : v \in Put(s, "CAN")}
  BY DEF PutCans
<1>2. PICK v \in Put(s, "CAN") : r \in Put(v, "CAN")
  BY <1>1
<1>3. Calm(q, s) /\ s \in Seq(Tokens)
  BY PutCalm DEF Calm, Orderly
<1>4. Calm(s, v) /\ v \in Seq(Tokens)
  BY <1>3, PutCalm DEF Calm, Orderly
<1>5. Calm(v, r)
  BY <1>2, <1>4, PutCalm
<1> QED BY <1>3, <1>4, <1>5, CalmTrans

\* An ACK on the line.
LEMMA PutAck ==
    ASSUME NEW q \in Seq(Tokens), NEW r \in Put(q, "ACK")
    PROVE  Orderly(q, r) /\ (NoAck(q) => OneAck(r)) /\ (OneAck(q) => TwoAcks(r))
<1>1. /\ Char("ACK") \in Tokens
      /\ Char("noise") \in Tokens /\ Char("noise").c \notin {"ACK", "packet"}
  BY ConstAssumption DEF Char, Tokens
<1>2. /\ NoAck(q) => OneAck(q)
      /\ OneAck(q) => TwoAcks(q)
      /\ OneAck(r) => TwoAcks(r)
  BY DEF NoAck, OneAck, TwoAcks
<1>3. CASE r = q
  BY <1>2, <1>3 DEF Orderly
<1>4. CASE r = Append(q, Char("noise"))
  BY <1>1, <1>2, <1>4, CalmAppend DEF Calm, Orderly
<1>5. CASE r = Append(q, Char("ACK"))
  <2>1. /\ r \in Seq(Tokens) /\ Len(r) = Len(q) + 1 /\ Len(q) \in Nat
        /\ \A i \in 1..Len(q) : r[i] = q[i]
    BY <1>1, <1>5
  <2>2. NoAck(q) => \A i \in 1..Len(r) : r[i].c = "ACK" => i = Len(r)
    BY <2>1 DEF NoAck
  <2>3. \A i \in 1..Len(r) : r[i].c = "packet" => i \in 1..Len(q) /\ r[i] = q[i]
    BY <2>1, <1>5 DEF Char
  <2>5. OneAck(q) => TwoAcks(r)
    <3>1. \A i \in 1..Len(r) : (i \in 1..Len(q) /\ r[i] = q[i]) \/ i = Len(r)
      BY <2>1
    <3> QED BY <3>1 DEF OneAck, TwoAcks
  <2>4. Orderly(q, r)
    <3>1. Numbered(q) => Numbered(r)
      BY <2>3 DEF Numbered
    <3>2. \A lo, hi \in Int : Between(q, lo, hi) => Between(r, lo, hi)
      BY <2>3 DEF Between
    <3>3. Sorted(q) => Sorted(r)
      BY <2>3 DEF Sorted
    <3> QED BY <2>1, <3>1, <3>2, <3>3 DEF Orderly
  <2> QED BY <2>1, <2>2, <2>4, <2>5 DEF OneAck
<1> QED BY <1>3, <1>4, <1>5 DEF Put

\* A packet on the line: it arrives intact, or nothing that looks like one does.
LEMMA PutPacketCase ==
    ASSUME NEW q \in Seq(Tokens), NEW k \in 1..N, NEW r \in PutPacket(q, k)
    PROVE  Calm(q, r) \/ r = Append(q, [c |-> "packet", k |-> k])
<1>1. CASE r = q
  BY <1>1, CalmSame
<1>2. ASSUME NEW x \in {"packet"} \cup (PacketFates \ {"lost"}),
             r = Append(q, [c |-> x, k |-> k])
      PROVE  Calm(q, r) \/ r = Append(q, [c |-> "packet", k |-> k])
  <2>1. CASE x = "packet"
    BY <1>2, <2>1
  <2>2. CASE x # "packet"
    <3>1. x \in {"bad", "badno", "short", "stray"} /\ k \in 0..N
      BY <2>2, ConstAssumption
    <3>2. [c |-> x, k |-> k] \in Tokens /\ [c |-> x, k |-> k].c \notin {"ACK", "packet"}
      BY <3>1 DEF Tokens, PacketKinds
    <3> QED BY <1>2, <3>2, CalmAppend
  <2> QED BY <2>1, <2>2
<1>3. r = q \/ \E x \in {"packet"} \cup (PacketFates \ {"lost"}) : r = Append(q, [c |-> x, k |-> k])
  BY DEF PutPacket
<1> QED BY <1>1, <1>2, <1>3

\* The packet that is appended keeps the order if none on the line is behind it.
LEMMA AppendPacket ==
    ASSUME NEW q \in Seq(Tokens), NEW k \in 1..N
    PROVE  LET r == Append(q, [c |-> "packet", k |-> k])
           IN  /\ r \in Seq(Tokens)
               /\ Numbered(q) => Numbered(r)
               /\ \A lo \in Int : lo <= k /\ Between(q, lo, k) => Between(r, lo, k) /\ (Sorted(q) => Sorted(r))
<1> DEFINE t == [c |-> "packet", k |-> k]
<1> DEFINE r == Append(q, t)
<1>1. t \in Tokens /\ t.k = k
  BY DEF Tokens, PacketKinds
<1> HIDE DEF t
<1>2. /\ r \in Seq(Tokens) /\ Len(r) = Len(q) + 1 /\ Len(q) \in Nat
      /\ r[Len(q) + 1] = t
      /\ \A i \in 1..Len(q) : r[i] = q[i]
  BY <1>1
<1> HIDE DEF r
<1>3. \A i \in 1..Len(r) : (i \in 1..Len(q) /\ r[i] = q[i]) \/ (i = Len(r) /\ r[i] = t)
  BY <1>2
<1>4. Numbered(q) => Numbered(r)
  BY <1>1, <1>3 DEF Numbered
<1>5. \A lo \in Int : lo <= k /\ Between(q, lo, k) => Between(r, lo, k) /\ (Sorted(q) => Sorted(r))
  <2> SUFFICES ASSUME NEW lo \in Int, lo <= k, Between(q, lo, k)
               PROVE  Between(r, lo, k) /\ (Sorted(q) => Sorted(r))
    OBVIOUS
  <2>1. Between(r, lo, k)
    BY <1>1, <1>3 DEF Between
  <2>2. ASSUME Sorted(q), NEW i \in 1..Len(r), NEW j \in 1..Len(r),
               i < j, r[i].c = "packet", r[j].c = "packet"
        PROVE  r[i].k <= r[j].k
    <3>1. i \in 1..Len(q) /\ r[i] = q[i]
      BY <1>2, <1>3, <2>2
    <3>2. CASE j \in 1..Len(q) /\ r[j] = q[j]
      BY <2>2, <3>1, <3>2 DEF Sorted
    <3>3. CASE j = Len(r) /\ r[j] = t
      BY <1>1, <2>1, <2>2, <3>1, <3>3 DEF Between
    <3> QED BY <1>3, <3>2, <3>3
  <2> QED BY <2>1, <2>2 DEF Sorted
<1> QED BY <1>2, <1>4, <1>5 DEF r, t

\* The packet that is read was the first: none behind it comes before it.
LEMMA TailPacket ==
    ASSUME NEW q \in Seq(Tokens), q # <<>>, Head(q).c = "packet", Sorted(q),
           NEW lo \in Int, NEW hi \in Int, Between(q, lo, hi)
    PROVE  Between(Tail(q), Head(q).k, hi)
<1> DEFINE r == Tail(q)
<1>1. /\ r \in Seq(Tokens) /\ Len(r) = Len(q) - 1 /\ Len(q) \in Nat /\ Len(q) > 0 /\ q[1] = Head(q)
      /\ \A i \in 1..Len(r) : r[i] = q[i + 1]
  OBVIOUS
<1>2. \A i \in 1..Len(r) : i + 1 \in 1..Len(q) /\ 1 < i + 1 /\ 1 \in 1..Len(q) /\ r[i] = q[i + 1]
  BY <1>1
<1> HIDE DEF r
<1>3. Between(r, Head(q).k, hi)
  BY <1>1, <1>2 DEF Between, Sorted
<1> QED BY <1>3 DEF r

\* The only ACK is gone when it has been read.
LEMMA TailAck ==
    ASSUME NEW q \in Seq(Tokens), q # <<>>, Head(q).c = "ACK", OneAck(q)
    PROVE  NoAck(Tail(q))
<1> DEFINE r == Tail(q)
<1>1. /\ r \in Seq(Tokens) /\ Len(r) = Len(q) - 1 /\ Len(q) \in Nat /\ Len(q) > 0 /\ q[1] = Head(q)
      /\ \A i \in 1..Len(r) : r[i] = q[i + 1]
  OBVIOUS
<1>2. \A i \in 1..Len(r) : i + 1 \in 1..Len(q) /\ 1 # i + 1 /\ 1 \in 1..Len(q) /\ r[i] = q[i + 1]
  BY <1>1
<1> HIDE DEF r
<1>3. NoAck(r)
  BY <1>1, <1>2 DEF OneAck, NoAck
<1> QED BY <1>3 DEF r

\* One of two is left.
LEMMA TailTwoAcks ==
    ASSUME NEW q \in Seq(Tokens), q # <<>>, TwoAcks(q)
    PROVE  TwoAcks(Tail(q)) /\ (Head(q).c = "ACK" => OneAck(Tail(q)))
<1> DEFINE r == Tail(q)
<1>1. /\ r \in Seq(Tokens) /\ Len(r) = Len(q) - 1 /\ Len(q) \in Nat /\ Len(q) > 0 /\ q[1] = Head(q)
      /\ \A i \in 1..Len(r) : r[i] = q[i + 1]
  OBVIOUS
<1>2. \A i \in 1..Len(r) : i \in Int /\ i + 1 \in 1..Len(q) /\ 1 # i + 1 /\ 1 \in 1..Len(q) /\ r[i] = q[i + 1]
  BY <1>1
<1> HIDE DEF r
<1>3. TwoAcks(r)
  <2>1. ASSUME NEW i \in 1..Len(r), NEW j \in 1..Len(r), NEW k \in 1..Len(r),
               r[i].c = "ACK", r[j].c = "ACK", r[k].c = "ACK"
        PROVE  i = j \/ j = k \/ i = k
    <3>1. i + 1 = j + 1 \/ j + 1 = k + 1 \/ i + 1 = k + 1
      BY <1>2, <2>1, Zenon DEF TwoAcks
    <3>2. i \in Int /\ j \in Int /\ k \in Int
      BY <1>2
    <3> QED BY <3>1, <3>2
  <2> QED BY <2>1, Zenon DEF TwoAcks
<1>4. ASSUME Head(q).c = "ACK"
      PROVE  OneAck(r)
  <2>1. ASSUME NEW i \in 1..Len(r), NEW j \in 1..Len(r), r[i].c = "ACK", r[j].c = "ACK"
        PROVE  i = j
    <3>1. i + 1 = j + 1
      BY <1>1, <1>2, <1>4, <2>1, Zenon DEF TwoAcks
    <3>2. i \in Int /\ j \in Int
      BY <1>2
    <3> QED BY <3>1, <3>2
  <2> QED BY <2>1, Zenon DEF OneAck
<1> QED BY <1>3, <1>4 DEF r

-----------------------------------------------------------------------------
(* What a step of the sender does, apart from where it goes.                *)

SenderTypes ==
    /\ spc' \in {"off", "sync", "sync_can", "send", "wait", "wait_can", "eot_wait", "end"}
    /\ stry' \in Nat
    /\ sres' \in {"run", "ok", "nosync", "cancel", "xmit", "eotfail"}
    /\ spc' \in {"wait", "wait_can"} => slen' < N

\* It reads or leaves the line to it and puts nothing of weight on the other one,
\* or sends the packet after the last acknowledged one, or reads an ACK.
SenderActs ==
    /\ SenderTypes
    /\ Calm(toS, toS')
    /\ \/ Orderly(toR, toR') /\ slen' = slen
       \/ slen < N /\ slen' = slen /\ toR' = Append(toR, [c |-> "packet", k |-> slen + 1])
       \/ /\ toS # <<>> /\ Head(toS).c = "ACK" /\ toS' = Tail(toS)
          /\ slen < N /\ slen' = slen + 1 /\ toR' = toR

LEMMA GetsCalm ==
    ASSUME TypeInv, NEW c, SGets(c)
    PROVE  Calm(toS, toS')
<1>1. toS \in Seq(Tokens)
  BY DEF TypeInv, TypeOK
<1> QED BY <1>1, CalmSame, CalmTail DEF SGets

\* A used-up try: the loop goes on, or three CANs and the end.
LEMMA RetryCalm ==
    ASSUME TypeInv, NEW limit, NEW again, NEW res, SRetry(limit, again, res)
    PROVE  /\ Orderly(toR, toR')
           /\ spc' \in {again, "end"} /\ stry' \in Nat /\ sres' \in {sres, res}
<1>1. toR \in Seq(Tokens) /\ stry \in Nat
  BY DEF TypeInv, TypeOK
<1>2. CASE Tried(stry) < limit
  BY <1>1, <1>2 DEF SRetry, Tried, Orderly
<1>3. CASE ~(Tried(stry) < limit)
  BY <1>1, <1>3, PutCansCalm DEF SRetry, SEnd, Calm
<1> QED BY <1>2, <1>3

LEMMA CanCalm ==
    ASSUME TypeInv, NEW limit, NEW again, NEW res, SCan(limit, again, res)
    PROVE  /\ Calm(toS, toS') /\ Orderly(toR, toR')
           /\ spc' \in {again, "end"} /\ stry' \in Nat /\ sres' \in {sres, "cancel", res}
<1>1. toR \in Seq(Tokens)
  BY DEF TypeInv, TypeOK
<1>2. PICK c \in {"none", "C", "ACK", "NAK", "CAN", "noise"} :
          /\ SGets(c)
          /\ IF c = "CAN" THEN SEnd("cancel") /\ toR' \in Put(toR, "ACK")
                          ELSE SRetry(limit, again, res)
  BY DEF SCan
<1>3. Calm(toS, toS')
  BY <1>2, GetsCalm
<1>4. CASE c = "CAN"
  BY <1>1, <1>2, <1>3, <1>4, PutAck DEF SEnd
<1>5. CASE c # "CAN"
  BY <1>2, <1>3, <1>5, RetryCalm
<1> QED BY <1>4, <1>5

\* It reads at most one character, and returns only at its end: success after an
\* ACK of its EOT.
LEMMA RetryEnds ==
    ASSUME NEW limit, NEW again, NEW res, SRetry(limit, again, res), sres = "run",
           again # "eot_wait", res # "ok"
    PROVE  /\ spc' # "eot_wait" /\ sres' # "ok"
           /\ spc' # "end" => sres' = "run"
BY DEF SRetry, SEnd

LEMMA CanEnds ==
    ASSUME NEW limit, NEW again, NEW res, SCan(limit, again, res), sres = "run",
           again # "eot_wait", res # "ok"
    PROVE  /\ spc' # "eot_wait" /\ sres' # "ok"
           /\ spc' # "end" => sres' = "run"
BY RetryEnds DEF SCan, SEnd

LEMMA SenderReads ==
    ASSUME Sender
    PROVE  toS' = toS \/ (toS # <<>> /\ toS' = Tail(toS))
BY DEF Sender, SStart, SSync, SSyncCan, SSend, SWait, SWaitCan, SEot, SEotWait, SCan, SGets

LEMMA SenderEnds ==
    ASSUME SendingInv, Sender
    PROVE  /\ SendingInv' /\ sres = "run"
           /\ sres' = "ok" => slen = N /\ toS # <<>> /\ Head(toS).c = "ACK"
<1>1. sres = "run"
  BY DEF SendingInv, Sender, SStart, SSync, SSyncCan, SSend, SWait, SWaitCan, SEot, SEotWait
<1>2. CASE SStart
  BY <1>1, <1>2 DEF SStart, SendingInv
<1>3. CASE SSync
  <2>1. PICK c \in {"none", "C", "CAN", "noise"} :
            CASE c = "C" -> spc' = "send" /\ stry' = 0 /\ UNCHANGED <<toR, sres>>
              [] c = "CAN" -> spc' = "sync_can" /\ UNCHANGED <<toR, stry, sres>>
              [] OTHER -> SRetry(MaxSync, "sync", "nosync")
    BY <1>3 DEF SSync
  <2>2. (sres' = "run" /\ spc' \in {"send", "sync_can"}) \/ SRetry(MaxSync, "sync", "nosync")
    BY <1>1, <2>1
  <2> QED BY <1>1, <2>2, RetryEnds DEF SendingInv
<1>4. CASE SSyncCan
  BY <1>1, <1>4, CanEnds DEF SSyncCan, SendingInv
<1>5. CASE SSend
  BY <1>1, <1>5 DEF SSend, SendingInv
<1>6. CASE SWait
  <2>1. PICK c \in {"none", "C", "ACK", "NAK", "CAN", "noise"} :
            CASE Acknowledged(c) ->
                      spc' = "send" /\ stry' = 0 /\ slen' = slen + 1 /\ UNCHANGED <<toR, sres>>
              [] c = "CAN" -> spc' = "wait_can" /\ UNCHANGED <<toR, stry, slen, sres>>
              [] OTHER -> SRetry(MaxRetrans, "send", "xmit") /\ UNCHANGED slen
    BY <1>6 DEF SWait
  <2>2. (sres' = "run" /\ spc' \in {"send", "wait_can"}) \/ SRetry(MaxRetrans, "send", "xmit")
    BY <1>1, <2>1 DEF Acknowledged
  <2> QED BY <1>1, <2>2, RetryEnds DEF SendingInv
<1>7. CASE SWaitCan
  BY <1>1, <1>7, CanEnds DEF SWaitCan, SendingInv
<1>8. CASE SEot
  BY <1>1, <1>8 DEF SEot, SendingInv
<1>9. CASE SEotWait
  <2>1. PICK c \in {"none", "C", "ACK", "NAK", "CAN", "noise"} :
            /\ SGets(c)
            /\ IF EotDone(c) THEN SEnd("ok")
               ELSE IF Tried(stry) < MaxEot
               THEN spc' = "send" /\ stry' = Tried(stry) /\ UNCHANGED sres
               ELSE SEnd("eotfail")
    BY <1>9 DEF SEotWait
  <2>2. slen = N
    BY <1>9 DEF SEotWait, SendingInv
  <2>3. CASE c = "ACK"
    BY <1>1, <2>1, <2>2, <2>3 DEF EotDone, SEnd, SGets, SendingInv
  <2>4. CASE c # "ACK"
    BY <1>1, <2>1, <2>4 DEF EotDone, SEnd, SendingInv
  <2> QED BY <2>3, <2>4
<1> QED BY <1>1, <1>2, <1>3, <1>4, <1>5, <1>6, <1>7, <1>8, <1>9 DEF Sender

LEMMA SenderStep ==
    ASSUME TypeInv, Sender
    PROVE  SenderActs /\ UNCHANGED rvars
<1>1. /\ toR \in Seq(Tokens) /\ toS \in Seq(Tokens)
      /\ spc \in {"off", "sync", "sync_can", "send", "wait", "wait_can", "eot_wait", "end"}
      /\ stry \in Nat /\ slen \in 0..N
      /\ sres \in {"run", "ok", "nosync", "cancel", "xmit", "eotfail"}
      /\ spc \in {"wait", "wait_can"} => slen < N
  BY DEF TypeInv, TypeOK
<1>2. Calm(toS, toS) /\ Orderly(toR, toR)
  BY <1>1, CalmSame DEF Calm
<1>3. CASE SStart
  BY <1>1, <1>2, <1>3 DEF SStart, SenderActs, SenderTypes
<1>4. CASE SSync
  <2>1. PICK c \in {"none", "C", "CAN", "noise"} :
            /\ SGets(c)
            /\ CASE c = "C" -> spc' = "send" /\ stry' = 0 /\ UNCHANGED <<toR, sres>>
                 [] c = "CAN" -> spc' = "sync_can" /\ UNCHANGED <<toR, stry, sres>>
                 [] OTHER -> SRetry(MaxSync, "sync", "nosync")
    BY <1>4 DEF SSync
  <2>2. Calm(toS, toS') /\ slen' = slen /\ UNCHANGED rvars
    BY <1>4, <2>1, GetsCalm DEF SSync
  <2>3. CASE c \in {"C", "CAN"}
    BY <1>1, <1>2, <2>1, <2>2, <2>3 DEF SenderActs, SenderTypes
  <2>4. CASE c \in {"none", "noise"}
    <3>1. SRetry(MaxSync, "sync", "nosync")
      BY <2>1, <2>4
    <3> QED BY <1>1, <2>2, <3>1, RetryCalm DEF SenderActs, SenderTypes
  <2> QED BY <2>3, <2>4
<1>5. CASE SSyncCan
  <2>1. SCan(MaxSync, "sync", "nosync") /\ slen' = slen /\ UNCHANGED rvars
    BY <1>5 DEF SSyncCan
  <2> QED BY <1>1, <2>1, CanCalm DEF SenderActs, SenderTypes
<1>6. CASE SSend
  <2>1. slen < N /\ toR' \in PutPacket(toR, slen + 1) /\ slen + 1 \in 1..N
    BY <1>1, <1>6, ConstAssumption DEF SSend
  <2>2. Calm(toR, toR') \/ toR' = Append(toR, [c |-> "packet", k |-> slen + 1])
    BY <1>1, <2>1, PutPacketCase
  <2>3. SenderTypes /\ slen' = slen /\ toS' = toS /\ UNCHANGED rvars
    BY <1>1, <1>6 DEF SSend, SenderTypes
  <2> QED BY <1>2, <2>1, <2>2, <2>3 DEF SenderActs, Calm
<1>7. CASE SWait
  <2>1. PICK c \in {"none", "C", "ACK", "NAK", "CAN", "noise"} :
            /\ SGets(c)
            /\ CASE Acknowledged(c) ->
                      spc' = "send" /\ stry' = 0 /\ slen' = slen + 1 /\ UNCHANGED <<toR, sres>>
                 [] c = "CAN" -> spc' = "wait_can" /\ UNCHANGED <<toR, stry, slen, sres>>
                 [] OTHER -> SRetry(MaxRetrans, "send", "xmit") /\ UNCHANGED slen
    BY <1>7 DEF SWait
  <2>2. Calm(toS, toS') /\ slen < N /\ UNCHANGED rvars
    BY <1>1, <1>7, <2>1, GetsCalm DEF SWait
  <2>3. CASE c = "ACK"
    <3>1. toS # <<>> /\ Head(toS).c = "ACK" /\ toS' = Tail(toS)
      BY <2>1, <2>3 DEF SGets
    <3>2. SenderTypes /\ slen' = slen + 1 /\ toR' = toR
      BY <1>1, <2>1, <2>3 DEF SenderTypes, Acknowledged
    <3> QED BY <2>2, <3>1, <3>2 DEF SenderActs
  <2>4. CASE c = "CAN"
    <3>1. SenderTypes /\ slen' = slen /\ toR' = toR
      BY <1>1, <2>1, <2>2, <2>4 DEF SenderTypes, Acknowledged
    <3> QED BY <1>2, <2>2, <3>1 DEF SenderActs
  <2>5. CASE c \in {"none", "C", "NAK", "noise"}
    <3>1. SRetry(MaxRetrans, "send", "xmit") /\ slen' = slen
      BY <2>1, <2>5 DEF Acknowledged
    <3> QED BY <1>1, <2>2, <3>1, RetryCalm DEF SenderActs, SenderTypes
  <2> QED BY <2>3, <2>4, <2>5
<1>8. CASE SWaitCan
  <2>1. SCan(MaxRetrans, "send", "xmit") /\ slen' = slen /\ UNCHANGED rvars
    BY <1>8 DEF SWaitCan
  <2> QED BY <1>1, <2>1, CanCalm DEF SenderActs, SenderTypes
<1>9. CASE SEot
  <2>1. Calm(toR, toR')
    BY <1>1, <1>9, PutCalm DEF SEot
  <2>2. SenderTypes /\ slen' = slen /\ toS' = toS /\ UNCHANGED rvars
    BY <1>1, <1>9 DEF SEot, SenderTypes
  <2> QED BY <1>2, <2>1, <2>2 DEF SenderActs, Calm
<1>10. CASE SEotWait
  <2>1. PICK c \in {"none", "C", "ACK", "NAK", "CAN", "noise"} :
            /\ SGets(c)
            /\ IF EotDone(c) THEN SEnd("ok")
               ELSE IF Tried(stry) < MaxEot
               THEN spc' = "send" /\ stry' = Tried(stry) /\ UNCHANGED sres
               ELSE SEnd("eotfail")
    BY <1>10 DEF SEotWait
  <2>2. Calm(toS, toS') /\ slen' = slen /\ toR' = toR /\ UNCHANGED rvars
    BY <1>10, <2>1, GetsCalm DEF SEotWait
  <2>3. SenderTypes
    BY <1>1, <2>1 DEF SenderTypes, SEnd, Tried
  <2> QED BY <1>2, <2>2, <2>3 DEF SenderActs
<1> QED BY <1>3, <1>4, <1>5, <1>6, <1>7, <1>8, <1>9, <1>10 DEF Sender

-----------------------------------------------------------------------------
(* What a step of the receiver does, apart from where it goes.              *)

Stored == Seq([k : 1..N, good : BOOLEAN])

ReceiverTypes ==
    /\ rpc' \in {"off", "try", "get", "short", "end"}
    /\ rtry' \in Nat
    /\ rres' \in {"run", "ok", "flash", "cancel", "timeout", "sync", "number"}
    /\ rres' # "run" => rpc' = "end"

\* It stores nothing; if it answers with ACK it ends.
RAnswers ==
    /\ ReceiverTypes
    /\ UNCHANGED <<rno, flash>>
    /\ \/ Calm(toS, toS') /\ rres' \in {rres, "timeout", "sync", "number"}
       \/ toS' \in Put(toS, "ACK") /\ rres' \in {"ok", "flash", "cancel"}

\* It accepts the packet it expects.
RStores ==
    /\ toR # <<>> /\ Head(toR).c = "packet" /\ No(Head(toR).k) = rno
    /\ toR' = Tail(toR)
    /\ RAccept

ReceiverActs ==
    /\ Orderly(toR, toR')
    /\ RAnswers \/ (RStores /\ ReceiverTypes)

\* How the loops and the packets of XmodemRecv end.
LEMMA NothingAnswers ==
    ASSUME TypeInv, rres = "run", RNothing, UNCHANGED <<rno, flash>>
    PROVE  RAnswers
<1>1. toS \in Seq(Tokens) /\ rtry \in Nat /\ Calm(toS, toS)
      /\ rres \in {"run", "ok", "flash", "cancel", "timeout", "sync", "number"}
  BY CalmSame DEF TypeInv, TypeOK
<1>2. CASE Tried(rtry) < MaxTry
  <2>1. rpc' = "try" /\ rtry' = rtry + 1 /\ toS' = toS /\ rres' = rres
    BY <1>2 DEF RNothing, Tried
  <2> QED BY <1>1, <2>1 DEF RAnswers, ReceiverTypes
<1>3. CASE ~(Tried(rtry) < MaxTry)
  <2>1. rpc' = "end" /\ rtry' = 0 /\ toS' \in PutCans(toS) /\ rres' \in {"timeout", "sync"}
    BY <1>3 DEF RNothing, REnd
  <2>2. Calm(toS, toS')
    BY <1>1, <2>1, PutCansCalm
  <2> QED BY <2>1, <2>2 DEF RAnswers, ReceiverTypes
<1> QED BY <1>2, <1>3

LEMMA EndAnswers ==
    ASSUME ROver \/ RCancel, UNCHANGED <<rno, flash>>
    PROVE  RAnswers
<1>1. rpc' = "end" /\ rtry' = 0 /\ toS' \in Put(toS, "ACK") /\ rres' \in {"ok", "flash", "cancel"}
  BY DEF ROver, RCancel, REnd
<1> QED BY <1>1 DEF RAnswers, ReceiverTypes

LEMMA RefuseAnswers ==
    ASSUME TypeInv, rres = "run", RNak \/ RWrongNo
    PROVE  RAnswers
<1>1. toS \in Seq(Tokens)
      /\ rres \in {"run", "ok", "flash", "cancel", "timeout", "sync", "number"}
  BY DEF TypeInv, TypeOK
<1>2. CASE RNak
  <2>1. rpc' = "try" /\ rtry' = 0 /\ toS' \in Put(toS, "NAK") /\ rres' = rres /\ UNCHANGED <<rno, flash>>
    BY <1>2 DEF RNak
  <2>2. Calm(toS, toS')
    BY <1>1, <2>1, PutCalm
  <2> QED BY <1>1, <2>1, <2>2 DEF RAnswers, ReceiverTypes
<1>3. CASE RWrongNo
  <2>1. rpc' = "end" /\ rtry' = 0 /\ toS' \in PutCans(toS) /\ rres' = "number" /\ UNCHANGED <<rno, flash>>
    BY <1>3 DEF RWrongNo, REnd
  <2>2. Calm(toS, toS')
    BY <1>1, <2>1, PutCansCalm
  <2> QED BY <2>1, <2>2 DEF RAnswers, ReceiverTypes
<1> QED BY <1>2, <1>3

\* It waits for the rest of a packet.
LEMMA WaitAnswers ==
    ASSUME TypeInv, rres = "run", rpc' \in {"get", "short"}, rtry' \in {rtry, 0}, Calm(toS, toS'),
           UNCHANGED <<rno, flash, rres>>
    PROVE  RAnswers
<1>1. rtry \in Nat /\ rres \in {"run", "ok", "flash", "cancel", "timeout", "sync", "number"}
  BY DEF TypeInv, TypeOK
<1> QED BY <1>1 DEF RAnswers, ReceiverTypes

LEMMA ReceiverStep ==
    ASSUME TypeInv, Receiver
    PROVE  rres = "run" /\ ReceiverActs /\ UNCHANGED svars
<1>1. /\ toR \in Seq(Tokens) /\ toS \in Seq(Tokens) /\ rtry \in Nat
      /\ rpc \in {"off", "try", "get", "short", "end"}
      /\ rres \in {"run", "ok", "flash", "cancel", "timeout", "sync", "number"}
  BY DEF TypeInv, TypeOK
<1>run. rres = "run"
  <2>1. rpc # "end"
    BY DEF Receiver, RStart, RTry, RTimeout, RChar, RStray, RPacket, RShort, RShortTimeout, RShortFill
  <2> QED BY <2>1 DEF TypeInv
<1>2. Calm(toS, toS) /\ Orderly(toR, toR)
  BY <1>1, CalmSame DEF Calm
<1>3. toR # <<>> => Orderly(toR, Tail(toR))
  BY <1>1, CalmTail DEF Calm
<1>4. toR # <<>> => Orderly(toR, <<[Head(toR) EXCEPT !.c = "stray"]>> \o Tail(toR))
  BY <1>1, CalmStray DEF Calm
<1>5. CASE RStart
  <2>1. rpc' = "try" /\ UNCHANGED <<toR, toS, svars, rtry, rno, flash, rres>>
    BY <1>5 DEF RStart
  <2> QED BY <1>run, <1>1, <1>2, <2>1 DEF ReceiverActs, RAnswers, ReceiverTypes
<1>6. CASE RTry
  <2>1. /\ rpc' = "get" /\ UNCHANGED <<toR, svars, rtry, rno, flash, rres>>
        /\ toS' = toS \/ toS' \in Put(toS, "C")
    BY <1>6 DEF RTry
  <2>2. Calm(toS, toS')
    BY <1>1, <1>2, <2>1, PutCalm
  <2> QED BY <1>run, <1>2, <2>1, <2>2, WaitAnswers DEF ReceiverActs
<1>7. CASE RTimeout
  <2>1. RNothing /\ UNCHANGED <<toR, svars, rno, flash>>
    BY <1>7 DEF RTimeout
  <2> QED BY <1>run, <1>2, <2>1, NothingAnswers DEF ReceiverActs
<1>8. CASE RChar
  <2>1. /\ toR # <<>> /\ toR' = Tail(toR) /\ UNCHANGED <<svars, rno, flash>>
        /\ ROver \/ RCancel \/ RNothing
    BY <1>8 DEF RChar
  <2> QED BY <1>run, <1>3, <2>1, NothingAnswers, EndAnswers DEF ReceiverActs
<1>9. CASE RStray
  <2>1. /\ toR # <<>> /\ toR' \in {toR, Tail(toR)} /\ UNCHANGED <<svars, rno, flash>>
        /\ \/ RNothing \/ ROver \/ RCancel
           \/ rpc' = "short" /\ rtry' = 0 /\ UNCHANGED <<toS, rres>>
    BY <1>9 DEF RStray
  <2>2. RAnswers
    BY <1>run, <1>2, <2>1, NothingAnswers, EndAnswers, WaitAnswers
  <2> QED BY <1>run, <1>2, <1>3, <2>1, <2>2 DEF ReceiverActs
<1>10. CASE RPacket
  <2>1. toR # <<>> /\ toR' = Tail(toR) /\ UNCHANGED svars /\ Head(toR).c \in {"packet", "bad", "badno"}
    BY <1>10 DEF RPacket
  <2>2. CASE RNak \/ RWrongNo
    BY <1>run, <1>3, <2>1, <2>2, RefuseAnswers DEF ReceiverActs
  <2>3. CASE ~(RNak \/ RWrongNo)
    <3>1. RAccept /\ Head(toR).c = "packet" /\ No(Head(toR).k) = rno
      BY <1>10, <2>1, <2>3 DEF RPacket, Expected
    <3>2. rpc' = "try" /\ rtry' = 0 /\ rres' = rres
      BY <3>1 DEF RAccept
    <3> QED BY <1>run, <1>1, <1>3, <2>1, <3>1, <3>2 DEF ReceiverActs, RStores, ReceiverTypes
  <2> QED BY <2>2, <2>3
<1>11. CASE RShort
  <2>1. /\ toR # <<>> /\ toR' = Tail(toR) /\ rpc' = "short" /\ rtry' = 0
        /\ UNCHANGED <<toS, svars, rno, flash, rres>>
    BY <1>11 DEF RShort
  <2> QED BY <1>run, <1>2, <1>3, <2>1, WaitAnswers DEF ReceiverActs
<1>12. CASE RShortTimeout
  <2>1. RNak /\ UNCHANGED <<toR, svars>>
    BY <1>12 DEF RShortTimeout
  <2> QED BY <1>run, <1>2, <2>1, RefuseAnswers DEF ReceiverActs
<1>13. CASE RShortFill
  <2>1. toR # <<>> /\ rpc = "short" /\ UNCHANGED svars
    BY <1>13 DEF RShortFill
  <2>2. CASE toR' = Tail(toR) /\ UNCHANGED <<toS, rvars>>
    <3>1. UNCHANGED <<rpc, rtry, rno, flash, rres>>
      BY <2>2 DEF rvars
    <3> QED BY <1>run, <1>2, <1>3, <2>1, <2>2, <3>1, WaitAnswers DEF ReceiverActs
  <2>3. CASE /\ \/ toR' = Tail(toR)
                \/ toR' = <<[Head(toR) EXCEPT !.c = "stray"]>> \o Tail(toR)
             /\ RNak \/ RWrongNo
    BY <1>run, <1>3, <1>4, <2>1, <2>3, RefuseAnswers DEF ReceiverActs
  <2> QED BY <1>13, <2>2, <2>3 DEF RShortFill
<1> QED BY <1>run, <1>5, <1>6, <1>7, <1>8, <1>9, <1>10, <1>11, <1>12, <1>13 DEF Receiver

-----------------------------------------------------------------------------
(* Packet numbers.                                                          *)

LEMMA Division ==
    ASSUME NEW m \in Nat \ {0, 1}, NEW n \in Nat
    PROVE  /\ n = (m * (n \div m)) + (n % m)
           /\ n \div m \in Int /\ n % m \in 0..m - 1
OBVIOUS

LEMMA NoMultiple ==
    ASSUME NEW m \in Nat \ {0, 1}, NEW d \in Int
    PROVE  m * d # 1
<1>1. CASE d <= 0
  BY <1>1
<1>2. CASE d >= 1
  BY <1>2
<1> QED BY <1>1, <1>2

\* A repeated packet and the next one never carry the same number.
LEMMA NoDiffers ==
    ASSUME NEW n \in Nat
    PROVE  No(n) # No(n + 1)
<1> DEFINE m == NoMod
<1> DEFINE r == n % m
<1> DEFINE a == n \div m
<1> DEFINE b == (n + 1) \div m
<1>1. m \in Nat \ {0, 1}
  BY ConstAssumption
<1>2. n = (m * a) + r /\ a \in Int /\ r \in Int /\ b \in Int
  BY <1>1, Division, n + 1 \in Nat
<1>3. ASSUME r = (n + 1) % m PROVE n + 1 = (m * b) + r
  BY <1>1, <1>3, Division, n + 1 \in Nat
<1>4. m * a \in Int /\ m * b \in Int /\ m * (b - a) = (m * b) - (m * a)
  BY <1>1, <1>2
<1> HIDE DEF r, a, b
<1>5. ASSUME r = (n + 1) % m PROVE m * (b - a) = 1
  BY <1>2, <1>3, <1>4, <1>5
<1>6. r # (n + 1) % m
  BY <1>1, <1>2, <1>5, NoMultiple
<1> QED BY <1>6 DEF No, r

\* Counting modulo NoMod is counting.
LEMMA NoCounts ==
    ASSUME NEW n \in Nat, rno = No(n)
    PROVE  NextNo = No(n + 1) /\ NextNo \in 0..NoMod - 1
<1> DEFINE m == NoMod
<1> DEFINE r == n % m
<1> DEFINE a == n \div m
<1> DEFINE s == (r + 1) % m
<1> DEFINE c == (r + 1) \div m
<1> DEFINE t == (n + 1) % m
<1> DEFINE d == (n + 1) \div m
<1>1. m \in Nat \ {0, 1}
  BY ConstAssumption
<1>2. n = (m * a) + r /\ a \in Int /\ r \in 0..m - 1
  BY <1>1, Division
<1>3. n + 1 = (m * a) + (r + 1) /\ m * a \in Int
  BY <1>1, <1>2
<1>4. r + 1 = (m * c) + s /\ c \in Int /\ s \in 0..m - 1
  BY <1>1, <1>2, Division, r + 1 \in Nat
<1>5. n + 1 = (m * d) + t /\ d \in Int /\ t \in 0..m - 1
  BY <1>1, Division, n + 1 \in Nat
<1> HIDE DEF r, a, s, c, t, d, m
<1>6. m * (d - (a + c)) = s - t
  BY <1>1, <1>2, <1>3, <1>4, <1>5
<1>7. d - (a + c) = 0
  <2>1. CASE d - (a + c) >= 1
    BY <1>1, <1>2, <1>4, <1>5, <1>6, <2>1
  <2>2. CASE d - (a + c) <= -1
    BY <1>1, <1>2, <1>4, <1>5, <1>6, <2>2
  <2> QED BY <1>2, <1>4, <1>5, <2>1, <2>2
<1>8. s = t
  BY <1>1, <1>4, <1>5, <1>6, <1>7
<1> QED BY <1>4, <1>8 DEF No, NextNo, s, t, r, m

-----------------------------------------------------------------------------
(* The types.                                                               *)

LEMMA FlagTypes ==
    ASSUME TypeInv, Receiver
    PROVE  started' \in BOOLEAN /\ rerr' \in BOOLEAN
<1>1. started \in BOOLEAN /\ rerr \in BOOLEAN
  BY DEF TypeInv, TypeOK
<1>2. CASE RStart \/ RTry
  BY <1>1, <1>2, Zenon DEF RStart, RTry
<1>3. CASE RTimeout
  BY <1>1, <1>3, Zenon DEF RTimeout, RNothing
<1>4. CASE RChar
  <2>1. started' = started /\ rerr' = rerr
    BY <1>4 DEF RChar, ROver, RCancel, RNothing
  <2> QED BY <1>1, <2>1, Zenon
<1>5. CASE RStray
  BY <1>1, <1>5, Zenon DEF RStray, ROver, RCancel, RNothing
<1>6. CASE RPacket
  <2>1. RWrongNo \/ RNak \/ RAccept
    BY <1>6, Zenon DEF RPacket
  <2>2. started' = TRUE /\ (RWrongNo \/ RNak => rerr' = rerr)
    BY <2>1, Zenon DEF RWrongNo, RNak, RAccept
  <2>3. CASE RAccept
    <3>1. CASE Len(flash) < Cap
      <4>1. PICK w \in Written(Head(toR).k) : rerr' \in IF w.good THEN {FALSE} ELSE BOOLEAN
        BY <2>3, <3>1, Zenon DEF RAccept
      <4> QED BY <2>2, <4>1, Zenon
    <3>2. CASE ~(Len(flash) < Cap)
      BY <1>1, <2>2, <2>3, <3>2, Zenon DEF RAccept
    <3> QED BY <3>1, <3>2, Zenon
  <2> QED BY <1>1, <2>1, <2>2, <2>3, Zenon
<1>7. CASE RShort
  BY <1>1, <1>7, Zenon DEF RShort
<1>8. CASE RShortTimeout
  BY <1>1, <1>8, Zenon DEF RShortTimeout, RNak
<1>9. CASE RShortFill
  <2>1. (RNak \/ RWrongNo) \/ UNCHANGED rvars
    BY <1>9, Zenon DEF RShortFill
  <2>2. started' \in {TRUE, started} /\ rerr' = rerr
    BY <2>1 DEF RNak, RWrongNo, rvars
  <2> QED BY <1>1, <2>2, Zenon
<1> QED BY <1>2, <1>3, <1>4, <1>5, <1>6, <1>7, <1>8, <1>9, Zenon DEF Receiver

\* What is programmed, well or not, is a packet.
LEMMA WrittenTypes ==
    ASSUME NEW k \in 1..N, NEW w \in Written(k)
    PROVE  w \in [k : 1..N, good : BOOLEAN]
<1>1. w \in {[k |-> k, good |-> TRUE], [k |-> k, good |-> FALSE]}
  BY Zenon DEF Written
<1>2. /\ [k |-> k, good |-> TRUE] \in [k : 1..N, good : BOOLEAN]
      /\ [k |-> k, good |-> FALSE] \in [k : 1..N, good : BOOLEAN]
  OBVIOUS
<1> QED BY <1>1, <1>2, Zenon

\* What the flash holds and the next number after a step of the receiver.
LEMMA StoreTypes ==
    ASSUME TypeInv, ReceiverActs
    PROVE  flash' \in Stored /\ rno' \in 0..NoMod - 1 /\ toS' \in Seq(Tokens)
<1>1. /\ flash \in Stored /\ rno \in 0..NoMod - 1 /\ toS \in Seq(Tokens)
      /\ toR \in Seq(Tokens) /\ Numbered(toR)
  BY DEF TypeInv, TypeOK, Stored
<1>2. CASE RAnswers
  <2>1. toS' \in Seq(Tokens)
    BY <1>1, <1>2, PutAck DEF RAnswers, Calm, Orderly
  <2> QED BY <1>1, <1>2, <2>1 DEF RAnswers
<1>3. CASE RStores
  <2>1. Head(toR).k \in 1..N
    <3>1. 1 \in 1..Len(toR) /\ toR[1] = Head(toR) /\ Head(toR).c = "packet"
      BY <1>1, <1>3 DEF RStores
    <3> QED BY <1>1, <3>1 DEF Numbered
  <2>2. flash' \in Stored
    <3>1. CASE Len(flash) < Cap
      <4>1. PICK w \in Written(Head(toR).k) : flash' = Append(flash, w)
        BY <1>3, <3>1 DEF RStores, RAccept
      <4>2. w \in [k : 1..N, good : BOOLEAN]
        BY <2>1, WrittenTypes
      <4> QED BY <1>1, <4>1, <4>2 DEF Stored
    <3>2. CASE ~(Len(flash) < Cap)
      BY <1>1, <1>3, <3>2 DEF RStores, RAccept
    <3> QED BY <3>1, <3>2
  <2>3. rno' = NextNo /\ toS' \in Put(toS, "ACK")
    BY <1>3 DEF RStores, RAccept
  <2>4. NextNo \in 0..NoMod - 1
    BY <1>1, ConstAssumption, Division, rno + 1 \in Nat DEF NextNo
  <2>5. toS' \in Seq(Tokens)
    BY <1>1, <2>3, PutAck DEF Orderly
  <2> QED BY <2>2, <2>3, <2>4, <2>5
<1> QED BY <1>2, <1>3 DEF ReceiverActs

LEMMA TypeInit == Init => TypeInv
<1> SUFFICES ASSUME Init PROVE TypeInv
  OBVIOUS
<1>1. 1 % NoMod \in 0..NoMod - 1
  BY ConstAssumption, Division
<1>2. Numbered(toR) /\ toR \in Seq(Tokens) /\ toS \in Seq(Tokens)
  BY DEF Init, Numbered
<1>3. flash \in Seq([k : 1..N, good : BOOLEAN]) /\ slen \in 0..N
  BY ConstAssumption DEF Init
<1>4. started \in BOOLEAN /\ rerr \in BOOLEAN
  BY DEF Init
<1>5. /\ spc = "off" /\ stry = 0 /\ sres = "run" /\ rpc = "off" /\ rtry = 0
      /\ rno = 1 % NoMod /\ rres = "run"
  BY DEF Init, No
<1> QED BY <1>1, <1>2, <1>3, <1>4, <1>5 DEF TypeInv, TypeOK

LEMMA TypeStep == TypeInv /\ [Next]_vars => TypeInv'
<1> SUFFICES ASSUME TypeInv, [Next]_vars PROVE TypeInv'
  OBVIOUS
<1>1. CASE Sender
  <2>1. SenderActs /\ UNCHANGED rvars
    BY <1>1, SenderStep
  <2>2. /\ toR \in Seq(Tokens) /\ toS \in Seq(Tokens) /\ Numbered(toR) /\ slen \in 0..N
    BY DEF TypeInv, TypeOK
  <2>3. toS' \in Seq(Tokens)
    BY <2>1 DEF SenderActs, Calm, Orderly
  <2>4. toR' \in Seq(Tokens) /\ Numbered(toR') /\ slen' \in 0..N
    <3>1. CASE Orderly(toR, toR') /\ slen' = slen
      BY <2>2, <3>1 DEF Orderly
    <3>2. CASE slen < N /\ slen' = slen /\ toR' = Append(toR, [c |-> "packet", k |-> slen + 1])
      <4>1. slen + 1 \in 1..N
        BY <2>2, <3>2, ConstAssumption
      <4> QED BY <2>2, <3>2, <4>1, AppendPacket
    <3>3. CASE slen < N /\ slen' = slen + 1 /\ toR' = toR
      BY <2>2, <3>3, ConstAssumption
    <3> QED BY <2>1, <3>1, <3>2, <3>3 DEF SenderActs
  <2>5. Numbered(toR)'
    BY <2>4 DEF Numbered
  <2> QED BY <2>1, <2>3, <2>4, <2>5 DEF SenderActs, SenderTypes, TypeInv, TypeOK, rvars, Tokens
<1>2. CASE Receiver
  <2>1. ReceiverActs /\ UNCHANGED svars
    BY <1>2, ReceiverStep
  <2>2. started' \in BOOLEAN /\ rerr' \in BOOLEAN
    BY <1>2, FlagTypes
  <2>3. flash' \in Stored /\ rno' \in 0..NoMod - 1 /\ toS' \in Seq(Tokens)
    BY <2>1, StoreTypes
  <2>4. toR' \in Seq(Tokens) /\ Numbered(toR)'
    BY <2>1 DEF ReceiverActs, Orderly, TypeInv, Numbered
  <2>5. ReceiverTypes
    BY <2>1 DEF ReceiverActs, RAnswers
  <2>6. UNCHANGED <<spc, stry, slen, sres>>
    BY <2>1 DEF svars
  <2>7. TypeOK'
    BY <2>2, <2>3, <2>4, <2>5, <2>6 DEF ReceiverTypes, TypeInv, TypeOK, Stored, Tokens
  <2>8. (spc' \in {"wait", "wait_can"} => slen' < N) /\ (rres' # "run" => rpc' = "end")
    BY <2>5, <2>6 DEF ReceiverTypes, TypeInv
  <2> QED BY <2>4, <2>7, <2>8 DEF TypeInv
<1>3. CASE UNCHANGED vars
  BY <1>3 DEF vars, svars, rvars, TypeInv, TypeOK, Numbered, Tokens
<1> QED BY <1>1, <1>2, <1>3 DEF Next

\* Every variable of the two ends and of the line keeps its type, for any number
\* of packets, any limits of XmodemSend and XmodemRecv and any line.
THEOREM TypeCorrect == Spec => []TypeOK
<1>1. TypeInv => TypeOK
  BY DEF TypeInv
<1> QED BY <1>1, TypeInit, TypeStep, PTL DEF Spec

-----------------------------------------------------------------------------
(* The order.                                                               *)

LEMMA OrderInit == Init => OrderInv
<1> SUFFICES ASSUME Init PROVE OrderInv
  OBVIOUS
<1>1. toR = <<>> /\ toS = <<>> /\ flash = <<>> /\ slen = 0 /\ rno = No(1) /\ Len(flash) = 0
      /\ spc = "off" /\ sres = "run" /\ rres = "run"
  BY DEF Init
<1>2. InOrder /\ SendingInv
  BY <1>1 DEF InOrder, SendingInv
<1>3. LineInv(0)
  BY <1>1 DEF LineInv, Between, Sorted, OneAck, NoAck
<1>4. Accepted(0) /\ 0 \in 0..N
  BY <1>1, <1>3, ConstAssumption DEF Accepted
<1> QED BY <1>2, <1>4 DEF OrderInv

\* A step of the sender while the receiver runs: it stays level, or reads the one
\* ACK and catches up.
LEMMA LineSender ==
    ASSUME TypeInv, Sender, NEW n \in Nat, LineInv(n)
    PROVE  LineInv(n)'
<1>1. SenderActs /\ rno' = rno
  BY SenderStep DEF rvars
<1>3. /\ toR \in Seq(Tokens) /\ toS \in Seq(Tokens) /\ slen \in 0..N /\ slen \in Int /\ slen + 1 \in Int
  BY ConstAssumption DEF TypeInv, TypeOK
<1>4. /\ n - 1 <= slen /\ slen <= n /\ rno = No(n + 1)
      /\ Between(toR, n, slen + 1) /\ Sorted(toR)
      /\ OneAck(toS) /\ (slen = n => NoAck(toS))
  BY DEF LineInv
<1>5. OneAck(toS') /\ (slen = n => NoAck(toS'))
  BY <1>1, <1>4 DEF SenderActs, Calm
<1>6. CASE Orderly(toR, toR') /\ slen' = slen
  <2>1. Between(toR', n, slen' + 1) /\ Sorted(toR')
    BY <1>3, <1>4, <1>6 DEF Orderly
  <2> QED BY <1>1, <1>4, <1>5, <1>6, <2>1 DEF LineInv, Between, Sorted, OneAck, NoAck, No
<1>7. CASE slen < N /\ slen' = slen /\ toR' = Append(toR, [c |-> "packet", k |-> slen + 1])
  <2>1. slen + 1 \in 1..N /\ n \in Int /\ n <= slen + 1
    BY <1>3, <1>4, <1>7, ConstAssumption
  <2>2. Between(toR', n, slen' + 1) /\ Sorted(toR')
    BY <1>3, <1>4, <1>7, <2>1, AppendPacket
  <2> QED BY <1>1, <1>4, <1>5, <1>7, <2>2 DEF LineInv, Between, Sorted, OneAck, NoAck, No
<1>8. CASE /\ toS # <<>> /\ Head(toS).c = "ACK" /\ toS' = Tail(toS)
           /\ slen < N /\ slen' = slen + 1 /\ toR' = toR
  <2>1. NoAck(toS')
    BY <1>3, <1>4, <1>8, TailAck
  <2>2. ~NoAck(toS)
    <3>1. 1 \in 1..Len(toS) /\ toS[1] = Head(toS)
      BY <1>3, <1>8
    <3> QED BY <1>8, <3>1 DEF NoAck
  <2>3. slen' = n
    BY <1>3, <1>4, <1>8, <2>2
  <2>4. Between(toR', n, slen' + 1) /\ Sorted(toR')
    <3>1. \A i \in 1..Len(toR) : toR[i].c = "packet" => n <= toR[i].k /\ toR[i].k <= slen + 1 /\ toR[i].k \in Int
      <4>1. \A i \in 1..Len(toR) : toR[i] \in Tokens
        BY <1>3
      <4> QED BY <1>4, <4>1, ConstAssumption DEF Between, Tokens
    <3> QED BY <1>3, <1>4, <1>8, <3>1 DEF Between
  <2> QED BY <1>1, <1>3, <1>4, <1>5, <2>1, <2>3, <2>4 DEF LineInv, Between, Sorted, OneAck, NoAck, No
<1> QED BY <1>1, <1>6, <1>7, <1>8 DEF SenderActs

\* ... and after its end: each ACK the sender reads brings it on, while any is left.
LEMMA EndSender ==
    ASSUME TypeInv, Sender, NEW n \in Nat, EndInv(n)
    PROVE  EndInv(n)'
<1>1. SenderActs /\ (toS' = toS \/ (toS # <<>> /\ toS' = Tail(toS)))
  BY SenderStep, SenderReads
<1>2. toS \in Seq(Tokens) /\ slen \in Int
  BY ConstAssumption DEF TypeInv, TypeOK
<1>3. /\ n - 1 <= slen /\ slen <= n + 1
      /\ TwoAcks(toS) /\ (slen >= n => OneAck(toS)) /\ (slen = n + 1 => NoAck(toS))
  BY DEF EndInv
<1>4. TwoAcks(toS') /\ (slen >= n => OneAck(toS')) /\ (slen = n + 1 => NoAck(toS'))
  <2>1. TwoAcks(toS')
    BY <1>1, <1>2, <1>3, TailTwoAcks
  <2> QED BY <1>1, <1>3, <2>1 DEF SenderActs, Calm
<1>5. CASE slen' = slen
  BY <1>3, <1>4, <1>5 DEF EndInv, TwoAcks, OneAck, NoAck
<1>6. CASE toS # <<>> /\ Head(toS).c = "ACK" /\ toS' = Tail(toS) /\ slen' = slen + 1
  <2>1. ~NoAck(toS)
    <3>1. 1 \in 1..Len(toS) /\ toS[1] = Head(toS)
      BY <1>2, <1>6
    <3> QED BY <1>6, <3>1 DEF NoAck
  <2>2. OneAck(toS') /\ (slen >= n => NoAck(toS'))
    BY <1>2, <1>3, <1>6, TailTwoAcks, TailAck
  <2>3. /\ n - 1 <= slen' /\ slen' <= n + 1
        /\ slen' = n + 1 => slen >= n
    BY <1>2, <1>3, <1>6, <2>1
  <2> QED BY <1>4, <2>2, <2>3 DEF EndInv, TwoAcks, OneAck, NoAck
<1> QED BY <1>1, <1>5, <1>6 DEF SenderActs

\* An answer of the receiver that leaves it running; ...
LEMMA LineAnswers ==
    ASSUME TypeInv, rres = "run", RAnswers, Orderly(toR, toR'), slen' = slen, rres' = "run",
           NEW n \in Nat, LineInv(n)
    PROVE  LineInv(n)'
<1>1. n \in Int /\ slen + 1 \in Int
  BY ConstAssumption DEF TypeInv, TypeOK
<1>2. Calm(toS, toS') /\ rno' = rno
  BY DEF RAnswers
<1>3. Between(toR', n, slen + 1) /\ Sorted(toR')
  BY <1>1 DEF Orderly, LineInv
<1>4. OneAck(toS') /\ (slen = n => NoAck(toS'))
  BY <1>2 DEF Calm, LineInv
<1> QED BY <1>2, <1>3, <1>4 DEF LineInv, Between, Sorted, OneAck, NoAck, No

\* ... one that it ends with: at most one more ACK; ...
LEMMA LineEnds ==
    ASSUME TypeInv, rres = "run", RAnswers, slen' = slen, rres' # "run",
           NEW n \in Nat, LineInv(n)
    PROVE  EndInv(n)'
<1>1. toS \in Seq(Tokens) /\ slen \in Int
  BY ConstAssumption DEF TypeInv, TypeOK
<1>2. /\ n - 1 <= slen /\ slen <= n
      /\ OneAck(toS) /\ (slen = n => NoAck(toS))
  BY DEF LineInv
<1>3. TwoAcks(toS') /\ (slen = n => OneAck(toS'))
  <2>1. CASE Calm(toS, toS')
    <3>1. OneAck(toS')
      BY <1>2, <2>1 DEF Calm
    <3> QED BY <3>1 DEF OneAck, TwoAcks
  <2>2. CASE toS' \in Put(toS, "ACK")
    BY <1>1, <1>2, <2>2, PutAck
  <2> QED BY <2>1, <2>2 DEF RAnswers
<1>4. slen <= n + 1 /\ slen # n + 1 /\ (slen >= n => slen = n)
  BY <1>1, <1>2
<1> QED BY <1>2, <1>3, <1>4 DEF EndInv, TwoAcks, OneAck, NoAck

\* ... and what it accepts is the next packet, the one it has just answered, and
\* whatever else is on its way was sent later.
LEMMA LineStores ==
    ASSUME TypeInv, RStores, slen' = slen, NEW n \in Nat, LineInv(n)
    PROVE  LineInv(n + 1)' /\ Head(toR).k = n + 1 /\ n + 1 \in 0..N
<1>1. /\ toR \in Seq(Tokens) /\ toS \in Seq(Tokens) /\ slen \in Int /\ slen + 1 \in Int
      /\ N \in Nat
  BY ConstAssumption DEF TypeInv, TypeOK
<1>2. /\ n - 1 <= slen /\ slen <= n /\ rno = No(n + 1)
      /\ Between(toR, n, slen + 1) /\ Sorted(toR)
      /\ OneAck(toS) /\ (slen = n => NoAck(toS))
  BY DEF LineInv
<1>3. /\ toR # <<>> /\ Head(toR).c = "packet" /\ No(Head(toR).k) = rno /\ toR' = Tail(toR)
      /\ rno' = NextNo /\ toS' \in Put(toS, "ACK")
  BY DEF RStores, RAccept
<1>4. /\ Head(toR).k \in 1..N
      /\ n <= Head(toR).k /\ Head(toR).k <= slen + 1
  <2>1. 1 \in 1..Len(toR) /\ toR[1] = Head(toR)
    BY <1>1, <1>3
  <2>2. Head(toR).k \in 1..N
    BY <1>3, <2>1 DEF TypeInv, Numbered
  <2>3. n <= Head(toR).k /\ Head(toR).k <= slen + 1
    BY <1>2, <1>3, <2>1 DEF Between
  <2> QED BY <2>2, <2>3
<1>5. Head(toR).k = n + 1 /\ slen = n
  <2>1. No(n) # No(n + 1)
    BY NoDiffers
  <2>2. Head(toR).k # n
    BY <1>2, <1>3, <2>1
  <2> QED BY <1>1, <1>2, <1>4, <2>2
<1>6. Between(toR', n + 1, slen + 1) /\ Sorted(toR')
  <2>1. Sorted(toR')
    BY <1>1, <1>2, <1>3, CalmTail DEF Calm, Orderly
  <2> QED BY <1>1, <1>2, <1>3, <1>5, <2>1, TailPacket
<1>7. OneAck(toS')
  BY <1>1, <1>2, <1>3, <1>5, PutAck
<1>8. rno' = No((n + 1) + 1)
  BY <1>2, <1>3, NoCounts, n + 1 \in Nat
<1>9. (n + 1) - 1 <= slen' /\ slen' <= n + 1 /\ slen' # n + 1 /\ slen' = slen
  BY <1>1, <1>5
<1>10. LineInv(n + 1)'
  BY <1>6, <1>7, <1>8, <1>9 DEF LineInv, Between, Sorted, OneAck, NoAck, No
<1> QED BY <1>1, <1>4, <1>5, <1>10

\* What the flash holds after it has accepted a packet.
LEMMA FlashStores ==
    ASSUME TypeInv, RStores
    PROVE  \/ /\ Len(flash) < Cap /\ Len(flash') = Len(flash) + 1
              /\ \E w \in Written(Head(toR).k) : w.k = Head(toR).k /\ flash' = Append(flash, w)
           \/ ~(Len(flash) < Cap) /\ flash' = flash
<1>1. flash \in Stored
  BY DEF TypeInv, TypeOK, Stored
<1>2. CASE Len(flash) < Cap
  <2>1. PICK w \in Written(Head(toR).k) : flash' = Append(flash, w)
    BY <1>2 DEF RStores, RAccept
  <2>2. w.k = Head(toR).k
    BY DEF Written
  <2>3. Len(flash') = Len(flash) + 1
    BY <1>1, <2>1
  <2> QED BY <1>2, <2>1, <2>2, <2>3
<1>3. CASE ~(Len(flash) < Cap)
  BY <1>3 DEF RStores, RAccept
<1> QED BY <1>2, <1>3

\* Every step keeps the order.
LEMMA SenderOrder ==
    ASSUME TypeInv, OrderInv, Sender
    PROVE  OrderInv'
<1>1. rno' = rno /\ flash' = flash /\ rres' = rres
  BY SenderStep DEF rvars
<1>2. InOrder' /\ SendingInv'
  BY <1>1, SenderEnds DEF OrderInv, InOrder
<1>3. PICK n \in 0..N : Accepted(n)
  BY DEF OrderInv
<1>4. n \in Nat
  BY ConstAssumption
<1>5. rres = "run" => LineInv(n)'
  BY <1>3, <1>4, LineSender DEF Accepted
<1>6. rres # "run" => EndInv(n)'
  BY <1>3, <1>4, EndSender DEF Accepted
<1>7. Accepted(n)'
  BY <1>1, <1>3, <1>5, <1>6 DEF Accepted
<1> QED BY <1>2, <1>7 DEF OrderInv

LEMMA ReceiverOrder ==
    ASSUME TypeInv, OrderInv, Receiver
    PROVE  OrderInv'
<1>1. rres = "run" /\ ReceiverActs /\ UNCHANGED <<slen, spc, sres>>
  BY ReceiverStep DEF svars
<1>2. SendingInv'
  BY <1>1 DEF OrderInv, SendingInv
<1>3. PICK n \in 0..N : Accepted(n)
  BY DEF OrderInv
<1>4. n \in Nat /\ LineInv(n) /\ Len(flash) = IF n < Cap THEN n ELSE Cap
  BY <1>1, <1>3, ConstAssumption DEF Accepted
<1>5. CASE RAnswers
  <2>1. flash' = flash
    BY <1>5 DEF RAnswers
  <2>2. rres' = "run" => LineInv(n)'
    BY <1>1, <1>4, <1>5, LineAnswers DEF ReceiverActs
  <2>3. rres' # "run" => EndInv(n)'
    BY <1>1, <1>4, <1>5, LineEnds
  <2>4. Accepted(n)' /\ InOrder'
    BY <1>4, <2>1, <2>2, <2>3 DEF Accepted, OrderInv, InOrder
  <2> QED BY <1>2, <2>4 DEF OrderInv
<1>6. CASE RStores
  <2>1. LineInv(n + 1)' /\ Head(toR).k = n + 1 /\ n + 1 \in 0..N /\ rres' = rres
    BY <1>1, <1>4, <1>6, LineStores DEF RStores, RAccept
  <2>2. flash \in Stored /\ Len(flash) \in Nat /\ Cap \in Nat
    BY ConstAssumption DEF TypeInv, TypeOK, Stored
  <2>3. CASE Len(flash) < Cap
    <3>1. n = Len(flash)
      BY <1>4, <2>2, <2>3
    <3>2. PICK w \in Written(Head(toR).k) : w.k = Head(toR).k /\ flash' = Append(flash, w)
      BY <1>6, <2>3, FlashStores
    <3>3. Len(flash') = n + 1 /\ flash'[n + 1] = w /\ \A i \in 1..n : flash'[i] = flash[i]
      <4>1. w \in [k : 1..N, good : BOOLEAN]
        <5>1. Head(toR).k \in 1..N
          BY <1>4, <2>1, ConstAssumption
        <5> QED BY <5>1, WrittenTypes
      <4> QED BY <2>2, <3>1, <3>2, <4>1
    <3>4. InOrder'
      BY <1>4, <2>1, <3>1, <3>2, <3>3 DEF OrderInv, InOrder
    <3>5. Len(flash') = IF n + 1 < Cap THEN n + 1 ELSE Cap
      BY <2>2, <2>3, <3>1, <3>3
    <3> QED BY <1>1, <1>2, <2>1, <3>4, <3>5 DEF OrderInv, Accepted
  <2>4. CASE ~(Len(flash) < Cap)
    <3>1. flash' = flash
      BY <1>6, <2>4, FlashStores
    <3>2. Len(flash') = IF n + 1 < Cap THEN n + 1 ELSE Cap
      BY <1>4, <2>2, <2>4, <3>1
    <3>3. InOrder'
      BY <3>1 DEF OrderInv, InOrder
    <3> QED BY <1>1, <1>2, <2>1, <3>2, <3>3 DEF OrderInv, Accepted
  <2> QED BY <2>3, <2>4
<1> QED BY <1>1, <1>5, <1>6 DEF ReceiverActs

LEMMA OrderStep == TypeInv /\ OrderInv /\ [Next]_vars => OrderInv'
<1> SUFFICES ASSUME TypeInv, OrderInv, [Next]_vars PROVE OrderInv'
  OBVIOUS
<1>1. CASE UNCHANGED vars
  BY <1>1 DEF vars, svars, rvars, OrderInv, InOrder, SendingInv, Accepted, LineInv, EndInv,
              Between, Sorted, OneAck, NoAck, TwoAcks, No
<1> QED BY <1>1, SenderOrder, ReceiverOrder DEF Next

\* XmodemRecv programs the sender's packets in order, each once, however many
\* there are and whatever the line does.
THEOREM InOrderHolds == Spec => []InOrder
<1>1. OrderInv => InOrder
  BY DEF OrderInv
<1> QED BY <1>1, TypeInit, TypeStep, OrderInit, OrderStep, PTL DEF Spec

\* While the receiver runs and has room the two ends are at most one packet
\* apart: the eight bits of u8PacketNo are enough, and two values would be.
THEOREM NeverTwoApartHolds == Spec => []NeverTwoApart
<1>1. OrderInv => NeverTwoApart
  <2> SUFFICES ASSUME OrderInv, rres = "run", Len(flash) < Cap
               PROVE  Len(flash) - 1 <= slen /\ slen <= Len(flash)
    BY DEF NeverTwoApart
  <2>1. PICK n \in 0..N : Accepted(n)
    BY DEF OrderInv
  <2>2. Len(flash) = n /\ LineInv(n)
    BY <2>1, ConstAssumption DEF Accepted
  <2> QED BY <2>2 DEF LineInv
<1> QED BY <1>1, TypeInit, TypeStep, OrderInit, OrderStep, PTL DEF Spec

-----------------------------------------------------------------------------
(* The abstract transfer.                                                   *)

Keys(f) == [i \in 1..Len(f) |-> f[i].k]

LEMMA KeysLen ==
    ASSUME NEW f \in Stored
    PROVE  Len(Keys(f)) = Len(f)
BY DEF Keys, Stored

\* Storing packet k puts it at the end.
LEMMA KeysAppend ==
    ASSUME NEW f \in Stored, NEW w \in [k : 1..N, good : BOOLEAN]
    PROVE  Keys(Append(f, w)) = Append(Keys(f), w.k)
<1> DEFINE n == Len(f)
<1> DEFINE g == Append(f, w)
<1>1. /\ n \in Nat /\ Len(g) = n + 1 /\ g[n + 1] = w
      /\ \A i \in 1..n : g[i] = f[i]
  BY DEF Stored
<1>2. Append(Keys(f), w.k) = [i \in 1..n + 1 |-> IF i = n + 1 THEN w.k ELSE Keys(f)[i]]
  BY <1>1, KeysLen
<1> HIDE DEF n, g
<1>3. ASSUME NEW i \in 1..n + 1
      PROVE  g[i].k = IF i = n + 1 THEN w.k ELSE Keys(f)[i]
  BY <1>1, <1>3 DEF Keys, n
<1> QED BY <1>1, <1>2, <1>3 DEF Keys, g

LEMMA TransferInit == Init => Transfer!Init
BY DEF Init, Transfer!Init, Outcome

\* The sender reports success only after an ACK that no packet is waiting for: the
\* receiver has stopped, and all is stored that there was room for.
LEMMA SenderTransfers ==
    ASSUME TypeInv, OrderInv, Sender
    PROVE  Transfer!SenderEnds \/ (UNCHANGED <<flash, rres>> /\ Outcome(sres') = Outcome(sres))
<1>1. /\ SenderActs /\ UNCHANGED <<flash, rres>> /\ sres = "run"
      /\ sres' \in {"run", "ok", "nosync", "cancel", "xmit", "eotfail"}
  BY SenderStep, SenderEnds DEF rvars, OrderInv, SenderActs, SenderTypes
<1>2. CASE sres' = "run"
  BY <1>1, <1>2
<1>3. CASE sres' \notin {"run", "ok"}
  BY <1>1, <1>3 DEF Transfer!SenderEnds, Transfer!Ends, Outcome
<1>4. CASE sres' = "ok"
  <2>1. slen = N /\ toS # <<>> /\ Head(toS).c = "ACK"
    BY <1>4, SenderEnds DEF OrderInv
  <2>2. ~NoAck(toS)
    <3>1. 1 \in 1..Len(toS) /\ toS[1] = Head(toS)
      BY <2>1 DEF TypeInv, TypeOK
    <3> QED BY <2>1, <3>1 DEF NoAck
  <2>3. PICK n \in 0..N : Accepted(n)
    BY DEF OrderInv
  <2>4. rres # "run" /\ n = N
    <3>1. N \in Nat /\ n \in Nat /\ n <= N
      BY ConstAssumption
    <3>2. ~LineInv(n)
      BY <2>1, <2>2, <3>1 DEF LineInv
    <3>3. rres # "run" /\ EndInv(n)
      BY <2>3, <3>2 DEF Accepted
    <3> QED BY <2>1, <2>2, <3>1, <3>3 DEF EndInv
  <2>5. Len(Keys(flash)) = Transfer!Room
    BY <2>3, <2>4, KeysLen DEF Accepted, Transfer!Room, TypeInv, TypeOK, Stored
  <2>6. Outcome(rres) # "run" /\ Outcome(sres) = "run" /\ Outcome(sres') = "ok"
    BY <1>1, <1>4, <2>4 DEF Outcome
  <2> QED BY <1>1, <2>5, <2>6 DEF Transfer!SenderEnds, Transfer!Ends, Keys, Outcome
<1> QED BY <1>1, <1>2, <1>3, <1>4

LEMMA ReceiverTransfers ==
    ASSUME TypeInv, OrderInv, Receiver
    PROVE  \/ Transfer!Store \/ Transfer!ReceiverEnds
           \/ UNCHANGED <<flash, sres>> /\ Outcome(rres') = Outcome(rres)
<1>1. rres = "run" /\ ReceiverActs /\ UNCHANGED <<slen, sres>>
  BY ReceiverStep DEF svars
<1>2. CASE RAnswers
  <2>1. flash' = flash /\ Outcome(rres) = "run"
        /\ Outcome(rres') \in {"run", "ok", "failed"}
    BY <1>1, <1>2 DEF RAnswers, Outcome
  <2>2. CASE Outcome(rres') = "run"
    BY <1>1, <2>1, <2>2
  <2>3. CASE Outcome(rres') # "run"
    BY <1>1, <2>1, <2>3 DEF Transfer!ReceiverEnds, Transfer!Ends, Outcome
  <2> QED BY <2>2, <2>3
<1>3. CASE RStores
  <2>1. PICK n \in 0..N : Accepted(n)
    BY DEF OrderInv
  <2>2. n \in Nat /\ LineInv(n) /\ Len(flash) = IF n < Cap THEN n ELSE Cap
    BY <1>1, <2>1, ConstAssumption DEF Accepted
  <2>3. Head(toR).k = n + 1 /\ n + 1 \in 0..N /\ rres' = rres
    BY <1>1, <1>3, <2>2, LineStores DEF RStores, RAccept
  <2>4. flash \in Stored /\ Len(flash) \in Nat /\ Cap \in Nat /\ N \in Nat
    BY ConstAssumption DEF TypeInv, TypeOK, Stored
  <2>5. CASE Len(flash) < Cap
    <3>1. n = Len(flash)
      BY <2>2, <2>4, <2>5
    <3>2. PICK w \in Written(Head(toR).k) : w.k = Head(toR).k /\ flash' = Append(flash, w)
      BY <1>3, <2>5, FlashStores
    <3>3. w \in [k : 1..N, good : BOOLEAN]
      <4>1. Head(toR).k \in 1..N
        BY <2>2, <2>3, <2>4
      <4> QED BY <4>1, WrittenTypes
    <3>4. Keys(flash') = Append(Keys(flash), Len(Keys(flash)) + 1)
      BY <2>3, <2>4, <3>1, <3>2, <3>3, KeysAppend, KeysLen
    <3>5. Len(Keys(flash)) < Transfer!Room
      BY <2>3, <2>4, <2>5, <3>1, KeysLen DEF Transfer!Room
    <3> QED BY <1>1, <2>3, <3>4, <3>5 DEF Transfer!Store, Keys, Outcome
  <2>6. CASE ~(Len(flash) < Cap)
    BY <1>1, <1>3, <2>3, <2>6, FlashStores
  <2> QED BY <2>5, <2>6
<1> QED BY <1>1, <1>2, <1>3 DEF ReceiverActs

\* XmodemSend and XmodemRecv over any line implement the abstract transfer: packets
\* are stored in order, once each, and XmodemSend returns the size only after
\* XmodemRecv has returned and when the flash holds all there was room for.
THEOREM ImplementsTransferHolds == Spec => ImplementsTransfer
<1> DEFINE Inv == TypeInv /\ OrderInv
<1>1. Init => Inv /\ Transfer!Init
  BY TypeInit, OrderInit, TransferInit
<1>2. Inv /\ [Next]_vars => Inv'
  BY TypeStep, OrderStep
<1>3. Inv /\ [Next]_vars => [Transfer!Next]_<<Keys(flash), Outcome(sres), Outcome(rres)>>
  <2> SUFFICES ASSUME TypeInv, OrderInv, [Next]_vars
               PROVE  Transfer!Next \/ UNCHANGED <<Keys(flash), Outcome(sres), Outcome(rres)>>
    OBVIOUS
  <2>1. CASE Sender
    BY <2>1, SenderTransfers DEF Transfer!Next, Keys, Outcome
  <2>2. CASE Receiver
    BY <2>2, ReceiverTransfers DEF Transfer!Next, Keys, Outcome
  <2>3. CASE UNCHANGED vars
    BY <2>3 DEF vars, svars, rvars, Keys, Outcome
  <2> QED BY <2>1, <2>2, <2>3 DEF Next
<1> HIDE DEF Inv
<1> QED BY <1>1, <1>2, <1>3, PTL DEF Spec, ImplementsTransfer, Transfer!Spec, Keys
=============================================================================
