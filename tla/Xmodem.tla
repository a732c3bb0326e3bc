------------------------------- MODULE Xmodem -------------------------------
(***************************************************************************)
(* Library/Commu/xmodem.c: XmodemSend on one board, XmodemRecv on another, *)
(* and the serial line between them.  The line keeps the order; it loses   *)
(* and damages what it carries.  A damaged control character is one that   *)
(* neither end reacts to, and a damaged packet fails its CRC.              *)
(***************************************************************************)
EXTENDS Integers, Sequences

CONSTANTS
    N,            \* packets of 128 bytes the sender has
    Cap,          \* packets that make XMD_MAX_TRANS_SIZE bytes
    NoMod,        \* packet numbers are counted modulo this (256)
    MaxTry,       \* XMD_MAX_TIMEOUT: characters the receiver waits for
    MaxSync,      \* characters the sender waits for before the first packet
    MaxRetrans,   \* MAXRETRANS: times a packet is sent
    MaxEot,       \* times EOT is sent
    CharFates,    \* what the line does to a character ...
    PacketFates,  \* ... and to a packet, besides delivering it
    FlashFails    \* whether programming may time out

ASSUME ConstAssumption ==
    /\ N \in Nat /\ Cap \in Nat
    /\ NoMod \in Nat \ {0, 1}
    /\ {MaxTry, MaxSync, MaxRetrans, MaxEot} \subseteq Nat \ {0}
    /\ CharFates \subseteq {"lost", "noise"}
    /\ PacketFates \subseteq {"lost", "bad", "badno", "short", "stray"}
    /\ FlashFails \in BOOLEAN

VARIABLES
    toR, toS,     \* what is on its way to, or in the FIFO of, each end
    spc, stry,    \* the sender: where it is, i32Retry
    slen, sres,   \* packets acknowledged, and what XmodemSend returns
    rpc, rtry,    \* the receiver: where it is, i32Idx of the waiting loop
    started,      \* cTryChar is 0: a start character has been seen
    rno, flash,   \* u8PacketNo, and the packets programmed
    rerr, rres    \* i32Err < 0, and what XmodemRecv returns

svars == <<spc, stry, slen, sres>>
rvars == <<rpc, rtry, started, rno, flash, rerr, rres>>
vars  == <<toR, toS, svars, rvars>>

No(k) == k % NoMod                          \* the number packet k carries

\* Everything on the line is a record: c says what it is, k which packet.
\*   packet  arrives intact
\*   bad     the number is right, the check is not
\*   badno   the number itself is damaged
\*   short   some bytes are missing
\*   stray   SOH is missing: the rest looks like loose characters
Char(c) == [c |-> c, k |-> 0]
PacketKinds == {"packet", "bad", "badno", "short", "stray"}

MutTried(n) == n                            \* the waiting loops have no bound
Tried(n) == n + 1                           \* i32Idx++, i32Retry++

Init ==
    /\ toR = <<>> /\ toS = <<>>
    /\ spc = "off" /\ stry = 0 /\ slen = 0 /\ sres = "run"
    /\ rpc = "off" /\ rtry = 0 /\ started = FALSE
    /\ rno = No(1) /\ flash = <<>> /\ rerr = FALSE /\ rres = "run"

-----------------------------------------------------------------------------
(* The line: the contents of q after something was put on it.              *)

Put(q, c) ==
    {Append(q, Char(c))}
    \cup (IF "lost" \in CharFates THEN {q} ELSE {})
    \cup (IF "noise" \in CharFates THEN {Append(q, Char("noise"))} ELSE {})

PutCans(q) ==                               \* CAN, three times
    UNION {UNION {Put(r, "CAN") : r \in Put(s, "CAN")} : s \in Put(q, "CAN")}

PutPacket(q, k) ==
    {Append(q, [c |-> x, k |-> k]) : x \in {"packet"} \cup (PacketFates \ {"lost"})}
    \cup (IF "lost" \in PacketFates THEN {q} ELSE {})

-----------------------------------------------------------------------------
(* XmodemSend.                                                             *)

SStart ==
    /\ spc = "off" /\ spc' = "sync"
    /\ UNCHANGED <<toR, toS, stry, slen, sres, rvars>>

\* XMD_getc: a character, or "none" after 100 ms.
SGets(c) ==
    \/ toS = <<>> /\ c = "none" /\ UNCHANGED toS
    \/ toS # <<>> /\ c = Head(toS).c /\ toS' = Tail(toS)

SEnd(res) == spc' = "end" /\ stry' = 0 /\ sres' = res

\* One try of a loop is used up; after the last the call gives up.
SRetry(limit, again, res) ==
    IF Tried(stry) < limit
    THEN spc' = again /\ stry' = Tried(stry) /\ UNCHANGED <<toR, sres>>
    ELSE SEnd(res) /\ toR' \in PutCans(toR)

\* The first 'C' starts the transfer.  NAK would too, with checksums in place of
\* CRCs; XmodemRecv sends none before a packet came.
SSync ==
    /\ spc = "sync"
    /\ \E c \in {"none", "C", "CAN", "noise"} :
          /\ SGets(c)
          /\ CASE c = "C" -> spc' = "send" /\ stry' = 0 /\ UNCHANGED <<toR, sres>>
               [] c = "CAN" -> spc' = "sync_can" /\ UNCHANGED <<toR, stry, sres>>
               [] OTHER -> SRetry(MaxSync, "sync", "nosync")
    /\ UNCHANGED <<slen, rvars>>

\* A second CAN cancels, anything else is dropped.
SCan(limit, again, res) ==
    \E c \in {"none", "C", "ACK", "NAK", "CAN", "noise"} :
        /\ SGets(c)
        /\ IF c = "CAN" THEN SEnd("cancel") /\ toR' \in Put(toR, "ACK")
                        ELSE SRetry(limit, again, res)

SSyncCan ==
    /\ spc = "sync_can" /\ SCan(MaxSync, "sync", "nosync")
    /\ UNCHANGED <<slen, rvars>>

SSend ==
    /\ spc = "send" /\ slen < N
    /\ toR' \in PutPacket(toR, slen + 1)
    /\ spc' = "wait"
    /\ UNCHANGED <<toS, stry, slen, sres, rvars>>

MutAcknowledged(c) == c \notin {"none", "CAN"}   \* every other answer counts
Acknowledged(c) == c = "ACK"

\* Anything but ACK and CAN, and a timeout too, sends the packet again.
SWait ==
    /\ spc = "wait"
    /\ \E c \in {"none", "C", "ACK", "NAK", "CAN", "noise"} :
          /\ SGets(c)
          /\ CASE Acknowledged(c) ->
                    spc' = "send" /\ stry' = 0 /\ slen' = slen + 1 /\ UNCHANGED <<toR, sres>>
               [] c = "CAN" -> spc' = "wait_can" /\ UNCHANGED <<toR, stry, slen, sres>>
               [] OTHER -> SRetry(MaxRetrans, "send", "xmit") /\ UNCHANGED slen
    /\ UNCHANGED rvars

SWaitCan ==
    /\ spc = "wait_can" /\ SCan(MaxRetrans, "send", "xmit")
    /\ UNCHANGED <<slen, rvars>>

SEot ==
    /\ spc = "send" /\ slen = N
    /\ toR' \in Put(toR, "EOT")
    /\ spc' = "eot_wait"
    /\ UNCHANGED <<toS, stry, slen, sres, rvars>>

MutEotDone(c) == c # "none"                 \* any answer ends the transfer
EotDone(c) == c = "ACK"

SEotWait ==
    /\ spc = "eot_wait"
    /\ \E c \in {"none", "C", "ACK", "NAK", "CAN", "noise"} :
          /\ SGets(c)
          /\ IF EotDone(c) THEN SEnd("ok")
             ELSE IF Tried(stry) < MaxEot
             THEN spc' = "send" /\ stry' = Tried(stry) /\ UNCHANGED sres
             ELSE SEnd("eotfail")
    /\ UNCHANGED <<toR, slen, rvars>>

Sender == SStart \/ SSync \/ SSyncCan \/ SSend \/ SWait \/ SWaitCan \/ SEot \/ SEotWait

-----------------------------------------------------------------------------
(* XmodemRecv.                                                             *)

RStart ==
    /\ rpc = "off" /\ rpc' = "try"
    /\ UNCHANGED <<toR, toS, svars, rtry, started, rno, flash, rerr, rres>>

\* Until a start character comes 'C' is sent before each wait.
RTry ==
    /\ rpc = "try"
    /\ toS' \in IF started THEN {toS} ELSE Put(toS, "C")
    /\ rpc' = "get"
    /\ UNCHANGED <<toR, svars, rtry, started, rno, flash, rerr, rres>>

REnd(res) == rpc' = "end" /\ rtry' = 0 /\ rres' = res

\* A character, or 100 ms, came to nothing.
RNothing ==
    /\ IF Tried(rtry) < MaxTry
       THEN rpc' = "try" /\ rtry' = Tried(rtry) /\ UNCHANGED <<toS, rres>>
       ELSE /\ REnd(IF started THEN "sync" ELSE "timeout")
            /\ toS' \in PutCans(toS)
    /\ UNCHANGED started

\* EOT is acknowledged whatever came before it.
ROver ==
    /\ toS' \in Put(toS, "ACK")
    /\ REnd(IF rerr THEN "flash" ELSE "ok")
    /\ UNCHANGED started

RCancel ==
    /\ toS' \in Put(toS, "ACK")
    /\ REnd("cancel")
    /\ UNCHANGED started

RTimeout ==
    /\ rpc = "get" /\ toR = <<>>
    /\ RNothing
    /\ UNCHANGED <<toR, svars, rno, flash, rerr>>

RChar ==
    /\ rpc = "get" /\ toR # <<>> /\ Head(toR).c \notin PacketKinds
    /\ toR' = Tail(toR)
    /\ CASE Head(toR).c = "EOT" -> ROver
         [] Head(toR).c = "CAN" -> RCancel
         [] OTHER -> RNothing
    /\ UNCHANGED <<svars, rno, flash, rerr>>

\* The bytes of a packet whose SOH was lost, one by one: each means nothing, or
\* is EOT, CAN or a start character.
RStray ==
    /\ rpc = "get" /\ toR # <<>> /\ Head(toR).c = "stray"
    /\ \/ toR' \in {toR, Tail(toR)} /\ (RNothing \/ ROver \/ RCancel)
       \/ /\ toR' = Tail(toR)              \* as many bytes follow as are left
          /\ rpc' = "short" /\ rtry' = 0 /\ started' = TRUE /\ UNCHANGED <<toS, rres>>
    /\ UNCHANGED <<svars, rno, flash, rerr>>

\* The packet is refused, and waited for again ...
RNak ==
    /\ toS' \in Put(toS, "NAK")
    /\ rpc' = "try" /\ rtry' = 0 /\ started' = TRUE
    /\ UNCHANGED <<rno, flash, rerr, rres>>

\* ... but a number that is not the next one ends the transfer.
RWrongNo ==
    /\ toS' \in PutCans(toS)
    /\ REnd("number") /\ started' = TRUE
    /\ UNCHANGED <<rno, flash, rerr>>

MutNextNoWide == rno + 1                    \* u8PacketNo is wider than eight bits
NextNo == (rno + 1) % NoMod

\* What the flash holds after a packet: its 8-byte writes may fail, and only
\* the result of the last one stays in i32Err.
Written(k) == {[k |-> k, good |-> TRUE]} \cup
              (IF FlashFails THEN {[k |-> k, good |-> FALSE]} ELSE {})

RAccept ==
    /\ IF Len(flash) < Cap
       THEN \E w \in Written(Head(toR).k) :
               /\ flash' = Append(flash, w)
               /\ rerr' \in IF w.good THEN {FALSE} ELSE BOOLEAN
       ELSE UNCHANGED <<flash, rerr>>
    /\ rno' = NextNo
    /\ toS' \in Put(toS, "ACK")
    /\ rpc' = "try" /\ rtry' = 0 /\ started' = TRUE
    /\ UNCHANGED rres

MutExpected(no) == TRUE                     \* the number is not compared
Expected(no) == no = rno

RPacket ==
    /\ rpc = "get" /\ toR # <<>> /\ Head(toR).c \in {"packet", "bad", "badno"}
    /\ toR' = Tail(toR)
    /\ IF Head(toR).c = "badno" \/ ~Expected(No(Head(toR).k)) THEN RWrongNo
       ELSE IF Head(toR).c = "bad" THEN RNak
       ELSE RAccept
    /\ UNCHANGED svars

RShort ==
    /\ rpc = "get" /\ toR # <<>> /\ Head(toR).c = "short"
    /\ toR' = Tail(toR)
    /\ rpc' = "short" /\ rtry' = 0 /\ started' = TRUE
    /\ UNCHANGED <<toS, svars, rno, flash, rerr, rres>>

\* The missing bytes do not come within 100 ms ...
RShortTimeout ==
    /\ rpc = "short" /\ toR = <<>>
    /\ RNak
    /\ UNCHANGED <<toR, svars>>

\* ... or what comes next is taken for them.  It may not be enough; when it is the
\* check fails, or the number does, and what is left of it are loose bytes.
RShortFill ==
    /\ rpc = "short" /\ toR # <<>>
    /\ \/ toR' = Tail(toR) /\ UNCHANGED <<toS, rvars>>
       \/ /\ \/ toR' = Tail(toR)
             \/ /\ Head(toR).c \in PacketKinds
                /\ toR' = <<[Head(toR) EXCEPT !.c = "stray"]>> \o Tail(toR)
          /\ RNak \/ RWrongNo
    /\ UNCHANGED svars

Receiver == RStart \/ RTry \/ RTimeout \/ RChar \/ RStray \/ RPacket \/ RShort
            \/ RShortTimeout \/ RShortFill

-----------------------------------------------------------------------------
Next == Sender \/ Receiver

Spec == Init /\ [][Next]_vars

\* Each end is called and runs: both loops are polled without interrupts.
FairSpec == Spec /\ WF_vars(Sender) /\ WF_vars(Receiver)

-----------------------------------------------------------------------------
(* Properties.                                                             *)

\* Every variable keeps its type.
Tokens == [c : {"C", "ACK", "NAK", "CAN", "EOT", "noise"} \cup PacketKinds, k : 0..N]
TypeOK ==
    /\ toR \in Seq(Tokens) /\ toS \in Seq(Tokens)
    /\ spc \in {"off", "sync", "sync_can", "send", "wait", "wait_can", "eot_wait", "end"}
    /\ stry \in Nat /\ slen \in 0..N
    /\ sres \in {"run", "ok", "nosync", "cancel", "xmit", "eotfail"}
    /\ rpc \in {"off", "try", "get", "short", "end"}
    /\ rtry \in Nat /\ started \in BOOLEAN /\ rno \in 0..NoMod - 1
    /\ flash \in Seq([k : 1..N, good : BOOLEAN]) /\ rerr \in BOOLEAN
    /\ rres \in {"run", "ok", "flash", "cancel", "timeout", "sync", "number"}

\* The packets in the flash are the sender's, in order and without a gap,
\* however the receiver's answers and the sender's retries cross.
InOrder == \A i \in 1..Len(flash) : flash[i].k = i

\* The two ends are never more than one packet apart while the receiver runs,
\* so a number of eight bits is enough to tell a repeated packet from the next.
NeverTwoApart ==
    rres = "run" /\ Len(flash) < Cap => Len(flash) - 1 <= slen /\ slen <= Len(flash)

\* "Received data size if successful. Return < 0 when error.": XmodemRecv does
\* not report success over a packet it failed to program.
RecvHonest == rres = "ok" => \A i \in 1..Len(flash) : flash[i].good

\* Both calls return, whatever the line does and for however long.
SendReturns == (spc # "off") ~> (spc = "end")
RecvReturns == (rpc # "off") ~> (rpc = "end")

\* The pair implements the abstract transfer: when XmodemSend returns the size
\* XmodemRecv has returned, and the flash holds every packet there was room for.
Outcome(res) == IF res \in {"run", "ok"} THEN res ELSE "failed"
Transfer == INSTANCE XmodemTransfer WITH
                flash <- [i \in 1..Len(flash) |-> flash[i].k],
                sres <- Outcome(sres), rres <- Outcome(rres)
ImplementsTransfer == Transfer!Spec
=============================================================================
