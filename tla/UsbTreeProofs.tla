--------------------------- MODULE UsbTreeProofs ---------------------------
(***************************************************************************)
(* Proofs about UsbTree: the types of the library's state and of its call  *)
(* stack, the polling mutex, and the bookkeeping of the device addresses.  *)
(***************************************************************************)
EXTENDS UsbTree, FiniteSetTheorems, SequenceTheorems, WellFoundedInduction, TLAPS

(***************************************************************************)
(* Minima, the list of devices and the call stack.                         *)
(***************************************************************************)

\* The smallest element of a set of numbers is in it: the slot, the drive, the
\* port and the device that a search of the library ends with.
LEMMA MinIn ==
    ASSUME NEW S, S \subseteq Nat, S # {}
    PROVE  Min(S) \in S /\ \A y \in S : Min(S) <= y
<1>1. PICK x \in S : \A y \in S : ~ (<<y, x>> \in OpToRel(<, Nat))
  <2>1. IsWellFoundedOn(OpToRel(<, Nat), Nat)
    BY NatLessThanWellFounded, Zenon
  <2> QED BY <2>1, WFMin, Zenon
<1>2. ASSUME NEW y \in S PROVE x <= y
  <2>1. ~ (<<y, x>> \in {ss \in Nat \X Nat : ss[1] < ss[2]})
    BY <1>1 DEF OpToRel
  <2>2. y \in Nat /\ x \in Nat
    OBVIOUS
  <2> QED BY <2>1, <2>2
<1> QED BY <1>2 DEF Min

\* A search that passes a test finds an element that passes it, and finds one
\* when there is one.
LEMMA FindIn ==
    ASSUME NEW S, NEW s \in Seq(S), NEW T, T \subseteq 1..Len(s),
           NEW n, n = IF T # {} THEN Min(T) ELSE 0
    PROVE  /\ n # 0 <=> T # {}
           /\ n # 0 => n \in T /\ s[n] \in S
<1>1. CASE T = {}
  BY <1>1
<1>2. CASE T # {}
  <2>1. T \subseteq Nat
    OBVIOUS
  <2>2. n \in T
    BY <1>2, <2>1, MinIn
  <2> QED BY <1>2, <2>2
<1> QED BY <1>1, <1>2

\* What usbh_find_device returns for a port of the hub in slot h.
LEMMA FindDeviceIs ==
    ASSUME list \in Seq(Udevs), NEW pos, NEW p, FindDevice(pos, p) # 0
    PROVE  /\ FindDevice(pos, p) \in Listed
           /\ udev[FindDevice(pos, p)].hub = Min({h \in Hubs : InUse(h) /\ hub[h].pos = pos})
           /\ udev[FindDevice(pos, p)].port = p
           /\ {h \in Hubs : InUse(h) /\ hub[h].pos = pos} # {}
<1> DEFINE slots == {h \in Hubs : InUse(h) /\ hub[h].pos = pos}
           T == {i \in 1..Len(list) : udev[list[i]].hub = Min(slots) /\ udev[list[i]].port = p}
           n == IF T # {} THEN Min(T) ELSE 0
<1>1. FindDevice(pos, p) = IF slots = {} \/ n = 0 THEN 0 ELSE list[n]
  BY DEF FindDevice, SelectInSeq
<1>2. slots # {} /\ n # 0 /\ FindDevice(pos, p) = list[n]
  BY <1>1
<1>3. T \subseteq 1..Len(list)
  OBVIOUS
<1>4. n \in T
  <2> HIDE DEF T
  <2> QED BY <1>2, <1>3, FindIn
<1>5. n \in DOMAIN list /\ udev[list[n]].hub = Min(slots) /\ udev[list[n]].port = p
  <2> HIDE DEF n
  <2> QED BY <1>4
<1>6. list[n] \in Listed
  <2> HIDE DEF n
  <2> QED BY <1>5 DEF Listed, ToSet
<1> QED BY <1>2, <1>5, <1>6

\* It returns nothing only when nothing is listed there.
LEMMA FindDeviceNone ==
    ASSUME list \in Seq(Udevs), NEW pos, NEW p, FindDevice(pos, p) = 0,
           NEW v \in Listed, NEW h \in Hubs, InUse(h), hub[h].pos = pos,
           udev[v].hub = Min({g \in Hubs : InUse(g) /\ hub[g].pos = pos})
    PROVE  udev[v].port # p
<1> DEFINE slots == {g \in Hubs : InUse(g) /\ hub[g].pos = pos}
           T == {i \in 1..Len(list) : udev[list[i]].hub = Min(slots) /\ udev[list[i]].port = p}
           n == IF T # {} THEN Min(T) ELSE 0
<1>1. FindDevice(pos, p) = IF slots = {} \/ n = 0 THEN 0 ELSE list[n]
  BY DEF FindDevice, SelectInSeq
<1>2. slots # {}
  OBVIOUS
<1>3. T \subseteq 1..Len(list)
  OBVIOUS
<1>4. n # 0 <=> T # {}
  <2> HIDE DEF T
  <2> QED BY <1>3, FindIn
<1>5. n # 0 => list[n] # 0
  <2>1. n # 0 => list[n] \in Udevs
    <3> HIDE DEF T
    <3> QED BY <1>3, FindIn
  <2>2. 0 \notin Udevs
    BY DEF Udevs
  <2> HIDE DEF n
  <2> QED BY <2>1, <2>2
<1>6. n = 0
  <2> HIDE DEF n, slots
  <2> QED BY <1>1, <1>2, <1>5
<1>7. T = {}
  <2> HIDE DEF T, n
  <2> QED BY <1>4, <1>6
<1>8. PICK i \in DOMAIN list : v = list[i]
  BY DEF Listed, ToSet
<1>9. i \in 1..Len(list)
  BY <1>8
<1> QED BY <1>7, <1>8, <1>9

\* ohci_find_device_by_port: a listed device of the root port, if there is one.
LEMMA FindRootIs ==
    ASSUME list \in Seq(Udevs)
    PROVE  /\ FindRootDevice # 0 => /\ FindRootDevice \in Listed
                                    /\ udev[FindRootDevice].hub = 0
                                    /\ udev[FindRootDevice].port = Last(Root)
           /\ FindRootDevice = 0 =>
                 \A v \in Listed : ~ (udev[v].hub = 0 /\ udev[v].port = Last(Root))
<1> DEFINE T == {i \in 1..Len(list) : udev[list[i]].hub = 0 /\ udev[list[i]].port = Last(Root)}
           n == IF T # {} THEN Min(T) ELSE 0
<1>1. FindRootDevice = IF n = 0 THEN 0 ELSE list[n]
  BY DEF FindRootDevice, SelectInSeq
<1>2. T \subseteq 1..Len(list)
  OBVIOUS
<1>3. /\ n # 0 <=> T # {}
      /\ n # 0 => n \in T /\ list[n] \in Udevs
  <2> HIDE DEF T
  <2> QED BY <1>2, FindIn
<1>4. ASSUME n # 0
      PROVE  FindRootDevice # 0 /\ FindRootDevice \in Listed
             /\ udev[FindRootDevice].hub = 0 /\ udev[FindRootDevice].port = Last(Root)
  <2>1. FindRootDevice = list[n] /\ n \in T /\ list[n] \in Udevs
    <3> HIDE DEF T, n
    <3> QED BY <1>1, <1>3, <1>4
  <2>2. n \in DOMAIN list /\ udev[list[n]].hub = 0 /\ udev[list[n]].port = Last(Root)
    <3> HIDE DEF n
    <3> QED BY <2>1
  <2>3. list[n] \in Listed
    <3> HIDE DEF n
    <3> QED BY <2>2 DEF Listed, ToSet
  <2>4. list[n] # 0
    <3> HIDE DEF n, T
    <3> QED BY <2>1 DEF Udevs
  <2> QED BY <2>1, <2>2, <2>3, <2>4
<1>5. ASSUME n = 0, NEW v \in Listed
      PROVE  ~ (udev[v].hub = 0 /\ udev[v].port = Last(Root))
  <2>1. T = {}
    <3> HIDE DEF T, n
    <3> QED BY <1>3, <1>5
  <2>2. PICK i \in DOMAIN list : v = list[i]
    BY <1>5 DEF Listed, ToSet
  <2>3. i \in 1..Len(list)
    BY <2>2
  <2> QED BY <2>1, <2>2, <2>3
<1>6. FindRootDevice = 0 => n = 0
  <2> HIDE DEF T, n
  <2> QED BY <1>4
<1>7. FindRootDevice # 0 => n # 0
  <2> HIDE DEF T, n
  <2> QED BY <1>1
<1> HIDE DEF T, n
<1> QED BY <1>4, <1>5, <1>6, <1>7

\* No device is twice in the list.
NoDup(s) == \A i, j \in DOMAIN s : s[i] = s[j] => i = j

\* free_device unlinks the device: what is left is a list without it.
LEMMA RemoveFirstIs ==
    ASSUME NEW S, NEW s \in Seq(S), NEW e
    PROVE  /\ RemoveFirst(s, e) \in Seq(S)
           /\ NoDup(s) => NoDup(RemoveFirst(s, e)) /\ ToSet(RemoveFirst(s, e)) = ToSet(s) \ {e}
<1>1. CASE ~ \E i \in 1..Len(s) : s[i] = e
  <2>1. RemoveFirst(s, e) = s
    BY <1>1 DEF RemoveFirst
  <2>2. e \notin ToSet(s)
    BY <1>1 DEF ToSet
  <2> QED BY <2>1, <2>2
<1>2. CASE \E i \in 1..Len(s) : s[i] = e
  <2> DEFINE T == {i \in 1..Len(s) : s[i] = e}
             k == Min(T)
             r == SubSeq(s, 1, k - 1) \o SubSeq(s, k + 1, Len(s))
  <2>1. T # {} /\ T \subseteq Nat
    BY <1>2
  <2>2. k \in T
    <3> HIDE DEF T
    <3> QED BY <2>1, MinIn
  <2>3. RemoveFirst(s, e) = r
    BY <1>2, <2>1 DEF RemoveFirst, RemoveAt, SelectInSeq
  <2>4. k \in 1..Len(s) /\ s[k] = e
    <3> HIDE DEF k
    <3> QED BY <2>2
  <2> HIDE DEF T, k
  <2>5. /\ r \in Seq(S)
        /\ Len(r) = Len(s) - 1
        /\ \A i \in 1..(Len(s) - 1) : r[i] = IF i < k THEN s[i] ELSE s[i + 1]
    <3> DEFINE a == SubSeq(s, 1, k - 1)
               b == SubSeq(s, k + 1, Len(s))
    <3>1. a \in Seq(S) /\ Len(a) = k - 1 /\ \A i \in 1..(k - 1) : a[i] = s[i]
      BY <2>4
    <3>2. b \in Seq(S) /\ Len(b) = Len(s) - k /\ \A i \in 1..(Len(s) - k) : b[i] = s[k + i]
      BY <2>4
    <3>3. r = a \o b
      OBVIOUS
    <3> HIDE DEF a, b, r
    <3>4. r \in Seq(S) /\ Len(r) = Len(s) - 1
      BY <2>4, <3>1, <3>2, <3>3
    <3>5. ASSUME NEW i \in 1..(Len(s) - 1) PROVE r[i] = IF i < k THEN s[i] ELSE s[i + 1]
      <4>1. CASE i < k
        BY <2>4, <3>1, <3>2, <3>3, <4>1
      <4>2. CASE ~ (i < k)
        <5>1. r[i] = b[i - (k - 1)]
          BY <2>4, <3>1, <3>2, <3>3, <4>2
        <5>2. i - (k - 1) \in 1..(Len(s) - k) /\ k + (i - (k - 1)) = i + 1
          BY <2>4, <4>2
        <5> QED BY <3>2, <4>2, <5>1, <5>2
      <4> QED BY <4>1, <4>2
    <3> QED BY <3>4, <3>5
  <2> HIDE DEF r
  <2>6. ASSUME NoDup(s) PROVE NoDup(r) /\ ToSet(r) = ToSet(s) \ {e}
    <3> DEFINE skip(i) == IF i < k THEN i ELSE i + 1
    <3>1. \A i \in DOMAIN r : skip(i) \in DOMAIN s /\ skip(i) # k /\ r[i] = s[skip(i)]
      BY <2>4, <2>5
    <3>2. \A i, j \in DOMAIN r : skip(i) = skip(j) => i = j
      BY <2>4, <2>5
    <3>3. NoDup(r)
      <4> HIDE DEF skip
      <4> QED BY <2>6, <3>1, <3>2 DEF NoDup
    <3>4. ToSet(r) \subseteq ToSet(s) \ {e}
      <4>1. k \in DOMAIN s
        BY <2>4
      <4> HIDE DEF skip
      <4> QED BY <2>4, <2>6, <3>1, <4>1 DEF NoDup, ToSet
    <3>5. ASSUME NEW x \in ToSet(s) \ {e} PROVE x \in ToSet(r)
      <4>1. PICK j \in DOMAIN s : x = s[j]
        BY DEF ToSet
      <4>2. j \in 1..Len(s) /\ j # k
        BY <2>4, <4>1
      <4>3. CASE j < k
        <5>1. j \in DOMAIN r /\ r[j] = s[j]
          BY <2>4, <2>5, <4>2, <4>3
        <5> QED BY <4>1, <5>1 DEF ToSet
      <4>4. CASE j > k
        <5>1. j - 1 \in DOMAIN r /\ r[j - 1] = s[j]
          BY <2>4, <2>5, <4>2, <4>4
        <5> QED BY <4>1, <5>1 DEF ToSet
      <4> QED BY <2>4, <4>2, <4>3, <4>4
    <3> QED BY <3>3, <3>4, <3>5
  <2> QED BY <2>3, <2>5, <2>6
<1> QED BY <1>1, <1>2

\* alloc_device puts a device that was free at the head of the list.
LEMMA ConsIs ==
    ASSUME NEW S, NEW s \in Seq(S), NEW e \in S
    PROVE  /\ <<e>> \o s \in Seq(S)
           /\ ToSet(<<e>> \o s) = ToSet(s) \cup {e}
           /\ NoDup(s) /\ e \notin ToSet(s) => NoDup(<<e>> \o s)
<1> DEFINE r == <<e>> \o s
<1>1. /\ r \in Seq(S) /\ Len(r) = Len(s) + 1 /\ r[1] = e
      /\ \A i \in 1..Len(s) : r[i + 1] = s[i]
  OBVIOUS
<1> HIDE DEF r
<1>2. \A j \in DOMAIN r : j = 1 \/ (j - 1 \in 1..Len(s) /\ j - 1 \in DOMAIN s /\ r[j] = s[j - 1])
  BY <1>1
<1>3. ToSet(r) \subseteq ToSet(s) \cup {e}
  BY <1>1, <1>2 DEF ToSet
<1>4. e \in ToSet(r)
  <2>1. 1 \in DOMAIN r
    BY <1>1
  <2> QED BY <1>1, <2>1 DEF ToSet
<1>5. ToSet(s) \subseteq ToSet(r)
  <2>1. \A i \in DOMAIN s : i + 1 \in DOMAIN r /\ r[i + 1] = s[i]
    BY <1>1
  <2> QED BY <2>1 DEF ToSet
<1>6. ASSUME NoDup(s), e \notin ToSet(s), NEW i \in DOMAIN r, NEW j \in DOMAIN r, r[i] = r[j]
      PROVE  i = j
  <2>1. CASE i = 1
    BY <1>1, <1>2, <1>6, <2>1 DEF ToSet
  <2>2. CASE j = 1
    BY <1>1, <1>2, <1>6, <2>2 DEF ToSet
  <2>3. CASE i # 1 /\ j # 1
    <3>1. i - 1 = j - 1
      BY <1>2, <1>6, <2>3 DEF NoDup
    <3>2. i \in Nat /\ j \in Nat
      BY <1>1
    <3> QED BY <3>1, <3>2
  <2> QED BY <2>1, <2>2, <2>3
<1> QED BY <1>1, <1>3, <1>4, <1>5, <1>6 DEF NoDup, r

(***************************************************************************)
(* Types.  A frame of the call stack has the fields its place uses, so the *)
(* tables of the library are never indexed outside.                        *)
(***************************************************************************)

WithDevice == {"connect", "address", "describe", "probe", "mount", "mounted", "disc", "kids",
               "rgo", "readdress", "rootdone", "portdone"}
WithHub    == {"ports", "clear", "old", "portreset", "portdone", "rest", "resubmit", "kids"}
WithPort   == {"clear", "old", "portreset", "portdone", "rest"}
WithDrive  == {"mount", "mounted", "rfind"}

Frames == [at : Places, u : 0..NUdevs, h : 0..NHubs, p : {0} \cup Ports, d : 0..NDrives,
           f : {"none", "on", "off", "ok", "error", "change", "stale"}]
GoodFrames == {fr \in Frames : /\ fr.at \in WithDevice => fr.u \in Udevs
                               /\ fr.at \in WithHub => fr.h \in Hubs
                               /\ fr.at \in WithPort => fr.p \in Ports
                               /\ fr.at \in WithDrive => fr.d \in Drives}

UdevType == [hub : 0..NHubs, port : {0} \cup Ports, addr : 0..MaxAddr, kind : Kinds \cup {"none"}]
HubType  == [dev : 0..NUdevs, pos : Seq(Nat), ports : SUBSET Ports, sc : SUBSET Ports, busy : BOOLEAN]

BusTypes ==
    /\ kind \in [Locs -> Kinds \cup {"none"}]
    /\ paddr \in [Locs -> -1..MaxAddr]
    /\ conf \subseteq Locs /\ chg \subseteq Locs
TableTypes ==
    /\ list \in Seq(Udevs) /\ udev \in [Udevs -> UdevType] /\ hub \in [Hubs -> HubType]
    /\ pool \subseteq Addrs /\ cursor \in Addrs
    /\ drive \in [Drives -> 0..NUdevs] /\ bound \subseteq Drives
    /\ mutex \in BOOLEAN
ThreadTypes == stk \in Seq(GoodFrames) /\ ret \in {"ok", "error"}
UseTypes    == /\ moves \in 0..Moves /\ reads \in 0..Reads /\ faults \in 0..Faults
               /\ disturbed \subseteq Locs
Types == BusTypes /\ TableTypes /\ ThreadTypes /\ UseTypes

\* The innermost call is the first frame.
LEMMA TopIs ==
    ASSUME NEW S, stk \in Seq(S), stk # <<>>
    PROVE  Top = stk[1] /\ Top \in S /\ Len(stk) \in Nat \ {0} /\ 1 \in DOMAIN stk
BY DEF Top

\* What Goto, Call and Return do to the stack, frame by frame.
LEMMA StackGoto ==
    ASSUME NEW S, stk \in Seq(S), stk # <<>>, NEW fr \in S, Goto(fr)
    PROVE  /\ stk' \in Seq(S) /\ stk' # <<>> /\ Len(stk') = Len(stk) /\ ret' = ret
           /\ stk'[1] = fr
           /\ \A i \in 2..Len(stk) : stk'[i] = stk[i]
BY DEF Goto

LEMMA StackCall ==
    ASSUME NEW S, stk \in Seq(S), stk # <<>>, NEW fr \in S, NEW next \in S, Call(fr, next)
    PROVE  /\ stk' \in Seq(S) /\ stk' # <<>> /\ Len(stk') = Len(stk) + 1 /\ ret' = ret
           /\ stk'[1] = fr /\ stk'[2] = next
           /\ \A i \in 3..(Len(stk) + 1) : stk'[i] = stk[i - 1]
BY DEF Call

LEMMA StackReturn ==
    ASSUME NEW S, stk \in Seq(S), stk # <<>>, NEW r, Return(r)
    PROVE  /\ stk' \in Seq(S) /\ Len(stk') = Len(stk) - 1 /\ ret' = r
           /\ \A i \in 1..(Len(stk) - 1) : stk'[i] = stk[i + 1]
BY DEF Return

\* disconnect_device returns like any other call, and marks of the calls below it
\* those that use the device it has freed.
LEMMA StackFreed ==
    ASSUME stk \in Seq(GoodFrames), stk # <<>>, NEW u, ReturnFreed(u)
    PROVE  /\ FreeDevice(u) /\ ret' = "ok"
           /\ stk' \in Seq(GoodFrames) /\ Len(stk') = Len(stk) - 1
           /\ \A i \in 1..(Len(stk) - 1) :
                 stk'[i] = IF Uses(stk[i + 1], u) THEN [stk[i + 1] EXCEPT !.f = "stale"] ELSE stk[i + 1]
<1> DEFINE s == Tail(stk)
           mark(fr) == IF Uses(fr, u) THEN [fr EXCEPT !.f = "stale"] ELSE fr
<1>1. s \in Seq(GoodFrames) /\ Len(s) = Len(stk) - 1 /\ \A i \in 1..(Len(stk) - 1) : s[i] = stk[i + 1]
  OBVIOUS
<1>2. stk' = [i \in DOMAIN s |-> mark(s[i])] /\ FreeDevice(u) /\ ret' = "ok"
  BY DEF ReturnFreed, Marked
<1>3. \A fr \in GoodFrames : mark(fr) \in GoodFrames
  BY DEF GoodFrames, Frames
<1>4. \A i \in 1..(Len(stk) - 1) : stk'[i] = mark(stk[i + 1])
  <2> HIDE DEF s, mark
  <2> QED BY <1>1, <1>2
<1>5. stk' \in Seq(GoodFrames) /\ Len(stk') = Len(stk) - 1
  <2> HIDE DEF s, mark
  <2>1. DOMAIN s = 1..Len(s) /\ Len(s) \in Nat /\ \A i \in 1..Len(s) : mark(s[i]) \in GoodFrames
    BY <1>1, <1>3
  <2> QED BY <1>1, <1>2, <2>1
<1> QED BY <1>2, <1>4, <1>5

\* A marked call is the same call, but for its flag.
SameCall(a, b) == /\ a.at = b.at /\ a.u = b.u /\ a.h = b.h /\ a.p = b.p /\ a.d = b.d
                  /\ a.f = b.f \/ a.f = "stale"

LEMMA SameCalls ==
    ASSUME stk \in Seq(GoodFrames), stk # <<>>, NEW u, ReturnFreed(u)
    PROVE  \A i \in 1..(Len(stk) - 1) : SameCall(stk'[i], stk[i + 1])
<1>1. ASSUME NEW i \in 1..(Len(stk) - 1) PROVE SameCall(stk'[i], stk[i + 1])
  <2>1. stk[i + 1] \in Frames
    BY DEF GoodFrames
  <2>2. stk'[i] = [stk[i + 1] EXCEPT !.f = "stale"] \/ stk'[i] = stk[i + 1]
    BY StackFreed
  <2> QED BY <2>1, <2>2 DEF Frames, SameCall
<1> QED BY <1>1

\* Either way of returning takes the innermost call off the stack.
Popped == /\ stk' \in Seq(GoodFrames) /\ Len(stk') = Len(stk) - 1
          /\ \A i \in 1..(Len(stk) - 1) : SameCall(stk'[i], stk[i + 1])

LEMMA ReturnPops ==
    ASSUME stk \in Seq(GoodFrames), stk # <<>>, (\E r : Return(r)) \/ (\E u : ReturnFreed(u))
    PROVE  Popped
<1>1. ASSUME NEW r, Return(r) PROVE Popped
  <2>1. /\ stk' \in Seq(GoodFrames) /\ Len(stk') = Len(stk) - 1
        /\ \A i \in 1..(Len(stk) - 1) : stk'[i] = stk[i + 1]
    BY <1>1, StackReturn
  <2> QED BY <2>1 DEF Popped, SameCall
<1>2. ASSUME NEW u, ReturnFreed(u) PROVE Popped
  BY <1>2, StackFreed, SameCalls DEF Popped
<1> QED BY <1>1, <1>2

\* A number of a table is a number of the type the frames hold.
LEMMA Numbers ==
    /\ Udevs \subseteq 0..NUdevs /\ Hubs \subseteq 0..NHubs /\ Drives \subseteq 0..NDrives
    /\ Udevs \subseteq Nat /\ Hubs \subseteq Nat /\ Drives \subseteq Nat
    /\ 0 \notin Udevs /\ 0 \notin Hubs /\ 0 \notin Drives /\ 0 \notin Addrs
    /\ Ports \subseteq Nat \ {0}
    /\ 0 \in 0..NUdevs /\ 0 \in 0..NHubs /\ 0 \in 0..NDrives /\ 0 \in 0..MaxAddr
    /\ Addrs \subseteq 1..MaxAddr /\ Addrs \subseteq 0..MaxAddr /\ 1 \in Addrs
    /\ NUdevs \in Nat /\ NHubs \in Nat /\ NDrives \in Nat /\ MaxAddr \in Nat \ {0}
<1>1. Ports \subseteq Nat \ {0}
  BY ConstAssumption DEF Ports, Last
<1> QED BY <1>1, ConstAssumption DEF Udevs, Hubs, Drives, Addrs

\* A frame with only a place, and one with only a place and a device.
LEMMA FreshFrame ==
    ASSUME NEW at \in Places \ (WithDevice \cup WithHub \cup WithPort \cup WithDrive)
    PROVE  Fresh(at) \in GoodFrames /\ Fresh(at).at = at /\ Fresh(at).u = 0 /\ Fresh(at).h = 0
           /\ Fresh(at).d = 0 /\ Fresh(at).p = 0
BY Numbers DEF Fresh, Frame, GoodFrames, Frames

LEMMA OnFrame ==
    ASSUME NEW at \in WithDevice \ (WithHub \cup WithPort \cup WithDrive), NEW u \in Udevs
    PROVE  On(at, u) \in GoodFrames /\ On(at, u).at = at /\ On(at, u).u = u /\ On(at, u).h = 0
           /\ On(at, u).d = 0 /\ On(at, u).p = 0
BY Numbers DEF On, Frame, GoodFrames, Frames, WithDevice, Places

\* Positions are sequences of numbers.
LEMMA PosSeq ==
    ASSUME TableTypes
    PROVE  /\ \A h \in 0..NHubs : Pos(h) \in Seq(Nat)
           /\ \A u \in Udevs : Loc(u) \in Seq(Nat) /\ Len(Loc(u)) > 0
<1>1. ASSUME NEW h \in 0..NHubs PROVE Pos(h) \in Seq(Nat)
  <2>1. CASE h = 0
    BY <2>1 DEF Pos
  <2>2. CASE h # 0
    <3>1. h \in Hubs
      BY <2>2, Numbers DEF Hubs
    <3> QED BY <2>2, <3>1 DEF Pos, TableTypes, HubType
  <2> QED BY <2>1, <2>2
<1>2. ASSUME NEW u \in Udevs PROVE Loc(u) \in Seq(Nat) /\ Len(Loc(u)) > 0
  <2>1. udev[u].hub \in 0..NHubs /\ udev[u].port \in Nat
    <3>1. udev[u] \in UdevType
      BY DEF TableTypes
    <3>2. udev[u].hub \in 0..NHubs /\ udev[u].port \in {0} \cup Ports
      BY <3>1 DEF UdevType
    <3>3. \A p \in Ports : p \in Nat
      BY Numbers
    <3> QED BY <3>2, <3>3
  <2>2. Pos(udev[u].hub) \in Seq(Nat)
    BY <1>1, <2>1
  <2> QED BY <2>1, <2>2 DEF Loc
<1> QED BY <1>1, <1>2

\* A request uses a fault or none, a port reset keeps the types of the bus.
LEMMA RequestTypes ==
    ASSUME UseTypes, NEW able, NEW ok \in BOOLEAN, Request(able, ok)
    PROVE  faults' \in 0..Faults
<1>1. faults \in 0..Faults /\ Faults \in Nat
  BY ConstAssumption DEF UseTypes, person
<1>2. CASE able /\ ~ok
  BY <1>1, <1>2 DEF Request
<1>3. CASE ~ (able /\ ~ok)
  BY <1>1, <1>3 DEF Request
<1> QED BY <1>2, <1>3

LEMMA ResetTypes ==
    ASSUME BusTypes, NEW l, ResetPort(l)
    PROVE  paddr' \in [Locs -> -1..MaxAddr] /\ conf' \subseteq Locs
<1>1. conf' \subseteq Locs
  BY DEF BusTypes, ResetPort
<1>2. 0 \in -1..MaxAddr
  BY Numbers
<1>3. paddr' \in [Locs -> -1..MaxAddr]
  BY <1>2 DEF BusTypes, ResetPort
<1> QED BY <1>1, <1>3

LEMMA ResetDeviceTypes ==
    ASSUME BusTypes, NEW u, ResetDevice(u)
    PROVE  paddr' \in [Locs -> -1..MaxAddr] /\ conf' \subseteq Locs /\ chg' \subseteq Locs
<1>1. CASE ResetPort(Loc(u)) /\ chg' \subseteq chg
  BY <1>1, ResetTypes DEF BusTypes
<1>2. CASE UNCHANGED <<paddr, conf>> /\ chg' \subseteq chg
  BY <1>2 DEF BusTypes
<1> QED BY <1>1, <1>2 DEF ResetDevice

\* alloc_device and free_device.
LEMMA AllocTypes ==
    ASSUME TableTypes, NEW u \in Udevs, NEW h \in 0..NHubs, NEW p \in Ports, AllocDevice(u, h, p)
    PROVE  list' \in Seq(Udevs) /\ udev' \in [Udevs -> UdevType]
<1>1. [FreeUdev EXCEPT !.hub = h, !.port = p] \in UdevType
  BY Numbers DEF FreeUdev, UdevType
<1>2. list' \in Seq(Udevs)
  BY ConsIs DEF AllocDevice, TableTypes
<1> QED BY <1>1, <1>2 DEF AllocDevice, TableTypes

LEMMA FreeTypes ==
    ASSUME TableTypes, NEW u, FreeDevice(u)
    PROVE  list' \in Seq(Udevs) /\ udev' \in [Udevs -> UdevType]
<1>1. FreeUdev \in UdevType
  BY Numbers DEF FreeUdev, UdevType
<1>2. list' \in Seq(Udevs)
  BY RemoveFirstIs DEF FreeDevice, TableTypes
<1> QED BY <1>1, <1>2 DEF FreeDevice, TableTypes

LEMMA TypesPerson ==
    ASSUME Types, Person
    PROVE  Types'
<1>1. PICK l \in Locs : Plug(l) \/ Unplug(l)
  BY DEF Person
<1>2. moves' \in 0..Moves /\ disturbed' \subseteq Locs
  BY <1>1, ConstAssumption DEF Plug, Unplug, Disturb, Types, UseTypes
<1>3. UNCHANGED <<table, thread, reads, faults>>
  BY <1>1 DEF Plug, Unplug
<1>4. kind' \in [Locs -> Kinds \cup {"none"}]
  <2>1. CASE Plug(l)
    <3>1. PICK k \in MayHold[l] : kind' = [kind EXCEPT ![l] = k]
      BY <2>1 DEF Plug
    <3>2. k \in Kinds
      BY <3>1, ConstAssumption
    <3> QED BY <3>1, <3>2 DEF Types, BusTypes
  <2>2. CASE Unplug(l)
    <3>1. \A m \in Locs : kind[m] \in Kinds \cup {"none"}
      BY DEF Types, BusTypes
    <3> QED BY <2>2, <3>1 DEF Unplug
  <2> QED BY <1>1, <2>1, <2>2
<1>5. paddr' \in [Locs -> -1..MaxAddr]
  <2>1. -1 \in -1..MaxAddr
    BY Numbers
  <2>2. \A m \in Locs : paddr[m] \in -1..MaxAddr
    BY DEF Types, BusTypes
  <2> QED BY <1>1, <2>1, <2>2 DEF Plug, Unplug, Types, BusTypes
<1>6. conf' \subseteq Locs /\ chg' \subseteq Locs
  BY <1>1 DEF Plug, Unplug, Types, BusTypes
<1> QED BY <1>2, <1>3, <1>4, <1>5, <1>6
     DEF Types, BusTypes, TableTypes, ThreadTypes, UseTypes, person, table, thread

LEMMA TypesIsr ==
    ASSUME Types, Isr
    PROVE  Types'
<1>1. PICK h \in Hubs : HubStatus(h) \/ HubStatusError(h)
  BY DEF Isr
<1>2. hub' \in [Hubs -> HubType]
  <2>1. hub[h] \in HubType
    BY DEF Types, TableTypes
  <2>2. CASE HubStatus(h)
    <3> DEFINE changed == {p \in Ports : Append(hub[h].pos, p) \in chg}
    <3>1. [hub[h] EXCEPT !.sc = @ \cup changed, !.busy = FALSE] \in HubType
      BY <2>1 DEF HubType
    <3>2. hub' = [hub EXCEPT ![h] = [hub[h] EXCEPT !.sc = @ \cup changed, !.busy = FALSE]]
      BY <2>2 DEF HubStatus, Types, TableTypes
    <3> QED BY <3>1, <3>2 DEF Types, TableTypes
  <2>3. CASE HubStatusError(h)
    <3>1. [hub[h] EXCEPT !.busy = FALSE] \in HubType
      BY <2>1 DEF HubType
    <3>2. hub' = [hub EXCEPT ![h] = [hub[h] EXCEPT !.busy = FALSE]]
      BY <2>3 DEF HubStatusError
    <3> QED BY <3>1, <3>2 DEF Types, TableTypes
  <2> QED BY <1>1, <2>2, <2>3
<1>3. faults' \in 0..Faults
  BY <1>1, RequestTypes DEF HubStatus, HubStatusError, Types, UseTypes, person
<1>4. UNCHANGED <<bus, list, udev, pool, cursor, drive, bound, mutex, thread, person, reads>>
  BY <1>1 DEF HubStatus, HubStatusError
<1> QED BY <1>2, <1>3, <1>4
     DEF Types, BusTypes, TableTypes, ThreadTypes, UseTypes, person, bus, thread

LEMMA TypesApp ==
    ASSUME Types, AppPoll \/ \E d \in Drives : AppRead(d)
    PROVE  Types'
<1>1. stk' \in Seq(GoodFrames)
  <2>1. Fresh("root") \in GoodFrames
    BY FreshFrame DEF Places, WithDevice, WithHub, WithPort, WithDrive
  <2>2. CASE AppPoll
    BY <2>1, <2>2 DEF AppPoll
  <2>3. ASSUME NEW d \in Drives, AppRead(d) PROVE stk' \in Seq(GoodFrames)
    <3>1. Frame("rfind", 0, 0, 0, d, "none") \in GoodFrames
      BY Numbers DEF GoodFrames, Frames, Frame, Places, WithDevice, WithHub, WithPort, WithDrive
    <3> QED BY <2>1, <2>3, <3>1 DEF AppRead
  <2> QED BY <2>2, <2>3
<1>2. reads' \in 0..Reads
  BY ConstAssumption DEF AppPoll, AppRead, Types, UseTypes, person
<1>3. UNCHANGED <<bus, table, ret, person, faults>>
  BY DEF AppPoll, AppRead
<1> QED BY <1>1, <1>2, <1>3 DEF Types, BusTypes, TableTypes, ThreadTypes, UseTypes, person, bus, table

\* What the type proofs of the thread's steps use of the stack's top.
TopType ==
    /\ Top \in GoodFrames /\ Top \in Frames
    /\ Top.at \in Places /\ Top.u \in 0..NUdevs /\ Top.h \in 0..NHubs /\ Top.p \in {0} \cup Ports
    /\ Top.d \in 0..NDrives
    /\ Top.at \in WithDevice => Top.u \in Udevs
    /\ Top.at \in WithHub => Top.h \in Hubs
    /\ Top.at \in WithPort => Top.p \in Ports
    /\ Top.at \in WithDrive => Top.d \in Drives

LEMMA TopTypes ==
    ASSUME Types, stk # <<>>
    PROVE  TopType
<1>1. Top \in GoodFrames
  BY TopIs DEF Types, ThreadTypes
<1> QED BY <1>1 DEF TopType, GoodFrames, Frames

\* The stack after a Goto, a Call or a Return is a stack of good frames.
LEMMA StackTypes ==
    ASSUME ThreadTypes, stk # <<>>
    PROVE  /\ \A fr \in GoodFrames : Goto(fr) => ThreadTypes'
           /\ \A fr, next \in GoodFrames : Call(fr, next) => ThreadTypes'
           /\ \A r \in {"ok", "error"} : Return(r) => ThreadTypes'
           /\ \A u : ReturnFreed(u) => ThreadTypes'
<1>1. ASSUME NEW fr \in GoodFrames, Goto(fr) PROVE ThreadTypes'
  BY <1>1, StackGoto DEF ThreadTypes
<1>2. ASSUME NEW fr \in GoodFrames, NEW next \in GoodFrames, Call(fr, next) PROVE ThreadTypes'
  BY <1>2, StackCall DEF ThreadTypes
<1>3. ASSUME NEW r \in {"ok", "error"}, Return(r) PROVE ThreadTypes'
  BY <1>3, StackReturn DEF ThreadTypes
<1>4. ASSUME NEW u, ReturnFreed(u) PROVE ThreadTypes'
  BY <1>4, StackFreed DEF ThreadTypes
<1> QED BY <1>1, <1>2, <1>3, <1>4

\* The devices, slots and drives that the searches find have their types.
LEMMA FoundTypes ==
    ASSUME TableTypes
    PROVE  /\ Listed \subseteq Udevs
           /\ FindRootDevice # 0 => FindRootDevice \in Udevs
           /\ \A pos, p : FindDevice(pos, p) # 0 => FindDevice(pos, p) \in Udevs
           /\ FreeUdevs # {} => Min(FreeUdevs) \in FreeUdevs /\ Min(FreeUdevs) \in Udevs
<1>1. Listed \subseteq Udevs
  <2>1. \A i \in DOMAIN list : list[i] \in Udevs
    BY DEF TableTypes
  <2> QED BY <2>1 DEF Listed, ToSet
<1>2. FindRootDevice # 0 => FindRootDevice \in Listed
  BY FindRootIs DEF TableTypes
<1>3. ASSUME NEW pos, NEW p, FindDevice(pos, p) # 0 PROVE FindDevice(pos, p) \in Listed
  BY <1>3, FindDeviceIs DEF TableTypes
<1>4. FreeUdevs # {} => Min(FreeUdevs) \in FreeUdevs
  <2>1. FreeUdevs \subseteq Nat
    BY Numbers DEF FreeUdevs
  <2> QED BY <2>1, MinIn
<1> QED BY <1>1, <1>2, <1>3, <1>4 DEF FreeUdevs

LEMMA TypesRootPolling ==
    ASSUME Types, RootPolling
    PROVE  Types'
<1>0. stk # <<>>
  BY DEF RootPolling, RootPoll, RootSense, RootOld, RootReset, RootDone, At
<1>1. TopType
  BY <1>0, TopTypes
<1>2. \A at \in {"root", "sense", "new", "gone", "reset", "hubs"} : Fresh(at) \in GoodFrames
  BY FreshFrame DEF Places, WithDevice, WithHub, WithPort, WithDrive
<1>3. \A at \in {"disc", "connect", "rootdone"} : \A u \in Udevs : On(at, u) \in GoodFrames
  BY OnFrame DEF WithDevice, WithHub, WithPort, WithDrive
<1>4. CASE RootPoll
  <2>1. ThreadTypes'
    BY <1>0, <1>2, <1>4, StackTypes DEF RootPoll, Types
  <2>2. chg' \subseteq Locs /\ UNCHANGED <<kind, paddr, conf, table, person, reads, faults>>
    BY <1>4 DEF RootPoll, RootCleared, Types, BusTypes
  <2> QED BY <2>1, <2>2 DEF Types, BusTypes, TableTypes, UseTypes, person, table
<1>5. CASE RootSense
  <2>1. ThreadTypes'
    BY <1>0, <1>2, <1>5, StackTypes DEF RootSense, Types
  <2> QED BY <2>1, <1>5 DEF RootSense, Types, BusTypes, TableTypes, UseTypes, person, bus, table
<1>6. CASE RootOld
  <2>1. ThreadTypes'
    <3>1. CASE FindRootDevice # 0
      BY <1>0, <1>1, <1>3, <1>6, <3>1, StackTypes, FoundTypes DEF RootOld, Types, TopType
    <3>2. CASE FindRootDevice = 0
      BY <1>0, <1>2, <1>6, <3>2, StackTypes DEF RootOld, Types
    <3> QED BY <3>1, <3>2
  <2> QED BY <2>1, <1>6 DEF RootOld, Types, BusTypes, TableTypes, UseTypes, person, bus, table
<1>7. CASE RootReset
  <2>1. paddr' \in [Locs -> -1..MaxAddr] /\ conf' \subseteq Locs
    BY <1>7, ResetTypes DEF RootReset, Types
  <2>2. chg' \subseteq Locs
    BY <1>7 DEF RootReset, Types, BusTypes
  <2>3. ThreadTypes' /\ list' \in Seq(Udevs) /\ udev' \in [Udevs -> UdevType]
    <3>1. CASE Present(Root) /\ FreeUdevs # {}
      <4> DEFINE u == Min(FreeUdevs)
      <4>1. u \in Udevs
        BY <3>1, FoundTypes DEF Types
      <4>2. Last(Root) \in Ports /\ 0 \in 0..NHubs
        BY <3>1, Numbers DEF Present, Ports
      <4>3. AllocDevice(u, 0, Last(Root)) /\ Call(On("connect", u), On("rootdone", u))
        BY <1>7, <3>1 DEF RootReset
      <4> HIDE DEF u
      <4>4. ThreadTypes'
        BY <1>0, <1>3, <4>1, <4>3, StackTypes DEF Types
      <4>5. list' \in Seq(Udevs) /\ udev' \in [Udevs -> UdevType]
        BY <4>1, <4>2, <4>3, AllocTypes DEF Types
      <4> QED BY <4>4, <4>5
    <3>2. CASE ~ (Present(Root) /\ FreeUdevs # {})
      <4>1. Goto(Fresh("hubs")) /\ UNCHANGED <<list, udev>>
        BY <1>7, <3>2 DEF RootReset
      <4> QED BY <1>0, <1>2, <4>1, StackTypes DEF Types, TableTypes
    <3> QED BY <3>1, <3>2
  <2>4. UNCHANGED <<kind, hub, pool, cursor, drive, bound, mutex, person, reads, faults>>
    BY <1>7 DEF RootReset
  <2> QED BY <2>1, <2>2, <2>3, <2>4 DEF Types, BusTypes, TableTypes, UseTypes, person
<1>8. CASE RootDone
  <2>1. ThreadTypes'
    BY <1>0, <1>2, <1>8, StackTypes DEF RootDone, Types
  <2>2. list' \in Seq(Udevs) /\ udev' \in [Udevs -> UdevType]
    BY <1>8, FreeTypes DEF RootDone, Types, TableTypes
  <2> QED BY <1>8, <2>1, <2>2 DEF RootDone, Types, BusTypes, TableTypes, UseTypes, person, bus
<1> QED BY <1>4, <1>5, <1>6, <1>7, <1>8 DEF RootPolling

\* A frame that keeps its fields when it moves to another place of its call.
LEMMA MoveFrame ==
    ASSUME NEW fr \in GoodFrames, NEW at \in Places \ WithDrive,
           NEW f \in {"none", "on", "off", "ok", "error", "change", "stale"},
           at \in WithDevice => fr.u \in Udevs, at \in WithHub => fr.h \in Hubs,
           at \in WithPort => fr.p \in Ports
    PROVE  /\ [fr EXCEPT !.at = at] \in GoodFrames
           /\ [fr EXCEPT !.at = at, !.f = f] \in GoodFrames
BY DEF GoodFrames, Frames

LEMMA TypesHubPolling1 ==
    ASSUME Types, HubsEnter \/ HubsScan \/ HubsPort \/ PortClear \/ PortOld
    PROVE  Types'
<1>0. stk # <<>>
  BY DEF HubsEnter, HubsScan, HubsPort, PortClear, PortOld, At
<1>1. TopType
  BY <1>0, TopTypes
<1>2. \A at \in {"scan", "hubs"} : Fresh(at) \in GoodFrames
  BY FreshFrame DEF Places, WithDevice, WithHub, WithPort, WithDrive
<1>4. Top.f \in {"none", "on", "off", "ok", "error", "change", "stale"}
  BY <1>1 DEF TopType, Frames
<1>5. CASE HubsEnter
  <2>1. ThreadTypes'
    BY <1>0, <1>2, <1>5, StackTypes DEF HubsEnter, Types
  <2> QED BY <2>1, <1>5 DEF HubsEnter, Types, BusTypes, TableTypes, UseTypes, person, bus
<1>6. CASE HubsScan
  <2> DEFINE ready == {h \in Hubs : h > Top.h /\ InUse(h) /\ hub[h].sc # {}}
             fr == Frame("ports", 0, Min(ready), 0, 0, IF Top.f = "error" THEN "error" ELSE "none")
  <2>1. CASE ready # {}
    <3>1. Min(ready) \in ready
      <4>1. ready \subseteq Nat
        BY Numbers
      <4> HIDE DEF ready
      <4> QED BY <2>1, <4>1, MinIn
    <3>2. Goto(fr) /\ UNCHANGED <<mutex>>
      BY <1>6, <2>1 DEF HubsScan
    <3>3. fr \in GoodFrames
      <4>1. Min(ready) \in Hubs /\ Min(ready) \in 0..NHubs
        BY <3>1, Numbers
      <4> HIDE DEF ready
      <4> QED BY <4>1, Numbers DEF GoodFrames, Frames, Frame, Places, WithDevice, WithPort, WithDrive
    <3>4. ThreadTypes'
      <4> HIDE DEF fr
      <4> QED BY <1>0, <3>2, <3>3, StackTypes DEF Types
    <3> QED BY <1>6, <3>2, <3>4 DEF HubsScan, Types, BusTypes, TableTypes, UseTypes, person, bus
  <2>2. CASE ready = {}
    <3>1. mutex' = FALSE /\ (Return("ok") \/ Goto(Fresh("hubs")))
      BY <1>6, <2>2 DEF HubsScan
    <3>2. ThreadTypes'
      BY <1>0, <1>2, <3>1, StackTypes DEF Types
    <3> QED BY <1>6, <3>1, <3>2 DEF HubsScan, Types, BusTypes, TableTypes, UseTypes, person, bus
  <2> QED BY <2>1, <2>2
<1>7. CASE HubsPort
  <2> DEFINE h == Top.h
             next == {p \in hub[h].sc \cap hub[h].ports : p > Top.p}
             p == Min(next)
             l == Append(Pos(h), p)
  <2>0. h \in Hubs
    BY <1>1, <1>7 DEF HubsPort, At, TopType, WithHub
  <2>1. next # {} => p \in Ports
    <3>1. next \subseteq Ports
      BY <2>0 DEF Types, TableTypes, HubType
    <3>2. next # {} => p \in next
      <4>1. next \subseteq Nat
        BY <3>1, Numbers
      <4> HIDE DEF next
      <4> QED BY <4>1, MinIn
    <3> QED BY <3>1, <3>2
  <2>2. faults' \in 0..Faults
    <3>1. CASE next = {}
      <4>1. faults' = faults
        BY <1>7, <3>1 DEF HubsPort
      <4> QED BY <4>1 DEF Types, UseTypes, person
    <3>2. CASE next # {}
      <4>1. PICK ok \in BOOLEAN : Request(Answers(hub[h].dev), ok)
        BY <1>7, <3>2 DEF HubsPort
      <4> QED BY <4>1, RequestTypes DEF Types
    <3> QED BY <3>1, <3>2
  <2>3. ThreadTypes'
    <3>1. CASE next = {}
      <4> DEFINE f == IF Top.f = "error" THEN Top.f ELSE "ok"
      <4>1. Goto([Top EXCEPT !.at = "resubmit", !.f = f])
        BY <1>7, <3>1 DEF HubsPort
      <4>2. [Top EXCEPT !.at = "resubmit", !.f = f] \in GoodFrames
        BY <1>1, <1>4, <2>0, MoveFrame DEF TopType, Places, WithDevice, WithHub, WithPort, WithDrive
      <4> QED BY <1>0, <4>1, <4>2, StackTypes DEF Types
    <3>2. CASE next # {}
      <4>1. \/ Goto([Top EXCEPT !.at = "resubmit", !.f = "error"])
            \/ Goto([Top EXCEPT !.p = p, !.f = "none"])
            \/ \E f \in {"on", "off"} : Goto([Top EXCEPT !.at = "clear", !.p = p, !.f = f])
        BY <1>7, <3>2 DEF HubsPort
      <4>2. p \in Ports
        BY <2>1, <3>2
      <4>3. Top.at = "ports"
        BY <1>7 DEF HubsPort, At
      <4> HIDE DEF p
      <4>4. [Top EXCEPT !.at = "resubmit", !.f = "error"] \in GoodFrames
        BY <1>1, <2>0, MoveFrame DEF TopType, Places, WithDevice, WithHub, WithPort, WithDrive
      <4>5. Top.h \in Hubs /\ Top \in Frames /\ p \in {0} \cup Ports
        BY <1>1, <2>0, <4>2, <4>3 DEF TopType, WithHub
      <4>6. [Top EXCEPT !.p = p, !.f = "none"] \in GoodFrames
        <5> DEFINE fr == [Top EXCEPT !.p = p, !.f = "none"]
        <5>1. fr \in Frames /\ fr.at = "ports" /\ fr.h = Top.h
          BY <4>3, <4>5 DEF Frames
        <5> HIDE DEF fr
        <5>2. fr \in GoodFrames
          BY <4>5, <5>1 DEF GoodFrames, WithDevice, WithHub, WithPort, WithDrive
        <5> QED BY <5>2 DEF fr
      <4>7. ASSUME NEW f \in {"on", "off"}
            PROVE  [Top EXCEPT !.at = "clear", !.p = p, !.f = f] \in GoodFrames
        <5> DEFINE fr == [Top EXCEPT !.at = "clear", !.p = p, !.f = f]
        <5>1. fr \in Frames /\ fr.at = "clear" /\ fr.h = Top.h /\ fr.p = p
          BY <4>5 DEF Frames, Places
        <5> HIDE DEF fr
        <5>2. fr \in GoodFrames
          BY <4>2, <4>5, <5>1 DEF GoodFrames, WithDevice, WithHub, WithPort, WithDrive
        <5> QED BY <5>2 DEF fr
      <4> QED BY <1>0, <4>1, <4>4, <4>6, <4>7, StackTypes DEF Types
    <3> QED BY <3>1, <3>2
  <2>4. UNCHANGED <<bus, table, person, reads>>
    BY <1>7 DEF HubsPort
  <2> QED BY <2>2, <2>3, <2>4 DEF Types, BusTypes, TableTypes, UseTypes, person, bus, table
<1>8. CASE PortClear
  <2>0. Top.at = "clear" /\ Top.h \in Hubs /\ Top.p \in Ports
    BY <1>1, <1>8 DEF PortClear, At, TopType, WithHub, WithPort
  <2>1. PICK ok \in BOOLEAN :
           /\ Request(Answers(hub[Top.h].dev), ok)
           /\ chg' = IF ok THEN chg \ {PortOf(Top)} ELSE chg
           /\ Goto(IF ok THEN [Top EXCEPT !.at = "old"]
                         ELSE [Top EXCEPT !.at = "resubmit", !.f = "error"])
    BY <1>8 DEF PortClear
  <2>2. ThreadTypes'
    <3>1. [Top EXCEPT !.at = "old"] \in GoodFrames /\ [Top EXCEPT !.at = "resubmit", !.f = "error"] \in GoodFrames
      BY <1>1, <2>0, MoveFrame DEF TopType, Places, WithDevice, WithHub, WithPort, WithDrive
    <3> QED BY <1>0, <2>1, <3>1, StackTypes DEF Types
  <2>3. faults' \in 0..Faults
    BY <2>1, RequestTypes DEF Types
  <2>4. UNCHANGED <<kind, paddr, conf, table, person, reads>>
    BY <1>8 DEF PortClear
  <2>5. chg' \subseteq Locs
    BY <2>1 DEF Types, BusTypes
  <2> QED BY <2>2, <2>3, <2>4, <2>5 DEF Types, BusTypes, TableTypes, UseTypes, person, table
<1>9. CASE PortOld
  <2> DEFINE old  == FindDevice(Pos(Top.h), Top.p)
             at   == IF Top.f = "on" THEN "portreset" ELSE "rest"
             next == [Top EXCEPT !.at = at]
  <2>0. Top.at = "old" /\ Top.h \in Hubs /\ Top.p \in Ports
    BY <1>1, <1>9 DEF PortOld, At, TopType, WithHub, WithPort
  <2>1. next \in GoodFrames
    BY <1>1, <2>0, MoveFrame DEF TopType, Places, WithDevice, WithHub, WithPort, WithDrive
  <2>2. (old # 0 /\ Call(On("disc", old), next)) \/ Goto(next)
    BY <1>9 DEF PortOld
  <2>3. old # 0 => On("disc", old) \in GoodFrames
    <3>1. old # 0 => old \in Udevs
      BY FoundTypes DEF Types
    <3> HIDE DEF old
    <3> QED BY <3>1, OnFrame DEF WithDevice, WithHub, WithPort, WithDrive
  <2>4. ThreadTypes'
    <3> HIDE DEF next, old
    <3> QED BY <1>0, <2>1, <2>2, <2>3, StackTypes DEF Types
  <2> QED BY <1>9, <2>4 DEF PortOld, Types, BusTypes, TableTypes, UseTypes, person, bus, table
<1> QED BY <1>5, <1>6, <1>7, <1>8, <1>9

LEMMA TypesHubPolling2 ==
    ASSUME Types, PortReset \/ PortDone \/ PortRest \/ HubResubmit
    PROVE  Types'
<1>0. stk # <<>>
  BY DEF PortReset, PortDone, PortRest, HubResubmit, At
<1>1. TopType
  BY <1>0, TopTypes
<1>2. CASE PortReset
  <2> DEFINE u == Min(FreeUdevs)
  <2>0. Top.at = "portreset" /\ Top.h \in Hubs /\ Top.p \in Ports
    BY <1>1, <1>2 DEF PortReset, At, TopType, WithHub, WithPort
  <2>1. PICK ok \in BOOLEAN :
           /\ Request(Answers(hub[Top.h].dev), ok)
           /\ IF ok THEN ResetPort(PortOf(Top)) ELSE UNCHANGED <<paddr, conf>>
           /\ IF ok /\ FreeUdevs # {}
              THEN /\ AllocDevice(u, Top.h, Top.p)
                   /\ Call(On("connect", u), [Top EXCEPT !.at = "portdone", !.u = u])
              ELSE Goto([Top EXCEPT !.at = "rest"]) /\ UNCHANGED <<list, udev>>
    BY <1>2 DEF PortReset
  <2>2. paddr' \in [Locs -> -1..MaxAddr] /\ conf' \subseteq Locs
    BY <2>1, ResetTypes DEF Types, BusTypes
  <2>3. ThreadTypes' /\ list' \in Seq(Udevs) /\ udev' \in [Udevs -> UdevType]
    <3>1. CASE ok /\ FreeUdevs # {}
      <4>1. u \in Udevs
        BY <3>1, FoundTypes DEF Types
      <4>2. AllocDevice(u, Top.h, Top.p) /\ Call(On("connect", u), [Top EXCEPT !.at = "portdone", !.u = u])
        BY <2>1, <3>1
      <4> HIDE DEF u
      <4>3. On("connect", u) \in GoodFrames
        BY <4>1, OnFrame DEF WithDevice, WithHub, WithPort, WithDrive
      <4>4. [Top EXCEPT !.at = "portdone", !.u = u] \in GoodFrames
        BY <1>1, <2>0, <4>1, Numbers
           DEF TopType, GoodFrames, Frames, Places, WithDevice, WithHub, WithPort, WithDrive
      <4>5. ThreadTypes'
        BY <1>0, <4>2, <4>3, <4>4, StackTypes DEF Types
      <4>6. Top.h \in 0..NHubs
        BY <1>1 DEF TopType
      <4> QED BY <2>0, <4>1, <4>2, <4>5, <4>6, AllocTypes DEF Types
    <3>2. CASE ~ (ok /\ FreeUdevs # {})
      <4>1. Goto([Top EXCEPT !.at = "rest"]) /\ UNCHANGED <<list, udev>>
        BY <2>1, <3>2
      <4>2. [Top EXCEPT !.at = "rest"] \in GoodFrames
        BY <1>1, <2>0, MoveFrame DEF TopType, Places, WithDevice, WithHub, WithPort, WithDrive
      <4> QED BY <1>0, <4>1, <4>2, StackTypes DEF Types, TableTypes
    <3> QED BY <3>1, <3>2
  <2>4. faults' \in 0..Faults
    BY <2>1, RequestTypes DEF Types
  <2>5. UNCHANGED <<kind, chg, hub, pool, cursor, drive, bound, mutex, person, reads>>
    BY <1>2 DEF PortReset
  <2> QED BY <2>2, <2>3, <2>4, <2>5 DEF Types, BusTypes, TableTypes, UseTypes, person
<1>3. CASE PortDone
  <2>0. Top.at = "portdone" /\ Top.h \in Hubs /\ Top.p \in Ports
    BY <1>1, <1>3 DEF PortDone, At, TopType, WithHub, WithPort
  <2>1. [Top EXCEPT !.at = "rest", !.u = 0] \in GoodFrames
    BY <1>1, <2>0, Numbers DEF TopType, GoodFrames, Frames, Places, WithDevice, WithHub, WithPort, WithDrive
  <2>2. ThreadTypes'
    BY <1>0, <1>3, <2>1, StackTypes DEF PortDone, Types
  <2>3. list' \in Seq(Udevs) /\ udev' \in [Udevs -> UdevType]
    BY <1>3, FreeTypes DEF PortDone, Types, TableTypes
  <2> QED BY <1>3, <2>2, <2>3 DEF PortDone, Types, BusTypes, TableTypes, UseTypes, person, bus
<1>4. CASE PortRest
  <2>0. Top.at = "rest" /\ Top.h \in Hubs /\ Top.p \in Ports
    BY <1>1, <1>4 DEF PortRest, At, TopType, WithHub, WithPort
  <2>1. \/ Goto([Top EXCEPT !.at = "ports", !.f = "none"])
        \/ Goto([Top EXCEPT !.at = "resubmit", !.f = "error"])
    BY <1>4 DEF PortRest
  <2>2. /\ [Top EXCEPT !.at = "ports", !.f = "none"] \in GoodFrames
        /\ [Top EXCEPT !.at = "resubmit", !.f = "error"] \in GoodFrames
    BY <1>1, <2>0, MoveFrame DEF TopType, Places, WithDevice, WithHub, WithPort, WithDrive
  <2>3. ThreadTypes'
    BY <1>0, <2>1, <2>2, StackTypes DEF Types
  <2>4. faults' \in 0..Faults
    BY <1>4, RequestTypes DEF PortRest, Types, UseTypes, person
  <2> QED BY <1>4, <2>3, <2>4 DEF PortRest, Types, BusTypes, TableTypes, UseTypes, person, bus, table
<1>5. CASE HubResubmit
  <2>0. Top.at = "resubmit" /\ Top.h \in Hubs
    BY <1>1, <1>5 DEF HubResubmit, At, TopType, WithHub, WithPort
  <2> DEFINE fr == Frame("scan", 0, Top.h, 0, 0, IF AskedAgain THEN "change" ELSE "error")
  <2>1. fr \in GoodFrames
    <3>1. Top.h \in 0..NHubs
      BY <1>1 DEF TopType
    <3> QED BY <3>1, Numbers DEF GoodFrames, Frames, Frame, Places, WithDevice, WithHub, WithPort, WithDrive
  <2>2. Goto(fr)
    BY <1>5 DEF HubResubmit
  <2>3. ThreadTypes'
    <3> HIDE DEF fr
    <3> QED BY <1>0, <2>1, <2>2, StackTypes DEF Types
  <2>4. hub' \in [Hubs -> HubType]
    <3> DEFINE busy == AskedAgain
    <3>1. busy \in BOOLEAN
      BY DEF AskedAgain
    <3>2. hub' = [hub EXCEPT ![Top.h] = [hub[Top.h] EXCEPT !.sc = {}, !.busy = busy]]
      BY <1>5, <2>0 DEF HubResubmit, LeftOver, Types, TableTypes
    <3> HIDE DEF busy
    <3>3. [hub[Top.h] EXCEPT !.sc = {}, !.busy = busy] \in HubType
      BY <2>0, <3>1 DEF HubType, Types, TableTypes
    <3> QED BY <3>2, <3>3 DEF Types, TableTypes
  <2>5. UNCHANGED <<bus, list, udev, pool, cursor, drive, bound, mutex, person, reads, faults>>
    BY <1>5 DEF HubResubmit
  <2> QED BY <2>3, <2>4, <2>5 DEF Types, BusTypes, TableTypes, UseTypes, person, bus
<1> QED BY <1>2, <1>3, <1>4, <1>5

\* alloc_dev_address finds a free address when there is one.
LEMMA NextAddressFree ==
    ASSUME cursor \in Addrs, Addrs \ pool # {}
    PROVE  NextAddress \in Addrs \ pool
<1> DEFINE free == Addrs \ pool
           D(a) == (a - After(cursor)) % MaxAddr
           dist == {D(a) : a \in free}
<1>0. MaxAddr \in Nat \ {0} /\ Addrs \subseteq Nat /\ After(cursor) \in Int
  BY ConstAssumption DEF Addrs, After
<1>1. \A a \in free : D(a) \in Nat
  BY <1>0
<1>2. PICK m \in dist : \A n \in dist : m <= n
  <2>1. dist \subseteq Nat /\ dist # {}
    <3> HIDE DEF D
    <3> QED BY <1>1
  <2> HIDE DEF dist
  <2> QED BY <2>1, MinIn
<1>3. PICK a \in free : m = D(a)
  <2> HIDE DEF D
  <2> QED BY <1>2
<1>4. \A b \in free : D(a) <= D(b)
  <2> HIDE DEF D, free
  <2> QED BY <1>2, <1>3
<1>5. \E x \in Addrs \ pool : \A b \in Addrs \ pool :
         (x - After(cursor)) % MaxAddr <= (b - After(cursor)) % MaxAddr
  BY <1>3, <1>4
<1> QED BY <1>5 DEF NextAddress

LEMMA TypesConnecting ==
    ASSUME Types, Connect \/ SetAddress \/ Describe
    PROVE  Types'
<1>0. stk # <<>>
  BY DEF Connect, SetAddress, Describe, At
<1>1. TopType
  BY <1>0, TopTypes
<1>2. Top.u \in Udevs
  BY <1>1 DEF Connect, SetAddress, Describe, At, TopType, WithDevice
<1>3. \A at \in {"address", "describe", "probe"} : On(at, Top.u) \in GoodFrames
  BY <1>2, OnFrame DEF WithDevice, WithHub, WithPort, WithDrive
<1>4. CASE Connect
  <2>1. ThreadTypes'
    BY <1>0, <1>3, <1>4, StackTypes DEF Connect, Types
  <2>2. paddr' \in [Locs -> -1..MaxAddr] /\ conf' \subseteq Locs /\ chg' \subseteq Locs
    BY <1>4, ResetDeviceTypes DEF Connect, Types
  <2> QED BY <1>4, <2>1, <2>2 DEF Connect, Types, BusTypes, TableTypes, UseTypes, person, table
<1>5. CASE SetAddress
  <2> DEFINE na == NextAddress
  <2>1. na \in Addrs /\ cursor' = na
    BY <1>5, NextAddressFree DEF SetAddress, Types, TableTypes
  <2>2. PICK ok \in BOOLEAN :
           /\ Request(Answers(Top.u), ok)
           /\ IF ok
              THEN /\ pool' = pool \cup {na}
                   /\ udev' = [udev EXCEPT ![Top.u].addr = na]
                   /\ paddr' = [paddr EXCEPT ![Loc(Top.u)] = na]
                   /\ Goto(On("describe", Top.u))
              ELSE Return("error") /\ UNCHANGED <<pool, udev, paddr>>
    BY <1>5 DEF SetAddress
  <2> HIDE DEF na
  <2>3. ThreadTypes'
    BY <1>0, <1>3, <2>2, StackTypes DEF Types
  <2>4. faults' \in 0..Faults
    BY <2>2, RequestTypes DEF Types
  <2>5. pool' \subseteq Addrs
    BY <2>1, <2>2 DEF Types, TableTypes
  <2>6. udev' \in [Udevs -> UdevType]
    <3>1. udev[Top.u] \in UdevType
      BY <1>2 DEF Types, TableTypes
    <3>2. [udev[Top.u] EXCEPT !.addr = na] \in UdevType
      BY <2>1, <3>1, Numbers DEF UdevType
    <3>3. udev' = udev \/ udev' = [udev EXCEPT ![Top.u] = [udev[Top.u] EXCEPT !.addr = na]]
      BY <2>2
    <3> QED BY <3>2, <3>3 DEF Types, TableTypes
  <2>7. paddr' \in [Locs -> -1..MaxAddr]
    <3>1. na \in -1..MaxAddr
      BY <2>1, Numbers
    <3>2. paddr \in [Locs -> -1..MaxAddr]
      BY DEF Types, BusTypes
    <3> QED BY <2>2, <3>1, <3>2
  <2>8. UNCHANGED <<kind, conf, chg, list, hub, drive, bound, mutex, person, reads>>
    BY <1>5 DEF SetAddress
  <2> QED BY <2>1, <2>3, <2>4, <2>5, <2>6, <2>7, <2>8 DEF Types, BusTypes, TableTypes, UseTypes, person
<1>6. CASE Describe
  <2>1. PICK ok \in BOOLEAN :
           /\ Request(Answers(Top.u), ok)
           /\ IF ok
              THEN /\ udev' = [udev EXCEPT ![Top.u].kind = kind[Loc(Top.u)]]
                   /\ conf' = conf \cup {Loc(Top.u)}
                   /\ Goto(On("probe", Top.u))
                   /\ UNCHANGED pool
              ELSE /\ pool' = GivenBack(Top.u)
                   /\ Return("error")
                   /\ UNCHANGED <<udev, conf>>
    BY <1>6 DEF Describe
  <2>2. ThreadTypes'
    BY <1>0, <1>3, <2>1, StackTypes DEF Types
  <2>3. faults' \in 0..Faults
    BY <2>1, RequestTypes DEF Types
  <2>4. pool' \subseteq Addrs
    BY <2>1 DEF GivenBack, Types, TableTypes
  <2>5. udev' \in [Udevs -> UdevType] /\ conf' \subseteq Locs
    <3>1. CASE ok
      <4>1. Loc(Top.u) \in Locs
        BY <2>1, <3>1 DEF Request, Answers, Present
      <4>2. [udev[Top.u] EXCEPT !.kind = kind[Loc(Top.u)]] \in UdevType
        BY <1>2, <4>1 DEF UdevType, Types, TableTypes, BusTypes
      <4>3. udev' = [udev EXCEPT ![Top.u] = [udev[Top.u] EXCEPT !.kind = kind[Loc(Top.u)]]]
        BY <2>1, <3>1
      <4> QED BY <2>1, <3>1, <4>1, <4>2, <4>3 DEF Types, TableTypes, BusTypes
    <3>2. CASE ~ok
      BY <2>1, <3>2 DEF Types, TableTypes, BusTypes
    <3> QED BY <3>1, <3>2
  <2>6. UNCHANGED <<kind, paddr, chg, list, hub, cursor, drive, bound, mutex, person, reads>>
    BY <1>6 DEF Describe
  <2> QED BY <2>2, <2>3, <2>4, <2>5, <2>6 DEF Types, BusTypes, TableTypes, UseTypes, person
<1> QED BY <1>4, <1>5, <1>6

LEMMA TypesProbing ==
    ASSUME Types, ProbeHub \/ ProbePlain \/ ProbeDisk \/ MountRead \/ Mounted
    PROVE  Types'
<1>0. stk # <<>>
  BY DEF ProbeHub, ProbePlain, ProbeDisk, MountRead, Mounted, At
<1>1. TopType
  BY <1>0, TopTypes
<1>2. Top.u \in Udevs
  BY <1>1 DEF ProbeHub, ProbePlain, ProbeDisk, MountRead, Mounted, At, TopType, WithDevice
<1>3. Fresh("root") \in GoodFrames
  BY FreshFrame DEF Places, WithDevice, WithHub, WithPort, WithDrive
<1>4. CASE ProbeHub
  <2> DEFINE free == {h \in Hubs : ~InUse(h)}
             h    == Min(free)
  <2>1. ThreadTypes'
    BY <1>0, <1>4, StackTypes DEF ProbeHub, Types
  <2>2. hub' \in [Hubs -> HubType] /\ faults' \in 0..Faults
    <3>1. CASE free = {}
      BY <1>4, <3>1 DEF ProbeHub, Types, TableTypes, UseTypes, person
    <3>2. CASE free # {}
      <4>1. PICK ok \in BOOLEAN, sent \in BOOLEAN :
               /\ Request(Answers(Top.u), ok)
               /\ hub' = IF sent
                         THEN [hub EXCEPT ![h] = [dev |-> Top.u, pos |-> Loc(Top.u), sc |-> {},
                                  ports |-> IF ok THEN Ports ELSE {}, busy |-> TRUE]]
                         ELSE hub
        BY <1>4, <3>2 DEF ProbeHub
      <4>2. [dev |-> Top.u, pos |-> Loc(Top.u), sc |-> {},
             ports |-> IF ok THEN Ports ELSE {}, busy |-> TRUE] \in HubType
        <5>1. Top.u \in 0..NUdevs /\ Loc(Top.u) \in Seq(Nat)
          BY <1>2, Numbers, PosSeq DEF Types
        <5> QED BY <5>1 DEF HubType
      <4>3. hub' \in [Hubs -> HubType]
        BY <4>1, <4>2 DEF Types, TableTypes
      <4> QED BY <4>1, <4>3, RequestTypes DEF Types
    <3> QED BY <3>1, <3>2
  <2>3. UNCHANGED <<bus, list, udev, pool, cursor, drive, bound, mutex, person, reads>>
    BY <1>4 DEF ProbeHub
  <2> QED BY <2>1, <2>2, <2>3 DEF Types, BusTypes, TableTypes, UseTypes, person, bus
<1>5. CASE ProbePlain
  <2>1. ThreadTypes'
    BY <1>0, <1>5, StackTypes DEF ProbePlain, Types
  <2> QED BY <1>5, <2>1 DEF ProbePlain, Types, BusTypes, TableTypes, UseTypes, person, bus, table
<1>6. CASE ProbeDisk
  <2> DEFINE free == {d \in Drives : drive[d] = 0}
             d    == Min(free)
  <2>1. PICK ok \in BOOLEAN :
           /\ Request(Serves(Top.u), ok)
           /\ IF ok /\ free # {}
              THEN /\ drive' = [drive EXCEPT ![d] = Top.u]
                   /\ Call(Fresh("root"), Frame("mount", Top.u, 0, 0, d, "none"))
              ELSE Return("ok") /\ UNCHANGED drive
    BY <1>6 DEF ProbeDisk
  <2>2. drive' \in [Drives -> 0..NUdevs] /\ ThreadTypes'
    <3>1. CASE ok /\ free # {}
      <4>1. d \in Drives
        <5>1. free \subseteq Nat
          BY Numbers
        <5>2. d \in free
          <6> HIDE DEF free
          <6> QED BY <3>1, <5>1, MinIn
        <5> QED BY <5>2
      <4> HIDE DEF d, free
      <4>2. Top.u \in 0..NUdevs
        BY <1>1 DEF TopType
      <4>3. Frame("mount", Top.u, 0, 0, d, "none") \in GoodFrames
        BY <1>2, <4>1, <4>2, Numbers
           DEF GoodFrames, Frames, Frame, Places, WithHub, WithPort
      <4>4. ThreadTypes'
        BY <1>0, <1>3, <2>1, <3>1, <4>3, StackTypes DEF Types
      <4> QED BY <2>1, <3>1, <4>2, <4>4 DEF Types, TableTypes
    <3>2. CASE ~ (ok /\ free # {})
      BY <1>0, <2>1, <3>2, StackTypes DEF Types, TableTypes
    <3> QED BY <3>1, <3>2
  <2>3. faults' \in 0..Faults
    BY <2>1, RequestTypes DEF Types
  <2>4. UNCHANGED <<bus, list, udev, hub, pool, cursor, bound, mutex, person, reads>>
    BY <1>6 DEF ProbeDisk
  <2> QED BY <2>2, <2>3, <2>4 DEF Types, BusTypes, TableTypes, UseTypes, person, bus
<1>7. CASE MountRead
  <2>0. Top.at = "mount" /\ Top.d \in Drives
    BY <1>1, <1>7 DEF MountRead, At, TopType, WithDrive
  <2>1. [Top EXCEPT !.at = "mounted"] \in GoodFrames
    BY <1>1, <1>2, <2>0 DEF TopType, GoodFrames, Frames, Places, WithHub, WithPort
  <2>2. Frame("rfind", 0, 0, 0, Top.d, "none") \in GoodFrames
    BY <2>0, Numbers DEF GoodFrames, Frames, Frame, Places, WithDevice, WithHub, WithPort
  <2>3. PICK ok \in BOOLEAN :
           /\ Request(Serves(Top.u), ok)
           /\ IF ok THEN Goto([Top EXCEPT !.at = "mounted"])
              ELSE /\ stk' = <<Fresh("root"), Frame("rfind", 0, 0, 0, Top.d, "none"),
                               [Top EXCEPT !.at = "mounted"]>> \o Tail(stk)
                   /\ UNCHANGED ret
    BY <1>7 DEF MountRead
  <2>4. ThreadTypes'
    <3>1. CASE ok
      BY <1>0, <2>1, <2>3, <3>1, StackTypes DEF Types
    <3>2. CASE ~ok
      <4>1. Tail(stk) \in Seq(GoodFrames)
        BY <1>0 DEF Types, ThreadTypes
      <4>2. <<Fresh("root"), Frame("rfind", 0, 0, 0, Top.d, "none"), [Top EXCEPT !.at = "mounted"]>>
               \in Seq(GoodFrames)
        BY <1>3, <2>1, <2>2
      <4> QED BY <2>3, <3>2, <4>1, <4>2 DEF Types, ThreadTypes
    <3> QED BY <3>1, <3>2
  <2>5. faults' \in 0..Faults
    BY <2>3, RequestTypes DEF Types
  <2> QED BY <1>7, <2>4, <2>5 DEF MountRead, Types, BusTypes, TableTypes, UseTypes, person, bus, table
<1>8. CASE Mounted
  <2>0. Top.d \in Drives
    BY <1>1, <1>8 DEF Mounted, At, TopType, WithDrive
  <2>1. ThreadTypes'
    BY <1>0, <1>8, StackTypes DEF Mounted, Types
  <2> QED BY <1>8, <2>0, <2>1 DEF Mounted, Types, BusTypes, TableTypes, UseTypes, person, bus
<1> QED BY <1>4, <1>5, <1>6, <1>7, <1>8

LEMMA TypesDisconnecting ==
    ASSUME Types, Disconnect \/ DisconnectKids
    PROVE  Types'
<1>0. stk # <<>>
  BY DEF Disconnect, DisconnectKids, At
<1>1. TopType
  BY <1>0, TopTypes
<1>2. Top.u \in Udevs
  BY <1>1 DEF Disconnect, DisconnectKids, At, TopType, WithDevice
<1>3. CASE Disconnect
  <2> DEFINE mine == {h \in Hubs : hub[h].dev = Top.u}
             h == Min(mine)
  <2>1. CASE mine # {}
    <3>1. h \in Hubs
      <4>1. mine \subseteq Nat
        BY Numbers
      <4>2. h \in mine
        <5> HIDE DEF mine
        <5> QED BY <2>1, <4>1, MinIn
      <4> QED BY <4>2
    <3>2. /\ hub' = [hub EXCEPT ![h].busy = FALSE]
          /\ Goto(Frame("kids", Top.u, h, 0, 0, "none"))
          /\ UNCHANGED <<list, udev, pool, drive, bound>>
      BY <1>3, <2>1 DEF Disconnect
    <3> HIDE DEF h, mine
    <3>3. ThreadTypes'
      <4>1. Frame("kids", Top.u, h, 0, 0, "none") \in GoodFrames
        <5>1. Top.u \in 0..NUdevs /\ h \in 0..NHubs
          BY <1>2, <3>1, Numbers
        <5> QED BY <1>2, <3>1, <5>1, Numbers
            DEF GoodFrames, Frames, Frame, Places, WithPort, WithDrive
      <4> QED BY <1>0, <3>2, <4>1, StackTypes DEF Types
    <3>4. hub' \in [Hubs -> HubType]
      <4>1. hub' = [hub EXCEPT ![h] = [hub[h] EXCEPT !.busy = FALSE]]
        BY <3>2
      <4>2. [hub[h] EXCEPT !.busy = FALSE] \in HubType
        BY <3>1 DEF HubType, Types, TableTypes
      <4> QED BY <4>1, <4>2 DEF Types, TableTypes
    <3> QED BY <1>3, <3>2, <3>3, <3>4 DEF Disconnect, Types, BusTypes, TableTypes, UseTypes, person, bus
  <2>2. CASE mine = {}
    <3>1. /\ Release(Top.u) /\ pool' = GivenBack(Top.u) /\ ReturnFreed(Top.u)
          /\ UNCHANGED hub
      BY <1>3, <2>2 DEF Disconnect
    <3>2. ThreadTypes'
      BY <1>0, <3>1, StackTypes DEF Types
    <3>3. list' \in Seq(Udevs) /\ udev' \in [Udevs -> UdevType]
      BY <3>1, FreeTypes DEF Types, ReturnFreed
    <3>4. drive' \in [Drives -> 0..NUdevs] /\ bound' \subseteq Drives
      BY <3>1, Numbers DEF Release, Types, TableTypes
    <3>5. pool' \subseteq Addrs
      BY <3>1 DEF GivenBack, Types, TableTypes
    <3>6. UNCHANGED <<bus, cursor, mutex, person, reads, faults>>
      BY <1>3 DEF Disconnect
    <3> QED BY <3>1, <3>2, <3>3, <3>4, <3>5, <3>6 DEF Types, BusTypes, TableTypes, UseTypes, person, bus
  <2> QED BY <2>1, <2>2
<1>4. CASE DisconnectKids
  <2> DEFINE h    == Top.h
             kids == {p \in KidPorts(h) : p > Top.p /\ FindDevice(Pos(h), p) # 0}
             k    == Min(kids)
             kid  == FindDevice(Pos(h), k)
  <2>0. h \in Hubs /\ Top.at = "kids"
    BY <1>1, <1>4 DEF DisconnectKids, At, TopType, WithHub
  <2>1. CASE kids # {}
    <3>1. k \in Ports /\ kid # 0
      <4>1. kids \subseteq Ports
        BY <2>0 DEF KidPorts, HubType, Types, TableTypes
      <4>2. k \in kids
        <5> HIDE DEF kids
        <5> QED BY <2>1, <4>1, Numbers, MinIn
      <4> QED BY <4>1, <4>2
    <3>2. Call(On("disc", kid), [Top EXCEPT !.p = k]) /\ UNCHANGED <<list, udev, hub, pool>>
      BY <1>4, <2>1 DEF DisconnectKids
    <3>3. On("disc", kid) \in GoodFrames
      <4>1. kid \in Udevs
        BY <3>1, FoundTypes DEF Types
      <4> QED BY <4>1, OnFrame DEF WithDevice, WithHub, WithPort, WithDrive
    <3> HIDE DEF kid, k, kids
    <3>4. [Top EXCEPT !.p = k] \in GoodFrames
      BY <1>1, <2>0, <3>1 DEF TopType, GoodFrames, Frames, WithPort, WithDrive
    <3>5. ThreadTypes'
      BY <1>0, <3>2, <3>3, <3>4, StackTypes DEF Types
    <3>6. UNCHANGED <<bus, cursor, drive, bound, mutex, person, reads, faults>>
      BY <1>4 DEF DisconnectKids
    <3> QED BY <3>2, <3>5, <3>6 DEF Types, BusTypes, TableTypes, UseTypes, person, bus
  <2>2. CASE kids = {}
    <3>1. /\ hub' = [hub EXCEPT ![h] = FreeHub] /\ pool' = GivenBack(Top.u)
          /\ ReturnFreed(Top.u)
      BY <1>4, <2>2 DEF DisconnectKids
    <3>2. ThreadTypes'
      BY <1>0, <3>1, StackTypes DEF Types
    <3>3. list' \in Seq(Udevs) /\ udev' \in [Udevs -> UdevType]
      BY <3>1, FreeTypes DEF Types, ReturnFreed
    <3>4. hub' \in [Hubs -> HubType]
      <4>1. FreeHub \in HubType
        BY Numbers DEF FreeHub, HubType
      <4> QED BY <3>1, <4>1 DEF Types, TableTypes
    <3>5. pool' \subseteq Addrs
      BY <3>1 DEF GivenBack, Types, TableTypes
    <3>6. UNCHANGED <<bus, cursor, drive, bound, mutex, person, reads, faults>>
      BY <1>4 DEF DisconnectKids
    <3> QED BY <3>2, <3>3, <3>4, <3>5, <3>6 DEF Types, BusTypes, TableTypes, UseTypes, person, bus
  <2> QED BY <2>1, <2>2
<1> QED BY <1>3, <1>4

LEMMA TypesResetting ==
    ASSUME Types, ResetFind \/ ResetUnbind \/ ResetAddress
    PROVE  Types'
<1>0. stk # <<>>
  BY DEF ResetFind, ResetUnbind, ResetAddress, At
<1>1. TopType
  BY <1>0, TopTypes
<1>2. \A u \in Udevs : \A at \in {"rgo", "readdress", "probe"} : On(at, u) \in GoodFrames
  BY OnFrame DEF WithDevice, WithHub, WithPort, WithDrive
<1>3. CASE ResetFind
  <2>1. Top.d \in Drives
    BY <1>1, <1>3 DEF ResetFind, At, TopType, WithDrive
  <2>2. Fresh("root") \in GoodFrames
    BY FreshFrame DEF Places, WithDevice, WithHub, WithPort, WithDrive
  <2>3. drive[Top.d] = 0 \/ drive[Top.d] \in Udevs
    BY <2>1 DEF Types, TableTypes, Udevs
  <2>4. ThreadTypes'
    BY <1>0, <1>2, <1>3, <2>2, <2>3, StackTypes DEF ResetFind, Types
  <2> QED BY <1>3, <2>4 DEF ResetFind, Types, BusTypes, TableTypes, UseTypes, person, bus, table
<1>4. CASE ResetUnbind
  <2>1. Top.u \in Udevs
    BY <1>1, <1>4 DEF ResetUnbind, At, TopType, WithDevice
  <2>2. ThreadTypes'
    BY <1>0, <1>2, <1>4, <2>1, StackTypes DEF ResetUnbind, Types
  <2>3. drive' \in [Drives -> 0..NUdevs] /\ bound' \subseteq Drives
    BY <1>4, Numbers DEF ResetUnbind, Release, Types, TableTypes
  <2>4. paddr' \in [Locs -> -1..MaxAddr] /\ conf' \subseteq Locs /\ chg' \subseteq Locs
    BY <1>4, ResetDeviceTypes DEF ResetUnbind, Types
  <2> QED BY <1>4, <2>2, <2>3, <2>4 DEF ResetUnbind, Types, BusTypes, TableTypes, UseTypes, person
<1>5. CASE ResetAddress
  <2>1. Top.u \in Udevs
    BY <1>1, <1>5 DEF ResetAddress, At, TopType, WithDevice
  <2>2. PICK ok \in BOOLEAN :
           /\ Request(Present(Loc(Top.u)) /\ paddr[Loc(Top.u)] = 0, ok)
           /\ paddr' = IF ok THEN [paddr EXCEPT ![Loc(Top.u)] = udev[Top.u].addr] ELSE paddr
           /\ IF ok THEN Goto(On("probe", Top.u)) ELSE Return("error")
    BY <1>5 DEF ResetAddress
  <2>3. ThreadTypes'
    BY <1>0, <1>2, <2>1, <2>2, StackTypes DEF Types
  <2>4. paddr' \in [Locs -> -1..MaxAddr]
    <3>1. udev[Top.u].addr \in 0..MaxAddr
      BY <2>1 DEF UdevType, Types, TableTypes
    <3>2. udev[Top.u].addr \in -1..MaxAddr
      BY <3>1, Numbers
    <3> QED BY <2>2, <3>2 DEF Types, BusTypes
  <2>5. faults' \in 0..Faults
    BY <2>2, RequestTypes DEF Types
  <2> QED BY <1>5, <2>3, <2>4, <2>5 DEF ResetAddress, Types, BusTypes, TableTypes, UseTypes, person, table
<1> QED BY <1>3, <1>4, <1>5

LEMMA TypesInit ==
    ASSUME Init
    PROVE  Types
<1>1. FreeUdev \in UdevType /\ FreeHub \in HubType
  BY Numbers DEF FreeUdev, UdevType, FreeHub, HubType
<1>2. BusTypes
  <2>1. -1 \in -1..MaxAddr
    BY Numbers
  <2> QED BY <2>1 DEF Init, BusTypes
<1>3. TableTypes
  <2>1. list \in Seq(Udevs)
    BY DEF Init
  <2>0. mutex \in BOOLEAN
    BY Zenon DEF Init
  <2>2. udev \in [Udevs -> UdevType] /\ hub \in [Hubs -> HubType]
    BY <1>1 DEF Init
  <2>3. pool \subseteq Addrs /\ cursor \in Addrs /\ bound \subseteq Drives
    BY Numbers DEF Init
  <2>4. drive \in [Drives -> 0..NUdevs]
    BY Numbers DEF Init
  <2> QED BY <2>0, <2>1, <2>2, <2>3, <2>4 DEF TableTypes
<1>4. ThreadTypes /\ UseTypes
  BY ConstAssumption DEF Init, ThreadTypes, UseTypes
<1> QED BY <1>2, <1>3, <1>4 DEF Types

\* No step leaves the types: none indexes a table of the library outside.
LEMMA TypesStep ==
    ASSUME Types, [Next]_vars
    PROVE  Types'
<1>1. CASE Person
  BY <1>1, TypesPerson
<1>2. CASE Isr
  BY <1>2, TypesIsr
<1>3. CASE AppPoll \/ \E d \in Drives : AppRead(d)
  BY <1>3, TypesApp
<1>4. CASE RootPolling
  BY <1>4, TypesRootPolling
<1>5. CASE HubPolling
  BY <1>5, TypesHubPolling1, TypesHubPolling2 DEF HubPolling
<1>6. CASE Connecting
  BY <1>6, TypesConnecting, TypesProbing DEF Connecting
<1>7. CASE Disconnect \/ DisconnectKids
  BY <1>7, TypesDisconnecting
<1>8. CASE ResetFind \/ ResetUnbind \/ ResetAddress
  BY <1>8, TypesResetting
<1>9. CASE UNCHANGED vars
  BY <1>9 DEF vars, bus, table, thread, Types, BusTypes, TableTypes, ThreadTypes, UseTypes, person
<1> QED BY <1>1, <1>2, <1>3, <1>4, <1>5, <1>6, <1>7, <1>8, <1>9 DEF Next, Thread

(***************************************************************************)
(* _hub_polling_mutex.                                                     *)
(***************************************************************************)

\* The mutex is set while exactly one call of the stack is in hub_polling.
PollInv ==
    /\ ~mutex => \A i \in DOMAIN stk : stk[i].at \notin InHubPolling
    /\ mutex => \E i \in DOMAIN stk :
                   \A j \in DOMAIN stk : stk[j].at \in InHubPolling <=> j = i

LEMMA PollGoto ==
    ASSUME ThreadTypes, PollInv, stk # <<>>, NEW fr, Goto(fr), mutex' = mutex,
           fr.at \in InHubPolling <=> Top.at \in InHubPolling
    PROVE  PollInv'
<1>0. stk \in Seq(GoodFrames \cup {fr}) /\ fr \in GoodFrames \cup {fr}
  BY SeqMonotonic DEF ThreadTypes
<1>1. /\ Len(stk') = Len(stk) /\ stk'[1] = fr /\ stk' \in Seq(GoodFrames \cup {fr})
      /\ \A i \in 2..Len(stk) : stk'[i] = stk[i]
  BY <1>0, StackGoto
<1>2. Top = stk[1]
  BY TopIs DEF ThreadTypes
<1>3. stk \in Seq(GoodFrames)
  BY DEF ThreadTypes
<1>4. DOMAIN stk' = DOMAIN stk
      /\ \A i \in DOMAIN stk : stk'[i].at \in InHubPolling <=> stk[i].at \in InHubPolling
  BY <1>1, <1>2, <1>3
<1>5. CASE ~mutex
  BY <1>4, <1>5 DEF PollInv
<1>6. CASE mutex
  <2>1. PICK i \in DOMAIN stk : \A j \in DOMAIN stk : stk[j].at \in InHubPolling <=> j = i
    BY <1>6, Zenon DEF PollInv
  <2>2. i \in DOMAIN stk' /\ \A j \in DOMAIN stk' : stk'[j].at \in InHubPolling <=> j = i
    BY <1>4, <2>1
  <2> QED BY <1>6, <2>2, Zenon DEF PollInv
<1> QED BY <1>5, <1>6

LEMMA PollCall ==
    ASSUME ThreadTypes, PollInv, stk # <<>>, NEW fr, NEW next,
           Call(fr, next), mutex' = mutex, fr.at \notin InHubPolling,
           next.at \in InHubPolling <=> Top.at \in InHubPolling
    PROVE  PollInv'
<1>0. stk \in Seq(GoodFrames \cup {fr, next})
      /\ fr \in GoodFrames \cup {fr, next} /\ next \in GoodFrames \cup {fr, next}
  BY SeqMonotonic DEF ThreadTypes
<1>1. /\ Len(stk') = Len(stk) + 1 /\ stk'[1] = fr /\ stk'[2] = next
      /\ stk' \in Seq(GoodFrames \cup {fr, next})
      /\ \A i \in 3..(Len(stk) + 1) : stk'[i] = stk[i - 1]
  BY <1>0, StackCall
<1>2. Top = stk[1] /\ Len(stk) \in Nat \ {0}
  BY TopIs DEF ThreadTypes
<1>3. stk \in Seq(GoodFrames)
  BY DEF ThreadTypes
<1>4. /\ \A i \in DOMAIN stk' : i = 1 \/ (i \in Nat /\ i - 1 \in DOMAIN stk)
      /\ \A i \in DOMAIN stk : i \in Nat /\ i + 1 \in DOMAIN stk' /\ i + 1 # 1
      /\ \A i \in DOMAIN stk : stk'[i + 1].at \in InHubPolling <=> stk[i].at \in InHubPolling
      /\ stk'[1].at \notin InHubPolling
  BY <1>1, <1>2, <1>3
<1>5. CASE ~mutex
  <2>1. ASSUME NEW i \in DOMAIN stk' PROVE stk'[i].at \notin InHubPolling
    <3>1. CASE i = 1
      BY <1>4, <3>1
    <3>2. CASE i \in Nat /\ i - 1 \in DOMAIN stk
      <4>1. i = (i - 1) + 1
        BY <3>2
      <4>2. stk[i - 1].at \notin InHubPolling
        BY <1>5, <3>2 DEF PollInv
      <4> QED BY <1>4, <3>2, <4>1, <4>2
    <3> QED BY <1>4, <3>1, <3>2
  <2> QED BY <1>5, <2>1, Zenon DEF PollInv
<1>6. CASE mutex
  <2>1. PICK i \in DOMAIN stk : \A j \in DOMAIN stk : stk[j].at \in InHubPolling <=> j = i
    BY <1>6, Zenon DEF PollInv
  <2>2. ASSUME NEW j \in DOMAIN stk' PROVE stk'[j].at \in InHubPolling <=> j = i + 1
    <3>1. CASE j = 1
      BY <1>4, <3>1
    <3>2. CASE j \in Nat /\ j - 1 \in DOMAIN stk
      <4>1. j = (j - 1) + 1
        BY <3>2
      <4>2. stk'[j].at \in InHubPolling <=> stk[j - 1].at \in InHubPolling
        BY <1>4, <3>2, <4>1
      <4>3. stk'[j].at \in InHubPolling <=> j - 1 = i
        BY <2>1, <3>2, <4>2
      <4>4. i \in Nat
        BY <1>4
      <4> QED BY <3>2, <4>3, <4>4
    <3> QED BY <1>4, <3>1, <3>2
  <2>3. i + 1 \in DOMAIN stk'
    BY <1>4
  <2> QED BY <1>6, <2>2, <2>3, Zenon DEF PollInv
<1> QED BY <1>5, <1>6

LEMMA PollReturn ==
    ASSUME ThreadTypes, PollInv, stk # <<>>, (\E r : Return(r)) \/ (\E u : ReturnFreed(u)),
           mutex' = mutex, Top.at \notin InHubPolling
    PROVE  PollInv'
<1>1. /\ Len(stk') = Len(stk) - 1 /\ stk' \in Seq(GoodFrames)
      /\ \A i \in 1..(Len(stk) - 1) : stk'[i].at = stk[i + 1].at
  BY ReturnPops DEF ThreadTypes, Popped, SameCall
<1>2. Top = stk[1] /\ Len(stk) \in Nat \ {0}
  BY TopIs DEF ThreadTypes
<1>3. stk \in Seq(GoodFrames)
  BY DEF ThreadTypes
<1>4. /\ \A i \in DOMAIN stk' : i \in Nat /\ i + 1 \in DOMAIN stk /\ stk'[i].at = stk[i + 1].at
      /\ \A i \in DOMAIN stk : i = 1 \/ (i \in Nat /\ i - 1 \in DOMAIN stk')
      /\ stk[1].at \notin InHubPolling /\ 1 \in DOMAIN stk
  BY <1>1, <1>2, <1>3
<1>5. CASE ~mutex
  <2>1. ASSUME NEW i \in DOMAIN stk' PROVE stk'[i].at \notin InHubPolling
    BY <1>4, <1>5 DEF PollInv
  <2> QED BY <1>5, <2>1, Zenon DEF PollInv
<1>6. CASE mutex
  <2>1. PICK i \in DOMAIN stk : \A j \in DOMAIN stk : stk[j].at \in InHubPolling <=> j = i
    BY <1>6, Zenon DEF PollInv
  <2>2. i # 1
    BY <1>4, <2>1
  <2>3. i \in Nat /\ i - 1 \in DOMAIN stk'
    BY <1>4, <2>2
  <2>4. ASSUME NEW j \in DOMAIN stk' PROVE stk'[j].at \in InHubPolling <=> j = i - 1
    <3>1. j \in Nat /\ j + 1 \in DOMAIN stk /\ stk'[j].at = stk[j + 1].at
      BY <1>4
    <3>2. stk[j + 1].at \in InHubPolling <=> j + 1 = i
      BY <2>1, <3>1
    <3>3. j + 1 = i <=> j = i - 1
      BY <2>3, <3>1
    <3> QED BY <3>1, <3>2, <3>3
  <2> QED BY <1>6, <2>3, <2>4, Zenon DEF PollInv
<1> QED BY <1>5, <1>6

\* The three kinds of step that neither enter nor leave hub_polling.
LEMMA PollKeeps ==
    ASSUME Types, PollInv, stk # <<>>, mutex' = mutex,
           \/ \E fr : /\ Goto(fr)
                      /\ fr.at \in InHubPolling <=> Top.at \in InHubPolling
           \/ \E fr, next : /\ Call(fr, next) /\ fr.at \notin InHubPolling
                            /\ next.at \in InHubPolling <=> Top.at \in InHubPolling
           \/ Top.at \notin InHubPolling /\ ((\E r : Return(r)) \/ (\E u : ReturnFreed(u)))
    PROVE  PollInv'
<1>1. ASSUME NEW fr, Goto(fr), fr.at \in InHubPolling <=> Top.at \in InHubPolling
      PROVE  PollInv'
  BY <1>1, PollGoto DEF Types
<1>2. ASSUME NEW fr, NEW next, Call(fr, next),
             fr.at \notin InHubPolling, next.at \in InHubPolling <=> Top.at \in InHubPolling
      PROVE  PollInv'
  BY <1>2, PollCall DEF Types
<1>3. ASSUME (\E r : Return(r)) \/ (\E u : ReturnFreed(u)), Top.at \notin InHubPolling PROVE PollInv'
  BY <1>3, PollReturn DEF Types
<1> QED BY <1>1, <1>2, <1>3

LEMMA PollRoot ==
    ASSUME Types, PollInv, RootPolling
    PROVE  PollInv'
<1>1. stk # <<>> /\ Top.at \notin InHubPolling /\ mutex' = mutex
  BY DEF RootPolling, RootPoll, RootSense, RootOld, RootReset, RootDone, At, InHubPolling, table
<1>2. \/ \E fr : Goto(fr) /\ fr.at \notin InHubPolling
      \/ \E fr, next : Call(fr, next) /\ fr.at \notin InHubPolling /\ next.at \notin InHubPolling
  <2>1. CASE RootPoll
    BY <2>1 DEF RootPoll, Fresh, Frame, InHubPolling
  <2>2. CASE RootSense
    BY <2>2 DEF RootSense, Fresh, Frame, InHubPolling
  <2>3. CASE RootOld
    BY <1>1, <2>3 DEF RootOld, Fresh, On, Frame, InHubPolling
  <2>4. CASE RootReset
    BY <2>4 DEF RootReset, Fresh, On, Frame, InHubPolling
  <2>5. CASE RootDone
    BY <2>5 DEF RootDone, Fresh, Frame, InHubPolling
  <2> QED BY <2>1, <2>2, <2>3, <2>4, <2>5 DEF RootPolling
<1> QED BY <1>1, <1>2, PollKeeps

LEMMA PollHubs ==
    ASSUME Types, PollInv, HubPolling
    PROVE  PollInv'
<1>0. stk # <<>>
  BY DEF HubPolling, HubsEnter, HubsScan, HubsPort, PortClear, PortOld, PortReset, PortDone, PortRest,
         HubResubmit, At
<1>t. Top \in Frames /\ Top = stk[1] /\ 1 \in DOMAIN stk /\ stk \in Seq(GoodFrames)
  BY <1>0, TopTypes, TopIs DEF TopType, Types, ThreadTypes
<1>1. CASE HubsEnter
  <2>1. CASE mutex
    <3>1. Return("ok") /\ mutex' = mutex /\ Top.at \notin InHubPolling
      BY <1>1, <2>1 DEF HubsEnter, PollingBusy, At, InHubPolling, Types, TableTypes
    <3> QED BY <1>0, <3>1, PollKeeps
  <2>2. CASE ~mutex
    <3>1. Goto(Fresh("scan")) /\ mutex' = TRUE
      BY <1>1, <2>2 DEF HubsEnter, PollingBusy
    <3>2. \A i \in DOMAIN stk : stk[i].at \notin InHubPolling
      BY <2>2 DEF PollInv
    <3>3. Fresh("scan").at \in InHubPolling
      BY DEF Fresh, Frame, InHubPolling
    <3>4. stk \in Seq(GoodFrames \cup {Fresh("scan")})
      BY <1>t, SeqMonotonic
    <3>5. /\ stk' \in Seq(GoodFrames \cup {Fresh("scan")}) /\ stk' # <<>> /\ Len(stk') = Len(stk)
          /\ stk'[1] = Fresh("scan") /\ \A i \in 2..Len(stk) : stk'[i] = stk[i]
      BY <1>0, <3>1, <3>4, StackGoto
    <3>6. 1 \in DOMAIN stk' /\ \A j \in DOMAIN stk' : j = 1 \/ (j \in DOMAIN stk /\ stk'[j] = stk[j])
      BY <1>t, <3>5
    <3>7. \A j \in DOMAIN stk' : stk'[j].at \in InHubPolling <=> j = 1
      BY <3>2, <3>3, <3>5, <3>6
    <3> QED BY <3>1, <3>6, <3>7, Zenon DEF PollInv
  <2> QED BY <2>1, <2>2
<1>2. CASE HubsScan
  <2>1. Top.at \in InHubPolling
    BY <1>2 DEF HubsScan, At, InHubPolling
  <2>2. \/ mutex' = mutex /\ \E fr : Goto(fr) /\ fr.at \in InHubPolling
        \/ mutex' = FALSE /\ Return("ok")
        \/ mutex' = FALSE /\ Goto(Fresh("hubs"))
    BY <1>2 DEF HubsScan, Frame, InHubPolling
  <2>3. CASE mutex' = mutex /\ \E fr : Goto(fr) /\ fr.at \in InHubPolling
    BY <1>0, <2>1, <2>3, PollKeeps
  <2>4. PICK i \in DOMAIN stk : \A j \in DOMAIN stk : stk[j].at \in InHubPolling <=> j = i
    BY <1>t, <2>1 DEF PollInv, Types, TableTypes
  <2>5. \A j \in DOMAIN stk : j # 1 => stk[j].at \notin InHubPolling
    BY <1>t, <2>1, <2>4
  <2>6. CASE mutex' = FALSE /\ Return("ok")
    <3>1. /\ stk' \in Seq(GoodFrames) /\ Len(stk') = Len(stk) - 1
          /\ \A k \in 1..(Len(stk) - 1) : stk'[k] = stk[k + 1]
      BY <1>0, <1>t, <2>6, StackReturn
    <3>2. \A k \in DOMAIN stk' : k + 1 \in DOMAIN stk /\ k + 1 # 1 /\ stk'[k] = stk[k + 1]
      BY <1>t, <3>1
    <3>3. \A k \in DOMAIN stk' : stk'[k].at \notin InHubPolling
      BY <2>5, <3>2
    <3> QED BY <2>6, <3>3, Zenon DEF PollInv
  <2>7. CASE mutex' = FALSE /\ Goto(Fresh("hubs"))
    <3>1. Fresh("hubs").at \notin InHubPolling
      BY DEF Fresh, Frame, InHubPolling
    <3>2. stk \in Seq(GoodFrames \cup {Fresh("hubs")})
      BY <1>t, SeqMonotonic
    <3>3. /\ stk' \in Seq(GoodFrames \cup {Fresh("hubs")}) /\ Len(stk') = Len(stk)
          /\ stk'[1] = Fresh("hubs") /\ \A k \in 2..Len(stk) : stk'[k] = stk[k]
      BY <1>0, <2>7, <3>2, StackGoto
    <3>4. \A k \in DOMAIN stk' : k = 1 \/ (k # 1 /\ k \in DOMAIN stk /\ stk'[k] = stk[k])
      BY <1>t, <3>3
    <3>5. \A k \in DOMAIN stk' : stk'[k].at \notin InHubPolling
      BY <2>5, <3>1, <3>3, <3>4
    <3> QED BY <2>7, <3>5, Zenon DEF PollInv
  <2> QED BY <2>2, <2>3, <2>6, <2>7
<1>3. CASE HubsPort \/ PortClear \/ PortOld \/ PortReset \/ PortDone \/ PortRest \/ HubResubmit
  <2>1. Top.at \in InHubPolling
    BY <1>3 DEF HubsPort, PortClear, PortOld, PortReset, PortDone, PortRest, HubResubmit, At, InHubPolling
  <2>2. mutex' = mutex
    BY <1>3 DEF HubsPort, PortClear, PortOld, PortReset, PortDone, PortRest, HubResubmit, table
  <2>3. \/ \E fr : Goto(fr) /\ fr.at \in InHubPolling
        \/ \E fr, next : Call(fr, next) /\ fr.at \notin InHubPolling /\ next.at \in InHubPolling
    <3>1. CASE HubsPort
      <4> DEFINE h    == Top.h
                 left == {p \in hub[h].sc \cap hub[h].ports : p > Top.p}
                 p    == Min(left)
                 l    == Append(Pos(h), p)
                 f0   == IF Top.f = "error" THEN Top.f ELSE "ok"
                 f1   == IF Present(l) THEN "on" ELSE "off"
                 a    == [Top EXCEPT !.at = "resubmit", !.f = f0]
                 b    == [Top EXCEPT !.at = "resubmit", !.f = "error"]
                 c    == [Top EXCEPT !.p = p, !.f = "none"]
                 d    == [Top EXCEPT !.at = "clear", !.p = p, !.f = f1]
      <4>1. Goto(a) \/ Goto(b) \/ Goto(c) \/ Goto(d)
        BY <3>1 DEF HubsPort
      <4>2. a.at = "resubmit" /\ b.at = "resubmit" /\ c.at = Top.at /\ d.at = "clear"
        <5> HIDE DEF p, f0, f1
        <5> QED BY <1>t DEF Frames
      <4> HIDE DEF a, b, c, d
      <4> QED BY <2>1, <4>1, <4>2 DEF InHubPolling
    <3>2. CASE PortClear
      <4> DEFINE a == [Top EXCEPT !.at = "old"]
                 b == [Top EXCEPT !.at = "resubmit", !.f = "error"]
      <4>1. Goto(a) \/ Goto(b)
        BY <3>2 DEF PortClear
      <4>2. a.at = "old" /\ b.at = "resubmit"
        BY <1>t DEF Frames
      <4> HIDE DEF a, b
      <4> QED BY <4>1, <4>2 DEF InHubPolling
    <3>3. CASE PortOld
      <4> DEFINE old == FindDevice(Pos(Top.h), Top.p)
                 at == IF Top.f = "on" THEN "portreset" ELSE "rest"
                 a  == [Top EXCEPT !.at = at]
      <4>1. Call(On("disc", old), a) \/ Goto(a)
        BY <3>3 DEF PortOld
      <4>2. a.at \in InHubPolling
        BY <1>t DEF Frames, InHubPolling
      <4>3. On("disc", old).at \notin InHubPolling
        BY DEF On, Frame, InHubPolling
      <4> HIDE DEF a, old
      <4> QED BY <4>1, <4>2, <4>3
    <3>4. CASE PortReset
      <4> DEFINE u == Min(FreeUdevs)
                 a == [Top EXCEPT !.at = "portdone", !.u = u]
                 b == [Top EXCEPT !.at = "rest"]
      <4>1. Call(On("connect", u), a) \/ Goto(b)
        BY <3>4 DEF PortReset
      <4>2. a.at \in InHubPolling /\ b.at \in InHubPolling
        <5> HIDE DEF u
        <5> QED BY <1>t DEF Frames, InHubPolling
      <4>3. On("connect", u).at \notin InHubPolling
        BY DEF On, Frame, InHubPolling
      <4> HIDE DEF a, b, u
      <4> QED BY <4>1, <4>2, <4>3
    <3>5. CASE PortDone
      <4> DEFINE a == [Top EXCEPT !.at = "rest", !.u = 0]
      <4>1. Goto(a) /\ a.at \in InHubPolling
        BY <1>t, <3>5 DEF PortDone, Frames, InHubPolling
      <4> HIDE DEF a
      <4> QED BY <4>1
    <3>6. CASE PortRest
      <4> DEFINE a == [Top EXCEPT !.at = "ports", !.f = "none"]
                 b == [Top EXCEPT !.at = "resubmit", !.f = "error"]
      <4>1. Goto(a) \/ Goto(b)
        BY <3>6 DEF PortRest
      <4>2. a.at \in InHubPolling /\ b.at \in InHubPolling
        BY <1>t DEF Frames, InHubPolling
      <4> HIDE DEF a, b
      <4> QED BY <4>1, <4>2
    <3>7. CASE HubResubmit
      BY <3>7 DEF HubResubmit, Frame, InHubPolling
    <3> QED BY <1>3, <3>1, <3>2, <3>3, <3>4, <3>5, <3>6, <3>7
  <2> QED BY <1>0, <2>1, <2>2, <2>3, PollKeeps
<1> QED BY <1>1, <1>2, <1>3 DEF HubPolling

\* A mount that fails puts three calls in the place of its own.
LEMMA StackMount ==
    ASSUME NEW S, stk \in Seq(S), stk # <<>>, NEW a \in S, NEW b \in S, NEW c \in S,
           stk' = <<a, b, c>> \o Tail(stk)
    PROVE  /\ stk' \in Seq(S) /\ stk' # <<>> /\ Len(stk') = Len(stk) + 2
           /\ stk'[1] = a /\ stk'[2] = b /\ stk'[3] = c
           /\ \A i \in 4..(Len(stk) + 2) : stk'[i] = stk[i - 2]
<1>1. Tail(stk) \in Seq(S) /\ Len(Tail(stk)) = Len(stk) - 1 /\ Len(stk) \in Nat \ {0}
      /\ \A i \in 1..(Len(stk) - 1) : Tail(stk)[i] = stk[i + 1]
  OBVIOUS
<1> DEFINE t == Tail(stk)
<1> HIDE DEF t
<1>2. /\ <<a, b, c>> \in Seq(S) /\ Len(<<a, b, c>>) = 3
      /\ <<a, b, c>>[1] = a /\ <<a, b, c>>[2] = b /\ <<a, b, c>>[3] = c
  OBVIOUS
<1> DEFINE s == <<a, b, c>>
<1> HIDE DEF s
<1>3. stk' = s \o t
  BY DEF s, t
<1>4. s \in Seq(S) /\ Len(s) = 3 /\ s[1] = a /\ s[2] = b /\ s[3] = c
  BY <1>2 DEF s
<1>5. t \in Seq(S) /\ Len(t) = Len(stk) - 1 /\ \A i \in 1..(Len(stk) - 1) : t[i] = stk[i + 1]
  BY <1>1 DEF t
<1>6. stk' \in Seq(S) /\ Len(stk') = Len(stk) + 2 /\ stk'[1] = a /\ stk'[2] = b /\ stk'[3] = c
  BY <1>1, <1>3, <1>4, <1>5
<1>7. ASSUME NEW i \in 4..(Len(stk) + 2) PROVE stk'[i] = stk[i - 2]
  <2>1. stk'[i] = t[i - 3]
    BY <1>1, <1>3, <1>4, <1>5
  <2>2. i - 3 \in 1..(Len(stk) - 1) /\ (i - 3) + 1 = i - 2
    BY <1>1
  <2> QED BY <1>5, <2>1, <2>2
<1> QED BY <1>1, <1>6, <1>7

LEMMA PollMount ==
    ASSUME ThreadTypes, PollInv, stk # <<>>, NEW a, NEW b, NEW c,
           stk' = <<a, b, c>> \o Tail(stk), mutex' = mutex,
           a.at \notin InHubPolling, b.at \notin InHubPolling, c.at \notin InHubPolling,
           Top.at \notin InHubPolling
    PROVE  PollInv'
<1> DEFINE S == GoodFrames \cup {a, b, c}
<1>0. stk \in Seq(S) /\ a \in S /\ b \in S /\ c \in S
  BY SeqMonotonic DEF ThreadTypes
<1>1. /\ stk' \in Seq(S) /\ Len(stk') = Len(stk) + 2
      /\ stk'[1] = a /\ stk'[2] = b /\ stk'[3] = c
      /\ \A i \in 4..(Len(stk) + 2) : stk'[i] = stk[i - 2]
  <2> HIDE DEF S
  <2> QED BY <1>0, StackMount
<1>2. Top = stk[1] /\ Len(stk) \in Nat \ {0}
  BY TopIs DEF ThreadTypes
<1>4. /\ \A i \in DOMAIN stk' : i \in {1, 2, 3} \/ (i \in Nat /\ i - 2 \in DOMAIN stk /\ i - 2 # 1
                                                   /\ stk'[i] = stk[i - 2])
      /\ \A i \in DOMAIN stk : i \in Nat /\ i + 2 \in DOMAIN stk'
  <2> HIDE DEF S
  <2> QED BY <1>0, <1>1, <1>2
<1>5. CASE ~mutex
  <2>1. ASSUME NEW i \in DOMAIN stk' PROVE stk'[i].at \notin InHubPolling
    <3>1. CASE i \in {1, 2, 3}
      BY <1>1, <3>1
    <3>2. CASE i - 2 \in DOMAIN stk /\ stk'[i] = stk[i - 2]
      BY <1>5, <3>2 DEF PollInv
    <3> QED BY <1>4, <3>1, <3>2
  <2> QED BY <1>5, <2>1, Zenon DEF PollInv
<1>6. CASE mutex
  <2>1. PICK i \in DOMAIN stk : \A j \in DOMAIN stk : stk[j].at \in InHubPolling <=> j = i
    BY <1>6, Zenon DEF PollInv
  <2>2. i # 1 /\ i \in Nat /\ i + 2 \in DOMAIN stk'
    BY <1>2, <1>4, <2>1
  <2>0. i # 0
    BY <1>0, <1>2, <2>1
  <2>3. ASSUME NEW j \in DOMAIN stk' PROVE stk'[j].at \in InHubPolling <=> j = i + 2
    <3>1. CASE j \in {1, 2, 3}
      BY <1>1, <2>0, <2>2, <3>1
    <3>2. CASE j \in Nat /\ j - 2 \in DOMAIN stk /\ stk'[j] = stk[j - 2]
      <4>1. stk'[j].at \in InHubPolling <=> j - 2 = i
        BY <2>1, <3>2
      <4>2. j - 2 = i <=> j = i + 2
        BY <2>2, <3>2
      <4> QED BY <4>1, <4>2
    <3> QED BY <1>4, <3>1, <3>2
  <2> QED BY <1>6, <2>2, <2>3, Zenon DEF PollInv
<1> QED BY <1>5, <1>6

LEMMA PollConnecting ==
    ASSUME Types, PollInv, Connecting
    PROVE  PollInv'
<1>1. stk # <<>> /\ Top.at \notin InHubPolling /\ mutex' = mutex
  BY DEF Connecting, Connect, SetAddress, Describe, ProbeHub, ProbePlain, ProbeDisk, MountRead, Mounted,
         At, InHubPolling, table
<1>2. CASE Connect \/ SetAddress \/ Describe
  <2>1. \A u : /\ On("address", u).at \notin InHubPolling
               /\ On("describe", u).at \notin InHubPolling /\ On("probe", u).at \notin InHubPolling
    BY DEF On, Frame, InHubPolling
  <2>2. (\E fr : Goto(fr) /\ fr.at \notin InHubPolling) \/ \E r : Return(r)
    BY <1>2, <2>1 DEF Connect, SetAddress, Describe
  <2> QED BY <1>1, <2>2, PollKeeps
<1>3. CASE ProbeHub \/ ProbePlain \/ Mounted
  <2>1. Return("ok")
    BY <1>3 DEF ProbeHub, ProbePlain, Mounted
  <2> QED BY <1>1, <2>1, PollKeeps
<1>4. CASE ProbeDisk
  <2>1. \/ \E d : Call(Fresh("root"), Frame("mount", Top.u, 0, 0, d, "none"))
        \/ Return("ok")
    BY <1>4 DEF ProbeDisk
  <2>2. Fresh("root").at \notin InHubPolling
        /\ \A d : Frame("mount", Top.u, 0, 0, d, "none").at \notin InHubPolling
    BY DEF Fresh, Frame, InHubPolling
  <2> QED BY <1>1, <2>1, <2>2, PollKeeps
<1>5. CASE MountRead
  <2> DEFINE a == Fresh("root")
             b == Frame("rfind", 0, 0, 0, Top.d, "none")
             c == [Top EXCEPT !.at = "mounted"]
  <2>1. Goto(c) \/ stk' = <<a, b, c>> \o Tail(stk)
    BY <1>5 DEF MountRead
  <2>2. a.at \notin InHubPolling /\ b.at \notin InHubPolling
    BY DEF Fresh, Frame, InHubPolling
  <2>3. c.at \notin InHubPolling
    <3>1. Top \in Frames
      BY <1>1, TopTypes DEF TopType
    <3> QED BY <3>1 DEF Frames, InHubPolling
  <2> HIDE DEF a, b, c
  <2>4. CASE Goto(c)
    BY <1>1, <2>3, <2>4, PollKeeps
  <2>5. CASE stk' = <<a, b, c>> \o Tail(stk)
    BY <1>1, <2>2, <2>3, <2>5, PollMount DEF Types
  <2> QED BY <2>1, <2>4, <2>5
<1> QED BY <1>2, <1>3, <1>4, <1>5 DEF Connecting

LEMMA PollOther ==
    ASSUME Types, PollInv,
           Disconnect \/ DisconnectKids \/ ResetFind \/ ResetUnbind \/ ResetAddress
    PROVE  PollInv'
<1>1. stk # <<>> /\ Top.at \notin InHubPolling /\ mutex' = mutex
  BY DEF Disconnect, DisconnectKids, ResetFind, ResetUnbind, ResetAddress, At, InHubPolling, table
<1>2. \A u, h : /\ On("disc", u).at \notin InHubPolling /\ On("rgo", u).at \notin InHubPolling
                /\ On("readdress", u).at \notin InHubPolling /\ On("probe", u).at \notin InHubPolling
                /\ Frame("kids", u, h, 0, 0, "none").at \notin InHubPolling
                /\ Fresh("root").at \notin InHubPolling
  BY DEF On, Fresh, Frame, InHubPolling
<1>3. Top \in Frames
  BY <1>1, TopTypes DEF TopType
<1>4. CASE Disconnect
  <2>1. ReturnFreed(Top.u) \/ \E h : Goto(Frame("kids", Top.u, h, 0, 0, "none"))
    BY <1>4 DEF Disconnect
  <2> QED BY <1>1, <1>2, <2>1, PollKeeps
<1>5. CASE DisconnectKids
  <2> DEFINE kids == {p \in KidPorts(Top.h) : p > Top.p /\ FindDevice(Pos(Top.h), p) # 0}
             next == [Top EXCEPT !.p = Min(kids)]
             kid == FindDevice(Pos(Top.h), Min(kids))
  <2>1. ReturnFreed(Top.u) \/ Call(On("disc", kid), next)
    BY <1>5 DEF DisconnectKids
  <2>2. next.at = Top.at
    <3> HIDE DEF kids
    <3> QED BY <1>3 DEF Frames
  <2> HIDE DEF next, kid
  <2> QED BY <1>1, <1>2, <2>1, <2>2, PollKeeps
<1>6. CASE ResetFind \/ ResetUnbind \/ ResetAddress
  <2>1. \/ Return("error")
        \/ \E u : Call(Fresh("root"), On("rgo", u))
        \/ Goto(On("readdress", Top.u)) \/ Goto(On("probe", Top.u))
    BY <1>6 DEF ResetFind, ResetUnbind, ResetAddress
  <2> QED BY <1>1, <1>2, <2>1, PollKeeps
<1> QED BY <1>4, <1>5, <1>6

LEMMA PollApp ==
    ASSUME Types, PollInv, AppPoll \/ \E d \in Drives : AppRead(d)
    PROVE  PollInv'
<1>1. stk = <<>> /\ mutex' = mutex
  BY DEF AppPoll, AppRead, table
<1>2. ~mutex
  <2>1. DOMAIN stk = {}
    BY <1>1
  <2> QED BY <2>1, Zenon DEF PollInv
<1>3. \A d : Fresh("root").at \notin InHubPolling
             /\ Frame("rfind", 0, 0, 0, d, "none").at \notin InHubPolling
  BY DEF Fresh, Frame, InHubPolling
<1>4. stk' = <<Fresh("root")>> \/ \E d : stk' = <<Fresh("root"), Frame("rfind", 0, 0, 0, d, "none")>>
  BY DEF AppPoll, AppRead
<1>5. ASSUME NEW i \in DOMAIN stk' PROVE stk'[i].at \notin InHubPolling
  <2>1. CASE stk' = <<Fresh("root")>>
    BY <1>3, <2>1
  <2>2. ASSUME NEW d, stk' = <<Fresh("root"), Frame("rfind", 0, 0, 0, d, "none")>>
        PROVE  stk'[i].at \notin InHubPolling
    <3>1. i = 1 \/ i = 2
      BY <2>2
    <3> QED BY <1>3, <2>2, <3>1
  <2> QED BY <1>4, <2>1, <2>2
<1> QED BY <1>1, <1>2, <1>5, Zenon DEF PollInv

LEMMA PollStep ==
    ASSUME Types, PollInv, [Next]_vars
    PROVE  PollInv'
<1>1. CASE Person \/ Isr \/ UNCHANGED vars
  <2>1. UNCHANGED <<stk, mutex>>
    BY <1>1 DEF Person, Plug, Unplug, Isr, HubStatus, HubStatusError, vars, table, thread
  <2> QED BY <2>1, Zenon DEF PollInv
<1>2. CASE AppPoll \/ \E d \in Drives : AppRead(d)
  BY <1>2, PollApp
<1>3. CASE RootPolling \/ HubPolling \/ Connecting
  BY <1>3, PollRoot, PollHubs, PollConnecting
<1>4. CASE Disconnect \/ DisconnectKids \/ ResetFind \/ ResetUnbind \/ ResetAddress
  BY <1>4, PollOther
<1> QED BY <1>1, <1>2, <1>3, <1>4 DEF Next, Thread

\* However calls nest in mounts and resets, _hub_polling_mutex is set exactly
\* while one hub_polling is on the stack: a polling entered from inside a
\* hub_polling turns back, and the mutex is never left set behind.
THEOREM PollingNotNestedHolds == Spec => []PollingNotNested
<1> DEFINE I == Types /\ PollInv
<1>1. Init => I
  <2> SUFFICES ASSUME Init PROVE I
    OBVIOUS
  <2>1. DOMAIN stk = {} /\ mutex = FALSE
    BY DEF Init
  <2>2. PollInv
    BY <2>1, Zenon DEF PollInv
  <2> QED BY <2>2, TypesInit
<1>2. I /\ [Next]_vars => I'
  BY TypesStep, PollStep
<1>3. I => PollingNotNested
  <2> SUFFICES ASSUME Types, PollInv PROVE PollingNotNested
    OBVIOUS
  <2> DEFINE inside == {i \in DOMAIN stk : stk[i].at \in InHubPolling}
  <2>1. CASE mutex
    <3>1. PICK i \in DOMAIN stk : \A j \in DOMAIN stk : stk[j].at \in InHubPolling <=> j = i
      BY <2>1, Zenon DEF PollInv
    <3>2. inside = {i}
      BY <3>1
    <3>3. Cardinality(inside) = 1
      BY <3>2, FS_Singleton, Zenon
    <3> QED BY <2>1, <3>3, Zenon DEF PollingNotNested
  <2>2. CASE ~mutex
    <3>1. inside = {}
      BY <2>2 DEF PollInv
    <3>2. Cardinality(inside) = 0
      BY <3>1, FS_EmptySet, Zenon
    <3> QED BY <2>2, <3>2, Zenon DEF PollingNotNested
  <2> QED BY <2>1, <2>2
<1> QED BY <1>1, <1>2, <1>3, PTL DEF Spec

(***************************************************************************)
(* The shape of the call stack: which call waits for which.                *)
(***************************************************************************)

Answering == {"connect", "address", "describe"}
Waiting   == {"new", "gone", "portreset", "rest", "kids"}

\* The call a waits directly inside the call b: connect_device below the code
\* that frees its device when it fails, the reset of a disk below the probe
\* that goes on to link the interface, disconnect_device below its callers.
Inside(a, b) ==
    /\ a.at \in Answering => b.at \in {"rootdone", "portdone"} /\ b.u = a.u
    /\ b.at \in {"rootdone", "portdone"} =>
          a.at \in Answering \cup {"probe", "mount", "mounted"} /\ a.u = b.u
    /\ a.at \in {"rfind", "rgo", "readdress"} => b.at = "mounted"
    /\ b.at \notin Answering

\* Whatever is called from a place of Waiting is disconnecting.
Within(a, b) == b.at \in Waiting => a.at \in {"disc", "kids"}

ShapeInv ==
    /\ \A i, j \in DOMAIN stk : i < j => Within(stk[i], stk[j])
    /\ \A i \in DOMAIN stk : i + 1 \in DOMAIN stk => Inside(stk[i], stk[i + 1])
    /\ \A i \in DOMAIN stk : stk[i].at \in Answering => i + 1 \in DOMAIN stk

\* A call that moves on keeps the shape if it fits where it was.
LEMMA ShapeGoto ==
    ASSUME ThreadTypes, ShapeInv, stk # <<>>, NEW fr, Goto(fr),
           \A b : Within(Top, b) => Within(fr, b),
           \A b : Inside(Top, b) => Inside(fr, b),
           fr.at \in Answering => Top.at \in Answering
    PROVE  ShapeInv'
<1>0. stk \in Seq(GoodFrames \cup {fr}) /\ fr \in GoodFrames \cup {fr}
  BY SeqMonotonic DEF ThreadTypes
<1>1. /\ Len(stk') = Len(stk) /\ stk'[1] = fr /\ stk' \in Seq(GoodFrames \cup {fr})
      /\ \A i \in 2..Len(stk) : stk'[i] = stk[i]
  BY <1>0, StackGoto
<1>2. Top = stk[1] /\ 1 \in DOMAIN stk
  BY TopIs DEF ThreadTypes
<1>3. DOMAIN stk' = DOMAIN stk /\ DOMAIN stk \subseteq Nat \ {0}
      /\ \A i \in DOMAIN stk : i # 1 => stk'[i] = stk[i]
  BY <1>0, <1>1
<1>4. ASSUME NEW i \in DOMAIN stk', NEW j \in DOMAIN stk', i < j
      PROVE  Within(stk'[i], stk'[j])
  <2>1. i \in DOMAIN stk /\ j \in DOMAIN stk /\ j # 1 /\ stk'[j] = stk[j]
    BY <1>3, <1>4
  <2>2. Within(stk[i], stk[j])
    BY <1>4, <2>1 DEF ShapeInv
  <2> QED BY <1>1, <1>2, <1>3, <2>1, <2>2
<1>5. ASSUME NEW i \in DOMAIN stk', i + 1 \in DOMAIN stk'
      PROVE  Inside(stk'[i], stk'[i + 1])
  <2>1. i \in DOMAIN stk /\ i + 1 \in DOMAIN stk /\ i + 1 # 1 /\ stk'[i + 1] = stk[i + 1]
    BY <1>3, <1>5
  <2>2. Inside(stk[i], stk[i + 1])
    BY <2>1 DEF ShapeInv
  <2> QED BY <1>1, <1>2, <1>3, <2>1, <2>2
<1>6. ASSUME NEW i \in DOMAIN stk', stk'[i].at \in Answering PROVE i + 1 \in DOMAIN stk'
  <2>1. stk[i].at \in Answering
    BY <1>1, <1>2, <1>3, <1>6
  <2> QED BY <1>3, <2>1 DEF ShapeInv
<1> QED BY <1>4, <1>5, <1>6 DEF ShapeInv

LEMMA ShapeCall ==
    ASSUME ThreadTypes, ShapeInv, stk # <<>>, NEW fr, NEW next, Call(fr, next),
           \A b : Within(Top, b) => Within(fr, b) /\ Within(next, b),
           \A b : Inside(Top, b) => Inside(next, b),
           Within(fr, next), Inside(fr, next), next.at \notin Answering
    PROVE  ShapeInv'
<1>0. stk \in Seq(GoodFrames \cup {fr, next})
      /\ fr \in GoodFrames \cup {fr, next} /\ next \in GoodFrames \cup {fr, next}
  BY SeqMonotonic DEF ThreadTypes
<1>1. /\ Len(stk') = Len(stk) + 1 /\ stk'[1] = fr /\ stk'[2] = next
      /\ stk' \in Seq(GoodFrames \cup {fr, next})
      /\ \A i \in 3..(Len(stk) + 1) : stk'[i] = stk[i - 1]
  BY <1>0, StackCall
<1>2. Top = stk[1] /\ 1 \in DOMAIN stk /\ Len(stk) \in Nat \ {0}
  BY TopIs DEF ThreadTypes
<1>3. /\ \A i \in DOMAIN stk' : i = 1 \/ i = 2 \/ (i \in Nat /\ i > 2 /\ i - 1 \in DOMAIN stk /\ i - 1 > 1
                                                    /\ stk'[i] = stk[i - 1])
      /\ \A i \in DOMAIN stk : i \in Nat /\ i + 1 \in DOMAIN stk'
      /\ 1 \in DOMAIN stk' /\ 2 \in DOMAIN stk'
  BY <1>0, <1>1, <1>2
<1>4. ASSUME NEW i \in DOMAIN stk', NEW j \in DOMAIN stk', i < j
      PROVE  Within(stk'[i], stk'[j])
  <2>1. CASE j = 2
    <3>1. i = 1
      BY <1>3, <1>4, <2>1
    <3> QED BY <1>1, <2>1, <3>1
  <2>2. CASE j > 2
    <3>1. j \in Nat /\ j - 1 \in DOMAIN stk /\ j - 1 > 1 /\ stk'[j] = stk[j - 1]
      BY <1>3, <2>2
    <3>2. CASE i = 1 \/ i = 2
      <4>1. Within(Top, stk[j - 1])
        BY <1>2, <3>1 DEF ShapeInv
      <4> QED BY <1>1, <3>1, <3>2, <4>1
    <3>3. CASE i > 2
      <4>1. i \in Nat /\ i - 1 \in DOMAIN stk /\ stk'[i] = stk[i - 1] /\ i - 1 < j - 1
        BY <1>3, <1>4, <3>1, <3>3
      <4> QED BY <3>1, <4>1 DEF ShapeInv
    <3> QED BY <1>3, <3>2, <3>3
  <2>3. j # 1
    BY <1>3, <1>4
  <2> QED BY <1>3, <2>1, <2>2, <2>3
<1>5. ASSUME NEW i \in DOMAIN stk', i + 1 \in DOMAIN stk'
      PROVE  Inside(stk'[i], stk'[i + 1])
  <2>1. CASE i = 1
    BY <1>1, <2>1
  <2>2. CASE i = 2
    <3>1. 2 \in DOMAIN stk /\ stk'[3] = stk[2]
      BY <1>3, <1>5, <2>2
    <3>2. Inside(Top, stk[2])
      <4>1. 1 + 1 \in DOMAIN stk => Inside(stk[1], stk[1 + 1])
        BY <1>2 DEF ShapeInv
      <4> QED BY <1>2, <3>1, <4>1
    <3> QED BY <1>1, <2>2, <3>1, <3>2
  <2>3. CASE i > 2
    <3>1. /\ i \in Nat /\ i - 1 \in DOMAIN stk /\ stk'[i] = stk[i - 1]
          /\ (i - 1) + 1 \in DOMAIN stk /\ (i - 1) + 1 = (i + 1) - 1 /\ stk'[i + 1] = stk[(i + 1) - 1]
      BY <1>3, <1>5, <2>3
    <3> QED BY <3>1 DEF ShapeInv
  <2> QED BY <1>3, <2>1, <2>2, <2>3
<1>6. ASSUME NEW i \in DOMAIN stk', stk'[i].at \in Answering PROVE i + 1 \in DOMAIN stk'
  <2>1. CASE i = 1
    BY <1>3, <2>1
  <2>2. CASE i = 2
    BY <1>1, <1>6, <2>2
  <2>3. CASE i > 2
    <3>1. i \in Nat /\ i - 1 \in DOMAIN stk /\ stk'[i] = stk[i - 1]
      BY <1>3, <2>3
    <3>2. (i - 1) + 1 \in DOMAIN stk /\ (i - 1) + 1 = i
      BY <1>6, <3>1 DEF ShapeInv
    <3> QED BY <1>3, <3>2
  <2> QED BY <1>3, <2>1, <2>2, <2>3
<1> QED BY <1>4, <1>5, <1>6 DEF ShapeInv

LEMMA ShapeReturn ==
    ASSUME ThreadTypes, ShapeInv, stk # <<>>, (\E r : Return(r)) \/ (\E u : ReturnFreed(u))
    PROVE  ShapeInv'
<1>1. /\ Len(stk') = Len(stk) - 1 /\ stk' \in Seq(GoodFrames)
      /\ \A i \in 1..(Len(stk) - 1) : SameCall(stk'[i], stk[i + 1])
  BY ReturnPops DEF ThreadTypes, Popped
<1>2. stk \in Seq(GoodFrames) /\ Len(stk) \in Nat \ {0}
  BY TopIs DEF ThreadTypes
<1>3. /\ \A i \in DOMAIN stk' : i \in Nat /\ i + 1 \in DOMAIN stk /\ SameCall(stk'[i], stk[i + 1])
      /\ \A i \in Nat : i + 1 \in DOMAIN stk /\ i > 0 => i \in DOMAIN stk'
  BY <1>1, <1>2
<1>0. \A a, b, c, d : SameCall(a, c) /\ SameCall(b, d) =>
         /\ Within(c, d) => Within(a, b)
         /\ Inside(c, d) => Inside(a, b)
         /\ a.at \in Answering => c.at \in Answering
  BY DEF SameCall, Within, Inside
<1>4. ASSUME NEW i \in DOMAIN stk', NEW j \in DOMAIN stk', i < j
      PROVE  Within(stk'[i], stk'[j])
  <2>1. i + 1 < j + 1 /\ i + 1 \in DOMAIN stk /\ j + 1 \in DOMAIN stk
    BY <1>3, <1>4
  <2>2. Within(stk[i + 1], stk[j + 1])
    BY <2>1 DEF ShapeInv
  <2> QED BY <1>0, <1>3, <2>2
<1>5. ASSUME NEW i \in DOMAIN stk', i + 1 \in DOMAIN stk'
      PROVE  Inside(stk'[i], stk'[i + 1])
  <2>1. Inside(stk[i + 1], stk[(i + 1) + 1])
    BY <1>3, <1>5 DEF ShapeInv
  <2> QED BY <1>0, <1>3, <1>5, <2>1
<1>6. ASSUME NEW i \in DOMAIN stk', stk'[i].at \in Answering PROVE i + 1 \in DOMAIN stk'
  <2>1. stk[i + 1].at \in Answering
    BY <1>0, <1>3, <1>6
  <2>2. (i + 1) + 1 \in DOMAIN stk /\ i + 1 \in Nat /\ i + 1 > 0
    BY <1>3, <2>1 DEF ShapeInv
  <2> QED BY <1>3, <2>2
<1> QED BY <1>4, <1>5, <1>6 DEF ShapeInv

LEMMA ShapeMount ==
    ASSUME ThreadTypes, ShapeInv, stk # <<>>, NEW a, NEW b, NEW c,
           stk' = <<a, b, c>> \o Tail(stk),
           a.at \notin Answering, b.at \notin Answering, c.at \notin Answering,
           Within(a, b), Within(a, c), Within(b, c), Inside(a, b), Inside(b, c),
           \A x : Within(Top, x) => Within(a, x) /\ Within(b, x) /\ Within(c, x),
           \A x : Inside(Top, x) => Inside(c, x)
    PROVE  ShapeInv'
<1> DEFINE S == GoodFrames \cup {a, b, c}
<1>0. stk \in Seq(S) /\ a \in S /\ b \in S /\ c \in S
  BY SeqMonotonic DEF ThreadTypes
<1>1. /\ stk' \in Seq(S) /\ Len(stk') = Len(stk) + 2
      /\ stk'[1] = a /\ stk'[2] = b /\ stk'[3] = c
      /\ \A i \in 4..(Len(stk) + 2) : stk'[i] = stk[i - 2]
  <2> HIDE DEF S
  <2> QED BY <1>0, StackMount
<1>2. Top = stk[1] /\ 1 \in DOMAIN stk /\ Len(stk) \in Nat \ {0}
  BY TopIs DEF ThreadTypes
<1>3. /\ \A i \in DOMAIN stk' : i \in {1, 2, 3} \/ (i \in Nat /\ i > 3 /\ i - 2 \in DOMAIN stk /\ i - 2 > 1
                                                     /\ stk'[i] = stk[i - 2])
      /\ \A i \in DOMAIN stk : i \in Nat /\ i + 2 \in DOMAIN stk'
  <2> HIDE DEF S
  <2> QED BY <1>0, <1>1, <1>2
<1>4. ASSUME NEW i \in DOMAIN stk', NEW j \in DOMAIN stk', i < j
      PROVE  Within(stk'[i], stk'[j])
  <2>1. CASE j \in {1, 2, 3}
    <3>1. (i = 1 /\ j = 2) \/ (i = 1 /\ j = 3) \/ (i = 2 /\ j = 3)
      BY <1>3, <1>4, <2>1
    <3> QED BY <1>1, <3>1
  <2>2. CASE j > 3
    <3>1. j \in Nat /\ j - 2 \in DOMAIN stk /\ j - 2 > 1 /\ stk'[j] = stk[j - 2]
      BY <1>3, <2>2
    <3>2. CASE i \in {1, 2, 3}
      <4>1. Within(Top, stk[j - 2])
        BY <1>2, <3>1 DEF ShapeInv
      <4> QED BY <1>1, <3>1, <3>2, <4>1
    <3>3. CASE i \notin {1, 2, 3}
      <4>1. i \in Nat /\ i - 2 \in DOMAIN stk /\ stk'[i] = stk[i - 2]
        BY <1>3, <3>3
      <4>2. i - 2 < j - 2
        BY <1>4, <3>1, <4>1
      <4> QED BY <3>1, <4>1, <4>2 DEF ShapeInv
    <3> QED BY <1>3, <3>2, <3>3
  <2> QED BY <1>3, <2>1, <2>2
<1>5. ASSUME NEW i \in DOMAIN stk', i + 1 \in DOMAIN stk'
      PROVE  Inside(stk'[i], stk'[i + 1])
  <2>1. CASE i = 1 \/ i = 2
    BY <1>1, <2>1
  <2>2. CASE i = 3
    <3>1. 2 \in DOMAIN stk /\ stk'[4] = stk[2]
      BY <1>3, <1>5, <2>2
    <3>2. Inside(Top, stk[2])
      <4>1. 1 + 1 \in DOMAIN stk => Inside(stk[1], stk[1 + 1])
        BY <1>2 DEF ShapeInv
      <4> QED BY <1>2, <3>1, <4>1
    <3> QED BY <1>1, <2>2, <3>1, <3>2
  <2>3. CASE i \notin {1, 2, 3}
    <3>1. /\ i \in Nat /\ i - 2 \in DOMAIN stk /\ stk'[i] = stk[i - 2]
          /\ (i - 2) + 1 \in DOMAIN stk /\ (i - 2) + 1 = (i + 1) - 2 /\ stk'[i + 1] = stk[(i + 1) - 2]
      <4>1. i \in Nat /\ i > 3 /\ i - 2 \in DOMAIN stk /\ stk'[i] = stk[i - 2]
        BY <1>3, <2>3
      <4>2. i + 1 \notin {1, 2, 3} /\ (i - 2) + 1 = (i + 1) - 2
        BY <4>1
      <4>3. (i + 1) - 2 \in DOMAIN stk /\ stk'[i + 1] = stk[(i + 1) - 2]
        BY <1>3, <1>5, <4>2
      <4> QED BY <4>1, <4>2, <4>3
    <3> QED BY <3>1 DEF ShapeInv
  <2> QED BY <1>3, <2>1, <2>2, <2>3
<1>6. ASSUME NEW i \in DOMAIN stk', stk'[i].at \in Answering PROVE i + 1 \in DOMAIN stk'
  <2>1. CASE i \in {1, 2, 3}
    BY <1>1, <1>6, <2>1
  <2>2. CASE i \notin {1, 2, 3}
    <3>1. i \in Nat /\ i - 2 \in DOMAIN stk /\ stk'[i] = stk[i - 2]
      BY <1>3, <2>2
    <3>2. (i - 2) + 1 \in DOMAIN stk /\ ((i - 2) + 1) + 2 = i + 1
      BY <1>6, <3>1 DEF ShapeInv
    <3> QED BY <1>3, <3>2
  <2> QED BY <1>3, <2>1, <2>2
<1> QED BY <1>4, <1>5, <1>6 DEF ShapeInv

Carrying  == Answering \cup {"probe", "mount", "mounted"}
Resetting == {"rfind", "rgo", "readdress"}

\* The call a may move on to b whatever it waits inside.
Fits(a, b) == /\ b.at \in Answering => a.at \in Answering /\ b.u = a.u
              /\ a.at \in Carrying => b.at \in Carrying /\ b.u = a.u
              /\ b.at \in Resetting => a.at \in Resetting
              /\ a.at \in {"disc", "kids"} => b.at \in {"disc", "kids"}

LEMMA ShapeKeeps ==
    ASSUME Types, ShapeInv, stk # <<>>,
           \/ \E fr : Goto(fr) /\ Fits(Top, fr)
           \/ \E fr, next : /\ Call(fr, next) /\ Fits(Top, next)
                            /\ Inside(fr, next) /\ Within(fr, next) /\ next.at \notin Answering
                            /\ Top.at \in {"disc", "kids"} => fr.at \in {"disc", "kids"}
           \/ \E r : Return(r)
           \/ \E u : ReturnFreed(u)
    PROVE  ShapeInv'
<1>1. ASSUME NEW fr, Goto(fr), Fits(Top, fr) PROVE ShapeInv'
  <2>1. \A b : Within(Top, b) => Within(fr, b)
    BY <1>1 DEF Within, Fits
  <2>2. \A b : Inside(Top, b) => Inside(fr, b)
    BY <1>1 DEF Inside, Fits, Carrying, Resetting
  <2>3. fr.at \in Answering => Top.at \in Answering
    BY <1>1 DEF Fits
  <2> QED BY <1>1, <2>1, <2>2, <2>3, ShapeGoto DEF Types
<1>2. ASSUME NEW fr, NEW next, Call(fr, next), Fits(Top, next), Inside(fr, next), Within(fr, next),
             next.at \notin Answering, Top.at \in {"disc", "kids"} => fr.at \in {"disc", "kids"}
      PROVE  ShapeInv'
  <2>1. \A b : Within(Top, b) => Within(fr, b) /\ Within(next, b)
    BY <1>2 DEF Within, Fits
  <2>2. \A b : Inside(Top, b) => Inside(next, b)
    BY <1>2 DEF Inside, Fits, Carrying, Resetting
  <2> QED BY <1>2, <2>1, <2>2, ShapeCall DEF Types
<1>3. ASSUME (\E r : Return(r)) \/ (\E u : ReturnFreed(u)) PROVE ShapeInv'
  BY <1>3, ShapeReturn DEF Types
<1> QED BY <1>1, <1>2, <1>3

LEMMA ShapeRoot ==
    ASSUME Types, ShapeInv, RootPolling
    PROVE  ShapeInv'
<1>0. stk # <<>>
  BY DEF RootPolling, RootPoll, RootSense, RootOld, RootReset, RootDone, At
<1>1. Top.at \in {"root", "sense", "new", "gone", "reset", "rootdone"}
  BY DEF RootPolling, RootPoll, RootSense, RootOld, RootReset, RootDone, At
<1>2. \/ \E fr : Goto(fr) /\ Fits(Top, fr)
      \/ \E fr, next : /\ Call(fr, next) /\ Fits(Top, next) /\ Inside(fr, next) /\ Within(fr, next)
                       /\ next.at \notin Answering
  <2>1. CASE RootOld
    <3>1. \A u : Inside(On("disc", u), Top) /\ Within(On("disc", u), Top)
      BY <2>1 DEF RootOld, At, Inside, Within, Answering, On, Frame
    <3>2. Fits(Top, Top) /\ Top.at \notin Answering
      BY <1>1 DEF Fits, Answering
    <3>3. Fits(Top, Fresh("reset")) /\ Fits(Top, Fresh("root"))
      BY <1>1 DEF Fits, Answering, Carrying, Resetting, Fresh, Frame
    <3> QED BY <2>1, <3>1, <3>2, <3>3 DEF RootOld
  <2>2. CASE RootReset
    <3>1. \A u : /\ Inside(On("connect", u), On("rootdone", u)) /\ Within(On("connect", u), On("rootdone", u))
                 /\ Fits(Top, On("rootdone", u)) /\ On("rootdone", u).at \notin Answering
      BY <1>1 DEF Inside, Within, Waiting, Fits, Answering, Carrying, Resetting, On, Frame
    <3>2. Fits(Top, Fresh("hubs"))
      BY <1>1 DEF Fits, Answering, Carrying, Resetting, Fresh, Frame
    <3> QED BY <2>2, <3>1, <3>2 DEF RootReset
  <2>3. CASE RootPoll \/ RootSense \/ RootDone
    <3>1. \A at \in {"sense", "hubs", "new", "gone", "root"} : Fits(Top, Fresh(at))
      BY <1>1 DEF Fits, Answering, Carrying, Resetting, Fresh, Frame
    <3> QED BY <2>3, <3>1 DEF RootPoll, RootSense, RootDone
  <2> QED BY <2>1, <2>2, <2>3 DEF RootPolling
<1> QED BY <1>0, <1>1, <1>2, ShapeKeeps

\* Where the frame of a hub's turn goes.
LEMMA HubMoves ==
    ASSUME Top \in Frames
    PROVE  /\ HubsPort => \E fr : Goto(fr) /\ fr.at \in {"ports", "clear", "resubmit"}
           /\ PortClear => \E fr : Goto(fr) /\ fr.at \in {"old", "resubmit"}
           /\ PortOld => \/ \E u, next : Call(On("disc", u), next) /\ next.at \in {"portreset", "rest"}
                         \/ \E fr : Goto(fr) /\ fr.at \in {"portreset", "rest"}
           /\ PortReset => \/ \E next : /\ Call(On("connect", Min(FreeUdevs)), next)
                                        /\ next.at = "portdone" /\ next.u = Min(FreeUdevs)
                           \/ \E fr : Goto(fr) /\ fr.at = "rest"
           /\ PortDone => \E fr : Goto(fr) /\ fr.at = "rest"
           /\ PortRest => \E fr : Goto(fr) /\ fr.at \in {"ports", "resubmit"}
           /\ HubResubmit => \E fr : Goto(fr) /\ fr.at = "scan"
<1>1. ASSUME HubsPort PROVE \E fr : Goto(fr) /\ fr.at \in {"ports", "clear", "resubmit"}
  <2> DEFINE h    == Top.h
             left == {p \in hub[h].sc \cap hub[h].ports : p > Top.p}
             p    == Min(left)
             l    == Append(Pos(h), p)
             f0   == IF Top.f = "error" THEN Top.f ELSE "ok"
             f1   == IF Present(l) THEN "on" ELSE "off"
             a    == [Top EXCEPT !.at = "resubmit", !.f = f0]
             b    == [Top EXCEPT !.at = "resubmit", !.f = "error"]
             c    == [Top EXCEPT !.p = p, !.f = "none"]
             d    == [Top EXCEPT !.at = "clear", !.p = p, !.f = f1]
  <2>1. Goto(a) \/ Goto(b) \/ Goto(c) \/ Goto(d)
    BY <1>1 DEF HubsPort
  <2>2. a.at = "resubmit" /\ b.at = "resubmit" /\ c.at = Top.at /\ d.at = "clear"
    <3> HIDE DEF p, f0, f1
    <3> QED BY DEF Frames
  <2>3. Top.at = "ports"
    BY <1>1 DEF HubsPort, At
  <2> HIDE DEF a, b, c, d
  <2> QED BY <2>1, <2>2, <2>3
<1>2. ASSUME PortClear PROVE \E fr : Goto(fr) /\ fr.at \in {"old", "resubmit"}
  <2> DEFINE a == [Top EXCEPT !.at = "old"]
             b == [Top EXCEPT !.at = "resubmit", !.f = "error"]
  <2>1. Goto(a) \/ Goto(b)
    BY <1>2 DEF PortClear
  <2>2. a.at = "old" /\ b.at = "resubmit"
    BY DEF Frames
  <2> HIDE DEF a, b
  <2> QED BY <2>1, <2>2
<1>3. ASSUME PortOld
      PROVE  \/ \E u, next : Call(On("disc", u), next) /\ next.at \in {"portreset", "rest"}
             \/ \E fr : Goto(fr) /\ fr.at \in {"portreset", "rest"}
  <2> DEFINE old == FindDevice(Pos(Top.h), Top.p)
             at  == IF Top.f = "on" THEN "portreset" ELSE "rest"
             a   == [Top EXCEPT !.at = at]
  <2>1. Call(On("disc", old), a) \/ Goto(a)
    BY <1>3 DEF PortOld
  <2>2. a.at = at
    BY DEF Frames
  <2> HIDE DEF a, old
  <2> QED BY <2>1, <2>2
<1>4. ASSUME PortReset
      PROVE  \/ \E next : /\ Call(On("connect", Min(FreeUdevs)), next)
                          /\ next.at = "portdone" /\ next.u = Min(FreeUdevs)
             \/ \E fr : Goto(fr) /\ fr.at = "rest"
  <2> DEFINE u == Min(FreeUdevs)
             a == [Top EXCEPT !.at = "portdone", !.u = u]
             b == [Top EXCEPT !.at = "rest"]
  <2>1. Call(On("connect", u), a) \/ Goto(b)
    BY <1>4 DEF PortReset
  <2> HIDE DEF u
  <2>2. a.at = "portdone" /\ a.u = u /\ b.at = "rest"
    BY DEF Frames
  <2> HIDE DEF a, b
  <2>3. (\E next : Call(On("connect", u), next) /\ next.at = "portdone" /\ next.u = u)
        \/ \E fr : Goto(fr) /\ fr.at = "rest"
    BY <2>1, <2>2
  <2> QED BY <2>3 DEF u
<1>5. ASSUME PortDone PROVE \E fr : Goto(fr) /\ fr.at = "rest"
  <2> DEFINE a == [Top EXCEPT !.at = "rest", !.u = 0]
  <2>1. Goto(a) /\ a.at = "rest"
    BY <1>5 DEF PortDone, Frames
  <2> HIDE DEF a
  <2> QED BY <2>1
<1>6. ASSUME PortRest PROVE \E fr : Goto(fr) /\ fr.at \in {"ports", "resubmit"}
  <2> DEFINE a == [Top EXCEPT !.at = "ports", !.f = "none"]
             b == [Top EXCEPT !.at = "resubmit", !.f = "error"]
  <2>1. Goto(a) \/ Goto(b)
    BY <1>6 DEF PortRest
  <2>2. a.at = "ports" /\ b.at = "resubmit"
    BY DEF Frames
  <2> HIDE DEF a, b
  <2> QED BY <2>1, <2>2
<1>7. ASSUME HubResubmit PROVE \E fr : Goto(fr) /\ fr.at = "scan"
  <2>1. \A h, f : Frame("scan", 0, h, 0, 0, f).at = "scan"
    BY DEF Frame
  <2> QED BY <1>7, <2>1 DEF HubResubmit
<1> QED BY <1>1, <1>2, <1>3, <1>4, <1>5, <1>6, <1>7

LEMMA ShapeHubs ==
    ASSUME Types, ShapeInv, HubPolling
    PROVE  ShapeInv'
<1>0. stk # <<>>
  BY DEF HubPolling, HubsEnter, HubsScan, HubsPort, PortClear, PortOld, PortReset, PortDone, PortRest,
         HubResubmit, At
<1>t. Top \in Frames
  BY <1>0, TopTypes DEF TopType
<1> DEFINE Here == InHubPolling \cup {"hubs"}
<1>1. Top.at \in Here
  BY DEF HubPolling, HubsEnter, HubsScan, HubsPort, PortClear, PortOld, PortReset, PortDone, PortRest,
         HubResubmit, At, InHubPolling
<1>2. \A fr : fr.at \in Here => Fits(Top, fr) /\ fr.at \notin Answering
  BY <1>1 DEF Fits, Answering, Carrying, Resetting, InHubPolling
<1>3. \/ \E fr : Goto(fr) /\ fr.at \in Here
      \/ \E fr, next : /\ Call(fr, next) /\ next.at \in Here
                       /\ Inside(fr, next) /\ Within(fr, next)
      \/ \E r : Return(r)
  <2>1. CASE HubsEnter
    <3>1. Fresh("scan").at \in Here
      BY DEF Fresh, Frame, InHubPolling
    <3> QED BY <2>1, <3>1 DEF HubsEnter
  <2>2. CASE HubsScan
    <3>1. Fresh("hubs").at \in Here /\ \A h, f : Frame("ports", 0, h, 0, 0, f).at \in Here
      BY DEF Fresh, Frame, InHubPolling
    <3> QED BY <2>2, <3>1 DEF HubsScan
  <2>3. CASE HubsPort \/ PortClear \/ PortDone \/ PortRest \/ HubResubmit
    <3>1. \A at \in {"ports", "clear", "old", "rest", "resubmit", "scan"} : at \in Here
      BY DEF InHubPolling
    <3> HIDE DEF Here
    <3> QED BY <1>t, <2>3, <3>1, HubMoves
  <2>4. CASE PortOld
    <3>1. "portreset" \in Here /\ "rest" \in Here
      BY DEF InHubPolling
    <3>2. ASSUME NEW u, NEW next, next.at \in {"portreset", "rest"}
          PROVE  Inside(On("disc", u), next) /\ Within(On("disc", u), next)
      BY <3>2 DEF Inside, Within, Answering, On, Frame
    <3> HIDE DEF Here
    <3> QED BY <1>t, <2>4, <3>1, <3>2, HubMoves
  <2>5. CASE PortReset
    <3>1. "portdone" \in Here /\ "rest" \in Here
      BY DEF InHubPolling
    <3>2. ASSUME NEW u, NEW next, next.at = "portdone", next.u = u
          PROVE  Inside(On("connect", u), next) /\ Within(On("connect", u), next)
      BY <3>2 DEF Inside, Within, Waiting, Answering, On, Frame
    <3> HIDE DEF Here
    <3> QED BY <1>t, <2>5, <3>1, <3>2, HubMoves
  <2> QED BY <2>1, <2>2, <2>3, <2>4, <2>5 DEF HubPolling
<1>4. Top.at \notin {"disc", "kids"}
  BY <1>1 DEF InHubPolling
<1> HIDE DEF Here
<1>5. \/ \E fr : Goto(fr) /\ Fits(Top, fr)
      \/ \E fr, next : /\ Call(fr, next) /\ Fits(Top, next)
                       /\ Inside(fr, next) /\ Within(fr, next) /\ next.at \notin Answering
      \/ \E r : Return(r)
  BY <1>2, <1>3
<1> QED BY <1>0, <1>4, <1>5, ShapeKeeps

LEMMA ShapeConnecting ==
    ASSUME Types, ShapeInv, Connecting
    PROVE  ShapeInv'
<1>0. stk # <<>>
  BY DEF Connecting, Connect, SetAddress, Describe, ProbeHub, ProbePlain, ProbeDisk, MountRead, Mounted, At
<1>t. Top \in Frames
  BY <1>0, TopTypes DEF TopType
<1>1. CASE Connect \/ SetAddress \/ Describe
  <2>1. Top.at \in Answering
    BY <1>1 DEF Connect, SetAddress, Describe, At, Answering
  <2>2. \A at \in {"address", "describe", "probe"} : Fits(Top, On(at, Top.u))
    BY <2>1 DEF Fits, Answering, Carrying, Resetting, On, Frame
  <2>3. (\E fr : Goto(fr) /\ Fits(Top, fr)) \/ \E r : Return(r)
    BY <1>1, <2>2 DEF Connect, SetAddress, Describe
  <2> QED BY <1>0, <2>3, ShapeKeeps
<1>2. CASE ProbeHub \/ ProbePlain \/ Mounted
  <2>1. Return("ok")
    BY <1>2 DEF ProbeHub, ProbePlain, Mounted
  <2> QED BY <1>0, <2>1, ShapeKeeps
<1>3. CASE ProbeDisk
  <2> DEFINE fr(d) == Frame("mount", Top.u, 0, 0, d, "none")
  <2>1. Top.at = "probe"
    BY <1>3 DEF ProbeDisk, At
  <2>2. Return("ok") \/ \E d : Call(Fresh("root"), fr(d))
    BY <1>3 DEF ProbeDisk
  <2>3. ASSUME NEW d
        PROVE  /\ Fits(Top, fr(d)) /\ Inside(Fresh("root"), fr(d)) /\ Within(Fresh("root"), fr(d))
               /\ fr(d).at \notin Answering
    BY <2>1 DEF Fits, Inside, Within, Waiting, Answering, Carrying, Resetting, Fresh, Frame
  <2>4. Top.at \notin {"disc", "kids"}
    BY <2>1
  <2> HIDE DEF fr
  <2> QED BY <1>0, <2>2, <2>3, <2>4, ShapeKeeps
<1>4. CASE MountRead
  <2> DEFINE a == Fresh("root")
             b == Frame("rfind", 0, 0, 0, Top.d, "none")
             c == [Top EXCEPT !.at = "mounted"]
  <2>1. Goto(c) \/ stk' = <<a, b, c>> \o Tail(stk)
    BY <1>4 DEF MountRead
  <2>2. a.at = "root" /\ b.at = "rfind" /\ c.at = "mounted" /\ c.u = Top.u /\ Top.at = "mount"
    BY <1>t, <1>4 DEF Fresh, Frame, Frames, MountRead, At
  <2> HIDE DEF a, b, c
  <2>3. Fits(Top, c)
    BY <2>2 DEF Fits, Answering, Carrying, Resetting
  <2>4. CASE Goto(c)
    BY <1>0, <2>3, <2>4, ShapeKeeps
  <2>5. CASE stk' = <<a, b, c>> \o Tail(stk)
    <3>1. Within(a, b) /\ Within(a, c) /\ Within(b, c) /\ Inside(a, b) /\ Inside(b, c)
      BY <2>2 DEF Within, Inside, Waiting, Answering
    <3>2. \A x : Within(Top, x) => Within(a, x) /\ Within(b, x) /\ Within(c, x)
      BY <2>2 DEF Within
    <3>3. \A x : Inside(Top, x) => Inside(c, x)
      BY <2>2 DEF Inside, Answering
    <3>4. a.at \notin Answering /\ b.at \notin Answering /\ c.at \notin Answering
      BY <2>2 DEF Answering
    <3> QED BY <1>0, <2>5, <3>1, <3>2, <3>3, <3>4, ShapeMount DEF Types
  <2> QED BY <2>1, <2>4, <2>5
<1> QED BY <1>1, <1>2, <1>3, <1>4 DEF Connecting

LEMMA ShapeOther ==
    ASSUME Types, ShapeInv,
           Disconnect \/ DisconnectKids \/ ResetFind \/ ResetUnbind \/ ResetAddress
    PROVE  ShapeInv'
<1>1. stk # <<>>
  BY DEF Disconnect, DisconnectKids, ResetFind, ResetUnbind, ResetAddress, At
<1>2. Top \in Frames
  BY <1>1, TopTypes DEF TopType
<1>3. CASE Disconnect
  <2>1. ReturnFreed(Top.u) \/ \E h : Goto(Frame("kids", Top.u, h, 0, 0, "none"))
    BY <1>3 DEF Disconnect
  <2>2. \A h : Fits(Top, Frame("kids", Top.u, h, 0, 0, "none"))
    BY <1>3 DEF Disconnect, At, Fits, Answering, Carrying, Resetting, Frame
  <2> QED BY <1>1, <2>1, <2>2, ShapeKeeps
<1>4. CASE DisconnectKids
  <2> DEFINE kids == {p \in KidPorts(Top.h) : p > Top.p /\ FindDevice(Pos(Top.h), p) # 0}
             next == [Top EXCEPT !.p = Min(kids)]
             kid == FindDevice(Pos(Top.h), Min(kids))
  <2>1. ReturnFreed(Top.u) \/ Call(On("disc", kid), next)
    BY <1>4 DEF DisconnectKids
  <2>2. next.at = Top.at /\ Top.at = "kids"
    <3> HIDE DEF kids
    <3> QED BY <1>2, <1>4 DEF Frames, DisconnectKids, At
  <2> HIDE DEF next, kid
  <2>3. /\ Fits(Top, next) /\ Inside(On("disc", kid), next) /\ Within(On("disc", kid), next)
        /\ next.at \notin Answering /\ On("disc", kid).at \in {"disc", "kids"}
    BY <2>2 DEF Fits, Inside, Within, Answering, Carrying, Resetting, On, Frame
  <2> QED BY <1>1, <2>1, <2>3, ShapeKeeps
<1>5. CASE ResetFind
  <2>1. Return("error") \/ \E u : Call(Fresh("root"), On("rgo", u))
    BY <1>5 DEF ResetFind
  <2>2. Top.at = "rfind"
    BY <1>5 DEF ResetFind, At
  <2>3. ASSUME NEW u
        PROVE  /\ Fits(Top, On("rgo", u)) /\ Inside(Fresh("root"), On("rgo", u))
               /\ Within(Fresh("root"), On("rgo", u)) /\ On("rgo", u).at \notin Answering
    BY <2>2 DEF Fits, Inside, Within, Waiting, Answering, Carrying, Resetting, On, Fresh, Frame
  <2>4. Top.at \notin {"disc", "kids"}
    BY <2>2
  <2> QED BY <1>1, <2>1, <2>3, <2>4, ShapeKeeps
<1>6. CASE ResetUnbind \/ ResetAddress
  <2>1. Top.at \in {"rgo", "readdress"}
    BY <1>6 DEF ResetUnbind, ResetAddress, At
  <2>2. Return("error") \/ Goto(On("readdress", Top.u)) \/ Goto(On("probe", Top.u))
    BY <1>6 DEF ResetUnbind, ResetAddress
  <2>3. Fits(Top, On("readdress", Top.u)) /\ Fits(Top, On("probe", Top.u))
    BY <2>1 DEF Fits, Answering, Carrying, Resetting, On, Frame
  <2> QED BY <1>1, <2>2, <2>3, ShapeKeeps
<1> QED BY <1>3, <1>4, <1>5, <1>6

LEMMA ShapeApp ==
    ASSUME Types, AppPoll \/ \E d \in Drives : AppRead(d)
    PROVE  ShapeInv'
<1>1. stk' = <<Fresh("root")>> \/ \E d : stk' = <<Fresh("root"), Frame("rfind", 0, 0, 0, d, "none")>>
  BY DEF AppPoll, AppRead
<1>2. \A d : Fresh("root").at = "root" /\ Frame("rfind", 0, 0, 0, d, "none").at = "rfind"
  BY DEF Fresh, Frame
<1>3. CASE stk' = <<Fresh("root")>>
  <2>1. \A i \in DOMAIN stk' : i = 1 /\ stk'[i].at = "root"
    BY <1>2, <1>3
  <2>2. 1 + 1 \notin DOMAIN stk'
    BY <1>3
  <2> QED BY <2>1, <2>2 DEF ShapeInv, Answering
<1>4. ASSUME NEW d, stk' = <<Fresh("root"), Frame("rfind", 0, 0, 0, d, "none")>> PROVE ShapeInv'
  <2> DEFINE a == Fresh("root")
             b == Frame("rfind", 0, 0, 0, d, "none")
  <2>1. a.at = "root" /\ b.at = "rfind"
    BY <1>2
  <2> HIDE DEF a, b
  <2>2. stk' = <<a, b>>
    BY <1>4 DEF a, b
  <2>3. DOMAIN stk' = {1, 2} /\ stk'[1] = a /\ stk'[2] = b /\ 1 + 1 = 2 /\ 2 + 1 \notin DOMAIN stk'
    BY <2>2
  <2>4. Within(a, b) /\ Inside(a, b)
    BY <2>1 DEF Within, Inside, Waiting, Answering
  <2>5. \A i, j \in DOMAIN stk' : i < j => i = 1 /\ j = 2
    BY <2>3
  <2>6. \A i \in DOMAIN stk' : stk'[i].at \notin Answering
    BY <2>1, <2>3 DEF Answering
  <2>7. \A i \in DOMAIN stk' : i + 1 \in DOMAIN stk' => i = 1
    BY <2>3
  <2> QED BY <2>3, <2>4, <2>5, <2>6, <2>7 DEF ShapeInv
<1> QED BY <1>1, <1>3, <1>4

LEMMA ShapeStep ==
    ASSUME Types, ShapeInv, [Next]_vars
    PROVE  ShapeInv'
<1>1. CASE Person \/ Isr \/ UNCHANGED vars
  <2>1. stk' = stk
    BY <1>1 DEF Person, Plug, Unplug, Isr, HubStatus, HubStatusError, vars, table, thread
  <2> QED BY <2>1 DEF ShapeInv
<1>2. CASE AppPoll \/ \E d \in Drives : AppRead(d)
  BY <1>2, ShapeApp
<1>3. CASE RootPolling \/ HubPolling \/ Connecting
  BY <1>3, ShapeRoot, ShapeHubs, ShapeConnecting
<1>4. CASE Disconnect \/ DisconnectKids \/ ResetFind \/ ResetUnbind \/ ResetAddress
  BY <1>4, ShapeOther
<1> QED BY <1>1, <1>2, <1>3, <1>4 DEF Next, Thread

LEMMA ShapeInit ==
    ASSUME Init
    PROVE  ShapeInv
<1>1. DOMAIN stk = {}
  BY DEF Init
<1> QED BY <1>1 DEF ShapeInv

(***************************************************************************)
(* The list of devices and their addresses.                                *)
(***************************************************************************)

\* The list names a device once, a device not listed is free, and
\* connect_device works on a listed device without a configuration, which has
\* no address until usbh_set_address has given it one.
ListInv    == NoDup(list) /\ \A u \in Udevs \ Listed : udev[u] = FreeUdev
ConnectInv == stk # <<>> /\ Top.at \in Answering =>
                 /\ Top.u \in Listed /\ udev[Top.u].kind = "none"
                 /\ Top.at \in {"connect", "address"} <=> udev[Top.u].addr = 0
AddrInv    == ListInv /\ ConnectInv /\ AddressesExact

\* No connect has just failed.
Quiet == ~ (stk # <<>> /\ Top.at \in {"rootdone", "portdone"} /\ ret = "error")

LEMMA QuietIs == Quiet => \A u : ~Failing(u)
BY DEF Quiet, Failing

LEMMA QuietIsNext == Quiet' => \A u : ~Failing(u)'
BY DEF Quiet, Failing

\* What alloc_device and free_device do to the list.
LEMMA AllocList ==
    ASSUME TableTypes, ListInv, NEW u \in FreeUdevs, NEW h \in 0..NHubs, NEW p \in Ports,
           AllocDevice(u, h, p)
    PROVE  /\ ListInv' /\ Listed' = Listed \cup {u}
           /\ udev'[u] = [hub |-> h, port |-> p, addr |-> 0, kind |-> "none"]
           /\ \A v \in Udevs : v # u => udev'[v] = udev[v]
<1>1. u \in Udevs /\ u \notin Listed
  BY DEF FreeUdevs
<1>2. list' = <<u>> \o list /\ udev' = [udev EXCEPT ![u] = [FreeUdev EXCEPT !.hub = h, !.port = p]]
  BY DEF AllocDevice
<1>3. NoDup(list') /\ Listed' = Listed \cup {u}
  BY <1>1, <1>2, ConsIs DEF ListInv, TableTypes, Listed
<1>4. udev'[u] = [hub |-> h, port |-> p, addr |-> 0, kind |-> "none"]
  BY <1>1, <1>2 DEF TableTypes, FreeUdev
<1>5. \A v \in Udevs : v # u => udev'[v] = udev[v]
  BY <1>2 DEF TableTypes
<1> QED BY <1>1, <1>3, <1>4, <1>5 DEF ListInv

LEMMA FreeList ==
    ASSUME TableTypes, ListInv, NEW u \in Udevs, FreeDevice(u)
    PROVE  /\ ListInv' /\ Listed' = Listed \ {u} /\ udev'[u] = FreeUdev
           /\ \A v \in Udevs : v # u => udev'[v] = udev[v]
<1>1. list' = RemoveFirst(list, u) /\ udev' = [udev EXCEPT ![u] = FreeUdev]
  BY DEF FreeDevice
<1>2. NoDup(list') /\ Listed' = Listed \ {u}
  BY <1>1, RemoveFirstIs DEF ListInv, TableTypes, Listed
<1>3. udev'[u] = FreeUdev /\ \A v \in Udevs : v # u => udev'[v] = udev[v]
  BY <1>1 DEF TableTypes
<1> QED BY <1>2, <1>3 DEF ListInv

\* Four ways in which a step may leave the addresses exact.
LEMMA AddrSame ==
    ASSUME AddressesExact, Quiet, Quiet', Listed' = Listed, pool' = pool,
           \A u \in Listed : udev'[u].addr = udev[u].addr
    PROVE  AddressesExact'
<1>1. Addressed' = Addressed /\ Addressed \subseteq Listed
  BY QuietIs, QuietIsNext DEF Addressed
<1>2. {udev'[u].addr : u \in Addressed} = {udev[u].addr : u \in Addressed}
  BY <1>1
<1> QED BY <1>1, <1>2 DEF AddressesExact

LEMMA AddrFreed ==
    ASSUME TableTypes, ListInv, AddressesExact, Quiet, Quiet', NEW u \in Udevs, FreeDevice(u),
           pool' = GivenBack(u)
    PROVE  AddressesExact'
<1>1. Listed' = Listed \ {u} /\ \A v \in Udevs : v # u => udev'[v] = udev[v]
  BY FreeList
<1>2. Addressed' = Addressed \ {u} /\ Addressed \subseteq Listed /\ Addressed \subseteq Udevs
  BY <1>1, QuietIs, QuietIsNext, FoundTypes DEF Addressed
<1>3. u \notin Addressed => udev[u].addr = 0
  BY QuietIs DEF ListInv, Addressed, FreeUdev
<1>4. 0 \notin pool
  BY Numbers DEF TableTypes
<1>5. pool' = {udev[v].addr : v \in Addressed \ {u}}
  <2>1. CASE u \in Addressed
    BY <2>1 DEF GivenBack, AddressesExact
  <2>2. CASE u \notin Addressed
    BY <1>3, <1>4, <2>2 DEF GivenBack, AddressesExact
  <2> QED BY <2>1, <2>2
<1>6. \A v \in Addressed \ {u} : udev'[v].addr = udev[v].addr
  BY <1>1, <1>2
<1>7. {udev'[v].addr : v \in Addressed \ {u}} = {udev[v].addr : v \in Addressed \ {u}}
  BY <1>6
<1>8. \A v, w \in Addressed' : v # w => udev'[v].addr # udev'[w].addr
  BY <1>2, <1>6 DEF AddressesExact
<1> QED BY <1>2, <1>5, <1>7, <1>8 DEF AddressesExact

LEMMA AddrAlloc ==
    ASSUME TableTypes, ListInv, AddressesExact, Quiet, Quiet',
           NEW u \in FreeUdevs, NEW h \in 0..NHubs, NEW p \in Ports, AllocDevice(u, h, p), pool' = pool
    PROVE  AddressesExact'
<1>0. udev'[u] = [hub |-> h, port |-> p, addr |-> 0, kind |-> "none"]
  BY AllocList
<1>1. /\ Listed' = Listed \cup {u} /\ udev'[u].addr = 0
      /\ \A v \in Udevs : v # u => udev'[v] = udev[v]
  BY <1>0, AllocList
<1>2. u \notin Listed
  BY DEF FreeUdevs
<1>3. Addressed' = Addressed /\ Addressed \subseteq Listed /\ Addressed \subseteq Udevs
  BY <1>1, <1>2, QuietIs, QuietIsNext, FoundTypes DEF Addressed
<1>4. \A v \in Addressed : udev'[v].addr = udev[v].addr
  BY <1>1, <1>2, <1>3
<1>5. {udev'[v].addr : v \in Addressed} = {udev[v].addr : v \in Addressed}
  BY <1>4
<1> QED BY <1>3, <1>4, <1>5 DEF AddressesExact

\* The device of a connect that failed is freed; its address went back before.
LEMMA AddrFailed ==
    ASSUME TableTypes, ListInv, AddressesExact, NEW u \in Udevs, Failing(u), FreeDevice(u),
           Quiet', pool' = pool
    PROVE  AddressesExact'
<1>1. Listed' = Listed \ {u} /\ \A v \in Udevs : v # u => udev'[v] = udev[v]
  BY FreeList
<1>2. \A v : Failing(v) => v = u
  BY DEF Failing
<1>3. Addressed' = Addressed /\ Addressed \subseteq Listed \ {u} /\ Addressed \subseteq Udevs
  BY <1>1, <1>2, QuietIsNext, FoundTypes DEF Addressed
<1>4. \A v \in Addressed : udev'[v].addr = udev[v].addr
  BY <1>1, <1>3
<1>5. {udev'[v].addr : v \in Addressed} = {udev[v].addr : v \in Addressed}
  BY <1>4
<1> QED BY <1>3, <1>4, <1>5 DEF AddressesExact

\* The innermost call after a step.
LEMMA TopAfter ==
    ASSUME Types, ShapeInv, stk # <<>>
    PROVE  /\ \A fr : Goto(fr) => stk' # <<>> /\ Head(stk') = fr
           /\ \A fr, next : Call(fr, next) => stk' # <<>> /\ Head(stk') = fr
           /\ \A r : Return(r) /\ stk' # <<>> => Inside(Top, Head(stk')) /\ Head(stk') \in GoodFrames
           /\ \A u : ReturnFreed(u) /\ stk' # <<>> => Inside(Top, Head(stk')) /\ Head(stk') \in GoodFrames
<1>1. stk \in Seq(GoodFrames) /\ Tail(stk) \in Seq(GoodFrames)
  BY DEF Types, ThreadTypes
<1>2. ASSUME NEW fr, Goto(fr) PROVE stk' # <<>> /\ Head(stk') = fr
  BY <1>1, <1>2 DEF Goto
<1>3. ASSUME NEW fr, NEW next, Call(fr, next) PROVE stk' # <<>> /\ Head(stk') = fr
  BY <1>1, <1>3 DEF Call
<1>4. ASSUME (\E r : Return(r)) \/ (\E u : ReturnFreed(u)), stk' # <<>>
      PROVE  Inside(Top, Head(stk')) /\ Head(stk') \in GoodFrames
  <2>1. /\ stk' \in Seq(GoodFrames) /\ Len(stk') = Len(stk) - 1
        /\ \A i \in 1..(Len(stk) - 1) : SameCall(stk'[i], stk[i + 1])
    BY <1>1, <1>4, ReturnPops DEF Popped
  <2>2. 1 \in DOMAIN stk /\ 1 + 1 \in DOMAIN stk /\ Top = stk[1] /\ Head(stk') = stk'[1] /\ stk'[1] \in GoodFrames
        /\ 1 \in 1..(Len(stk) - 1)
    BY <1>1, <1>4, <2>1, TopIs
  <2>3. Inside(stk[1], stk[1 + 1]) /\ SameCall(stk'[1], stk[1 + 1])
    BY <2>1, <2>2 DEF ShapeInv
  <2> QED BY <2>2, <2>3 DEF Inside, SameCall
<1> QED BY <1>2, <1>3, <1>4

\* A step after which the innermost call neither is connecting nor has just
\* seen a connect fail.
LEMMA CalmAfter ==
    ASSUME Types, ShapeInv, stk # <<>>,
           \/ \E fr : Goto(fr) /\ fr.at \notin Answering \cup {"rootdone", "portdone"}
           \/ \E fr, next : Call(fr, next) /\ fr.at \notin Answering \cup {"rootdone", "portdone"}
           \/ Return("ok")
           \/ \E u : ReturnFreed(u)
           \/ Return("error") /\ Top.at \in Resetting
           \/ stk' = <<>>
           \/ \E fr, a, b : stk' = <<fr, a, b>> \o Tail(stk)
                            /\ fr.at \notin Answering \cup {"rootdone", "portdone"}
    PROVE  Quiet' /\ ConnectInv'
<1>1. ASSUME NEW fr, stk' # <<>> => Head(stk') = fr, fr.at \notin Answering \cup {"rootdone", "portdone"}
      PROVE  Quiet' /\ ConnectInv'
  BY <1>1 DEF Quiet, ConnectInv, Top
<1>2. CASE \E fr : Goto(fr) /\ fr.at \notin Answering \cup {"rootdone", "portdone"}
  BY <1>1, <1>2, TopAfter
<1>3. CASE \E fr, next : Call(fr, next) /\ fr.at \notin Answering \cup {"rootdone", "portdone"}
  BY <1>1, <1>3, TopAfter
<1>4. CASE Return("ok") \/ \E u : ReturnFreed(u)
  <2>1. ret' = "ok"
    BY <1>4 DEF Return, ReturnFreed
  <2>2. stk' # <<>> => Head(stk').at \notin Answering
    BY <1>4, TopAfter DEF Inside
  <2> QED BY <2>1, <2>2 DEF Quiet, ConnectInv, Top
<1>5. CASE Return("error") /\ Top.at \in Resetting
  <2>1. stk' # <<>> => Inside(Top, Head(stk'))
    BY <1>5, TopAfter
  <2>2. stk' # <<>> => Head(stk').at = "mounted"
    BY <1>5, <2>1 DEF Inside, Resetting
  <2> QED BY <2>2 DEF Quiet, ConnectInv, Top, Answering
<1>6. CASE stk' = <<>>
  BY <1>6 DEF Quiet, ConnectInv
<1>7. ASSUME NEW fr, NEW a, NEW b, stk' = <<fr, a, b>> \o Tail(stk),
             fr.at \notin Answering \cup {"rootdone", "portdone"}
      PROVE  Quiet' /\ ConnectInv'
  <2>1. Tail(stk) \in Seq(GoodFrames)
    BY DEF Types, ThreadTypes
  <2>2. Head(stk') = fr
    BY <1>7, <2>1
  <2> QED BY <1>1, <1>7, <2>2
<1> QED BY <1>2, <1>3, <1>4, <1>5, <1>6, <1>7

\* A step that leaves the list, the addresses and the kinds alone.
LEMMA AddrPlain ==
    ASSUME AddrInv, Quiet, Quiet', ConnectInv', UNCHANGED <<list, udev, pool>>
    PROVE  AddrInv'
<1>1. Listed' = Listed /\ \A u \in Listed : udev'[u].addr = udev[u].addr
  BY DEF Listed
<1>2. AddressesExact'
  BY <1>1, AddrSame DEF AddrInv
<1>3. ListInv'
  BY <1>1 DEF AddrInv, ListInv
<1> QED BY <1>2, <1>3 DEF AddrInv

LEMMA AddrRoot ==
    ASSUME Types, ShapeInv, AddrInv, RootPolling
    PROVE  AddrInv'
<1>0. stk # <<>>
  BY DEF RootPolling, RootPoll, RootSense, RootOld, RootReset, RootDone, At
<1>1. ASSUME NEW fr, Goto(fr), fr.at \in {"root", "sense", "new", "gone", "reset", "hubs"}
      PROVE  Quiet' /\ ConnectInv'
  <2>1. fr.at \notin Answering \cup {"rootdone", "portdone"}
    BY <1>1 DEF Answering
  <2> QED BY <1>0, <1>1, <2>1, CalmAfter
<1>2. \A at : Fresh(at).at = at
  BY DEF Fresh, Frame
<1>3. CASE RootPoll \/ RootSense
  <2>1. Quiet /\ UNCHANGED <<list, udev, pool>>
    BY <1>3 DEF Quiet, RootPoll, RootSense, At, table
  <2>2. \E fr : Goto(fr) /\ fr.at \in {"sense", "hubs", "new", "gone"}
    BY <1>2, <1>3 DEF RootPoll, RootSense
  <2> QED BY <1>1, <2>1, <2>2, AddrPlain
<1>4. CASE RootOld
  <2>1. Quiet /\ UNCHANGED <<list, udev, pool>>
    BY <1>4 DEF Quiet, RootOld, At, table
  <2>2. CASE FindRootDevice # 0
    <3>1. Call(On("disc", FindRootDevice), Top) /\ On("disc", FindRootDevice).at = "disc"
      BY <1>4, <2>2 DEF RootOld, On, Frame
    <3>2. "disc" \notin Answering \cup {"rootdone", "portdone"}
      BY DEF Answering
    <3>3. Quiet' /\ ConnectInv'
      BY <1>0, <3>1, <3>2, CalmAfter
    <3> QED BY <2>1, <3>3, AddrPlain
  <2>3. CASE FindRootDevice = 0
    <3>1. \E fr : Goto(fr) /\ fr.at \in {"reset", "root"}
      BY <1>2, <1>4, <2>3 DEF RootOld
    <3> QED BY <1>1, <2>1, <3>1, AddrPlain
  <2> QED BY <2>2, <2>3
<1>5. CASE RootReset
  <2>1. Quiet /\ pool' = pool
    BY <1>5 DEF Quiet, RootReset, At
  <2>2. CASE Present(Root) /\ FreeUdevs # {}
    <3> DEFINE u == Min(FreeUdevs)
    <3>1. AllocDevice(u, 0, Last(Root)) /\ Call(On("connect", u), On("rootdone", u))
      BY <1>5, <2>2 DEF RootReset
    <3>2. u \in FreeUdevs /\ 0 \in 0..NHubs /\ Last(Root) \in Ports
      <4>1. FreeUdevs \subseteq Nat
        BY Numbers DEF FreeUdevs
      <4>2. u \in FreeUdevs
        BY <2>2, <4>1, MinIn
      <4>3. Root \in Locs
        BY <2>2 DEF Present
      <4> QED BY <4>2, <4>3, Numbers DEF Ports
    <3> HIDE DEF u
    <3>3. ListInv' /\ Listed' = Listed \cup {u} /\ u \in Udevs
          /\ udev'[u] = [hub |-> 0, port |-> Last(Root), addr |-> 0, kind |-> "none"]
      BY <3>1, <3>2, AllocList DEF Types, AddrInv, FreeUdevs
    <3>4. stk' # <<>> /\ Head(stk') = On("connect", u) /\ On("connect", u).at = "connect"
          /\ On("connect", u).u = u
      BY <1>0, <3>1, TopAfter DEF On, Frame
    <3>5. Quiet'
      BY <3>4 DEF Quiet, Top
    <3>6. AddressesExact'
      BY <2>1, <3>1, <3>2, <3>5, AddrAlloc DEF Types, AddrInv
    <3>7. udev'[u].kind = "none" /\ udev'[u].addr = 0
      BY <3>3
    <3>8. ConnectInv'
      BY <3>3, <3>4, <3>7 DEF ConnectInv, Top, Answering
    <3> QED BY <3>3, <3>6, <3>8 DEF AddrInv
  <2>3. CASE ~ (Present(Root) /\ FreeUdevs # {})
    <3>1. Goto(Fresh("hubs")) /\ UNCHANGED <<list, udev>>
      BY <1>5, <2>3 DEF RootReset
    <3>2. Quiet' /\ ConnectInv'
      BY <1>1, <1>2, <3>1
    <3> QED BY <2>1, <3>1, <3>2, AddrPlain
  <2> QED BY <2>2, <2>3
<1>6. CASE RootDone
  <2>1. Goto(Fresh("root")) /\ pool' = pool /\ Top.at = "rootdone"
    BY <1>6 DEF RootDone, At
  <2>2. Quiet' /\ ConnectInv'
    BY <1>1, <1>2, <2>1
  <2>3. CASE ret = "error"
    <3>1. Top.u \in Udevs /\ Failing(Top.u) /\ FreeDevice(Top.u)
      <4>1. Top \in GoodFrames
        BY <1>0, TopIs DEF Types, ThreadTypes
      <4> QED BY <1>0, <1>6, <2>1, <2>3, <4>1 DEF GoodFrames, WithDevice, Failing, RootDone
    <3>2. AddressesExact' /\ ListInv'
      BY <2>1, <2>2, <3>1, AddrFailed, FreeList DEF Types, AddrInv
    <3> QED BY <2>2, <3>2 DEF AddrInv
  <2>4. CASE ret # "error"
    <3>1. Quiet /\ UNCHANGED <<list, udev>>
      BY <1>6, <2>4 DEF Quiet, RootDone
    <3> QED BY <2>1, <2>2, <3>1, AddrPlain
  <2> QED BY <2>3, <2>4
<1> QED BY <1>3, <1>4, <1>5, <1>6 DEF RootPolling

\* A turn of hub_polling: its frame keeps the hub.
LEMMA AddrHubs ==
    ASSUME Types, ShapeInv, AddrInv, HubPolling
    PROVE  AddrInv'
<1>0. stk # <<>> /\ Top \in GoodFrames /\ Top \in Frames
  <2>1. stk # <<>>
    BY DEF HubPolling, HubsEnter, HubsScan, HubsPort, PortClear, PortOld, PortReset, PortDone,
           PortRest, HubResubmit, At
  <2> QED BY <2>1, TopIs DEF Types, ThreadTypes, GoodFrames
<1>1. ASSUME NEW fr, Goto(fr),
             fr.at \in {"hubs", "scan", "ports", "clear", "old", "portreset", "rest", "resubmit"}
      PROVE  Quiet' /\ ConnectInv'
  <2>1. fr.at \notin Answering \cup {"rootdone", "portdone"}
    BY <1>1 DEF Answering
  <2> QED BY <1>0, <1>1, <2>1, CalmAfter
<1>2. /\ \A at : Fresh(at).at = at
      /\ \A at, u, h, p, d, f : Frame(at, u, h, p, d, f).at = at
  BY DEF Fresh, Frame
<1>3. /\ \A at : [Top EXCEPT !.at = at].at = at
      /\ \A at, u : [Top EXCEPT !.at = at, !.u = u].at = at
  BY <1>0 DEF Frames
<1>4. CASE HubsEnter \/ HubsScan
  <2>1. Quiet /\ UNCHANGED <<list, udev, pool>>
    BY <1>4 DEF Quiet, HubsEnter, HubsScan, At
  <2>2. Return("ok") \/ \E fr : Goto(fr) /\ fr.at \in {"hubs", "scan", "ports"}
    BY <1>2, <1>4 DEF HubsEnter, HubsScan
  <2>3. Quiet' /\ ConnectInv'
    BY <1>0, <1>1, <2>2, CalmAfter
  <2> QED BY <2>1, <2>3, AddrPlain
<1>5. CASE HubsPort
  <2>1. Quiet /\ UNCHANGED <<list, udev, pool>> /\ Top.at = "ports"
    BY <1>5 DEF Quiet, HubsPort, At, table
  <2>2. \E fr : Goto(fr) /\ fr.at \in {"ports", "clear", "resubmit"}
    BY <1>0, <1>5, HubMoves
  <2> QED BY <1>1, <2>1, <2>2, AddrPlain
<1>6. CASE PortClear \/ PortRest \/ HubResubmit
  <2>1. Quiet /\ UNCHANGED <<list, udev, pool>>
    BY <1>6 DEF Quiet, PortClear, PortRest, HubResubmit, At, table
  <2>2. \E fr : Goto(fr) /\ fr.at \in {"old", "resubmit", "ports", "scan"}
    BY <1>0, <1>6, HubMoves
  <2> QED BY <1>1, <2>1, <2>2, AddrPlain
<1>7. CASE PortOld
  <2>1. Quiet /\ UNCHANGED <<list, udev, pool>>
    BY <1>7 DEF Quiet, PortOld, At, table
  <2>2. \/ \E u, next : Call(On("disc", u), next)
        \/ \E fr : Goto(fr) /\ fr.at \in {"portreset", "rest"}
    BY <1>0, <1>7, HubMoves
  <2>3. \A u : On("disc", u).at \notin Answering \cup {"rootdone", "portdone"}
    BY DEF On, Frame, Answering
  <2>4. Quiet' /\ ConnectInv'
    BY <1>0, <1>1, <2>2, <2>3, CalmAfter
  <2> QED BY <2>1, <2>4, AddrPlain
<1>8. CASE PortReset
  <2>1. Quiet /\ pool' = pool /\ Top.at = "portreset"
    BY <1>8 DEF Quiet, PortReset, At
  <2>2. ASSUME FreeUdevs # {}, NEW u, u = Min(FreeUdevs), NEW next,
               AllocDevice(u, Top.h, Top.p), Call(On("connect", u), next)
        PROVE  AddrInv'
    <3>2. u \in FreeUdevs /\ Top.h \in 0..NHubs /\ Top.p \in Ports
      <4>1. FreeUdevs \subseteq Nat
        BY Numbers DEF FreeUdevs
      <4>2. u \in FreeUdevs
        BY <2>2, <4>1, MinIn
      <4> QED BY <1>0, <2>1, <4>2, Numbers DEF GoodFrames, Frames, WithPort, WithHub
    <3>3. ListInv' /\ Listed' = Listed \cup {u} /\ u \in Udevs
          /\ udev'[u] = [hub |-> Top.h, port |-> Top.p, addr |-> 0, kind |-> "none"]
      BY <2>2, <3>2, AllocList DEF Types, AddrInv, FreeUdevs
    <3>4. stk' # <<>> /\ Head(stk') = On("connect", u) /\ On("connect", u).at = "connect"
          /\ On("connect", u).u = u
      BY <1>0, <2>2, TopAfter DEF On, Frame
    <3>5. Quiet'
      BY <3>4 DEF Quiet, Top
    <3>6. AddressesExact'
      BY <2>1, <2>2, <3>2, <3>5, AddrAlloc DEF Types, AddrInv
    <3>7. udev'[u].kind = "none" /\ udev'[u].addr = 0
      BY <3>3
    <3>8. ConnectInv'
      BY <3>3, <3>4, <3>7 DEF ConnectInv, Top, Answering
    <3> QED BY <3>3, <3>6, <3>8 DEF AddrInv
  <2>3. ASSUME NEW fr, Goto(fr), fr.at = "rest", UNCHANGED <<list, udev>>
        PROVE  AddrInv'
    <3>1. Quiet' /\ ConnectInv'
      BY <1>1, <2>3
    <3> QED BY <2>1, <2>3, <3>1, AddrPlain
  <2>4. \/ /\ FreeUdevs # {} /\ AllocDevice(Min(FreeUdevs), Top.h, Top.p)
           /\ Call(On("connect", Min(FreeUdevs)),
                   [Top EXCEPT !.at = "portdone", !.u = Min(FreeUdevs)])
        \/ Goto([Top EXCEPT !.at = "rest"]) /\ UNCHANGED <<list, udev>>
    BY <1>8 DEF PortReset
  <2> QED BY <1>3, <2>2, <2>3, <2>4
<1>9. CASE PortDone
  <2>1. Goto([Top EXCEPT !.at = "rest", !.u = 0]) /\ pool' = pool /\ Top.at = "portdone"
    BY <1>9 DEF PortDone, At
  <2>2. Quiet' /\ ConnectInv'
    BY <1>1, <1>3, <2>1
  <2>3. CASE ret = "error"
    <3>1. Top.u \in Udevs /\ Failing(Top.u) /\ FreeDevice(Top.u)
      BY <1>0, <1>9, <2>1, <2>3 DEF GoodFrames, WithDevice, Failing, PortDone
    <3>2. AddressesExact' /\ ListInv'
      BY <2>1, <2>2, <3>1, AddrFailed, FreeList DEF Types, AddrInv
    <3> QED BY <2>2, <3>2 DEF AddrInv
  <2>4. CASE ret # "error"
    <3>1. Quiet /\ UNCHANGED <<list, udev>>
      BY <1>9, <2>4 DEF Quiet, PortDone
    <3> QED BY <2>1, <2>2, <3>1, AddrPlain
  <2> QED BY <2>3, <2>4
<1> QED BY <1>4, <1>5, <1>6, <1>7, <1>8, <1>9 DEF HubPolling

\* The new device gets an address nobody has, or loses it with the connect.
LEMMA AddrSet ==
    ASSUME Types, ShapeInv, AddrInv, SetAddress
    PROVE  AddrInv'
<1> DEFINE x == Top.u
           a == NextAddress
<1>1. stk # <<>> /\ Top.at = "address" /\ Top \in GoodFrames
  <2>1. stk # <<>> /\ Top.at = "address"
    BY DEF SetAddress, At
  <2> QED BY <2>1, TopIs DEF Types, ThreadTypes
<1>2. x \in Listed /\ x \in Udevs /\ udev[x].kind = "none" /\ udev[x].addr = 0
  BY <1>1 DEF AddrInv, ConnectInv, Answering, GoodFrames, WithDevice
<1>3. a \in Addrs \ pool /\ a # 0 /\ list' = list
  BY NextAddressFree, Numbers DEF SetAddress, Types, TableTypes
<1>4. Listed' = Listed /\ Listed \subseteq Udevs /\ Quiet
  BY <1>1, <1>3, FoundTypes DEF Listed, Types, Quiet
<1> HIDE DEF a, x
<1>5. CASE udev' = [udev EXCEPT ![x].addr = a] /\ pool' = pool \cup {a} /\ Goto(On("describe", x))
  <2>1. /\ udev'[x].addr = a /\ udev'[x].kind = "none"
        /\ \A v \in Udevs : v # x => udev'[v] = udev[v]
    <3>1. udev[x] \in UdevType
      BY <1>2 DEF Types, TableTypes
    <3> QED BY <1>2, <1>5, <3>1 DEF Types, TableTypes, UdevType
  <2>2. stk' # <<>> /\ Head(stk').at = "describe" /\ Head(stk').u = x
    BY <1>1, <1>5, TopAfter DEF On, Frame
  <2>3. Quiet'
    BY <2>2 DEF Quiet, Top
  <2>4. ConnectInv'
    BY <1>2, <1>3, <1>4, <2>1, <2>2 DEF ConnectInv, Top
  <2>5. ListInv'
    BY <1>2, <1>3, <1>4, <2>1 DEF AddrInv, ListInv
  <2>6. x \notin Addressed /\ Addressed \subseteq Udevs
    BY <1>2, <1>4 DEF Addressed
  <2>7. Addressed' = Addressed \cup {x}
    <3>1. Addressed' = {u \in Listed : udev'[u].addr # 0}
      BY <1>4, <2>3, QuietIsNext DEF Addressed
    <3>2. Addressed = {u \in Listed : udev[u].addr # 0}
      BY <1>4, QuietIs DEF Addressed
    <3> QED BY <1>2, <1>3, <1>4, <2>1, <3>1, <3>2
  <2>8. \A v \in Addressed : udev'[v].addr = udev[v].addr /\ udev[v].addr # a
    <3>1. \A v \in Addressed : udev[v].addr \in pool
      BY DEF AddrInv, AddressesExact
    <3> QED BY <1>3, <2>1, <2>6, <3>1
  <2>9. {udev'[v].addr : v \in Addressed} = {udev[v].addr : v \in Addressed}
    BY <2>8
  <2>10. pool' = {udev'[v].addr : v \in Addressed \cup {x}}
    BY <1>5, <2>1, <2>9 DEF AddrInv, AddressesExact
  <2>11. \A v, w \in Addressed \cup {x} : v # w => udev'[v].addr # udev'[w].addr
    BY <2>1, <2>8 DEF AddrInv, AddressesExact
  <2>12. AddressesExact'
    BY <2>7, <2>10, <2>11 DEF AddressesExact
  <2> QED BY <2>4, <2>5, <2>12 DEF AddrInv
<1>6. CASE Return("error") /\ UNCHANGED <<pool, udev>>
  <2>1. stk' # <<>> => Inside(Top, Head(stk'))
    BY <1>1, <1>6, TopAfter
  <2>2. \A v : Failing(v)' => v = x
    BY <1>1, <2>1 DEF Failing, Top, Inside, Answering, x
  <2>3. ConnectInv'
    BY <2>1 DEF ConnectInv, Top, Inside
  <2>4. ListInv'
    BY <1>4, <1>3, <1>6 DEF AddrInv, ListInv
  <2>5. Addressed' = Addressed
    BY <1>2, <1>4, <1>6, <2>2, QuietIs DEF Addressed
  <2>6. AddressesExact'
    BY <1>6, <2>5 DEF AddrInv, AddressesExact
  <2> QED BY <2>3, <2>4, <2>6 DEF AddrInv
<1> QED BY <1>5, <1>6 DEF SetAddress, x, a

\* Its kind is known and it keeps the address, or gives it back.
LEMMA AddrDescribe ==
    ASSUME Types, ShapeInv, AddrInv, Describe
    PROVE  AddrInv'
<1> DEFINE x == Top.u
<1>1. stk # <<>> /\ Top.at = "describe" /\ Top \in GoodFrames
  <2>1. stk # <<>> /\ Top.at = "describe"
    BY DEF Describe, At
  <2> QED BY <2>1, TopIs DEF Types, ThreadTypes
<1>2. x \in Listed /\ x \in Udevs /\ udev[x].kind = "none" /\ udev[x].addr # 0
  BY <1>1 DEF AddrInv, ConnectInv, Answering, GoodFrames, WithDevice
<1>3. list' = list
  BY DEF Describe
<1>4. Listed' = Listed /\ Listed \subseteq Udevs /\ Quiet
  BY <1>1, <1>3, FoundTypes DEF Listed, Types, Quiet
<1> HIDE DEF x
<1>5. ASSUME NEW k, udev' = [udev EXCEPT ![x].kind = k], pool' = pool, Goto(On("probe", x))
      PROVE  AddrInv'
  <2>1. /\ udev'[x].addr = udev[x].addr
        /\ \A v \in Udevs : v # x => udev'[v] = udev[v]
    <3>1. udev[x] \in UdevType
      BY <1>2 DEF Types, TableTypes
    <3> QED BY <1>2, <1>5, <3>1 DEF Types, TableTypes, UdevType
  <2>2. On("probe", x).at \notin Answering \cup {"rootdone", "portdone"}
    BY DEF On, Frame, Answering
  <2>3. Quiet' /\ ConnectInv'
    BY <1>1, <1>5, <2>2, CalmAfter
  <2>4. ListInv'
    BY <1>2, <1>3, <1>4, <2>1 DEF AddrInv, ListInv
  <2>5. \A u \in Listed : udev'[u].addr = udev[u].addr
    BY <1>4, <2>1
  <2>6. AddressesExact'
    BY <1>4, <1>5, <2>3, <2>5, AddrSame DEF AddrInv
  <2> QED BY <2>3, <2>4, <2>6 DEF AddrInv
<1>6. CASE Return("error") /\ pool' = GivenBack(x) /\ udev' = udev
  <2>1. stk' # <<>> => Inside(Top, Head(stk'))
    BY <1>1, <1>6, TopAfter
  <2>2. stk' # <<>>
    <3>1. stk \in Seq(GoodFrames) /\ Top = stk[1] /\ 1 \in DOMAIN stk /\ stk' = Tail(stk)
      BY <1>1, <1>6, TopIs DEF Types, ThreadTypes, Return
    <3>2. 1 + 1 \in DOMAIN stk
      BY <1>1, <3>1 DEF ShapeInv, Answering
    <3> QED BY <3>1, <3>2
  <2>3. \A v : Failing(v)' <=> v = x
    BY <1>1, <1>6, <2>1, <2>2 DEF Failing, Top, Inside, Answering, x, Return
  <2>4. ConnectInv'
    BY <2>1 DEF ConnectInv, Top, Inside
  <2>5. ListInv'
    BY <1>4, <1>3, <1>6 DEF AddrInv, ListInv
  <2>6. Addressed' = Addressed \ {x} /\ x \in Addressed
    BY <1>2, <1>4, <1>6, <2>3, QuietIs DEF Addressed
  <2>7. pool' = {udev[v].addr : v \in Addressed \ {x}}
    BY <1>6, <2>6 DEF GivenBack, AddrInv, AddressesExact
  <2>8. AddressesExact'
    BY <1>6, <2>6, <2>7 DEF AddrInv, AddressesExact
  <2> QED BY <2>4, <2>5, <2>8 DEF AddrInv
<1>7. \/ \E k : udev' = [udev EXCEPT ![x].kind = k] /\ pool' = pool /\ Goto(On("probe", x))
      \/ Return("error") /\ pool' = GivenBack(x) /\ udev' = udev
  BY DEF Describe, x
<1> QED BY <1>5, <1>6, <1>7

LEMMA AddrConnecting ==
    ASSUME Types, ShapeInv, AddrInv, Connecting
    PROVE  AddrInv'
<1>1. CASE SetAddress \/ Describe
  BY <1>1, AddrSet, AddrDescribe
<1>2. CASE Connect
  <2> DEFINE x == Top.u
  <2>1. stk # <<>> /\ Top.at = "connect" /\ Quiet /\ UNCHANGED <<list, udev, pool>>
    BY <1>2 DEF Connect, At, Quiet, table
  <2>2. x \in Listed /\ udev[x].kind = "none" /\ udev[x].addr = 0
    BY <2>1 DEF AddrInv, ConnectInv, Answering
  <2>3. stk' # <<>> /\ Head(stk').at = "address" /\ Head(stk').u = x
    BY <1>2, <2>1, TopAfter DEF Connect, On, Frame
  <2> HIDE DEF x
  <2>4. ConnectInv'
    BY <2>1, <2>2, <2>3 DEF ConnectInv, Top, Listed
  <2>5. Quiet'
    BY <2>3 DEF Quiet, Top
  <2> QED BY <2>1, <2>4, <2>5, AddrPlain
<1>3. CASE ProbeHub \/ ProbePlain \/ ProbeDisk \/ MountRead \/ Mounted
  <2>1. stk # <<>> /\ Quiet /\ UNCHANGED <<list, udev, pool>> /\ Top \in Frames
    <3>1. stk # <<>> /\ Quiet /\ UNCHANGED <<list, udev, pool>>
      BY <1>3 DEF ProbeHub, ProbePlain, ProbeDisk, MountRead, Mounted, At, Quiet, table
    <3> QED BY <3>1, TopTypes DEF TopType
  <2>2. Fresh("root").at \notin Answering \cup {"rootdone", "portdone"}
    BY DEF Fresh, Frame, Answering
  <2>3. CASE ProbeHub \/ ProbePlain \/ ProbeDisk \/ Mounted
    <3>1. Return("ok") \/ \E next : Call(Fresh("root"), next)
      BY <2>3 DEF ProbeHub, ProbePlain, ProbeDisk, Mounted
    <3>2. Quiet' /\ ConnectInv'
      BY <2>1, <2>2, <3>1, CalmAfter
    <3> QED BY <2>1, <3>2, AddrPlain
  <2>4. CASE MountRead
    <3> DEFINE c == [Top EXCEPT !.at = "mounted"]
    <3>1. Goto(c) \/ \E fr, b : stk' = <<Fresh("root"), b, c>> \o Tail(stk)
      BY <2>4 DEF MountRead
    <3>2. c.at = "mounted" /\ "mounted" \notin Answering \cup {"rootdone", "portdone"}
      BY <2>1 DEF Frames, Answering
    <3> HIDE DEF c
    <3>3. Quiet' /\ ConnectInv'
      BY <2>1, <2>2, <3>1, <3>2, CalmAfter
    <3> QED BY <2>1, <3>3, AddrPlain
  <2> QED BY <1>3, <2>3, <2>4
<1> QED BY <1>1, <1>2, <1>3 DEF Connecting

LEMMA AddrOther ==
    ASSUME Types, ShapeInv, AddrInv,
           Disconnect \/ DisconnectKids \/ ResetFind \/ ResetUnbind \/ ResetAddress
    PROVE  AddrInv'
<1>1. stk # <<>> /\ Quiet /\ Top \in GoodFrames
  <2>1. stk # <<>> /\ Quiet
    BY DEF Disconnect, DisconnectKids, ResetFind, ResetUnbind, ResetAddress, At, Quiet
  <2> QED BY <2>1, TopIs DEF Types, ThreadTypes
<1>2. \A at \in {"root", "disc", "kids", "probe", "readdress"} :
         at \notin Answering \cup {"rootdone", "portdone"}
  BY DEF Answering
<1>3. /\ \A u, h : Frame("kids", u, h, 0, 0, "none").at = "kids"
      /\ \A at, u : On(at, u).at = at /\ Fresh(at).at = at
  BY DEF On, Fresh, Frame
<1>4. CASE Disconnect \/ DisconnectKids
  <2>1. Top.u \in Udevs
    BY <1>1, <1>4 DEF Disconnect, DisconnectKids, At, GoodFrames, WithDevice
  <2>2. CASE ReturnFreed(Top.u) /\ pool' = GivenBack(Top.u)
    <3>0. FreeDevice(Top.u)
      BY <2>2 DEF ReturnFreed
    <3>1. Quiet' /\ ConnectInv'
      BY <1>1, <2>2, CalmAfter
    <3>2. ListInv' /\ AddressesExact'
      BY <1>1, <2>1, <2>2, <3>0, <3>1, FreeList, AddrFreed DEF Types, AddrInv
    <3> QED BY <3>1, <3>2 DEF AddrInv
  <2>3. CASE /\ UNCHANGED <<list, udev, pool>>
             /\ \/ \E h : Goto(Frame("kids", Top.u, h, 0, 0, "none"))
                \/ \E u, next : Call(On("disc", u), next)
    <3>1. Quiet' /\ ConnectInv'
      BY <1>1, <1>2, <1>3, <2>3, CalmAfter
    <3> QED BY <1>1, <2>3, <3>1, AddrPlain
  <2> QED BY <1>4, <2>2, <2>3 DEF Disconnect, DisconnectKids
<1>5. CASE ResetFind \/ ResetUnbind \/ ResetAddress
  <2>1. Top.at \in Resetting /\ UNCHANGED <<list, udev, pool>>
    BY <1>5 DEF ResetFind, ResetUnbind, ResetAddress, At, Resetting, table
  <2>2. \/ Return("error")
        \/ \E u : Call(Fresh("root"), On("rgo", u))
        \/ \E u : Goto(On("readdress", u)) \/ Goto(On("probe", u))
    BY <1>5 DEF ResetFind, ResetUnbind, ResetAddress
  <2>3. Quiet' /\ ConnectInv'
    BY <1>1, <1>2, <1>3, <2>1, <2>2, CalmAfter
  <2> QED BY <1>1, <2>1, <2>3, AddrPlain
<1> QED BY <1>4, <1>5

LEMMA AddrStep ==
    ASSUME Types, ShapeInv, AddrInv, [Next]_vars
    PROVE  AddrInv'
<1>1. CASE Person \/ Isr \/ UNCHANGED vars
  <2>1. UNCHANGED <<list, udev, pool, stk, ret>>
    BY <1>1 DEF Person, Plug, Unplug, Isr, HubStatus, HubStatusError, vars, table, thread
  <2> QED BY <2>1 DEF AddrInv, ListInv, ConnectInv, AddressesExact, Addressed, Failing, Listed, Top
<1>2. CASE AppPoll \/ \E d \in Drives : AppRead(d)
  <2>1. stk = <<>> /\ UNCHANGED <<list, udev, pool>>
    BY <1>2 DEF AppPoll, AppRead, table
  <2>2. Quiet
    BY <2>1 DEF Quiet
  <2>3. stk' # <<>> /\ Head(stk') = Fresh("root")
    BY <1>2 DEF AppPoll, AppRead
  <2>4. Fresh("root").at = "root"
    BY DEF Fresh, Frame
  <2>5. Quiet' /\ ConnectInv'
    BY <2>3, <2>4 DEF Quiet, ConnectInv, Top, Answering
  <2> QED BY <2>1, <2>2, <2>5, AddrPlain
<1>3. CASE RootPolling \/ HubPolling \/ Connecting
  BY <1>3, AddrRoot, AddrHubs, AddrConnecting
<1>4. CASE Disconnect \/ DisconnectKids \/ ResetFind \/ ResetUnbind \/ ResetAddress
  BY <1>4, AddrOther
<1> QED BY <1>1, <1>2, <1>3, <1>4 DEF Next, Thread

LEMMA AddrInit ==
    ASSUME Init
    PROVE  AddrInv
<1>1. list = <<>> /\ stk = <<>> /\ pool = {} /\ \A u \in Udevs : udev[u] = FreeUdev
  BY DEF Init
<1>2. Listed = {}
  BY <1>1 DEF Listed, ToSet
<1>3. ListInv /\ ConnectInv
  BY <1>1 DEF ListInv, ConnectInv, NoDup
<1>4. AddressesExact
  BY <1>1, <1>2 DEF AddressesExact, Addressed
<1> QED BY <1>3, <1>4 DEF AddrInv

\* The addresses marked in _dev_addr_pool are those of the listed devices, each
\* of them once: usbh_set_address, a failed connect_device and disconnect_device
\* neither lose an address nor give one out twice.
THEOREM AddressesExactHolds == Spec => []AddressesExact
<1>1. Init => Types /\ ShapeInv /\ AddrInv
  BY TypesInit, ShapeInit, AddrInit
<1>2. Types /\ ShapeInv /\ AddrInv /\ [Next]_vars => (Types /\ ShapeInv /\ AddrInv)'
  BY TypesStep, ShapeStep, AddrStep
<1>3. Types /\ ShapeInv /\ AddrInv => AddressesExact
  BY DEF AddrInv
<1> QED BY <1>1, <1>2, <1>3, PTL DEF Spec
=============================================================================
