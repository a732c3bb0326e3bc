-------------------------- MODULE UsbTreeLinkProofs --------------------------
(***************************************************************************)
(* What UsbTree promises of the tree itself, whatever the person at the    *)
(* ports and the application do: the device list, the hub slots and the    *)
(* drives agree, and every variable keeps its type.  The argument relates  *)
(* the tables to the calls that wait.  A call inside may free the device   *)
(* that a waiting one works on; it is marked stale then, and nothing is    *)
(* claimed of it but that it is still there.                               *)
(***************************************************************************)
EXTENDS UsbTreeProofs

-----------------------------------------------------------------------------
(* The invariant.                                                          *)

\* The ports that exist, each a port of the root hub or of a hub at another.
LEMMA LocsAre ==
    /\ Locs \subseteq Seq(Nat) /\ Root \in Seq(Nat) /\ Last(Root) = 1 /\ Root = Append(<<>>, 1)
    /\ \A l \in Locs : /\ l # <<>> /\ Last(l) \in Ports
                       /\ l # Root => /\ Parent(l) \in Locs /\ l = Append(Parent(l), Last(l))
                                      /\ Last(l) \in Nat
  <1>1. \A l \in Locs : l \in Seq(Nat \ {0}) /\ Len(l) > 0 /\ (l = Root \/ Front(l) \in Locs)
    BY ConstAssumption
  <1>2. \A l \in Locs : l \in Seq(Nat)
    BY <1>1, SeqMonotonic
  <1>3. Root \in Seq(Nat) /\ Last(Root) = 1 /\ Root = Append(<<>>, 1)
    BY DEF Root, Last
  <1>4. ASSUME NEW l \in Locs, l # Root
        PROVE  Parent(l) \in Locs /\ l = Append(Parent(l), Last(l)) /\ Last(l) \in Nat
    <2>1. l \in Seq(Nat) /\ Len(l) > 0 /\ Parent(l) \in Locs
      BY <1>1, <1>2, <1>4 DEF Parent
    <2>2. l = Append(Front(l), Last(l)) /\ Last(l) \in Nat
      BY <2>1 DEF Front, Last
    <2> QED BY <2>1, <2>2 DEF Parent
  <1> QED BY <1>1, <1>2, <1>3, <1>4 DEF Ports

\* Where the listed devices are: at the root port, or at a port that the driver
\* of their hub looks after; always at a port that exists.
RootPort == \A u \in Listed : udev[u].hub = 0 => udev[u].port = Last(Root)
HangInv  == \A u \in Listed : udev[u].hub # 0 => udev[u].port \in hub[udev[u].hub].ports
LocsInv  == \A u \in Listed : Loc(u) \in Locs
SlotInv  == \A h \in Hubs : ~InUse(h) => hub[h].pos = <<>>
TreeInv  == TreeLinked /\ RootPort /\ HangInv /\ LocsInv /\ SlotInv

\* The calls in progress, those that wait for an inner one, and how they nest.
Calls == {stk[i] : i \in DOMAIN stk}
Waits == {stk[i] : i \in DOMAIN stk \ {1}}
Under(a, b)    == \E i, j \in DOMAIN stk : i < j /\ stk[i] = a /\ stk[j] = b
Deep(a, b)     == \E i, j \in DOMAIN stk \ {1} : i < j /\ stk[i] = a /\ stk[j] = b
Directly(a, b) == \E i \in DOMAIN stk : i + 1 \in DOMAIN stk /\ stk[i] = a /\ stk[i + 1] = b

Live(fr)   == fr.f # "stale"
Mounts(fr) == fr.at \in {"mount", "mounted"}
Awaits(fr) == fr.at \in {"rootdone", "portdone"}
Takes(fr)  == fr.at \in {"disc", "kids"}

\* A mount keeps its drive in use and not yet bound, even if its disk is freed.
MountOK(fr) == Mounts(fr) => drive[fr.d] # 0 /\ fr.d \notin bound
\* A call's device is listed and its hub slot in use.
LiveOK(fr) == /\ fr.u # 0 => fr.u \in Listed
              /\ fr.h # 0 /\ fr.at # "scan" => InUse(fr.h)
\* The port of a call is one of its hub's, the slot that is taken apart is that of
\* the device, and a reset that has yet to look for its drive has no device.
PlaceOK(fr) ==
    /\ fr.at \in {"clear", "old", "portreset"} => fr.p \in hub[fr.h].ports /\ PortOf(fr) \in Locs
    /\ fr.at = "kids" => hub[fr.h].dev = fr.u
    /\ fr.at = "rfind" => fr.u = 0
\* A mount and a reset work on a disk.
DiskOK(fr) ==
    /\ Mounts(fr) => drive[fr.d] = fr.u /\ IsDisk(fr.u)
    /\ fr.at \in {"rgo", "readdress"} => IsDisk(fr.u)
    /\ fr.at = "rfind" => \A u \in Udevs : drive[fr.d] = u => IsDisk(u)
FrameOK(fr) == MountOK(fr) /\ (Live(fr) => LiveOK(fr) /\ PlaceOK(fr) /\ DiskOK(fr))
FramesInv == \A f \in Calls : FrameOK(f)

\* No two mounts have one drive, and no two calls await the connection of one
\* device.
PairOK(a, b) == /\ Mounts(a) /\ Mounts(b) => a.d # b.d
                /\ Awaits(a) /\ Awaits(b) /\ Live(a) /\ Live(b) => a.u # b.u
PairsInv == \A a, b \in Calls : Under(a, b) => PairOK(a, b)

\* The places where a call can wait for another.
Pausing  == {"new", "gone", "portreset", "rest", "kids", "rootdone", "portdone",
             "mount", "mounted", "rfind", "rgo"}
PauseInv == \A f \in Waits : f.at \in Pausing

\* Ports that were searched for a listed device have none left, but for the one
\* that the call inside is just disconnecting.
Cleared(fr, v) == /\ Live(fr) /\ v \in Listed
                  /\ \/ fr.at = "reset" /\ udev[v].hub = 0
                     \/ fr.at = "portreset" /\ udev[v].hub = fr.h /\ udev[v].port = fr.p
                     \/ fr.at = "kids" /\ udev[v].hub = fr.h /\ udev[v].port <= fr.p
Covers(a, b) == \A v \in Udevs : Cleared(b, v) => Takes(a) /\ a.u = v
ClearInv == /\ stk # <<>> => \A v \in Udevs : ~Cleared(Top, v)
            /\ \A a, b \in Calls : Directly(a, b) => Covers(a, b)

StackInv == FramesInv /\ PairsInv /\ PauseInv /\ ClearInv

\* A hub that is about to be given a slot has none; a device whose connection
\* failed has no driver.
TopInv == /\ At("probe") /\ udev[Top.u].kind = "hub" => \A h \in Hubs : hub[h].dev # Top.u
          /\ \A u \in Udevs : Failing(u) => udev[u].kind = "none"

\* A drive in use is bound to a disk, or being mounted.
BoundInv == \A d \in bound : drive[d] # 0 /\ IsDisk(drive[d])
MountInv == \A d \in Drives \ bound : drive[d] # 0 => \E f \in Calls : Mounts(f) /\ f.d = d
DriveInv == BoundInv /\ MountInv

LinkInv  == TreeInv /\ StackInv /\ TopInv /\ DriveInv
Good     == Types /\ ShapeInv /\ AddrInv /\ LinkInv

-----------------------------------------------------------------------------
(* How a step changes the calls.                                           *)

LEMMA CallsAre ==
    ASSUME ThreadTypes
    PROVE  /\ Calls \subseteq GoodFrames /\ Waits \subseteq Calls
           /\ stk = <<>> => Calls = {} /\ Waits = {}
           /\ stk # <<>> => /\ Calls = {Top} \cup Waits
                            /\ \A b \in Waits : Under(Top, b)
           /\ \A a, b : Deep(a, b) => a \in Waits /\ b \in Waits /\ Under(a, b)
  <1>1. stk \in Seq(GoodFrames)
    BY DEF ThreadTypes
  <1>2. Calls \subseteq GoodFrames /\ Waits \subseteq Calls
    BY <1>1 DEF Calls, Waits
  <1>3. stk = <<>> => Calls = {} /\ Waits = {}
    BY DEF Calls, Waits
  <1>4. ASSUME stk # <<>>
        PROVE  Calls = {Top} \cup Waits /\ \A b \in Waits : Under(Top, b)
    <2>1. Top = stk[1] /\ 1 \in DOMAIN stk
      BY <1>1, <1>4, TopIs
    <2>2. \A i \in DOMAIN stk \ {1} : 1 < i
      BY <1>1
    <2> QED BY <2>1, <2>2 DEF Calls, Waits, Under
  <1>5. \A a, b : Deep(a, b) => a \in Waits /\ b \in Waits /\ Under(a, b)
    BY Zenon DEF Deep, Waits, Under
  <1> QED BY <1>2, <1>3, <1>4, <1>5

LEMMA CallsGoto ==
    ASSUME ThreadTypes, stk # <<>>, NEW fr \in GoodFrames, Goto(fr)
    PROVE  /\ Calls' = {fr} \cup Waits /\ Waits' = Waits
           /\ \A a, b : Under(a, b)' => Deep(a, b) \/ (a = fr /\ b \in Waits)
           /\ \A a, b : Directly(a, b)' => b \in Waits /\ (Directly(a, b) \/ (a = fr /\ Directly(Top, b)))
           /\ stk' # <<>> /\ Head(stk') = fr
  <1>1. /\ stk \in Seq(GoodFrames) /\ stk' \in Seq(GoodFrames) /\ Len(stk') = Len(stk)
        /\ stk'[1] = fr /\ \A i \in 2..Len(stk) : stk'[i] = stk[i]
    BY StackGoto DEF ThreadTypes
  <1>2. Top = stk[1] /\ 1 \in DOMAIN stk
    BY <1>1, TopIs
  <1>3. DOMAIN stk' = DOMAIN stk /\ \A i \in DOMAIN stk \ {1} : stk'[i] = stk[i] /\ i > 1
    BY <1>1
  <1>4. Calls' = {fr} \cup Waits /\ Waits' = Waits
    BY <1>1, <1>2, <1>3 DEF Calls, Waits
  <1>5. ASSUME NEW a, NEW b, Under(a, b)' PROVE Deep(a, b) \/ (a = fr /\ b \in Waits)
    <2>1. PICK i \in DOMAIN stk, j \in DOMAIN stk : i < j /\ stk'[i] = a /\ stk'[j] = b
      BY <1>3, <1>5 DEF Under
    <2>2. j # 1 /\ stk[j] = b
      BY <1>1, <1>3, <2>1
    <2>3. i # 1 => stk[i] = a
      BY <1>3, <2>1
    <2> QED BY <1>1, <2>1, <2>2, <2>3 DEF Deep, Waits
  <1>6. ASSUME NEW a, NEW b, Directly(a, b)'
        PROVE  b \in Waits /\ (Directly(a, b) \/ (a = fr /\ Directly(Top, b)))
    <2>1. PICK i \in DOMAIN stk : i + 1 \in DOMAIN stk /\ stk'[i] = a /\ stk'[i + 1] = b
      BY <1>3, <1>6 DEF Directly
    <2>2. i + 1 # 1 /\ stk[i + 1] = b
      BY <1>1, <1>3, <2>1
    <2>3. b \in Waits
      BY <2>1, <2>2 DEF Waits
    <2>4. CASE i = 1
      BY <1>1, <1>2, <2>1, <2>2, <2>3, <2>4 DEF Directly
    <2>5. CASE i # 1
      BY <1>3, <2>1, <2>2, <2>3, <2>5 DEF Directly
    <2> QED BY <2>4, <2>5
  <1>7. stk' # <<>> /\ Head(stk') = fr
    BY <1>1, <1>2
  <1> QED BY <1>4, <1>5, <1>6, <1>7

LEMMA CallsCall ==
    ASSUME ThreadTypes, stk # <<>>, NEW fr \in GoodFrames, NEW next \in GoodFrames, Call(fr, next)
    PROVE  /\ Calls' = {fr, next} \cup Waits /\ Waits' = {next} \cup Waits
           /\ \A a, b : Under(a, b)' => \/ Deep(a, b)
                                        \/ a \in {fr, next} /\ b \in Waits
                                        \/ a = fr /\ b = next
           /\ \A a, b : Directly(a, b)' => \/ a = fr /\ b = next
                                           \/ b \in Waits /\ (Directly(a, b) \/ (a = next /\ Directly(Top, b)))
           /\ stk' # <<>> /\ Head(stk') = fr
  <1>1. /\ stk \in Seq(GoodFrames) /\ stk' \in Seq(GoodFrames) /\ Len(stk') = Len(stk) + 1
        /\ stk'[1] = fr /\ stk'[2] = next /\ \A i \in 3..(Len(stk) + 1) : stk'[i] = stk[i - 1]
    BY StackCall DEF ThreadTypes
  <1>2. Top = stk[1] /\ 1 \in DOMAIN stk /\ Len(stk) \in Nat \ {0}
    BY <1>1, TopIs
  <1>3. /\ DOMAIN stk = 1..Len(stk) /\ DOMAIN stk' = 1..(Len(stk) + 1)
        /\ \A i \in DOMAIN stk \ {1} : /\ i \in Nat /\ i > 1 /\ i + 1 \in DOMAIN stk' \ {1, 2}
                                        /\ stk'[i + 1] = stk[i]
        /\ \A i \in DOMAIN stk' \ {1, 2} : i \in Nat /\ i > 2 /\ i - 1 \in DOMAIN stk \ {1}
                                           /\ stk'[i] = stk[i - 1]
        /\ 1 \in DOMAIN stk' /\ 2 \in DOMAIN stk'
    BY <1>1, <1>2
  <1>4. Waits' = {next} \cup Waits
    <2>1. \A f : f \in Waits' => f = next \/ f \in Waits
      BY <1>1, <1>3 DEF Waits
    <2>2. next \in Waits' /\ \A f \in Waits : f \in Waits'
      BY <1>1, <1>3 DEF Waits
    <2> QED BY <2>1, <2>2
  <1>5. Calls' = {fr} \cup Waits'
    BY <1>1, <1>3 DEF Calls, Waits
  <1>6. ASSUME NEW a, NEW b, Under(a, b)'
        PROVE  Deep(a, b) \/ (a \in {fr, next} /\ b \in Waits) \/ (a = fr /\ b = next)
    <2>1. PICK i \in DOMAIN stk', j \in DOMAIN stk' : i < j /\ stk'[i] = a /\ stk'[j] = b
      BY <1>6 DEF Under
    <2>2. j # 1
      BY <1>3, <2>1
    <2>3. CASE j = 2
      <3>1. i = 1
        BY <1>3, <2>1, <2>3
      <3> QED BY <1>1, <2>1, <2>3, <3>1
    <2>4. CASE j # 2
      <3>1. j \in Nat /\ j - 1 \in DOMAIN stk \ {1} /\ stk[j - 1] = b
        BY <1>3, <2>1, <2>2, <2>4
      <3>2. b \in Waits
        BY <3>1 DEF Waits
      <3>3. CASE i \in {1, 2}
        BY <1>1, <2>1, <3>2, <3>3
      <3>4. CASE i \notin {1, 2}
        <4>1. i \in Nat /\ i - 1 \in DOMAIN stk \ {1} /\ stk[i - 1] = a
          BY <1>3, <2>1, <3>4
        <4>2. i - 1 < j - 1
          BY <2>1, <3>1, <4>1
        <4> QED BY <3>1, <4>1, <4>2 DEF Deep
      <3> QED BY <3>3, <3>4
    <2> QED BY <2>3, <2>4
  <1>7. ASSUME NEW a, NEW b, Directly(a, b)'
        PROVE  \/ a = fr /\ b = next
               \/ b \in Waits /\ (Directly(a, b) \/ (a = next /\ Directly(Top, b)))
    <2>1. PICK i \in DOMAIN stk' : i + 1 \in DOMAIN stk' /\ stk'[i] = a /\ stk'[i + 1] = b
      BY <1>7 DEF Directly
    <2>2. i \in Nat /\ i + 1 # 1
      BY <1>1, <2>1
    <2>3. CASE i = 1
      BY <1>1, <2>1, <2>3
    <2>4. CASE i # 1
      <3>1. i + 1 \notin {1, 2} /\ (i + 1) - 1 = i
        BY <2>2, <2>4
      <3>2. i \in DOMAIN stk \ {1} /\ stk[i] = b
        BY <1>3, <2>1, <3>1
      <3>3. b \in Waits
        BY <3>2 DEF Waits
      <3>4. CASE i = 2
        <4>1. a = next /\ 1 + 1 = i
          BY <1>1, <2>1, <3>4
        <4> QED BY <1>2, <3>2, <3>3, <4>1 DEF Directly
      <3>5. CASE i # 2
        <4>1. i - 1 \in DOMAIN stk /\ stk[i - 1] = a /\ (i - 1) + 1 = i
          BY <1>3, <2>1, <2>2, <2>4, <3>5
        <4> QED BY <3>2, <3>3, <4>1 DEF Directly
      <3> QED BY <3>4, <3>5
    <2> QED BY <2>3, <2>4
  <1>8. stk' # <<>> /\ Head(stk') = fr
    BY <1>1
  <1> QED BY <1>4, <1>5, <1>6, <1>7, <1>8

LEMMA CallsReturn ==
    ASSUME ThreadTypes, stk # <<>>, NEW r, Return(r)
    PROVE  /\ Calls' = Waits /\ Waits' \subseteq Waits
           /\ \A a, b : Under(a, b)' => Deep(a, b)
           /\ \A a, b : Directly(a, b)' => Directly(a, b) /\ a \in Waits /\ b \in Waits
           /\ stk' # <<>> => Head(stk') \in Waits /\ Directly(Top, Head(stk'))
  <1>1. /\ stk \in Seq(GoodFrames) /\ stk' \in Seq(GoodFrames) /\ Len(stk') = Len(stk) - 1
        /\ \A i \in 1..(Len(stk) - 1) : stk'[i] = stk[i + 1]
    BY StackReturn DEF ThreadTypes
  <1>2. Top = stk[1] /\ 1 \in DOMAIN stk /\ Len(stk) \in Nat \ {0}
    BY <1>1, TopIs
  <1>3. /\ \A i \in DOMAIN stk' : i \in Nat /\ i + 1 \in DOMAIN stk \ {1} /\ stk'[i] = stk[i + 1]
        /\ \A i \in DOMAIN stk \ {1} : i \in Nat /\ i - 1 \in DOMAIN stk' /\ stk'[i - 1] = stk[i]
    BY <1>1, <1>2
  <1>4. Calls' = Waits
    <2>1. \A f \in Calls' : f \in Waits
      BY <1>3 DEF Calls, Waits
    <2>2. \A f \in Waits : f \in Calls'
      BY <1>3 DEF Calls, Waits
    <2> QED BY <2>1, <2>2
  <1>5. Waits' \subseteq Calls'
    BY DEF Calls, Waits
  <1>6. ASSUME NEW a, NEW b, Under(a, b)' PROVE Deep(a, b)
    <2>1. PICK i \in DOMAIN stk', j \in DOMAIN stk' : i < j /\ stk'[i] = a /\ stk'[j] = b
      BY <1>6 DEF Under
    <2>2. /\ i + 1 \in DOMAIN stk \ {1} /\ j + 1 \in DOMAIN stk \ {1} /\ i + 1 < j + 1
          /\ stk[i + 1] = a /\ stk[j + 1] = b
      BY <1>3, <2>1
    <2> QED BY <2>2 DEF Deep
  <1>7. ASSUME NEW a, NEW b, Directly(a, b)' PROVE Directly(a, b) /\ a \in Waits /\ b \in Waits
    <2>1. PICK i \in DOMAIN stk' : i + 1 \in DOMAIN stk' /\ stk'[i] = a /\ stk'[i + 1] = b
      BY <1>7 DEF Directly
    <2>2. i + 1 \in DOMAIN stk \ {1} /\ stk[i + 1] = a /\ (i + 1) + 1 \in DOMAIN stk \ {1} /\ stk[(i + 1) + 1] = b
      BY <1>3, <2>1
    <2> QED BY <2>2 DEF Directly, Waits
  <1>8. ASSUME stk' # <<>> PROVE Head(stk') \in Waits /\ Directly(Top, Head(stk'))
    <2>1. 1 \in DOMAIN stk' /\ Head(stk') = stk'[1]
      BY <1>1, <1>8
    <2>2. 1 + 1 \in DOMAIN stk \ {1} /\ stk[1 + 1] = Head(stk')
      BY <1>3, <2>1
    <2> QED BY <1>2, <2>2 DEF Waits, Directly
  <1> QED BY <1>4, <1>5, <1>6, <1>7, <1>8


\* Freeing a device marks the calls that use it, and changes no other.
Mark(f, u) == IF Uses(f, u) THEN [f EXCEPT !.f = "stale"] ELSE f

LEMMA MarkIs ==
    ASSUME NEW f \in GoodFrames, NEW u
    PROVE  /\ Mark(f, u) \in GoodFrames
           /\ SameCall(Mark(f, u), f)
           /\ Live(Mark(f, u)) => Mark(f, u) = f /\ ~Uses(f, u)
  <1>1. f \in Frames
    BY DEF GoodFrames
  <1>2. [f EXCEPT !.f = "stale"] \in GoodFrames /\ [f EXCEPT !.f = "stale"].f = "stale"
    BY <1>1 DEF GoodFrames, Frames
  <1>3. SameCall(Mark(f, u), f)
    BY <1>1 DEF Mark, SameCall, Frames
  <1> QED BY <1>2, <1>3 DEF Mark, Live

LEMMA CallsFreed ==
    ASSUME ThreadTypes, stk # <<>>, NEW u, ReturnFreed(u)
    PROVE  /\ \A f \in Calls' : \E g \in Waits : f = Mark(g, u)
           /\ \A g \in Waits : Mark(g, u) \in Calls'
           /\ Waits' \subseteq Calls'
           /\ \A a, b : Under(a, b)' => \E c, d : Deep(c, d) /\ a = Mark(c, u) /\ b = Mark(d, u)
           /\ \A a, b : Directly(a, b)' => \E c, d \in Waits : Directly(c, d) /\ a = Mark(c, u) /\ b = Mark(d, u)
           /\ stk' # <<>> => \E g \in Waits : Head(stk') = Mark(g, u) /\ Directly(Top, g)
  <1>1. /\ stk \in Seq(GoodFrames) /\ stk' \in Seq(GoodFrames) /\ Len(stk') = Len(stk) - 1
        /\ \A i \in 1..(Len(stk) - 1) : stk'[i] = Mark(stk[i + 1], u)
    BY StackFreed DEF ThreadTypes, Mark
  <1>2. Top = stk[1] /\ 1 \in DOMAIN stk /\ Len(stk) \in Nat \ {0}
    BY <1>1, TopIs
  <1>3. /\ \A i \in DOMAIN stk' : i \in Nat /\ i + 1 \in DOMAIN stk \ {1} /\ stk'[i] = Mark(stk[i + 1], u)
        /\ \A i \in DOMAIN stk \ {1} : i \in Nat /\ i - 1 \in DOMAIN stk' /\ stk'[i - 1] = Mark(stk[i], u)
    BY <1>1, <1>2
  <1>4. \A f \in Calls' : \E g \in Waits : f = Mark(g, u)
    BY <1>3 DEF Calls, Waits
  <1>5. \A g \in Waits : Mark(g, u) \in Calls'
    BY <1>3 DEF Calls, Waits
  <1>6. Waits' \subseteq Calls'
    BY DEF Calls, Waits
  <1>7. ASSUME NEW a, NEW b, Under(a, b)'
        PROVE  \E c, d : Deep(c, d) /\ a = Mark(c, u) /\ b = Mark(d, u)
    <2>1. PICK i \in DOMAIN stk', j \in DOMAIN stk' : i < j /\ stk'[i] = a /\ stk'[j] = b
      BY <1>7 DEF Under
    <2>2. /\ i + 1 \in DOMAIN stk \ {1} /\ j + 1 \in DOMAIN stk \ {1} /\ i + 1 < j + 1
          /\ a = Mark(stk[i + 1], u) /\ b = Mark(stk[j + 1], u)
      BY <1>3, <2>1
    <2> QED BY <2>2 DEF Deep
  <1>8. ASSUME NEW a, NEW b, Directly(a, b)'
        PROVE  \E c, d \in Waits : Directly(c, d) /\ a = Mark(c, u) /\ b = Mark(d, u)
    <2>1. PICK i \in DOMAIN stk' : i + 1 \in DOMAIN stk' /\ stk'[i] = a /\ stk'[i + 1] = b
      BY <1>8 DEF Directly
    <2>2. /\ i + 1 \in DOMAIN stk \ {1} /\ (i + 1) + 1 \in DOMAIN stk \ {1}
          /\ a = Mark(stk[i + 1], u) /\ b = Mark(stk[(i + 1) + 1], u)
      BY <1>3, <2>1
    <2>3. stk[i + 1] \in Waits /\ stk[(i + 1) + 1] \in Waits
      BY <2>2 DEF Waits
    <2>4. Directly(stk[i + 1], stk[(i + 1) + 1])
      BY <2>2 DEF Directly
    <2> QED BY <2>2, <2>3, <2>4
  <1>9. ASSUME stk' # <<>> PROVE \E g \in Waits : Head(stk') = Mark(g, u) /\ Directly(Top, g)
    <2>1. 1 \in DOMAIN stk' /\ Head(stk') = stk'[1]
      BY <1>1, <1>9
    <2>2. 1 + 1 \in DOMAIN stk \ {1} /\ Mark(stk[1 + 1], u) = Head(stk')
      BY <1>3, <2>1
    <2>3. stk[1 + 1] \in Waits /\ Directly(Top, stk[1 + 1])
      BY <1>2, <2>2 DEF Waits, Directly
    <2> QED BY <2>2, <2>3
  <1> QED BY <1>4, <1>5, <1>6, <1>7, <1>8, <1>9

LEMMA CallsMount ==
    ASSUME ThreadTypes, stk # <<>>, NEW x \in GoodFrames, NEW y \in GoodFrames, NEW z \in GoodFrames,
           stk' = <<x, y, z>> \o Tail(stk)
    PROVE  /\ Calls' = {x, y, z} \cup Waits /\ Waits' = {y, z} \cup Waits
           /\ \A a, b : Under(a, b)' => \/ Deep(a, b)
                                        \/ a \in {x, y, z} /\ b \in Waits
                                        \/ a = x /\ b \in {y, z}
                                        \/ a = y /\ b = z
           /\ \A a, b : Directly(a, b)' => \/ a = x /\ b = y
                                           \/ a = y /\ b = z
                                           \/ b \in Waits /\ (Directly(a, b) \/ (a = z /\ Directly(Top, b)))
           /\ stk' # <<>> /\ Head(stk') = x
  <1>1. /\ stk \in Seq(GoodFrames) /\ stk' \in Seq(GoodFrames) /\ Len(stk') = Len(stk) + 2
        /\ stk'[1] = x /\ stk'[2] = y /\ stk'[3] = z
        /\ \A i \in 4..(Len(stk) + 2) : stk'[i] = stk[i - 2]
    BY StackMount DEF ThreadTypes
  <1>2. Top = stk[1] /\ 1 \in DOMAIN stk /\ Len(stk) \in Nat \ {0}
    BY <1>1, TopIs
  <1>3. /\ \A i \in DOMAIN stk \ {1} : /\ i \in Nat /\ i > 1 /\ i + 2 \in DOMAIN stk' \ {1, 2, 3}
                                        /\ stk'[i + 2] = stk[i]
        /\ \A i \in DOMAIN stk' \ {1, 2, 3} : i \in Nat /\ i > 3 /\ i - 2 \in DOMAIN stk \ {1}
                                              /\ stk'[i] = stk[i - 2]
        /\ 1 \in DOMAIN stk' /\ 2 \in DOMAIN stk' \ {1} /\ 3 \in DOMAIN stk' \ {1}
    <2>1. DOMAIN stk = 1..Len(stk) /\ DOMAIN stk' = 1..(Len(stk) + 2)
      BY <1>1
    <2>2. ASSUME NEW i \in DOMAIN stk \ {1}
          PROVE  i \in Nat /\ i > 1 /\ i + 2 \in DOMAIN stk' \ {1, 2, 3} /\ stk'[i + 2] = stk[i]
      <3>1. i \in Nat /\ i > 1 /\ i + 2 \in 4..(Len(stk) + 2) /\ (i + 2) - 2 = i
        BY <1>2, <2>1
      <3> QED BY <1>1, <1>2, <2>1, <3>1
    <2>3. ASSUME NEW i \in DOMAIN stk' \ {1, 2, 3}
          PROVE  i \in Nat /\ i > 3 /\ i - 2 \in DOMAIN stk \ {1} /\ stk'[i] = stk[i - 2]
      <3>1. i \in 4..(Len(stk) + 2)
        BY <1>2, <2>1
      <3> QED BY <1>1, <1>2, <2>1, <3>1
    <2>4. 1 \in DOMAIN stk' /\ 2 \in DOMAIN stk' \ {1} /\ 3 \in DOMAIN stk' \ {1}
      BY <1>2, <2>1
    <2> QED BY <2>2, <2>3, <2>4
  <1>4. Waits' = {y, z} \cup Waits
    <2>1. \A f : f \in Waits' => f \in {y, z} \/ f \in Waits
      BY <1>1, <1>3 DEF Waits
    <2>2. y \in Waits'
      BY <1>1, <1>3 DEF Waits
    <2>3. z \in Waits'
      BY <1>1, <1>3 DEF Waits
    <2>4. ASSUME NEW f \in Waits PROVE f \in Waits'
      <3>1. PICK i \in DOMAIN stk \ {1} : stk[i] = f
        BY DEF Waits
      <3>2. i + 2 \in DOMAIN stk' \ {1} /\ stk'[i + 2] = f
        BY <1>3, <3>1
      <3> QED BY <3>2 DEF Waits
    <2> QED BY <2>1, <2>2, <2>3, <2>4
  <1>5. Calls' = {x} \cup Waits'
    <2>1. \A f : f \in Calls' => f = x \/ f \in Waits'
      BY <1>1 DEF Calls, Waits
    <2>2. x \in Calls' /\ \A f \in Waits' : f \in Calls'
      BY <1>1, <1>3 DEF Calls, Waits
    <2> QED BY <2>1, <2>2
  <1>6. ASSUME NEW a, NEW b, Under(a, b)'
        PROVE  \/ Deep(a, b) \/ (a \in {x, y, z} /\ b \in Waits)
               \/ (a = x /\ b \in {y, z}) \/ (a = y /\ b = z)
    <2>1. PICK i \in DOMAIN stk', j \in DOMAIN stk' : i < j /\ stk'[i] = a /\ stk'[j] = b
      BY <1>6 DEF Under
    <2>2. CASE j \in {1, 2, 3}
      <3>1. (i = 1 /\ j \in {2, 3}) \/ (i = 2 /\ j = 3)
        BY <1>3, <2>1, <2>2
      <3> QED BY <1>1, <2>1, <3>1
    <2>3. CASE j \notin {1, 2, 3}
      <3>1. j \in Nat /\ j - 2 \in DOMAIN stk \ {1} /\ stk[j - 2] = b
        BY <1>3, <2>1, <2>3
      <3>2. b \in Waits
        BY <3>1 DEF Waits
      <3>3. CASE i \in {1, 2, 3}
        BY <1>1, <2>1, <3>2, <3>3
      <3>4. CASE i \notin {1, 2, 3}
        <4>1. i \in Nat /\ i - 2 \in DOMAIN stk \ {1} /\ stk[i - 2] = a
          BY <1>3, <2>1, <3>4
        <4>2. i - 2 < j - 2
          BY <2>1, <3>1, <4>1
        <4> QED BY <3>1, <4>1, <4>2 DEF Deep
      <3> QED BY <3>3, <3>4
    <2> QED BY <2>2, <2>3
  <1>7. ASSUME NEW a, NEW b, Directly(a, b)'
        PROVE  \/ a = x /\ b = y
               \/ a = y /\ b = z
               \/ b \in Waits /\ (Directly(a, b) \/ (a = z /\ Directly(Top, b)))
    <2>1. PICK i \in DOMAIN stk' : i + 1 \in DOMAIN stk' /\ stk'[i] = a /\ stk'[i + 1] = b
      BY <1>7 DEF Directly
    <2>2. i \in Nat /\ i >= 1
      BY <1>1, <2>1
    <2>3. CASE i \in {1, 2}
      BY <1>1, <2>1, <2>3
    <2>4. CASE i \notin {1, 2}
      <3>1. i + 1 \notin {1, 2, 3} /\ (i + 1) - 2 = i - 1
        BY <2>2, <2>4
      <3>2. i - 1 \in DOMAIN stk \ {1} /\ stk[i - 1] = b
        BY <1>3, <2>1, <3>1
      <3>3. b \in Waits
        BY <3>2 DEF Waits
      <3>4. CASE i = 3
        <4>1. a = z /\ 1 + 1 = i - 1
          BY <1>1, <2>1, <3>4
        <4> QED BY <1>2, <3>2, <3>3, <4>1 DEF Directly
      <3>5. CASE i # 3
        <4>1. i - 2 \in DOMAIN stk /\ stk[i - 2] = a /\ (i - 2) + 1 = i - 1
          BY <1>3, <2>1, <2>2, <2>4, <3>5
        <4> QED BY <3>2, <3>3, <4>1 DEF Directly
      <3> QED BY <3>4, <3>5
    <2> QED BY <2>3, <2>4
  <1>8. stk' # <<>> /\ Head(stk') = x
    BY <1>1
  <1> QED BY <1>4, <1>5, <1>6, <1>7, <1>8


LEMMA CallsFirst ==
    /\ \A a : stk' = <<a>> => Calls' = {a} /\ Waits' = {} /\ (\A x, y : ~Under(x, y)' /\ ~Directly(x, y)')
    /\ \A a, b : stk' = <<a, b>> => /\ Calls' = {a, b} /\ Waits' = {b}
                                    /\ \A x, y : Under(x, y)' => x = a /\ y = b
                                    /\ \A x, y : Directly(x, y)' => x = a /\ y = b
  <1>1. ASSUME NEW a, stk' = <<a>>
        PROVE  Calls' = {a} /\ Waits' = {} /\ (\A x, y : ~Under(x, y)' /\ ~Directly(x, y)')
    <2>1. DOMAIN stk' = {1} /\ stk'[1] = a
      BY <1>1
    <2> QED BY <2>1 DEF Calls, Waits, Under, Directly
  <1>2. ASSUME NEW a, NEW b, stk' = <<a, b>>
        PROVE  /\ Calls' = {a, b} /\ Waits' = {b}
               /\ \A x, y : Under(x, y)' => x = a /\ y = b
               /\ \A x, y : Directly(x, y)' => x = a /\ y = b
    <2>1. DOMAIN stk' = {1, 2} /\ stk'[1] = a /\ stk'[2] = b
      BY <1>2
    <2>2. Calls' = {a, b} /\ Waits' = {b}
      BY <2>1 DEF Calls, Waits
    <2>3. /\ \A i, j \in DOMAIN stk' : i < j => i = 1 /\ j = 2
          /\ \A i \in DOMAIN stk' : i + 1 \in DOMAIN stk' => i = 1
      BY <2>1
    <2>4. \A x, y : Under(x, y)' => x = a /\ y = b
      BY <2>1, <2>3 DEF Under
    <2>5. \A x, y : Directly(x, y)' => x = a /\ y = b
      BY <2>1, <2>3 DEF Directly
    <2> QED BY <2>2, <2>4, <2>5
  <1> QED BY <1>1, <1>2

-----------------------------------------------------------------------------
(* What a step leaves to the calls.                                        *)

SameSlot(h) == /\ hub'[h].dev = hub[h].dev /\ hub'[h].pos = hub[h].pos
               /\ hub'[h].ports = hub[h].ports

\* A step that changes nothing that call f relies on.
Untouched(f) ==
    /\ Mounts(f) => drive'[f.d] = drive[f.d] /\ f.d \notin bound'
    /\ Live(f) => /\ f.u # 0 => f.u \in Listed'
                  /\ f.h # 0 /\ f.at # "scan" => SameSlot(f.h)
                  /\ IsDisk(f.u) => IsDisk(f.u)'
                  /\ f.at = "rfind" => \A u \in Udevs : drive'[f.d] = u => IsDisk(u)'

LEMMA FrameUntouched ==
    ASSUME NEW f \in GoodFrames, FrameOK(f), Untouched(f)
    PROVE  FrameOK(f)'
  <1>1. MountOK(f)'
    BY DEF FrameOK, MountOK, Untouched, Mounts
  <1>2. ASSUME Live(f) PROVE LiveOK(f)'
    BY <1>2 DEF FrameOK, LiveOK, Untouched, SameSlot, InUse
  <1>3. ASSUME Live(f) PROVE PlaceOK(f)'
    <2>1. CASE f.at \in {"clear", "old", "portreset", "kids"}
      <3>1. f.h \in Hubs /\ f.h # 0
        BY <2>1, Numbers DEF GoodFrames, WithHub
      <3>2. SameSlot(f.h) /\ PlaceOK(f)
        BY <1>3, <2>1, <3>1 DEF FrameOK, Untouched
      <3>3. PortOf(f)' = PortOf(f)
        BY <3>1, <3>2 DEF SameSlot, PortOf, Pos
      <3> QED BY <3>2, <3>3 DEF PlaceOK, SameSlot
    <2> QED BY <1>3, <2>1 DEF PlaceOK, FrameOK
  <1>4. ASSUME Live(f) PROVE DiskOK(f)'
    <2>1. DiskOK(f) /\ Untouched(f)
      BY <1>4 DEF FrameOK
    <2>2. Mounts(f) => drive'[f.d] = f.u /\ IsDisk(f.u)'
      BY <1>4, <2>1 DEF DiskOK, Untouched
    <2>3. f.at \in {"rgo", "readdress"} => IsDisk(f.u)'
      BY <1>4, <2>1 DEF DiskOK, Untouched
    <2>4. f.at = "rfind" => \A u \in Udevs : drive'[f.d] = u => IsDisk(u)'
      BY <1>4, <2>1 DEF Untouched
    <2> QED BY <2>2, <2>3, <2>4 DEF DiskOK, Mounts
  <1> QED BY <1>1, <1>2, <1>3, <1>4 DEF FrameOK, Live

-----------------------------------------------------------------------------
(* The calls that wait, whatever the innermost one moves on to.            *)

\* A step after which the calls that wait are as right as before.
Carried == \A f \in Waits : FrameOK(f)' /\ \A v \in Udevs : Cleared(f, v)' => Cleared(f, v)

LEMMA PairIdle == \A a, b : ~Mounts(a) /\ ~Awaits(a) => PairOK(a, b)
  BY DEF PairOK

LEMMA CoversKept ==
    ASSUME Carried, StackInv, NEW a \in Calls, NEW b \in Waits, Directly(a, b), NEW c,
           Takes(a) => Takes(c) /\ c.u = a.u, Waits \subseteq Calls
    PROVE  Covers(c, b)'
  <1>1. Covers(a, b)
    BY DEF StackInv, ClearInv
  <1> QED BY <1>1 DEF Carried, Covers, Takes

LEMMA StackGotoOK ==
    ASSUME Types, StackInv, Carried, stk # <<>>, NEW fr \in GoodFrames, Goto(fr), FrameOK(fr)',
           Mounts(fr) => Mounts(Top) /\ fr.d = Top.d, ~Awaits(fr),
           \A v \in Udevs : ~Cleared(fr, v)', Takes(Top) => Takes(fr) /\ fr.u = Top.u
    PROVE  StackInv'
  <1>1. /\ Calls' = {fr} \cup Waits /\ Waits' = Waits
        /\ \A a, b : Under(a, b)' => Deep(a, b) \/ (a = fr /\ b \in Waits)
        /\ \A a, b : Directly(a, b)' => b \in Waits /\ (Directly(a, b) \/ (a = fr /\ Directly(Top, b)))
        /\ stk' # <<>> /\ Head(stk') = fr
    BY CallsGoto DEF Types
  <1>2. /\ Calls = {Top} \cup Waits /\ \A b \in Waits : Under(Top, b)
        /\ \A a, b : Deep(a, b) => a \in Waits /\ b \in Waits /\ Under(a, b)
    BY CallsAre DEF Types
  <1>3. FramesInv' /\ PauseInv'
    <2>1. \A f \in Calls' : FrameOK(f)'
      BY <1>1 DEF Carried
    <2>2. \A f \in Waits' : f.at \in Pausing
      BY <1>1 DEF StackInv, PauseInv
    <2> QED BY <2>1, <2>2 DEF FramesInv, PauseInv
  <1>4. PairsInv'
    <2>1. ASSUME NEW b \in Waits PROVE PairOK(fr, b)
      <3>1. PairOK(Top, b)
        BY <1>2 DEF StackInv, PairsInv
      <3> QED BY <3>1 DEF PairOK
    <2>2. \A a, b : Deep(a, b) => PairOK(a, b)
      BY <1>2 DEF StackInv, PairsInv
    <2>3. \A a, b : Under(a, b)' => PairOK(a, b)
      BY <1>1, <2>1, <2>2
    <2> QED BY <2>3 DEF PairsInv, PairOK, Live, Mounts, Awaits
  <1>5. ClearInv'
    <2>1. \A v \in Udevs : ~Cleared(Top, v)'
      BY <1>1 DEF Top
    <2>2. ASSUME NEW a \in Calls', NEW b \in Calls', Directly(a, b)' PROVE Covers(a, b)'
      <3>1. CASE a = fr /\ Directly(Top, b) /\ b \in Waits
        BY <1>2, <3>1, CoversKept
      <3>2. CASE Directly(a, b) /\ b \in Waits
        <4>1. a \in Calls
          BY <3>2 DEF Directly, Calls
        <4> QED BY <1>2, <3>2, <4>1, CoversKept
      <3> QED BY <1>1, <2>2, <3>1, <3>2
    <2> QED BY <2>1, <2>2 DEF ClearInv
  <1> QED BY <1>3, <1>4, <1>5 DEF StackInv

LEMMA StackCallOK ==
    ASSUME Types, StackInv, Carried, stk # <<>>, NEW fr \in GoodFrames, NEW next \in GoodFrames,
           Call(fr, next), FrameOK(fr)', FrameOK(next)', ~Mounts(fr), ~Awaits(fr),
           \A b \in Waits : PairOK(next, b), next.at \in Pausing,
           \A v \in Udevs : ~Cleared(fr, v)', Covers(fr, next)', Takes(Top) => Takes(next) /\ next.u = Top.u
    PROVE  StackInv'
  <1>1. /\ Calls' = {fr, next} \cup Waits /\ Waits' = {next} \cup Waits
        /\ \A a, b : Under(a, b)' => \/ Deep(a, b)
                                     \/ a \in {fr, next} /\ b \in Waits
                                     \/ a = fr /\ b = next
        /\ \A a, b : Directly(a, b)' => \/ a = fr /\ b = next
                                        \/ b \in Waits /\ (Directly(a, b) \/ (a = next /\ Directly(Top, b)))
        /\ stk' # <<>> /\ Head(stk') = fr
    BY CallsCall DEF Types
  <1>2. /\ Calls = {Top} \cup Waits
        /\ \A a, b : Deep(a, b) => a \in Waits /\ b \in Waits /\ Under(a, b)
    BY CallsAre DEF Types
  <1>3. FramesInv' /\ PauseInv'
    <2>1. \A f \in Calls' : FrameOK(f)'
      BY <1>1 DEF Carried
    <2>2. \A f \in Waits' : f.at \in Pausing
      BY <1>1 DEF StackInv, PauseInv
    <2> QED BY <2>1, <2>2 DEF FramesInv, PauseInv
  <1>4. PairsInv'
    <2>1. \A b : PairOK(fr, b)
      BY PairIdle
    <2>2. \A a, b : Deep(a, b) => PairOK(a, b)
      BY <1>2 DEF StackInv, PairsInv
    <2>3. \A a, b : Under(a, b)' => PairOK(a, b)
      BY <1>1, <2>1, <2>2
    <2> QED BY <2>3 DEF PairsInv, PairOK, Live, Mounts, Awaits
  <1>5. ClearInv'
    <2>1. \A v \in Udevs : ~Cleared(Top, v)'
      BY <1>1 DEF Top
    <2>2. ASSUME NEW a \in Calls', NEW b \in Calls', Directly(a, b)' PROVE Covers(a, b)'
      <3>1. CASE a = next /\ Directly(Top, b) /\ b \in Waits
        BY <1>2, <3>1, CoversKept
      <3>2. CASE Directly(a, b) /\ b \in Waits
        <4>1. a \in Calls
          BY <3>2 DEF Directly, Calls
        <4> QED BY <1>2, <3>2, <4>1, CoversKept
      <3>3. CASE a = fr /\ b = next
        BY <3>3
      <3> QED BY <1>1, <2>2, <3>1, <3>2, <3>3
    <2> QED BY <2>1, <2>2 DEF ClearInv
  <1> QED BY <1>3, <1>4, <1>5 DEF StackInv

LEMMA StackReturnOK ==
    ASSUME Types, StackInv, Carried, stk # <<>>, NEW r, Return(r), ~Takes(Top)
    PROVE  StackInv'
  <1>1. /\ Calls' = Waits /\ Waits' \subseteq Waits
        /\ \A a, b : Under(a, b)' => Deep(a, b)
        /\ \A a, b : Directly(a, b)' => Directly(a, b) /\ a \in Waits /\ b \in Waits
        /\ stk' # <<>> => Head(stk') \in Waits /\ Directly(Top, Head(stk'))
    BY CallsReturn DEF Types
  <1>2. /\ Calls = {Top} \cup Waits
        /\ \A a, b : Deep(a, b) => a \in Waits /\ b \in Waits /\ Under(a, b)
    BY CallsAre DEF Types
  <1>3. FramesInv' /\ PauseInv'
    <2>1. \A f \in Calls' : FrameOK(f)'
      BY <1>1 DEF Carried
    <2>2. \A f \in Waits' : f.at \in Pausing
      BY <1>1 DEF StackInv, PauseInv
    <2> QED BY <2>1, <2>2 DEF FramesInv, PauseInv
  <1>4. PairsInv'
    <2>1. \A a, b : Under(a, b)' => PairOK(a, b)
      BY <1>1, <1>2 DEF StackInv, PairsInv
    <2> QED BY <2>1 DEF PairsInv, PairOK, Live, Mounts, Awaits
  <1>5. ClearInv'
    <2>1. ASSUME stk' # <<>> PROVE \A v \in Udevs : ~Cleared(Top, v)'
      <3>1. PICK b \in Waits : b = Head(stk') /\ Directly(Top, b)
        BY <1>1, <2>1
      <3>2. Covers(Top, b)
        BY <1>2, <3>1 DEF StackInv, ClearInv
      <3>3. \A v \in Udevs : ~Cleared(b, v)'
        BY <3>2 DEF Covers, Carried
      <3> QED BY <3>1, <3>3 DEF Top
    <2>2. ASSUME NEW a \in Calls', NEW b \in Calls', Directly(a, b)' PROVE Covers(a, b)'
      BY <1>1, <1>2, <2>2, CoversKept
    <2> QED BY <2>1, <2>2 DEF ClearInv
  <1> QED BY <1>3, <1>4, <1>5 DEF StackInv

LEMMA StackMountOK ==
    ASSUME Types, StackInv, Carried, stk # <<>>, ~Takes(Top),
           NEW x \in GoodFrames, NEW y \in GoodFrames, NEW z \in GoodFrames,
           stk' = <<x, y, z>> \o Tail(stk), FrameOK(x)', FrameOK(y)', FrameOK(z)',
           x.at = "root", y.at = "rfind", Mounts(z), Mounts(Top), z.d = Top.d
    PROVE  StackInv'
  <1>1. /\ Calls' = {x, y, z} \cup Waits /\ Waits' = {y, z} \cup Waits
        /\ \A a, b : Under(a, b)' => \/ Deep(a, b)
                                     \/ a \in {x, y, z} /\ b \in Waits
                                     \/ a = x /\ b \in {y, z}
                                     \/ a = y /\ b = z
        /\ \A a, b : Directly(a, b)' => \/ a = x /\ b = y
                                        \/ a = y /\ b = z
                                        \/ b \in Waits /\ (Directly(a, b) \/ (a = z /\ Directly(Top, b)))
        /\ stk' # <<>> /\ Head(stk') = x
    BY CallsMount DEF Types
  <1>2. /\ Calls = {Top} \cup Waits /\ \A b \in Waits : Under(Top, b)
        /\ \A a, b : Deep(a, b) => a \in Waits /\ b \in Waits /\ Under(a, b)
    BY CallsAre DEF Types
  <1>3. FramesInv' /\ PauseInv'
    <2>1. \A f \in Calls' : FrameOK(f)'
      BY <1>1 DEF Carried
    <2>2. \A f \in Waits' : f.at \in Pausing
      BY <1>1 DEF StackInv, PauseInv, Pausing, Mounts
    <2> QED BY <2>1, <2>2 DEF FramesInv, PauseInv
  <1>4. PairsInv'
    <2>1. \A b : PairOK(x, b) /\ PairOK(y, b)
      BY PairIdle DEF Mounts, Awaits
    <2>2. \A a, b : Deep(a, b) => PairOK(a, b)
      BY <1>2 DEF StackInv, PairsInv
    <2>3. ASSUME NEW b \in Waits PROVE PairOK(z, b)
      <3>1. PairOK(Top, b)
        BY <1>2 DEF StackInv, PairsInv
      <3> QED BY <3>1 DEF PairOK, Mounts, Awaits
    <2>4. \A a, b : Under(a, b)' => PairOK(a, b)
      BY <1>1, <2>1, <2>2, <2>3
    <2> QED BY <2>4 DEF PairsInv, PairOK, Live, Mounts, Awaits
  <1>5. ClearInv'
    <2>1. \A v \in Udevs : ~Cleared(Top, v)'
      BY <1>1 DEF Top, Cleared
    <2>2. ASSUME NEW a \in Calls', NEW b \in Calls', Directly(a, b)' PROVE Covers(a, b)'
      <3>1. CASE a = z /\ Directly(Top, b) /\ b \in Waits
        BY <1>2, <3>1, CoversKept
      <3>2. CASE Directly(a, b) /\ b \in Waits
        <4>1. a \in Calls
          BY <3>2 DEF Directly, Calls
        <4> QED BY <1>2, <3>2, <4>1, CoversKept
      <3>3. CASE b \in {y, z}
        BY <3>3 DEF Covers, Cleared, Mounts
      <3> QED BY <1>1, <2>2, <3>1, <3>2, <3>3
    <2> QED BY <2>1, <2>2 DEF ClearInv
  <1> QED BY <1>3, <1>4, <1>5 DEF StackInv

\* A call that ends a disconnect leaves the calls below it as they are, but for
\* those that it marks.
LEMMA StackFreedOK ==
    ASSUME Types, StackInv, stk # <<>>, NEW u, ReturnFreed(u), Takes(Top), Top.u = u,
           \A f \in Waits : \A m : m = Mark(f, u) => FrameOK(m)',
           \A f \in Waits : \A v \in Udevs : Cleared(f, v)' => Cleared(f, v) /\ v # u
    PROVE  StackInv'
  <1>1. /\ \A f \in Calls' : \E g \in Waits : f = Mark(g, u)
        /\ Waits' \subseteq Calls'
        /\ \A a, b : Under(a, b)' => \E c, d : Deep(c, d) /\ a = Mark(c, u) /\ b = Mark(d, u)
        /\ \A a, b : Directly(a, b)' => \E c, d \in Waits : Directly(c, d) /\ a = Mark(c, u) /\ b = Mark(d, u)
        /\ stk' # <<>> => \E g \in Waits : Head(stk') = Mark(g, u) /\ Directly(Top, g)
    BY CallsFreed DEF Types
  <1>2. /\ Calls \subseteq GoodFrames /\ Calls = {Top} \cup Waits
        /\ \A a, b : Deep(a, b) => a \in Waits /\ b \in Waits /\ Under(a, b)
    BY CallsAre DEF Types
  <1>3. \A f \in Waits : /\ SameCall(Mark(f, u), f)
                         /\ Live(Mark(f, u)) => Mark(f, u) = f /\ Live(f)
    BY <1>2, MarkIs DEF Live
  <1>4. FramesInv'
    <2>1. \A f \in Calls' : FrameOK(f)'
      BY <1>1
    <2> QED BY <2>1 DEF FramesInv
  <1>5. PauseInv'
    <2>1. ASSUME NEW f \in Waits' PROVE f.at \in Pausing
      <3>1. PICK g \in Waits : f = Mark(g, u)
        BY <1>1
      <3> QED BY <1>3, <3>1 DEF StackInv, PauseInv, SameCall
    <2> QED BY <2>1 DEF PauseInv
  <1>6. PairsInv'
    <2>1. ASSUME NEW a, NEW b, Under(a, b)' PROVE PairOK(a, b)
      <3>1. PICK c, d : Deep(c, d) /\ a = Mark(c, u) /\ b = Mark(d, u)
        BY <1>1, <2>1
      <3>2. PairOK(c, d) /\ c \in Waits /\ d \in Waits
        BY <1>2, <3>1 DEF StackInv, PairsInv
      <3>3. /\ a.at = c.at /\ a.d = c.d /\ (Live(a) => a = c)
            /\ b.at = d.at /\ b.d = d.d /\ (Live(b) => b = d)
        BY <1>3, <3>1, <3>2 DEF SameCall
      <3> QED BY <3>2, <3>3 DEF PairOK, Mounts, Awaits
    <2> QED BY <2>1 DEF PairsInv, PairOK, Live, Mounts, Awaits
  <1>7. ASSUME NEW c \in Calls, NEW g \in Waits, Directly(c, g), NEW m, m = Mark(g, u),
               NEW v \in Udevs, Cleared(m, v)'
        PROVE  Takes(c) /\ c.u = v /\ v # u
    <2>1. Live(m)
      BY <1>7 DEF Cleared, Live
    <2>2. m = g
      BY <1>3, <1>7, <2>1
    <2>3. Cleared(g, v) /\ v # u
      BY <1>7, <2>2
    <2>4. Covers(c, g)
      BY <1>2, <1>7 DEF StackInv, ClearInv
    <2> QED BY <2>3, <2>4 DEF Covers
  <1>8. ClearInv'
    <2>1. ASSUME stk' # <<>> PROVE \A v \in Udevs : ~Cleared(Top, v)'
      <3>1. PICK g \in Waits : Head(stk') = Mark(g, u) /\ Directly(Top, g)
        BY <1>1, <2>1
      <3>2. PICK m : m = Mark(g, u)
        OBVIOUS
      <3>3. ASSUME NEW v \in Udevs, Cleared(m, v)' PROVE FALSE
        BY <1>2, <1>7, <3>1, <3>2, <3>3
      <3> QED BY <3>1, <3>2, <3>3 DEF Top
    <2>2. ASSUME NEW a \in Calls', NEW b \in Calls', Directly(a, b)' PROVE Covers(a, b)'
      <3>1. PICK c, d \in Waits : Directly(c, d) /\ a = Mark(c, u) /\ b = Mark(d, u)
        BY <1>1, <2>2
      <3>2. ASSUME NEW v \in Udevs, Cleared(b, v)' PROVE Takes(a) /\ a.u = v
        <4>1. Takes(c) /\ c.u = v
          BY <1>2, <1>7, <3>1, <3>2
        <4> QED BY <1>3, <3>1, <4>1 DEF SameCall, Takes
      <3> QED BY <3>2 DEF Covers, Takes
    <2> QED BY <2>1, <2>2 DEF ClearInv
  <1> QED BY <1>4, <1>5, <1>6, <1>8 DEF StackInv

-----------------------------------------------------------------------------
(* How a step changes the tree.                                            *)

\* A step that leaves the slots as they are, and the devices but for their
\* addresses and for the kinds of those not configured yet.
LEMMA TreeSame ==
    ASSUME Types, TreeInv, Listed' = Listed, \A h \in Hubs : SameSlot(h),
           \A u \in Udevs : udev'[u].hub = udev[u].hub /\ udev'[u].port = udev[u].port,
           \A u \in Listed : udev[u].kind # "none" => udev'[u].kind = udev[u].kind
    PROVE  /\ TreeInv' /\ \A h \in Hubs : InUse(h)' = InUse(h)
           /\ \A h \in 0..NHubs : Pos(h)' = Pos(h)
           /\ \A u \in Udevs : Loc(u)' = Loc(u)
  <1>0. 0..NHubs = {0} \cup Hubs
    BY Numbers DEF Hubs
  <1>1. \A h \in Hubs : InUse(h)' = InUse(h)
    BY DEF InUse, SameSlot
  <1>2. \A h \in 0..NHubs : Pos(h)' = Pos(h)
    BY <1>0 DEF Pos, SameSlot
  <1>3. \A u \in Udevs : udev[u].hub \in 0..NHubs
    BY DEF Types, TableTypes, UdevType
  <1>4. \A u \in Udevs : Loc(u)' = Loc(u)
    BY <1>2, <1>3 DEF Loc
  <1>5. Listed \subseteq Udevs
    BY FoundTypes DEF Types
  <1>6. \A u \in Listed' : /\ u \in Listed /\ Loc(u)' = Loc(u)
                           /\ udev'[u].hub = udev[u].hub /\ udev'[u].port = udev[u].port
    BY <1>4, <1>5
  <1>7. \A h \in Hubs : hub'[h].dev = hub[h].dev /\ hub'[h].pos = hub[h].pos /\ hub'[h].ports = hub[h].ports
    BY DEF SameSlot
  <1>8. TreeLinked'
    <2>1. ASSUME NEW h \in Hubs, InUse(h)'
          PROVE  /\ hub'[h].dev \in Listed' /\ udev'[hub'[h].dev].kind = "hub"
                 /\ hub'[h].pos = Loc(hub[h].dev)'
      <3>1. InUse(h) /\ hub'[h].dev = hub[h].dev
        BY <1>1, <1>7, <2>1
      <3>2. hub[h].dev \in Listed /\ udev[hub[h].dev].kind = "hub" /\ hub[h].pos = Loc(hub[h].dev)
        BY <3>1 DEF TreeInv, TreeLinked
      <3>3. PICK v : v = hub[h].dev
        OBVIOUS
      <3>4. Loc(v)' = Loc(v) /\ v \in Listed' /\ udev'[v].kind = "hub"
        BY <1>6, <3>2, <3>3
      <3>5. Loc(hub[h].dev)' = Loc(v)'
        BY <3>1, <3>3 DEF Loc, Pos
      <3> QED BY <1>7, <3>1, <3>2, <3>3, <3>4, <3>5
    <2>2. \A u \in Listed' : udev'[u].hub # 0 => InUse(udev[u].hub)'
      <3>1. ASSUME NEW u \in Listed', udev'[u].hub # 0 PROVE hub'[udev'[u].hub].dev # 0
        <4>1. u \in Listed /\ udev'[u].hub = udev[u].hub /\ u \in Udevs
          BY <1>5, <1>6, <3>1
        <4>2. udev[u].hub \in Hubs /\ InUse(udev[u].hub)
          BY <1>0, <1>3, <3>1, <4>1 DEF TreeInv, TreeLinked
        <4> QED BY <1>7, <4>1, <4>2 DEF InUse
      <3> QED BY <3>1 DEF InUse
    <2>3. \A u, v \in Listed' : u # v => Loc(u)' # Loc(v)'
      BY <1>6 DEF TreeInv, TreeLinked
    <2>4. \A g, h \in Hubs : InUse(g)' /\ InUse(h)' /\ g # h => hub'[g].dev # hub'[h].dev
      BY <1>1, <1>7 DEF TreeInv, TreeLinked
    <2> QED BY <2>1, <2>2, <2>3, <2>4 DEF TreeLinked
  <1>9. RootPort'
    BY <1>6 DEF TreeInv, RootPort
  <1>10. HangInv'
    <2>1. ASSUME NEW u \in Listed', udev'[u].hub # 0 PROVE udev'[u].port \in hub'[udev'[u].hub].ports
      <3>1. u \in Listed /\ udev'[u].hub = udev[u].hub /\ udev'[u].port = udev[u].port /\ udev[u].hub \in Hubs
        BY <1>0, <1>3, <1>5, <1>6, <2>1
      <3> QED BY <1>7, <2>1, <3>1 DEF TreeInv, HangInv
    <2> QED BY <2>1 DEF HangInv
  <1>11. LocsInv'
    BY <1>6 DEF TreeInv, LocsInv
  <1>12. SlotInv'
    BY <1>1, <1>7 DEF TreeInv, SlotInv
  <1> QED BY <1>1, <1>2, <1>4, <1>8, <1>9, <1>10, <1>11, <1>12 DEF TreeInv

\* The devices that usbh_find_device finds at the ports of the hub in a slot.
LEMMA FindAtHub ==
    ASSUME Types, TreeInv, NEW h \in Hubs, InUse(h), NEW p
    PROVE  /\ FindDevice(Pos(h), p) # 0 =>
                 /\ FindDevice(Pos(h), p) \in Listed
                 /\ udev[FindDevice(Pos(h), p)].hub = h /\ udev[FindDevice(Pos(h), p)].port = p
           /\ FindDevice(Pos(h), p) = 0 =>
                 \A v \in Listed : ~ (udev[v].hub = h /\ udev[v].port = p)
  <1> DEFINE slots == {g \in Hubs : InUse(g) /\ hub[g].pos = Pos(h)}
  <1>1. Pos(h) = hub[h].pos /\ h \in Nat /\ list \in Seq(Udevs)
    BY Numbers DEF Pos, Types, TableTypes
  <1>2. \A g \in slots : g = h
    BY <1>1 DEF TreeInv, TreeLinked
  <1>3. slots = {h} /\ slots \subseteq Nat
    BY <1>1, <1>2
  <1>4. Min(slots) = h
    <2> HIDE DEF slots
    <2> QED BY <1>3, MinIn
  <1>5. ASSUME FindDevice(Pos(h), p) # 0
        PROVE  /\ FindDevice(Pos(h), p) \in Listed
               /\ udev[FindDevice(Pos(h), p)].hub = h /\ udev[FindDevice(Pos(h), p)].port = p
    BY <1>1, <1>4, <1>5, FindDeviceIs
  <1>6. ASSUME FindDevice(Pos(h), p) = 0, NEW v \in Listed, udev[v].hub = h
        PROVE  udev[v].port # p
    <2>1. udev[v].hub = Min({g \in Hubs : InUse(g) /\ hub[g].pos = Pos(h)})
      BY <1>4, <1>6
    <2> HIDE DEF slots
    <2> QED BY <1>1, <1>6, <2>1, FindDeviceNone
  <1> QED BY <1>5, <1>6

\* hub_probe gives a slot to a listed hub that has none.
LEMMA TreeSlot ==
    ASSUME Types, TreeInv, NEW u \in Listed, udev[u].kind = "hub", \A g \in Hubs : hub[g].dev # u,
           NEW h \in Hubs, ~InUse(h), list' = list, udev' = udev,
           hub'[h].dev = u, hub'[h].pos = Loc(u), \A g \in Hubs \ {h} : hub'[g] = hub[g]
    PROVE  /\ TreeInv' /\ \A v \in Listed : Loc(v)' = Loc(v)
           /\ \A g \in Hubs : InUse(g) => SameSlot(g)
  <1>0. /\ 0..NHubs = {0} \cup Hubs /\ Listed \subseteq Udevs /\ u # 0 /\ Listed' = Listed
        /\ \A v \in Udevs : udev[v].hub \in 0..NHubs
    BY FoundTypes, Numbers DEF Hubs, Types, Listed, TableTypes, UdevType
  <1>1. \A g \in Hubs : InUse(g)' <=> InUse(g) \/ g = h
    BY <1>0 DEF InUse
  <1>2. \A v \in Listed : udev[v].hub # h /\ (udev[v].hub # 0 => udev[v].hub \in Hubs /\ InUse(udev[v].hub))
    BY <1>0, Numbers DEF TreeInv, TreeLinked
  <1>3. \A v \in Listed : Loc(v)' = Loc(v)
    BY <1>0, <1>2 DEF Loc, Pos
  <1>4. TreeLinked'
    <2>1. ASSUME NEW g \in Hubs, InUse(g)'
          PROVE  /\ hub'[g].dev \in Listed /\ udev[hub'[g].dev].kind = "hub"
                 /\ hub'[g].pos = Loc(hub[g].dev)'
      <3>1. CASE g = h
        <4>1. hub'[g].dev = u /\ hub'[g].pos = Loc(u)
          BY <3>1
        <4>2. Loc(hub[g].dev)' = Loc(u)'
          BY <4>1 DEF Loc, Pos
        <4> QED BY <1>3, <4>1, <4>2
      <3>2. CASE g # h
        <4>1. InUse(g) /\ hub'[g].dev = hub[g].dev /\ hub'[g].pos = hub[g].pos
          BY <1>1, <2>1, <3>2
        <4>2. hub[g].dev \in Listed /\ udev[hub[g].dev].kind = "hub" /\ hub[g].pos = Loc(hub[g].dev)
          BY <4>1 DEF TreeInv, TreeLinked
        <4>3. PICK v : v = hub[g].dev
          OBVIOUS
        <4>4. Loc(v)' = Loc(v)
          BY <1>3, <4>2, <4>3
        <4>5. Loc(hub[g].dev)' = Loc(v)'
          BY <4>1, <4>3 DEF Loc, Pos
        <4> QED BY <4>1, <4>2, <4>3, <4>4, <4>5
      <3> QED BY <3>1, <3>2
    <2>2. \A v \in Listed : udev[v].hub # 0 => InUse(udev[v].hub)'
      <3>1. ASSUME NEW v \in Listed, udev[v].hub # 0 PROVE hub'[udev[v].hub].dev # 0
        BY <1>2, <3>1 DEF InUse
      <3> QED BY <3>1 DEF InUse
    <2>3. \A v, w \in Listed : v # w => Loc(v)' # Loc(w)'
      BY <1>3 DEF TreeInv, TreeLinked
    <2>4. \A f, g \in Hubs : InUse(f)' /\ InUse(g)' /\ f # g => hub'[f].dev # hub'[g].dev
      BY <1>1 DEF TreeInv, TreeLinked
    <2>5. \A v \in Listed' : udev'[v].hub # 0 => InUse(udev[v].hub)'
      BY <1>0, <2>2 DEF InUse
    <2> QED BY <1>0, <2>1, <2>3, <2>4, <2>5 DEF TreeLinked
  <1>5. RootPort' /\ HangInv'
    BY <1>0, <1>2 DEF TreeInv, RootPort, HangInv
  <1>6. LocsInv' /\ SlotInv'
    BY <1>0, <1>1, <1>3 DEF TreeInv, LocsInv, SlotInv
  <1> QED BY <1>3, <1>4, <1>5, <1>6 DEF TreeInv, SameSlot, InUse

\* No two hubs have their ports at one place.
LEMMA PosInjective ==
    ASSUME Types, TreeInv, NEW g \in 0..NHubs, NEW h \in 0..NHubs, g # 0 => InUse(g), h # 0 => InUse(h),
           Pos(g) = Pos(h)
    PROVE  g = h
  <1>0. 0..NHubs = {0} \cup Hubs /\ 0 \notin Hubs /\ Listed \subseteq Udevs
    BY FoundTypes, Numbers DEF Hubs, Types
  <1>1. ASSUME NEW k \in 0..NHubs, k # 0, InUse(k)
        PROVE  k \in Hubs /\ Pos(k) # <<>> /\ Pos(k) = Loc(hub[k].dev) /\ hub[k].dev \in Listed
    <2>1. k \in Hubs /\ hub[k].dev \in Listed /\ hub[k].pos = Loc(hub[k].dev) /\ Pos(k) = hub[k].pos
      BY <1>0, <1>1 DEF TreeInv, TreeLinked, Pos
    <2>2. Len(Loc(hub[k].dev)) > 0
      BY <1>0, <2>1, PosSeq DEF Types
    <2> QED BY <2>1, <2>2
  <1>2. CASE g = 0 \/ h = 0
    BY <1>1, <1>2 DEF Pos
  <1>3. CASE g # 0 /\ h # 0
    <2>1. hub[g].dev = hub[h].dev /\ g \in Hubs /\ h \in Hubs
      BY <1>1, <1>3 DEF TreeInv, TreeLinked
    <2> QED BY <1>3, <2>1 DEF TreeInv, TreeLinked
  <1> QED BY <1>2, <1>3

\* alloc_device enters a device at a port without one.
LEMMA TreeAlloc ==
    ASSUME Types, TreeInv, ListInv, NEW u \in FreeUdevs, NEW h \in 0..NHubs, NEW p \in Ports,
           AllocDevice(u, h, p), hub' = hub, h = 0 => p = Last(Root),
           h # 0 => InUse(h) /\ p \in hub[h].ports, Append(Pos(h), p) \in Locs,
           \A v \in Listed : ~ (udev[v].hub = h /\ udev[v].port = p)
    PROVE  /\ TreeInv' /\ Listed' = Listed \cup {u} /\ u \notin Listed /\ u \in Udevs
           /\ Loc(u)' = Append(Pos(h), p) /\ udev'[u].kind = "none"
           /\ udev'[u].hub = h /\ udev'[u].port = p
           /\ \A v \in Listed : Loc(v)' = Loc(v) /\ udev'[v] = udev[v]
  <1>0. /\ 0..NHubs = {0} \cup Hubs /\ 0 \notin Hubs /\ Listed \subseteq Udevs
        /\ \A v \in Udevs : udev[v].hub \in 0..NHubs /\ udev[v].port \in {0} \cup Ports
        /\ Ports \subseteq Nat /\ 0 \in Nat
    BY FoundTypes, Numbers DEF Hubs, Types, TableTypes, UdevType
  <1>1. u \notin Listed /\ u \in Udevs
    BY DEF FreeUdevs
  <1>2. /\ Listed' = Listed \cup {u}
        /\ udev'[u] = [hub |-> h, port |-> p, addr |-> 0, kind |-> "none"]
        /\ \A v \in Udevs : v # u => udev'[v] = udev[v]
    BY AllocList DEF Types
  <1>3. udev'[u].hub = h /\ udev'[u].port = p /\ udev'[u].kind = "none"
    BY <1>2
  <1>4. \A v \in Listed : udev'[v] = udev[v]
    BY <1>0, <1>1, <1>2
  <1>5. \A g : Pos(g)' = Pos(g)
    BY DEF Pos
  <1>6. Loc(u)' = Append(Pos(h), p) /\ \A v \in Listed : Loc(v)' = Loc(v)
    BY <1>3, <1>4, <1>5 DEF Loc
  <1>7. ASSUME NEW v \in Listed PROVE Loc(v) # Append(Pos(h), p)
    <2>1. /\ udev[v].hub \in 0..NHubs /\ udev[v].port \in Nat /\ p \in Nat
          /\ udev[v].hub # 0 => InUse(udev[v].hub)
      BY <1>0 DEF TreeInv, TreeLinked
    <2>2. Pos(udev[v].hub) \in Seq(Nat) /\ Pos(h) \in Seq(Nat)
      BY <2>1, PosSeq DEF Types
    <2>3. Loc(v) = Append(Pos(h), p) => Pos(udev[v].hub) = Pos(h) /\ udev[v].port = p
      BY <2>1, <2>2, AppendInjective DEF Loc
    <2> QED BY <2>1, <2>3, PosInjective
  <1>8. TreeLinked'
    <2>1. ASSUME NEW g \in Hubs, InUse(g)'
          PROVE  /\ hub'[g].dev \in Listed' /\ udev'[hub'[g].dev].kind = "hub"
                 /\ hub'[g].pos = Loc(hub[g].dev)'
      <3>1. hub[g].dev \in Listed /\ udev[hub[g].dev].kind = "hub" /\ hub[g].pos = Loc(hub[g].dev)
        BY <2>1 DEF TreeInv, TreeLinked, InUse
      <3>2. PICK v : v = hub[g].dev
        OBVIOUS
      <3>3. Loc(hub[g].dev)' = Loc(v)'
        BY <3>2 DEF Loc, Pos
      <3> QED BY <1>2, <1>4, <1>6, <3>1, <3>2, <3>3
    <2>2. \A v \in Listed' : udev'[v].hub # 0 => InUse(udev[v].hub)'
      BY <1>2, <1>3, <1>4 DEF TreeInv, TreeLinked, InUse
    <2>3. \A v, w \in Listed' : v # w => Loc(v)' # Loc(w)'
      BY <1>2, <1>6, <1>7 DEF TreeInv, TreeLinked
    <2>4. \A f, g \in Hubs : InUse(f)' /\ InUse(g)' /\ f # g => hub'[f].dev # hub'[g].dev
      BY DEF TreeInv, TreeLinked, InUse
    <2> QED BY <2>1, <2>2, <2>3, <2>4 DEF TreeLinked
  <1>9. RootPort' /\ HangInv'
    <2>1. RootPort'
      BY <1>2, <1>3, <1>4 DEF TreeInv, RootPort
    <2>2. HangInv'
      BY <1>2, <1>3, <1>4 DEF TreeInv, HangInv
    <2> QED BY <2>1, <2>2
  <1>10. LocsInv' /\ SlotInv'
    BY <1>2, <1>6 DEF TreeInv, LocsInv, SlotInv, InUse
  <1> QED BY <1>1, <1>2, <1>3, <1>4, <1>6, <1>8, <1>9, <1>10 DEF TreeInv

\* free_device takes away a device on which none hangs, and its slot with it.
LEMMA TreeFree ==
    ASSUME Types, TreeInv, ListInv, NEW u \in Udevs, FreeDevice(u),
           \A h \in Hubs : hub'[h] = IF hub[h].dev = u THEN FreeHub ELSE hub[h],
           \A v \in Listed : udev[v].hub # 0 => hub[udev[v].hub].dev # u
    PROVE  /\ TreeInv' /\ Listed' = Listed \ {u}
           /\ \A v \in Listed \ {u} : Loc(v)' = Loc(v) /\ udev'[v] = udev[v]
           /\ \A h \in Hubs : InUse(h) /\ hub[h].dev # u => SameSlot(h)
  <1>0. /\ 0..NHubs = {0} \cup Hubs /\ 0 \notin Hubs /\ Listed \subseteq Udevs /\ u # 0
        /\ \A v \in Udevs : udev[v].hub \in 0..NHubs
    <2>1. 0..NHubs = {0} \cup Hubs /\ 0 \notin Hubs /\ u # 0
      BY Numbers DEF Hubs
    <2>2. Listed \subseteq Udevs
      BY FoundTypes DEF Types
    <2>3. \A v \in Udevs : udev[v].hub \in 0..NHubs
      BY DEF Types, TableTypes, UdevType
    <2> QED BY <2>1, <2>2, <2>3
  <1>1. Listed' = Listed \ {u} /\ \A v \in Listed \ {u} : udev'[v] = udev[v]
    BY <1>0, FreeList DEF Types
  <1>2. \A h \in Hubs : /\ hub[h].dev = u => hub'[h].dev = 0 /\ hub'[h].pos = <<>>
                        /\ hub[h].dev # u => hub'[h] = hub[h]
    BY DEF FreeHub
  <1>3. \A h \in Hubs : InUse(h)' <=> InUse(h) /\ hub[h].dev # u
    BY <1>0, <1>2 DEF InUse
  <1>4. \A v \in Listed : udev[v].hub # 0 =>
            udev[v].hub \in Hubs /\ InUse(udev[v].hub) /\ hub'[udev[v].hub] = hub[udev[v].hub]
    BY <1>0, <1>2 DEF TreeInv, TreeLinked
  <1>5. \A v \in Listed \ {u} : Loc(v)' = Loc(v)
    BY <1>1, <1>4 DEF Loc, Pos
  <1>6. TreeLinked'
    <2>1. ASSUME NEW g \in Hubs, InUse(g)'
          PROVE  /\ hub'[g].dev \in Listed' /\ udev'[hub'[g].dev].kind = "hub"
                 /\ hub'[g].pos = Loc(hub[g].dev)'
      <3>1. InUse(g) /\ hub[g].dev # u /\ hub'[g] = hub[g]
        BY <1>2, <1>3, <2>1
      <3>2. hub[g].dev \in Listed /\ udev[hub[g].dev].kind = "hub" /\ hub[g].pos = Loc(hub[g].dev)
        BY <3>1 DEF TreeInv, TreeLinked
      <3>3. PICK v : v = hub[g].dev
        OBVIOUS
      <3>4. Loc(hub[g].dev)' = Loc(v)'
        BY <3>1, <3>3 DEF Loc, Pos
      <3>5. v \in Listed \ {u} /\ Loc(v)' = Loc(v) /\ udev'[v] = udev[v]
        BY <1>1, <1>5, <3>1, <3>2, <3>3
      <3> QED BY <1>1, <3>1, <3>2, <3>3, <3>4, <3>5
    <2>2. \A v \in Listed' : udev'[v].hub # 0 => InUse(udev[v].hub)'
      <3>1. ASSUME NEW v \in Listed', udev'[v].hub # 0 PROVE hub'[udev'[v].hub].dev # 0
        BY <1>1, <1>4, <3>1 DEF InUse
      <3> QED BY <3>1 DEF InUse
    <2>3. \A v, w \in Listed' : v # w => Loc(v)' # Loc(w)'
      BY <1>1, <1>5 DEF TreeInv, TreeLinked
    <2>4. \A f, g \in Hubs : InUse(f)' /\ InUse(g)' /\ f # g => hub'[f].dev # hub'[g].dev
      BY <1>2, <1>3 DEF TreeInv, TreeLinked
    <2> QED BY <2>1, <2>2, <2>3, <2>4 DEF TreeLinked
  <1>7. RootPort' /\ HangInv'
    <2>1. RootPort'
      BY <1>1 DEF TreeInv, RootPort
    <2>2. HangInv'
      BY <1>1, <1>4 DEF TreeInv, HangInv
    <2> QED BY <2>1, <2>2
  <1>8. LocsInv' /\ SlotInv'
    BY <1>1, <1>2, <1>3, <1>5 DEF TreeInv, LocsInv, SlotInv
  <1> QED BY <1>1, <1>2, <1>5, <1>6, <1>7, <1>8 DEF TreeInv, SameSlot

-----------------------------------------------------------------------------
(* Steps that leave the devices, the slots and the drives as they are.     *)

\* The innermost call, unless it is stale, is as it should be.
LEMMA TopOK ==
    ASSUME Types, StackInv, stk # <<>>
    PROVE  /\ TopType /\ Top \in Calls /\ Top \in GoodFrames /\ FrameOK(Top)
           /\ Live(Top) => LiveOK(Top) /\ PlaceOK(Top) /\ DiskOK(Top)
           /\ \A b \in Waits : PairOK(Top, b)
           /\ \A f \in Waits : f \in GoodFrames /\ FrameOK(f) /\ f.at \in Pausing
           /\ \A v \in Udevs : ~Cleared(Top, v)
  <1>1. TopType
    BY TopTypes DEF Types
  <1>2. /\ Calls \subseteq GoodFrames /\ Calls = {Top} \cup Waits /\ \A b \in Waits : Under(Top, b)
    BY CallsAre DEF Types
  <1>3. Top \in Calls /\ Top \in GoodFrames /\ FrameOK(Top)
    BY <1>2 DEF StackInv, FramesInv
  <1>4. \A f \in Waits : f \in GoodFrames /\ FrameOK(f) /\ f.at \in Pausing
    BY <1>2 DEF StackInv, FramesInv, PauseInv
  <1>5. \A b \in Waits : PairOK(Top, b)
    BY <1>2 DEF StackInv, PairsInv
  <1>6. \A v \in Udevs : ~Cleared(Top, v)
    BY DEF StackInv, ClearInv
  <1> QED BY <1>1, <1>3, <1>4, <1>5, <1>6 DEF FrameOK

LEMMA AtTop == \A place : At(place) => stk # <<>> /\ Top.at = place /\ Live(Top)
  BY DEF At, Live

\* No call that waits has searched its ports while nothing is being disconnected.
LEMMA WaitPlaces ==
    ASSUME Types, ShapeInv, PauseInv, stk # <<>>, ~Takes(Top)
    PROVE  \A f \in Waits : f.at \in {"rootdone", "portdone", "mount", "mounted", "rfind", "rgo"}
  <1>1. ASSUME NEW f \in Waits PROVE f.at \in {"rootdone", "portdone", "mount", "mounted", "rfind", "rgo"}
    <2>1. PICK i \in DOMAIN stk \ {1} : stk[i] = f
      BY DEF Waits
    <2>2. 1 \in DOMAIN stk /\ 1 < i /\ Top = stk[1]
      BY <2>1, TopIs DEF Types, ThreadTypes
    <2>3. Within(Top, f)
      BY <2>1, <2>2 DEF ShapeInv
    <2> QED BY <2>3 DEF Within, Waiting, PauseInv, Pausing, Takes
  <1> QED BY <1>1

\* What is innermost after a step is nothing that TopInv speaks of.
LEMMA TopPlain ==
    ASSUME Types, ShapeInv, PauseInv, stk # <<>>,
           \/ \E fr : /\ Goto(fr) \/ \E next : Call(fr, next)
                      /\ fr.at \notin {"probe", "rootdone", "portdone"}
           \/ Return("ok") \/ \E u : ReturnFreed(u)
           \/ Return("error") /\ Top.at \in Resetting
    PROVE  TopInv'
  <1>1. ASSUME NEW fr, stk' # <<>> => Head(stk') = fr, fr.at \notin {"probe", "rootdone", "portdone"}
        PROVE  TopInv'
    BY <1>1 DEF TopInv, At, Top, Failing
  <1>2. CASE \E fr : /\ Goto(fr) \/ \E next : Call(fr, next)
                     /\ fr.at \notin {"probe", "rootdone", "portdone"}
    BY <1>1, <1>2, TopAfter
  <1>3. ASSUME ret' = "ok", stk' # <<>> => Head(stk').at # "probe" PROVE TopInv'
    BY <1>3 DEF TopInv, At, Top, Failing
  <1>4. ASSUME NEW r, Return(r), r = "ok" \/ Top.at \in Resetting PROVE TopInv'
    <2>1. ret' = r
      BY <1>4 DEF Return
    <2>2. stk' # <<>> => Head(stk') \in Waits /\ Inside(Top, Head(stk'))
      BY <1>4, CallsReturn, TopAfter DEF Types
    <2>3. stk' # <<>> => Head(stk').at # "probe"
      BY <2>2 DEF PauseInv, Pausing
    <2>4. stk' # <<>> /\ r # "ok" => Head(stk').at \notin {"rootdone", "portdone"}
      BY <1>4, <2>2 DEF Inside, Resetting, Answering
    <2> QED BY <2>1, <2>3, <2>4 DEF TopInv, At, Top, Failing
  <1>5. ASSUME NEW u, ReturnFreed(u) PROVE TopInv'
    <2>1. /\ Calls \subseteq GoodFrames /\ Calls = {Top} \cup Waits
          /\ stk' # <<>> => \E g \in Waits : Head(stk') = Mark(g, u)
      BY <1>5, CallsFreed, CallsAre DEF Types
    <2>2. \A g \in Waits : Mark(g, u).at = g.at
      BY <2>1, MarkIs DEF SameCall
    <2>3. stk' # <<>> => Head(stk').at # "probe"
      BY <2>1, <2>2 DEF PauseInv, Pausing
    <2> QED BY <1>3, <1>5, <2>3 DEF ReturnFreed
  <1> QED BY <1>2, <1>4, <1>5

SameTables == /\ Listed' = Listed
              /\ \A u \in Udevs : /\ udev'[u].hub = udev[u].hub /\ udev'[u].port = udev[u].port
                                  /\ udev[u].kind # "none" => udev'[u].kind = udev[u].kind
              /\ \A h \in Hubs : SameSlot(h)
              /\ drive' = drive /\ bound' = bound

LEMMA TablesKept ==
    /\ UNCHANGED table => SameTables
    /\ UNCHANGED <<list, udev, hub, drive, bound>> => SameTables
  <1>1. ASSUME UNCHANGED <<list, udev, hub, drive, bound>> PROVE SameTables
    <2>1. Listed' = Listed
      BY <1>1 DEF Listed
    <2> QED BY <1>1, <2>1 DEF SameTables, SameSlot
  <1>2. UNCHANGED table => UNCHANGED <<list, udev, hub, drive, bound>>
    BY DEF table
  <1> QED BY <1>1, <1>2

LEMMA SameKeeps ==
    ASSUME Types, LinkInv, SameTables
    PROVE  /\ TreeInv' /\ BoundInv' /\ Carried
           /\ \A f \in GoodFrames : FrameOK(f) => FrameOK(f)'
           /\ \A f : \A v \in Udevs : Cleared(f, v)' <=> Cleared(f, v)
  <1>1. TreeInv /\ BoundInv /\ Listed \subseteq Udevs
    BY FoundTypes DEF LinkInv, DriveInv, Types
  <1>2. TreeInv'
    BY <1>1, TreeSame DEF SameTables
  <1>3. \A u : IsDisk(u) => IsDisk(u)'
    BY <1>1 DEF IsDisk, SameTables
  <1>4. BoundInv'
    <2>1. ASSUME NEW d \in bound PROVE drive'[d] # 0 /\ drive'[d] \in Listed' /\ udev'[drive'[d]].kind = "disk"
      <3>1. PICK u : u = drive[d]
        OBVIOUS
      <3>2. u # 0 /\ IsDisk(u) /\ drive'[d] = u
        BY <1>1, <3>1 DEF BoundInv, SameTables
      <3>3. IsDisk(u)'
        BY <1>3, <3>2
      <3> QED BY <3>2, <3>3 DEF IsDisk
    <2> QED BY <2>1 DEF BoundInv, SameTables, IsDisk
  <1>5. ASSUME NEW f \in GoodFrames, FrameOK(f) PROVE FrameOK(f)'
    <2>1. Mounts(f) => drive'[f.d] = drive[f.d] /\ f.d \notin bound'
      BY <1>5 DEF FrameOK, MountOK, SameTables
    <2>2. ASSUME Live(f)
          PROVE  /\ f.u # 0 => f.u \in Listed'
                 /\ f.h # 0 /\ f.at # "scan" => SameSlot(f.h)
                 /\ IsDisk(f.u) => IsDisk(f.u)'
                 /\ f.at = "rfind" => \A u \in Udevs : drive'[f.d] = u => IsDisk(u)'
      <3>1. f.h \in {0} \cup Hubs
        BY Numbers DEF GoodFrames, Frames, Hubs
      <3>2. LiveOK(f) /\ DiskOK(f)
        BY <1>5, <2>2 DEF FrameOK
      <3> QED BY <1>3, <3>1, <3>2 DEF LiveOK, DiskOK, SameTables
    <2> QED BY <1>5, <2>1, <2>2, FrameUntouched DEF Untouched
  <1>6. \A f : \A v \in Udevs : Cleared(f, v)' <=> Cleared(f, v)
    BY DEF Cleared, SameTables, Live
  <1>7. Carried
    <2>1. \A f \in Waits : f \in GoodFrames /\ FrameOK(f)
      BY CallsAre DEF Types, LinkInv, StackInv, FramesInv
    <2>2. \A f \in Waits : FrameOK(f)'
      BY <1>5, <2>1
    <2>3. \A f \in Waits : \A v \in Udevs : Cleared(f, v)' => Cleared(f, v)
      BY <1>6
    <2> QED BY <2>2, <2>3 DEF Carried
  <1> QED BY <1>2, <1>4, <1>5, <1>6, <1>7

\* What is left to show of such a step: the calls, and that the drives being
\* mounted still are.
LEMMA SameLink ==
    ASSUME Types, LinkInv, SameTables, StackInv', TopInv',
           \A f \in Calls : Mounts(f) => \E g \in Calls' : Mounts(g) /\ g.d = f.d
    PROVE  LinkInv'
  <1>1. TreeInv' /\ BoundInv' /\ MountInv
    BY SameKeeps DEF LinkInv, DriveInv
  <1>2. ASSUME NEW d \in Drives \ bound', drive'[d] # 0 PROVE \E g \in Calls' : Mounts(g) /\ g.d = d
    <2>1. d \notin bound /\ drive[d] # 0
      BY <1>2 DEF SameTables
    <2>2. PICK f \in Calls : Mounts(f) /\ f.d = d
      BY <1>1, <2>1 DEF MountInv
    <2> QED BY <2>2
  <1>3. MountInv'
    BY <1>2 DEF MountInv, Mounts
  <1> QED BY <1>1, <1>3 DEF LinkInv, DriveInv

LEMMA LinkGoto ==
    ASSUME Types, LinkInv, SameTables, stk # <<>>, NEW fr \in GoodFrames, Goto(fr), FrameOK(fr),
           Mounts(fr) <=> Mounts(Top), Mounts(fr) => fr.d = Top.d, ~Awaits(fr),
           \A v \in Udevs : ~Cleared(fr, v), Takes(Top) => Takes(fr) /\ fr.u = Top.u, TopInv'
    PROVE  LinkInv'
  <1>1. StackInv /\ Carried /\ FrameOK(fr)' /\ \A v \in Udevs : ~Cleared(fr, v)'
    BY SameKeeps DEF LinkInv
  <1>2. StackInv'
    BY <1>1, StackGotoOK
  <1>3. Calls = {Top} \cup Waits /\ Calls' = {fr} \cup Waits
    BY CallsAre, CallsGoto DEF Types
  <1> QED BY <1>2, <1>3, SameLink

LEMMA LinkCall ==
    ASSUME Types, LinkInv, SameTables, stk # <<>>, NEW fr \in GoodFrames, NEW next \in GoodFrames,
           Call(fr, next), FrameOK(fr), FrameOK(next), ~Mounts(fr), ~Awaits(fr),
           Mounts(next) <=> Mounts(Top), Mounts(next) => next.d = Top.d, ~Awaits(next), next.at \in Pausing,
           \A v \in Udevs : ~Cleared(fr, v), Covers(fr, next),
           Takes(Top) => Takes(next) /\ next.u = Top.u, TopInv'
    PROVE  LinkInv'
  <1>1. StackInv /\ Carried /\ FrameOK(fr)' /\ FrameOK(next)'
        /\ \A f : \A v \in Udevs : Cleared(f, v)' <=> Cleared(f, v)
    BY SameKeeps DEF LinkInv
  <1>2. \A b \in Waits : PairOK(next, b)
    <2>1. \A b \in Waits : PairOK(Top, b)
      BY <1>1, TopOK
    <2> QED BY <2>1 DEF PairOK
  <1>3. Covers(fr, next)' /\ \A v \in Udevs : ~Cleared(fr, v)'
    BY <1>1 DEF Covers, Takes
  <1>4. StackInv'
    BY <1>1, <1>2, <1>3, StackCallOK
  <1>5. Calls = {Top} \cup Waits /\ Calls' = {fr, next} \cup Waits
    BY CallsAre, CallsCall DEF Types
  <1> QED BY <1>4, <1>5, SameLink

LEMMA LinkReturn ==
    ASSUME Types, ShapeInv, LinkInv, SameTables, stk # <<>>, NEW r, Return(r), ~Takes(Top), ~Mounts(Top),
           r = "ok" \/ (r = "error" /\ Top.at \in Resetting)
    PROVE  LinkInv'
  <1>1. StackInv /\ Carried /\ PauseInv
    BY SameKeeps DEF LinkInv, StackInv
  <1>2. StackInv'
    BY <1>1, StackReturnOK
  <1>3. Calls = {Top} \cup Waits /\ Calls' = Waits
    BY CallsAre, CallsReturn DEF Types
  <1>4. TopInv'
    BY <1>1, TopPlain
  <1> QED BY <1>2, <1>3, <1>4, SameLink

\* A place that relies on a hub slot at most.
Idle(fr) == fr.at \in {"root", "sense", "new", "gone", "hubs", "scan", "ports", "rest", "resubmit"}

LEMMA IdleOK ==
    ASSUME NEW fr, Idle(fr), Live(fr) => LiveOK(fr)
    PROVE  /\ FrameOK(fr) /\ ~Mounts(fr) /\ ~Awaits(fr) /\ ~Takes(fr)
           /\ \A v \in Udevs : ~Cleared(fr, v)
  BY DEF Idle, FrameOK, MountOK, PlaceOK, DiskOK, Mounts, Awaits, Takes, Cleared

LEMMA LinkIdle ==
    ASSUME Types, ShapeInv, LinkInv, SameTables, stk # <<>>, NEW fr \in GoodFrames, Goto(fr),
           Idle(fr), LiveOK(fr), ~Takes(Top), ~Mounts(Top)
    PROVE  LinkInv'
  <1>1. /\ FrameOK(fr) /\ ~Mounts(fr) /\ ~Awaits(fr) /\ \A v \in Udevs : ~Cleared(fr, v)
    BY IdleOK
  <1>2. TopInv'
    BY TopPlain DEF LinkInv, StackInv, Idle
  <1> QED BY <1>1, <1>2, LinkGoto

LEMMA FreshIdle ==
    ASSUME NEW at \in Places
    PROVE  /\ Fresh(at).at = at /\ LiveOK(Fresh(at)) /\ Fresh(at).u = 0 /\ Fresh(at).h = 0
           /\ Live(Fresh(at)) /\ Fresh(at).f = "none"
  BY DEF Fresh, Frame, LiveOK, Live

-----------------------------------------------------------------------------
(* The polling of the root hub and of the hubs.                            *)

LEMMA LinkRootPoll ==
    ASSUME Types, ShapeInv, LinkInv, RootPoll \/ RootSense
    PROVE  LinkInv'
  <1>1. stk # <<>> /\ Top.at \in {"root", "sense"} /\ SameTables /\ ~Mounts(Top) /\ ~Takes(Top)
    <2>1. stk # <<>> /\ Top.at \in {"root", "sense"} /\ UNCHANGED table
      BY DEF RootPoll, RootSense, At
    <2> QED BY <2>1, TablesKept DEF Mounts, Takes
  <1>2. PICK at \in {"sense", "hubs", "new", "gone"} : Goto(Fresh(at))
    BY DEF RootPoll, RootSense
  <1>3. at \in Places \ (WithDevice \cup WithHub \cup WithPort \cup WithDrive)
    BY DEF Places, WithDevice, WithHub, WithPort, WithDrive
  <1>4. PICK fr : fr = Fresh(at)
    OBVIOUS
  <1>5. fr \in GoodFrames /\ Idle(fr) /\ LiveOK(fr) /\ Goto(fr)
    BY <1>2, <1>3, <1>4, FreshFrame, FreshIdle DEF Idle
  <1> QED BY <1>1, <1>5, LinkIdle

\* A step that calls disconnect_device for a listed device.
LEMMA LinkTake ==
    ASSUME Types, ShapeInv, LinkInv, SameTables, stk # <<>>, NEW u \in Listed, NEW next \in GoodFrames,
           Call(On("disc", u), next), FrameOK(next), ~Mounts(Top), ~Mounts(next), ~Awaits(next),
           next.at \in Pausing, \A v \in Udevs : Cleared(next, v) => v = u,
           Takes(Top) => Takes(next) /\ next.u = Top.u
    PROVE  LinkInv'
  <1>1. u \in Udevs
    BY FoundTypes DEF Types
  <1>2. PICK fr : fr = On("disc", u)
    OBVIOUS
  <1>3. fr \in GoodFrames /\ fr.at = "disc" /\ fr.u = u /\ fr.h = 0 /\ Call(fr, next)
    <2>1. "disc" \in WithDevice \ (WithHub \cup WithPort \cup WithDrive)
      BY DEF WithDevice, WithHub, WithPort, WithDrive
    <2>2. fr \in GoodFrames
      BY <1>1, <1>2, <2>1, OnFrame
    <2>3. fr.at = "disc" /\ fr.u = u /\ fr.h = 0
      BY <1>2 DEF On, Frame
    <2> QED BY <1>2, <2>2, <2>3
  <1>4. FrameOK(fr) /\ ~Mounts(fr) /\ ~Awaits(fr) /\ \A v \in Udevs : ~Cleared(fr, v)
    BY <1>3 DEF FrameOK, MountOK, LiveOK, PlaceOK, DiskOK, Mounts, Awaits, Cleared
  <1>5. Covers(fr, next)
    BY <1>3 DEF Covers, Takes
  <1>6. TopInv'
    BY <1>3, TopPlain DEF LinkInv, StackInv
  <1> QED BY <1>3, <1>4, <1>5, <1>6, LinkCall

LEMMA LinkRootOld ==
    ASSUME Types, ShapeInv, LinkInv, RootOld
    PROVE  LinkInv'
  <1>1. /\ stk # <<>> /\ Top.at \in {"new", "gone"} /\ Live(Top) /\ SameTables
        /\ ~Mounts(Top) /\ ~Takes(Top) /\ ~Awaits(Top) /\ Top.at \in Pausing
    <2>1. stk # <<>> /\ Top.at \in {"new", "gone"} /\ Live(Top) /\ UNCHANGED table
      BY AtTop DEF RootOld
    <2> QED BY <2>1, TablesKept DEF Mounts, Takes, Awaits, Pausing
  <1>2. Top \in GoodFrames /\ FrameOK(Top) /\ TreeInv /\ \A v \in Udevs : ~Cleared(Top, v)
    BY <1>1, TopOK DEF LinkInv
  <1>3. CASE FindRootDevice # 0
    <2>1. PICK u : u = FindRootDevice
      OBVIOUS
    <2>2. u \in Listed
      BY <1>3, <2>1, FindRootIs DEF Types, TableTypes
    <2>3. PICK top : top = Top
      OBVIOUS
    <2>4. Call(On("disc", u), top)
      BY <1>3, <2>1, <2>3 DEF RootOld
    <2>5. top \in GoodFrames /\ FrameOK(top) /\ ~Mounts(top) /\ ~Awaits(top) /\ top.at \in Pausing
          /\ \A v \in Udevs : ~Cleared(top, v)
      BY <1>1, <1>2, <2>3
    <2> QED BY <1>1, <2>2, <2>4, <2>5, LinkTake
  <1>4. CASE FindRootDevice = 0
    <2>1. PICK at \in {"reset", "root"} : Goto(Fresh(at))
      BY <1>4 DEF RootOld
    <2>2. PICK fr : fr = Fresh(at)
      OBVIOUS
    <2>3. at \in Places \ (WithDevice \cup WithHub \cup WithPort \cup WithDrive)
      BY DEF Places, WithDevice, WithHub, WithPort, WithDrive
    <2>4. fr \in GoodFrames /\ fr.at = at /\ LiveOK(fr) /\ Goto(fr)
      BY <2>1, <2>2, <2>3, FreshFrame, FreshIdle
    <2>5. CASE at = "root"
      BY <1>1, <2>4, <2>5, LinkIdle DEF Idle
    <2>6. CASE at = "reset"
      <3>1. \A v \in Listed : udev[v].hub # 0
        BY <1>2, <1>4, FindRootIs DEF Types, TableTypes, TreeInv, RootPort
      <3>2. \A v \in Udevs : ~Cleared(fr, v)
        BY <2>4, <2>6, <3>1 DEF Cleared
      <3>3. FrameOK(fr) /\ ~Mounts(fr) /\ ~Awaits(fr)
        BY <2>4, <2>6 DEF FrameOK, MountOK, PlaceOK, DiskOK, Mounts, Awaits
      <3>4. TopInv'
        BY <1>1, <2>4, <2>6, TopPlain DEF LinkInv, StackInv
      <3> QED BY <1>1, <2>4, <3>2, <3>3, <3>4, LinkGoto
    <2> QED BY <2>5, <2>6
  <1> QED BY <1>3, <1>4

\* Reading and handing over the ports of a hub changes no table but the change
\* bits of the slot.
LEMMA HubsSame ==
    HubsEnter \/ HubsScan \/ HubsPort \/ PortOld \/ PortRest \/ PortClear =>
          stk # <<>> /\ SameTables /\ Live(Top) /\ ~Mounts(Top) /\ ~Takes(Top) /\ ~Awaits(Top)
  <1>1. ASSUME HubsEnter \/ HubsScan PROVE stk # <<>> /\ SameTables
    <2>1. stk # <<>> /\ UNCHANGED <<list, udev, hub, drive, bound>>
      BY <1>1 DEF HubsEnter, HubsScan, At
    <2> QED BY <2>1, TablesKept
  <1>2. ASSUME HubsPort \/ PortOld \/ PortRest \/ PortClear PROVE stk # <<>> /\ SameTables
    <2>1. stk # <<>> /\ UNCHANGED table
      BY <1>2 DEF HubsPort, PortOld, PortRest, PortClear, At
    <2> QED BY <2>1, TablesKept
  <1>3. ASSUME HubsEnter \/ HubsScan \/ HubsPort \/ PortOld \/ PortRest \/ PortClear
        PROVE  Live(Top) /\ Top.at \in {"hubs", "scan", "ports", "old", "rest", "clear"}
    BY <1>3, AtTop DEF HubsEnter, HubsScan, HubsPort, PortOld, PortRest, PortClear
  <1> QED BY <1>1, <1>2, <1>3 DEF Mounts, Takes, Awaits

LEMMA LinkHubsEnter ==
    ASSUME Types, ShapeInv, LinkInv, HubsEnter
    PROVE  LinkInv'
  <1>1. CASE Return("ok")
    BY <1>1, HubsSame, LinkReturn
  <1>2. CASE Goto(Fresh("scan"))
    <2>1. PICK fr : fr = Fresh("scan")
      OBVIOUS
    <2>2. fr \in GoodFrames /\ Idle(fr) /\ LiveOK(fr) /\ Goto(fr)
      BY <1>2, <2>1, FreshFrame, FreshIdle DEF Places, WithDevice, WithHub, WithPort, WithDrive, Idle
    <2> QED BY <2>2, HubsSame, LinkIdle
  <1> QED BY <1>1, <1>2 DEF HubsEnter

LEMMA LinkHubsScan ==
    ASSUME Types, ShapeInv, LinkInv, HubsScan
    PROVE  LinkInv'
  <1> DEFINE ready == {h \in Hubs : h > Top.h /\ InUse(h) /\ hub[h].sc # {}}
             f == IF Top.f = "error" THEN "error" ELSE "none"
  <1>1. CASE ready # {}
    <2>1. Min(ready) \in ready
      <3>1. ready \subseteq Nat
        BY Numbers
      <3> HIDE DEF ready
      <3> QED BY <1>1, <3>1, MinIn
    <2>2. Goto(Frame("ports", 0, Min(ready), 0, 0, f))
      BY <1>1 DEF HubsScan
    <2>3. PICK h : h = Min(ready)
      OBVIOUS
    <2>4. h \in Hubs /\ InUse(h) /\ h \in 0..NHubs
      BY <2>1, <2>3, Numbers
    <2>5. PICK fr : fr = Frame("ports", 0, h, 0, 0, f)
      OBVIOUS
    <2> HIDE DEF ready
    <2>6. fr \in GoodFrames
      BY <2>4, <2>5, Numbers DEF GoodFrames, Frames, Frame, Places, WithDevice, WithPort, WithDrive
    <2>7. fr.at = "ports" /\ fr.u = 0 /\ fr.h = h /\ Goto(fr)
      BY <2>2, <2>3, <2>5 DEF Frame
    <2>8. Idle(fr) /\ LiveOK(fr)
      BY <2>4, <2>7 DEF Idle, LiveOK
    <2> QED BY <2>6, <2>7, <2>8, HubsSame, LinkIdle
  <1>2. CASE ready = {}
    <2>1. CASE Return("ok")
      BY <2>1, HubsSame, LinkReturn
    <2>2. CASE Goto(Fresh("hubs"))
      <3>1. PICK fr : fr = Fresh("hubs")
        OBVIOUS
      <3>2. fr \in GoodFrames /\ Idle(fr) /\ LiveOK(fr) /\ Goto(fr)
        BY <2>2, <3>1, FreshFrame, FreshIdle DEF Places, WithDevice, WithHub, WithPort, WithDrive, Idle
      <3> QED BY <3>2, HubsSame, LinkIdle
    <2> QED BY <1>2, <2>1, <2>2 DEF HubsScan
  <1> QED BY <1>1, <1>2

\* In a hub's turn the slot is in use, by a hub that is listed at its position.
LEMMA TopHub ==
    ASSUME Types, LinkInv, stk # <<>>, Top.at \in WithHub, Live(Top)
    PROVE  /\ Top.h \in Hubs /\ InUse(Top.h) /\ hub[Top.h].dev \in Listed /\ hub[Top.h].dev \in Udevs
           /\ udev[hub[Top.h].dev].kind = "hub"
           /\ Pos(Top.h) = Loc(hub[Top.h].dev) /\ Pos(Top.h) \in Seq(Nat) /\ Len(Pos(Top.h)) > 0
           /\ hub[Top.h].ports \subseteq Ports /\ hub[Top.h].ports \subseteq Nat \ {0}
           /\ Top.h # 0 /\ Top.h \in 0..NHubs
  <1>1. TopType /\ LiveOK(Top)
    BY TopOK DEF LinkInv
  <1>2. Top.h \in Hubs /\ Top.h # 0 /\ InUse(Top.h) /\ Top.h \in 0..NHubs
    <2>1. Top.h \in Hubs /\ Top.at # "scan"
      BY <1>1 DEF TopType, WithHub
    <2>2. Top.h # 0 /\ Top.h \in 0..NHubs
      BY <2>1, Numbers
    <2> QED BY <1>1, <2>1, <2>2 DEF LiveOK
  <1>3. /\ hub[Top.h].dev \in Listed /\ udev[hub[Top.h].dev].kind = "hub"
        /\ hub[Top.h].pos = Loc(hub[Top.h].dev)
    BY <1>2 DEF LinkInv, TreeInv, TreeLinked
  <1>4. hub[Top.h].dev \in Udevs
    BY <1>3, FoundTypes DEF Types
  <1>5. Pos(Top.h) = hub[Top.h].pos
    BY <1>2 DEF Pos
  <1>6. Pos(Top.h) \in Seq(Nat) /\ Len(Pos(Top.h)) > 0
    BY <1>3, <1>4, <1>5, PosSeq DEF Types
  <1>7. hub[Top.h].ports \subseteq Ports
    BY <1>2 DEF Types, TableTypes, HubType
  <1>8. Ports \subseteq Nat \ {0}
    BY Numbers
  <1> QED BY <1>2, <1>3, <1>4, <1>5, <1>6, <1>7, <1>8

LEMMA LinkHubsPort ==
    ASSUME Types, ShapeInv, LinkInv, HubsPort
    PROVE  LinkInv'
  <1>0. stk # <<>> /\ Top.at = "ports" /\ Live(Top) /\ SameTables /\ ~Mounts(Top) /\ ~Takes(Top)
    BY HubsSame, AtTop DEF HubsPort
  <1>1. /\ Top.h \in Hubs /\ InUse(Top.h) /\ Pos(Top.h) \in Seq(Nat) /\ Top.h \in 0..NHubs
        /\ hub[Top.h].ports \subseteq Ports /\ hub[Top.h].ports \subseteq Nat \ {0} /\ Top.h # 0
    BY <1>0, TopHub DEF WithHub
  <1>2. TopType /\ LiveOK(Top) /\ (Top.u # 0 => Top.u \in Listed)
    BY <1>0, TopOK DEF LinkInv, LiveOK
  <1> DEFINE left == {p \in hub[Top.h].sc \cap hub[Top.h].ports : p > Top.p}
             q    == Min(left)
             l    == Append(Pos(Top.h), q)
             f0   == IF Top.f = "error" THEN Top.f ELSE "ok"
             f1   == IF Present(l) THEN "on" ELSE "off"
             a    == [Top EXCEPT !.at = "resubmit", !.f = f0]
             b    == [Top EXCEPT !.at = "resubmit", !.f = "error"]
             c    == [Top EXCEPT !.p = q, !.f = "none"]
             d    == [Top EXCEPT !.at = "clear", !.p = q, !.f = f1]
  <1>3. \/ Goto(a) \/ Goto(b)
        \/ left # {} /\ Goto(c)
        \/ left # {} /\ l \in chg /\ Goto(d)
    BY DEF HubsPort
  <1>4. left # {} => q \in left
    <2>1. left \subseteq Nat
      BY <1>1
    <2> HIDE DEF left
    <2> QED BY <2>1, MinIn
  <1>5. left # {} => q \in hub[Top.h].ports /\ q \in Ports /\ q \in Nat
    BY <1>1, <1>4
  <1>6. /\ f0 \in {"none", "on", "off", "ok", "error", "change"}
        /\ f1 \in {"none", "on", "off", "ok", "error", "change"}
    OBVIOUS
  <1> HIDE DEF left, q, f0, f1
  <1>7. /\ a \in GoodFrames /\ a.at = "resubmit" /\ a.u = Top.u /\ a.h = Top.h
        /\ b \in GoodFrames /\ b.at = "resubmit" /\ b.u = Top.u /\ b.h = Top.h
    <2>1. Top \in GoodFrames /\ Top \in Frames
      BY <1>2 DEF TopType
    <2>2. "resubmit" \in Places \ (WithDevice \cup WithPort \cup WithDrive)
      BY DEF Places, WithDevice, WithPort, WithDrive
    <2>3. \A f \in {"none", "on", "off", "ok", "error", "change"} :
             [Top EXCEPT !.at = "resubmit", !.f = f] \in GoodFrames
      BY <1>1, <2>1, <2>2, MoveFrame
    <2>4. \A f : /\ [Top EXCEPT !.at = "resubmit", !.f = f].at = "resubmit"
                /\ [Top EXCEPT !.at = "resubmit", !.f = f].u = Top.u
                /\ [Top EXCEPT !.at = "resubmit", !.f = f].h = Top.h
      BY <2>1 DEF Frames
    <2> QED BY <1>6, <2>3, <2>4
  <1>8. left # {} => /\ c \in GoodFrames /\ c.at = "ports" /\ c.u = Top.u /\ c.h = Top.h
                     /\ d \in GoodFrames /\ d.at = "clear" /\ d.u = Top.u /\ d.h = Top.h /\ d.p = q
    <2>1. Top \in Frames /\ "clear" \in Places
      BY <1>2 DEF TopType, Places
    <2>2. ASSUME left # {}
          PROVE  /\ c \in Frames /\ c.at = "ports" /\ c.u = Top.u /\ c.h = Top.h /\ c.p = q
                 /\ d \in Frames /\ d.at = "clear" /\ d.u = Top.u /\ d.h = Top.h /\ d.p = q
      <3>1. c \in Frames /\ c.at = "ports" /\ c.u = Top.u /\ c.h = Top.h /\ c.p = q
        BY <1>0, <1>5, <2>1, <2>2 DEF Frames
      <3>2. d \in Frames /\ d.at = "clear" /\ d.u = Top.u /\ d.h = Top.h /\ d.p = q
        BY <1>5, <1>6, <2>1, <2>2 DEF Frames
      <3> QED BY <3>1, <3>2
    <2> HIDE DEF c, d
    <2> QED BY <1>1, <1>5, <2>2 DEF GoodFrames, WithDevice, WithDrive
  <1> HIDE DEF a, b, c
  <1>9. CASE Goto(a) \/ Goto(b) \/ (left # {} /\ Goto(c))
    <2>1. PICK fr : /\ fr \in GoodFrames /\ fr.at \in {"resubmit", "ports"}
                    /\ fr.u = Top.u /\ fr.h = Top.h /\ Goto(fr)
      BY <1>7, <1>8, <1>9
    <2>2. Idle(fr) /\ LiveOK(fr)
      BY <1>1, <1>2, <2>1 DEF Idle, LiveOK
    <2> QED BY <1>0, <2>1, <2>2, LinkIdle
  <1>10. CASE left # {} /\ l \in chg /\ Goto(d)
    <2>1. PICK fr : fr = d
      OBVIOUS
    <2>2. fr \in GoodFrames /\ fr.at = "clear" /\ fr.u = Top.u /\ fr.h = Top.h /\ fr.p = q /\ Goto(fr)
      BY <1>8, <1>10, <2>1
    <2>3. fr.p \in hub[fr.h].ports /\ PortOf(fr) \in Locs
      BY <1>5, <1>10, <2>2 DEF PortOf, Types, BusTypes
    <2>4. FrameOK(fr) /\ ~Mounts(fr) /\ ~Awaits(fr) /\ \A v \in Udevs : ~Cleared(fr, v)
      BY <1>1, <1>2, <2>2, <2>3 DEF FrameOK, MountOK, LiveOK, PlaceOK, DiskOK, Mounts, Awaits, Cleared
    <2>5. TopInv'
      BY <1>0, <2>2, TopPlain DEF LinkInv, StackInv
    <2> QED BY <1>0, <2>2, <2>4, <2>5, LinkGoto
  <1> QED BY <1>3, <1>9, <1>10

\* The fields of a frame that moves on.
LEMMA TopMoves ==
    ASSUME TopType, NEW at \in Places \ WithDrive, NEW f \in {"none", "on", "off", "ok", "error", "change"},
           at \in WithDevice => Top.u \in Udevs, at \in WithHub => Top.h \in Hubs,
           at \in WithPort => Top.p \in Ports
    PROVE  /\ [Top EXCEPT !.at = at] \in GoodFrames
           /\ [Top EXCEPT !.at = at].at = at /\ [Top EXCEPT !.at = at].u = Top.u
           /\ [Top EXCEPT !.at = at].h = Top.h /\ [Top EXCEPT !.at = at].p = Top.p
           /\ [Top EXCEPT !.at = at].d = Top.d /\ [Top EXCEPT !.at = at].f = Top.f
           /\ [Top EXCEPT !.at = at, !.f = f] \in GoodFrames
           /\ [Top EXCEPT !.at = at, !.f = f].at = at /\ [Top EXCEPT !.at = at, !.f = f].u = Top.u
           /\ [Top EXCEPT !.at = at, !.f = f].h = Top.h /\ [Top EXCEPT !.at = at, !.f = f].p = Top.p
  <1>1. Top \in GoodFrames /\ Top \in Frames
    BY DEF TopType
  <1>2. [Top EXCEPT !.at = at] \in GoodFrames /\ [Top EXCEPT !.at = at, !.f = f] \in GoodFrames
    BY <1>1, MoveFrame
  <1> QED BY <1>1, <1>2 DEF Frames

LEMMA LinkPortClear ==
    ASSUME Types, ShapeInv, LinkInv, PortClear
    PROVE  LinkInv'
  <1>0. stk # <<>> /\ Top.at = "clear" /\ Live(Top) /\ SameTables /\ ~Mounts(Top) /\ ~Takes(Top)
    BY HubsSame, AtTop DEF PortClear
  <1>1. Top.h \in Hubs /\ InUse(Top.h) /\ Top.h # 0 /\ Top.h \in 0..NHubs
    BY <1>0, TopHub DEF WithHub
  <1>2. /\ TopType /\ LiveOK(Top) /\ (Top.u # 0 => Top.u \in Listed) /\ Top.p \in Ports
        /\ Top.p \in hub[Top.h].ports /\ PortOf(Top) \in Locs
    <2>1. TopType /\ LiveOK(Top) /\ PlaceOK(Top)
      BY <1>0, TopOK DEF LinkInv
    <2> QED BY <1>0, <2>1 DEF PlaceOK, LiveOK, TopType, WithPort
  <1>3. /\ "old" \in Places \ (WithDrive \cup WithDevice)
        /\ "resubmit" \in Places \ (WithDrive \cup WithDevice \cup WithPort)
    BY DEF Places, WithDrive, WithDevice, WithPort
  <1>4. CASE Goto([Top EXCEPT !.at = "old"])
    <2>1. PICK fr : fr = [Top EXCEPT !.at = "old"]
      OBVIOUS
    <2>2. /\ fr \in GoodFrames /\ fr.at = "old" /\ fr.u = Top.u /\ fr.h = Top.h /\ fr.p = Top.p
          /\ Goto(fr)
      BY <1>1, <1>2, <1>3, <1>4, <2>1, TopMoves
    <2>3. fr.p \in hub[fr.h].ports /\ PortOf(fr) \in Locs
      BY <1>2, <2>2 DEF PortOf
    <2>4. FrameOK(fr) /\ ~Mounts(fr) /\ ~Awaits(fr) /\ \A v \in Udevs : ~Cleared(fr, v)
      BY <1>1, <1>2, <2>2, <2>3 DEF FrameOK, MountOK, LiveOK, PlaceOK, DiskOK, Mounts, Awaits, Cleared
    <2>5. TopInv'
      BY <1>0, <2>2, TopPlain DEF LinkInv, StackInv
    <2> QED BY <1>0, <2>2, <2>4, <2>5, LinkGoto
  <1>5. CASE Goto([Top EXCEPT !.at = "resubmit", !.f = "error"])
    <2>1. PICK fr : fr = [Top EXCEPT !.at = "resubmit", !.f = "error"]
      OBVIOUS
    <2>2. fr \in GoodFrames /\ fr.at = "resubmit" /\ fr.u = Top.u /\ fr.h = Top.h /\ Goto(fr)
      BY <1>1, <1>2, <1>3, <1>5, <2>1, TopMoves
    <2>3. Idle(fr) /\ LiveOK(fr)
      BY <1>1, <1>2, <2>2 DEF Idle, LiveOK
    <2> QED BY <1>0, <2>2, <2>3, LinkIdle
  <1> QED BY <1>4, <1>5 DEF PortClear

LEMMA LinkPortRest ==
    ASSUME Types, ShapeInv, LinkInv, PortRest
    PROVE  LinkInv'
  <1>0. stk # <<>> /\ Top.at = "rest" /\ Live(Top) /\ SameTables /\ ~Mounts(Top) /\ ~Takes(Top)
    BY HubsSame, AtTop DEF PortRest
  <1>1. Top.h \in Hubs /\ InUse(Top.h) /\ Top.h # 0
    BY <1>0, TopHub DEF WithHub
  <1>2. TopType /\ (Top.u # 0 => Top.u \in Listed)
    BY <1>0, TopOK DEF LinkInv, LiveOK
  <1>3. {"ports", "resubmit"} \subseteq Places \ (WithDrive \cup WithDevice \cup WithPort)
    BY DEF Places, WithDrive, WithDevice, WithPort
  <1>4. PICK at \in {"ports", "resubmit"}, f \in {"none", "error"} : Goto([Top EXCEPT !.at = at, !.f = f])
    BY DEF PortRest
  <1>5. PICK fr : fr = [Top EXCEPT !.at = at, !.f = f]
    OBVIOUS
  <1>6. at \in Places \ WithDrive /\ at \notin WithDevice /\ at \notin WithPort
        /\ f \in {"none", "on", "off", "ok", "error", "change"}
    BY <1>3
  <1>7. fr \in GoodFrames /\ fr.at = at /\ fr.u = Top.u /\ fr.h = Top.h /\ Goto(fr)
    <2>1. Top \in GoodFrames /\ Top \in Frames
      BY <1>2 DEF TopType
    <2>2. fr \in GoodFrames
      BY <1>1, <1>5, <1>6, <2>1, MoveFrame
    <2>3. fr.at = at /\ fr.u = Top.u /\ fr.h = Top.h
      BY <1>5, <2>1 DEF Frames
    <2> QED BY <1>4, <1>5, <2>2, <2>3
  <1>8. Idle(fr) /\ LiveOK(fr)
    BY <1>1, <1>2, <1>7 DEF Idle, LiveOK
  <1> QED BY <1>0, <1>7, <1>8, LinkIdle

LEMMA LinkHubResubmit ==
    ASSUME Types, ShapeInv, LinkInv, HubResubmit
    PROVE  LinkInv'
  <1>0. stk # <<>> /\ Top.at = "resubmit" /\ Live(Top) /\ ~Mounts(Top) /\ ~Takes(Top)
    BY AtTop DEF HubResubmit, Mounts, Takes
  <1>1. Top.h \in Hubs /\ InUse(Top.h) /\ Top.h \in 0..NHubs
    BY <1>0, TopHub DEF WithHub
  <1>2. SameTables
    <2>1. \A h \in Hubs : SameSlot(h)
      BY DEF HubResubmit, SameSlot, Types, TableTypes, HubType
    <2>2. Listed' = Listed /\ UNCHANGED <<udev, drive, bound>>
      BY DEF HubResubmit, Listed
    <2> QED BY <2>1, <2>2 DEF SameTables
  <1> DEFINE f == IF AskedAgain THEN "change" ELSE "error"
  <1>3. PICK fr : fr = Frame("scan", 0, Top.h, 0, 0, f)
    OBVIOUS
  <1>4. Goto(fr)
    BY <1>3 DEF HubResubmit
  <1>5. fr \in GoodFrames /\ fr.at = "scan" /\ fr.u = 0
    BY <1>1, <1>3, Numbers DEF Frame, GoodFrames, Frames, Places, WithDevice, WithHub, WithPort, WithDrive
  <1>6. Idle(fr) /\ LiveOK(fr)
    BY <1>5 DEF Idle, LiveOK
  <1> QED BY <1>0, <1>2, <1>4, <1>5, <1>6, LinkIdle

LEMMA LinkPortOld ==
    ASSUME Types, ShapeInv, LinkInv, PortOld
    PROVE  LinkInv'
  <1>0. stk # <<>> /\ Top.at = "old" /\ Live(Top) /\ SameTables /\ ~Mounts(Top) /\ ~Takes(Top)
    BY HubsSame, AtTop DEF PortOld
  <1>1. Top.h \in Hubs /\ InUse(Top.h) /\ Top.h # 0 /\ TreeInv
    BY <1>0, TopHub DEF WithHub, LinkInv
  <1>2. /\ TopType /\ (Top.u # 0 => Top.u \in Listed) /\ Top.p \in Ports
        /\ Top.p \in hub[Top.h].ports /\ PortOf(Top) \in Locs
    <2>1. TopType /\ LiveOK(Top) /\ PlaceOK(Top)
      BY <1>0, TopOK DEF LinkInv
    <2> QED BY <1>0, <2>1 DEF PlaceOK, LiveOK, TopType, WithPort
  <1>3. PICK old : old = FindDevice(Pos(Top.h), Top.p)
    OBVIOUS
  <1>4. /\ old # 0 => old \in Listed /\ udev[old].hub = Top.h /\ udev[old].port = Top.p
        /\ old = 0 => \A v \in Listed : ~ (udev[v].hub = Top.h /\ udev[v].port = Top.p)
    BY <1>1, <1>3, FindAtHub
  <1>5. PICK at \in {"portreset", "rest"} : at = IF Top.f = "on" THEN "portreset" ELSE "rest"
    OBVIOUS
  <1>6. PICK next : next = [Top EXCEPT !.at = at]
    OBVIOUS
  <1>7. IF old # 0 THEN Call(On("disc", old), next) ELSE Goto(next)
    BY <1>3, <1>5, <1>6 DEF PortOld
  <1>8. next \in GoodFrames /\ next.at = at /\ next.u = Top.u /\ next.h = Top.h /\ next.p = Top.p
    <2>1. at \in Places \ (WithDrive \cup WithDevice)
      BY DEF Places, WithDrive, WithDevice
    <2> QED BY <1>1, <1>2, <1>6, <2>1, TopMoves
  <1>9. FrameOK(next) /\ ~Mounts(next) /\ ~Awaits(next) /\ next.at \in Pausing
    <2>1. next.p \in hub[next.h].ports /\ PortOf(next) \in Locs
      BY <1>2, <1>8 DEF PortOf
    <2> QED BY <1>1, <1>2, <1>8, <2>1 DEF FrameOK, MountOK, LiveOK, PlaceOK, DiskOK, Mounts, Awaits, Pausing
  <1>10. \A v \in Udevs : Cleared(next, v) => udev[v].hub = Top.h /\ udev[v].port = Top.p /\ v \in Listed
    BY <1>8 DEF Cleared
  <1>11. CASE old # 0
    <2>1. \A v \in Listed : udev[v].hub = Top.h /\ udev[v].port = Top.p => v = old
      BY <1>1, <1>4, <1>11 DEF TreeInv, TreeLinked, Loc
    <2>2. Call(On("disc", old), next) /\ old \in Listed
      BY <1>4, <1>7, <1>11
    <2>3. \A v \in Udevs : Cleared(next, v) => v = old
      BY <1>10, <2>1
    <2> QED BY <1>0, <1>8, <1>9, <2>2, <2>3, LinkTake
  <1>12. CASE old = 0
    <2>1. Goto(next)
      BY <1>7, <1>12
    <2>2. TopInv'
      BY <1>0, <1>8, <2>1, TopPlain DEF LinkInv, StackInv
    <2>3. \A v \in Udevs : ~Cleared(next, v)
      BY <1>4, <1>10, <1>12
    <2> QED BY <1>0, <1>8, <1>9, <2>1, <2>2, <2>3, LinkGoto
  <1> QED BY <1>11, <1>12

-----------------------------------------------------------------------------
(* Connecting a device, and resetting a disk.                              *)

\* A step of connect_device to its next place.
LEMMA LinkAnswer ==
    ASSUME Types, ShapeInv, LinkInv, SameTables, stk # <<>>, Live(Top), ~Takes(Top), ~Mounts(Top),
           Top.u \in Listed, NEW at \in {"address", "describe", "readdress", "probe"}, Goto(On(at, Top.u)),
           at = "readdress" => IsDisk(Top.u),
           at = "probe" /\ udev'[Top.u].kind = "hub" => \A h \in Hubs : hub'[h].dev # Top.u
    PROVE  LinkInv'
  <1>1. PICK u : u = Top.u
    OBVIOUS
  <1>2. u \in Listed /\ u \in Udevs
    BY <1>1, FoundTypes DEF Types
  <1>3. PICK fr : fr = On(at, u)
    OBVIOUS
  <1>4. fr \in GoodFrames /\ fr.at = at /\ fr.u = u /\ fr.h = 0 /\ Goto(fr)
    <2>1. at \in WithDevice \ (WithHub \cup WithPort \cup WithDrive)
      BY DEF WithDevice, WithHub, WithPort, WithDrive
    <2>2. fr \in GoodFrames /\ fr.at = at /\ fr.u = u /\ fr.h = 0
      BY <1>2, <1>3, <2>1, OnFrame
    <2> QED BY <1>1, <1>3, <2>2
  <1>5. FrameOK(fr) /\ ~Mounts(fr) /\ ~Awaits(fr) /\ \A v \in Udevs : ~Cleared(fr, v)
    BY <1>1, <1>2, <1>4 DEF FrameOK, MountOK, LiveOK, PlaceOK, DiskOK, Mounts, Awaits, Cleared
  <1>6. TopInv'
    <2>1. stk' # <<>> /\ Head(stk') = fr
      BY <1>4, TopAfter
    <2>2. ASSUME At("probe")', udev'[Head(stk').u].kind = "hub"
          PROVE  \A h \in Hubs : hub'[h].dev # Head(stk').u
      <3>1. at = "probe" /\ Head(stk').u = u
        BY <1>4, <2>1, <2>2 DEF At, Top
      <3> QED BY <1>1, <2>2, <3>1
    <2>3. \A v \in Udevs : ~Failing(v)'
      BY <1>4, <2>1 DEF Failing, Top
    <2> QED BY <2>2, <2>3 DEF TopInv, Top
  <1> QED BY <1>4, <1>5, <1>6, LinkGoto

LEMMA TopFailed ==
    ASSUME Types, ShapeInv, PauseInv, stk # <<>>, Top.at \in Answering, Return("error"),
           udev'[Top.u].kind = "none"
    PROVE  TopInv'
  <1>1. stk' # <<>> => Head(stk') \in Waits /\ Inside(Top, Head(stk'))
    BY CallsReturn, TopAfter DEF Types
  <1>2. stk' # <<>> => Head(stk').at # "probe" /\ Head(stk').u = Top.u
    BY <1>1 DEF PauseInv, Pausing, Inside
  <1> QED BY <1>2 DEF TopInv, At, Top, Failing

\* A request of connect_device fails: the device stays as it is.
LEMMA LinkFailed ==
    ASSUME Types, ShapeInv, ConnectInv, LinkInv, SameTables, stk # <<>>, Top.at \in Answering,
           Return("error"), udev' = udev
    PROVE  LinkInv'
  <1>1. udev'[Top.u].kind = "none"
    BY DEF ConnectInv
  <1>2. TopInv' /\ ~Takes(Top) /\ ~Mounts(Top)
    BY <1>1, TopFailed DEF LinkInv, StackInv, Answering, Takes, Mounts
  <1>3. StackInv'
    BY <1>2, SameKeeps, StackReturnOK DEF LinkInv
  <1>4. Calls = {Top} \cup Waits /\ Calls' = Waits
    BY CallsAre, CallsReturn DEF Types
  <1> QED BY <1>2, <1>3, <1>4, SameLink

LEMMA LinkConnect ==
    ASSUME Types, ShapeInv, ConnectInv, LinkInv, Connect
    PROVE  LinkInv'
  <1>1. stk # <<>> /\ Top.at = "connect" /\ Live(Top) /\ Goto(On("address", Top.u)) /\ SameTables
    BY AtTop, TablesKept DEF Connect
  <1>2. Top.u \in Listed /\ ~Takes(Top) /\ ~Mounts(Top)
    BY <1>1 DEF ConnectInv, Answering, Takes, Mounts
  <1> QED BY <1>1, <1>2, LinkAnswer

LEMMA LinkSetAddress ==
    ASSUME Types, ShapeInv, ConnectInv, LinkInv, SetAddress
    PROVE  LinkInv'
  <1>1. stk # <<>> /\ Top.at = "address" /\ Live(Top) /\ UNCHANGED <<list, hub, drive, bound>>
    BY AtTop DEF SetAddress
  <1>2. Top.u \in Listed /\ ~Takes(Top) /\ ~Mounts(Top) /\ Top.at \in Answering
    BY <1>1 DEF ConnectInv, Answering, Takes, Mounts
  <1>3. CASE Return("error") /\ udev' = udev
    <2>1. SameTables
      BY <1>1, <1>3, TablesKept
    <2> QED BY <1>1, <1>2, <1>3, <2>1, LinkFailed
  <1>4. CASE Goto(On("describe", Top.u)) /\ udev' = [udev EXCEPT ![Top.u].addr = NextAddress]
    <2>1. SameTables
      <3>1. Listed' = Listed /\ \A h \in Hubs : SameSlot(h)
        BY <1>1 DEF Listed, SameSlot
      <3>2. \A u \in Udevs : /\ udev'[u].hub = udev[u].hub /\ udev'[u].port = udev[u].port
                            /\ udev'[u].kind = udev[u].kind
        BY <1>4 DEF Types, TableTypes, UdevType
      <3> QED BY <1>1, <3>1, <3>2 DEF SameTables
    <2> QED BY <1>1, <1>2, <1>4, <2>1, LinkAnswer
  <1> QED BY <1>3, <1>4 DEF SetAddress

\* The device gets its driver: it had none, so it has no slot and no drive.
LEMMA LinkDescribe ==
    ASSUME Types, ShapeInv, ConnectInv, LinkInv, Describe
    PROVE  LinkInv'
  <1>1. stk # <<>> /\ Top.at = "describe" /\ Live(Top) /\ UNCHANGED <<list, hub, drive, bound>>
    BY AtTop DEF Describe
  <1>2. /\ Top.u \in Listed /\ ~Takes(Top) /\ ~Mounts(Top) /\ Top.at \in Answering
        /\ udev[Top.u].kind = "none"
    BY <1>1 DEF ConnectInv, Answering, Takes, Mounts
  <1>3. CASE Return("error") /\ udev' = udev
    <2>1. SameTables
      BY <1>1, <1>3, TablesKept
    <2> QED BY <1>1, <1>2, <1>3, <2>1, LinkFailed
  <1>4. CASE Goto(On("probe", Top.u)) /\ udev' = [udev EXCEPT ![Top.u].kind = kind[Loc(Top.u)]]
    <2>1. SameTables
      <3>1. Listed' = Listed /\ \A h \in Hubs : SameSlot(h)
        BY <1>1 DEF Listed, SameSlot
      <3>2. \A u \in Udevs : udev'[u].hub = udev[u].hub /\ udev'[u].port = udev[u].port
        BY <1>4 DEF Types, TableTypes, UdevType
      <3>3. \A u \in Udevs : udev[u].kind # "none" => udev'[u].kind = udev[u].kind
        BY <1>2, <1>4 DEF Types, TableTypes, UdevType
      <3> QED BY <1>1, <3>1, <3>2, <3>3 DEF SameTables
    <2>2. \A h \in Hubs : hub'[h].dev # Top.u
      <3>1. ASSUME NEW h \in Hubs, hub[h].dev = Top.u PROVE FALSE
        <4>1. InUse(h)
          BY <1>2, <3>1, FoundTypes, Numbers DEF InUse, Types
        <4> QED BY <1>2, <3>1, <4>1 DEF LinkInv, TreeInv, TreeLinked
      <3> QED BY <1>1, <3>1
    <2> QED BY <1>1, <1>2, <1>4, <2>1, <2>2, LinkAnswer
  <1> QED BY <1>3, <1>4 DEF Describe

LEMMA LinkResetAddress ==
    ASSUME Types, ShapeInv, LinkInv, ResetAddress
    PROVE  LinkInv'
  <1>1. stk # <<>> /\ Top.at = "readdress" /\ Live(Top) /\ SameTables /\ UNCHANGED <<udev, hub>>
    BY AtTop, TablesKept DEF ResetAddress, table
  <1>2. IsDisk(Top.u) /\ ~Takes(Top) /\ ~Mounts(Top)
    BY <1>1, TopOK DEF LinkInv, DiskOK, Takes, Mounts
  <1>3. CASE Return("error")
    BY <1>1, <1>2, <1>3, LinkReturn DEF Resetting
  <1>4. CASE Goto(On("probe", Top.u))
    BY <1>1, <1>2, <1>4, LinkAnswer DEF IsDisk
  <1> QED BY <1>3, <1>4 DEF ResetAddress

LEMMA LinkProbePlain ==
    ASSUME Types, ShapeInv, LinkInv, ProbePlain
    PROVE  LinkInv'
  <1>1. stk # <<>> /\ Top.at = "probe" /\ Return("ok") /\ SameTables
    BY AtTop, TablesKept DEF ProbePlain
  <1> QED BY <1>1, LinkReturn DEF Mounts, Takes

LEMMA RfindFrame ==
    ASSUME Types, NEW d \in Drives, \A u \in Udevs : drive[d] = u => IsDisk(u)
    PROVE  /\ Frame("rfind", 0, 0, 0, d, "none") \in GoodFrames
           /\ FrameOK(Frame("rfind", 0, 0, 0, d, "none"))
           /\ Frame("rfind", 0, 0, 0, d, "none").at = "rfind"
  <1>1. PICK y : y = Frame("rfind", 0, 0, 0, d, "none")
    OBVIOUS
  <1>2. y.at = "rfind" /\ y.u = 0 /\ y.h = 0 /\ y.p = 0 /\ y.d = d /\ y.f = "none"
    BY <1>1 DEF Frame
  <1>3. y \in GoodFrames
    <2>1. d \in 0..NDrives
      BY Numbers DEF Drives
    <2> QED BY <1>1, <1>2, <2>1, Numbers
        DEF Frame, GoodFrames, Frames, Places, WithDevice, WithHub, WithPort
  <1>4. FrameOK(y)
    BY <1>2 DEF FrameOK, MountOK, LiveOK, PlaceOK, DiskOK, Mounts
  <1> QED BY <1>1, <1>2, <1>3, <1>4

\* A mount goes on, or lets a reset of its disk go first.
LEMMA LinkMountRead ==
    ASSUME Types, ShapeInv, LinkInv, MountRead
    PROVE  LinkInv'
  <1>1. stk # <<>> /\ Top.at = "mount" /\ Live(Top) /\ SameTables /\ Mounts(Top) /\ ~Takes(Top)
    BY AtTop, TablesKept DEF MountRead, Mounts, Takes
  <1>2. TopType /\ FrameOK(Top) /\ MountOK(Top) /\ LiveOK(Top) /\ DiskOK(Top) /\ StackInv
    BY <1>1, TopOK DEF LinkInv, FrameOK
  <1>3. PICK z : z = [Top EXCEPT !.at = "mounted"]
    OBVIOUS
  <1>4. /\ z \in GoodFrames /\ z.at = "mounted" /\ z.u = Top.u /\ z.h = Top.h /\ z.d = Top.d /\ z.f = Top.f
        /\ Mounts(z)
    <2>1. Top \in Frames /\ "mounted" \in Places /\ Top.u \in Udevs /\ Top.d \in Drives
      BY <1>1, <1>2 DEF TopType, Places, WithDevice, WithDrive
    <2>2. z \in Frames /\ z.at = "mounted" /\ z.u = Top.u /\ z.h = Top.h /\ z.d = Top.d /\ z.f = Top.f
      BY <1>3, <2>1 DEF Frames
    <2> QED BY <2>1, <2>2 DEF GoodFrames, WithHub, WithPort, Mounts
  <1>5. FrameOK(z) /\ ~Awaits(z) /\ \A v \in Udevs : ~Cleared(z, v)
    BY <1>1, <1>2, <1>4 DEF FrameOK, MountOK, LiveOK, PlaceOK, DiskOK, Mounts, Awaits, Cleared
  <1>6. CASE Goto(z)
    <2>1. TopInv'
      BY <1>1, <1>4, <1>6, TopPlain DEF LinkInv, StackInv
    <2> QED BY <1>1, <1>4, <1>5, <1>6, <2>1, LinkGoto
  <1>7. CASE stk' = <<Fresh("root"), Frame("rfind", 0, 0, 0, Top.d, "none"), z>> \o Tail(stk)
    <2>1. PICK x : x = Fresh("root")
      OBVIOUS
    <2>2. PICK y : y = Frame("rfind", 0, 0, 0, Top.d, "none")
      OBVIOUS
    <2>3. x \in GoodFrames /\ x.at = "root" /\ FrameOK(x)
      <3>1. "root" \in Places \ (WithDevice \cup WithHub \cup WithPort \cup WithDrive)
        BY DEF Places, WithDevice, WithHub, WithPort, WithDrive
      <3>2. x \in GoodFrames /\ x.at = "root" /\ LiveOK(x)
        BY <2>1, <3>1, FreshFrame, FreshIdle
      <3> QED BY <3>2, IdleOK DEF Idle
    <2>4. y \in GoodFrames /\ y.at = "rfind" /\ FrameOK(y)
      <3>1. Top.d \in Drives /\ \A u \in Udevs : drive[Top.d] = u => IsDisk(u)
        BY <1>1, <1>2 DEF TopType, WithDrive, DiskOK
      <3> QED BY <2>2, <3>1, RfindFrame
    <2>5. stk' = <<x, y, z>> \o Tail(stk)
      BY <1>7, <2>1, <2>2
    <2>6. Carried /\ FrameOK(x)' /\ FrameOK(y)' /\ FrameOK(z)'
      BY <1>1, <1>4, <1>5, <2>3, <2>4, SameKeeps
    <2>7. StackInv'
      BY <1>1, <1>2, <1>4, <2>3, <2>4, <2>5, <2>6, StackMountOK
    <2>8. Calls = {Top} \cup Waits /\ Calls' = {x, y, z} \cup Waits /\ stk' # <<>> /\ Head(stk') = x
      BY <1>1, <1>4, <2>3, <2>4, <2>5, CallsMount, CallsAre DEF Types
    <2>9. TopInv'
      BY <2>3, <2>8 DEF TopInv, At, Top, Failing
    <2>10. \A f \in Calls : Mounts(f) => \E g \in Calls' : Mounts(g) /\ g.d = f.d
      BY <1>4, <2>8
    <2> QED BY <1>1, <2>7, <2>9, <2>10, SameLink
  <1> QED BY <1>3, <1>6, <1>7 DEF MountRead

LEMMA LinkResetFind ==
    ASSUME Types, ShapeInv, LinkInv, ResetFind
    PROVE  LinkInv'
  <1>1. stk # <<>> /\ Top.at = "rfind" /\ Live(Top) /\ SameTables /\ ~Mounts(Top) /\ ~Takes(Top)
    BY AtTop, TablesKept DEF ResetFind, Mounts, Takes
  <1>2. TopType /\ DiskOK(Top)
    BY <1>1, TopOK DEF LinkInv
  <1>3. CASE drive[Top.d] = 0
    <2>1. Return("error")
      BY <1>3 DEF ResetFind
    <2> QED BY <1>1, <2>1, LinkReturn DEF Resetting
  <1>4. CASE drive[Top.d] # 0
    <2>1. PICK u : u = drive[Top.d]
      OBVIOUS
    <2>2. u \in Udevs /\ IsDisk(u)
      <3>1. Top.d \in Drives
        BY <1>1, <1>2 DEF TopType, WithDrive
      <3>2. u \in 0..NUdevs /\ u # 0
        BY <1>4, <2>1, <3>1 DEF Types, TableTypes
      <3>3. u \in Udevs
        BY <3>2, Numbers DEF Udevs
      <3> QED BY <1>1, <1>2, <2>1, <3>3 DEF DiskOK
    <2>3. PICK x, next : x = Fresh("root") /\ next = On("rgo", u)
      OBVIOUS
    <2>4. Call(x, next)
      BY <1>4, <2>1, <2>3 DEF ResetFind
    <2>5. x \in GoodFrames /\ x.at = "root" /\ LiveOK(x) /\ Idle(x)
      <3>1. "root" \in Places \ (WithDevice \cup WithHub \cup WithPort \cup WithDrive)
        BY DEF Places, WithDevice, WithHub, WithPort, WithDrive
      <3> QED BY <2>3, <3>1, FreshFrame, FreshIdle DEF Idle
    <2>6. FrameOK(x) /\ ~Mounts(x) /\ ~Awaits(x) /\ \A v \in Udevs : ~Cleared(x, v)
      BY <2>5, IdleOK
    <2>7. next \in GoodFrames /\ next.at = "rgo" /\ next.u = u /\ next.h = 0
      <3>1. "rgo" \in WithDevice \ (WithHub \cup WithPort \cup WithDrive)
        BY DEF WithDevice, WithHub, WithPort, WithDrive
      <3> QED BY <2>2, <2>3, <3>1, OnFrame
    <2>8. FrameOK(next) /\ ~Mounts(next) /\ ~Awaits(next) /\ next.at \in Pausing /\ Covers(x, next)
      BY <2>2, <2>7 DEF FrameOK, MountOK, LiveOK, PlaceOK, DiskOK, IsDisk, Mounts, Awaits, Pausing,
                        Covers, Cleared
    <2>9. TopInv'
      BY <1>1, <2>4, <2>5, TopPlain DEF LinkInv, StackInv
    <2> QED BY <1>1, <2>4, <2>5, <2>6, <2>7, <2>8, <2>9, LinkCall
  <1> QED BY <1>3, <1>4

-----------------------------------------------------------------------------
(* The application, the person at the ports and the interrupt handler.     *)

LEMMA LinkFirst ==
    ASSUME Types, LinkInv, SameTables, stk = <<>>, FramesInv', PairsInv', PauseInv',
           \A f \in Calls' : f.at \in {"root", "rfind"}, stk' # <<>>, Head(stk').at = "root"
    PROVE  LinkInv'
  <1>1. ClearInv'
    BY DEF ClearInv, Covers, Cleared, Top, Calls
  <1>2. TopInv'
    BY DEF TopInv, At, Top, Failing
  <1>3. Calls = {}
    BY CallsAre DEF Types
  <1> QED BY <1>1, <1>2, <1>3, SameLink DEF StackInv

LEMMA LinkAppPoll ==
    ASSUME Types, LinkInv, AppPoll
    PROVE  LinkInv'
  <1>1. PICK a : a = Fresh("root")
    OBVIOUS
  <1>2. stk = <<>> /\ stk' = <<a>> /\ SameTables
    BY <1>1, TablesKept DEF AppPoll
  <1>3. a.at = "root" /\ FrameOK(a)
    BY <1>1, FreshIdle, IdleOK DEF Places, Idle
  <1>4. a \in GoodFrames
    BY <1>1, FreshFrame DEF Places, WithDevice, WithHub, WithPort, WithDrive
  <1>5. Calls' = {a} /\ Waits' = {} /\ \A x, y : ~Under(x, y)'
    BY <1>2, CallsFirst
  <1>6. FrameOK(a)'
    BY <1>2, <1>3, <1>4, SameKeeps
  <1>7. FramesInv' /\ PairsInv' /\ PauseInv'
    BY <1>5, <1>6 DEF FramesInv, PairsInv, PauseInv
  <1>8. stk' # <<>> /\ Head(stk') = a
    BY <1>2
  <1> QED BY <1>2, <1>3, <1>5, <1>7, <1>8, LinkFirst

\* While nothing is in progress every drive in use is bound to a disk.
LEMMA LinkAppRead ==
    ASSUME Types, LinkInv, NEW d \in Drives, AppRead(d)
    PROVE  LinkInv'
  <1>1. PICK a : a = Fresh("root")
    OBVIOUS
  <1>2. PICK b : b = Frame("rfind", 0, 0, 0, d, "none")
    OBVIOUS
  <1>3. stk = <<>> /\ stk' = <<a, b>> /\ SameTables /\ drive[d] # 0
    BY <1>1, <1>2, TablesKept DEF AppRead
  <1>4. a.at = "root" /\ FrameOK(a) /\ a \in GoodFrames
    BY <1>1, FreshIdle, IdleOK, FreshFrame DEF Places, WithDevice, WithHub, WithPort, WithDrive, Idle
  <1>5. \A u \in Udevs : drive[d] = u => IsDisk(u)
    <2>1. Calls = {} /\ BoundInv /\ MountInv
      BY <1>3, CallsAre DEF Types, LinkInv, DriveInv
    <2>2. d \in bound
      BY <1>3, <2>1 DEF MountInv
    <2> QED BY <2>1, <2>2 DEF BoundInv
  <1>6. b.at = "rfind" /\ FrameOK(b) /\ b \in GoodFrames
    BY <1>2, <1>5, RfindFrame
  <1>7. Calls' = {a, b} /\ Waits' = {b} /\ \A x, y : Under(x, y)' => x = a /\ y = b
    BY <1>3, CallsFirst
  <1>8. FrameOK(a)' /\ FrameOK(b)'
    BY <1>3, <1>4, <1>6, SameKeeps
  <1>9. \A y : PairOK(a, y)
    BY <1>4, PairIdle DEF Mounts, Awaits
  <1>10. FramesInv' /\ PairsInv' /\ PauseInv'
    <2>1. FramesInv' /\ PauseInv'
      BY <1>6, <1>7, <1>8 DEF FramesInv, PauseInv, Pausing
    <2>2. \A x, y : Under(x, y)' => PairOK(x, y)
      BY <1>7, <1>9
    <2> QED BY <2>1, <2>2 DEF PairsInv, PairOK, Live, Mounts, Awaits
  <1>11. stk' # <<>> /\ Head(stk') = a
    BY <1>3
  <1> QED BY <1>3, <1>4, <1>6, <1>7, <1>10, <1>11, LinkFirst

\* A step that is none of the thread's.
LEMMA LinkStill ==
    ASSUME Types, LinkInv, SameTables, stk' = stk, ret' = ret, udev' = udev
    PROVE  LinkInv'
  <1>1. Calls' = Calls /\ Waits' = Waits
    BY DEF Calls, Waits
  <1>2. \A a, b : (Under(a, b)' <=> Under(a, b)) /\ (Directly(a, b)' <=> Directly(a, b))
    BY DEF Under, Directly
  <1>3. /\ FramesInv /\ PairsInv /\ PauseInv /\ ClearInv /\ Calls \subseteq GoodFrames
        /\ \A f \in GoodFrames : FrameOK(f) => FrameOK(f)'
        /\ \A f : \A v \in Udevs : Cleared(f, v)' <=> Cleared(f, v)
    BY CallsAre, SameKeeps DEF LinkInv, StackInv, Types
  <1>4. FramesInv'
    <2>1. \A f \in Calls' : FrameOK(f)'
      BY <1>1, <1>3 DEF FramesInv
    <2> QED BY <2>1 DEF FramesInv
  <1>5. PairsInv' /\ PauseInv'
    BY <1>1, <1>2, <1>3 DEF PairsInv, PauseInv, PairOK, Live, Mounts, Awaits
  <1>6. ClearInv'
    <2>1. ASSUME stk' # <<>> PROVE \A v \in Udevs : ~Cleared(Top, v)'
      <3>1. PICK top : top = Top
        OBVIOUS
      <3>2. \A v \in Udevs : ~Cleared(top, v)'
        BY <1>3, <2>1, <3>1 DEF ClearInv
      <3>3. Top' = top
        BY <3>1 DEF Top
      <3> QED BY <3>2, <3>3 DEF Cleared, Live, PortOf, Pos
    <2>2. ASSUME NEW a \in Calls', NEW b \in Calls', Directly(a, b)' PROVE Covers(a, b)'
      <3>1. Covers(a, b)
        BY <1>1, <1>2, <1>3, <2>2 DEF ClearInv
      <3> QED BY <1>3, <3>1 DEF Covers, Takes
    <2> QED BY <2>1, <2>2 DEF ClearInv
  <1>7. TopInv'
    <2>1. TopInv /\ At("probe")' = At("probe")
      BY DEF LinkInv, At, Top
    <2>2. \A u \in Udevs : Failing(u)' = Failing(u)
      BY DEF Failing, Top
    <2>3. \A h \in Hubs : hub'[h].dev = hub[h].dev
      BY DEF SameTables, SameSlot
    <2>4. ASSUME At("probe")', udev'[Top'.u].kind = "hub" PROVE \A h \in Hubs : hub'[h].dev # Top'.u
      <3>1. Top' = Top
        BY DEF Top
      <3> QED BY <2>1, <2>3, <2>4, <3>1 DEF TopInv
    <2> QED BY <2>1, <2>2, <2>4 DEF TopInv
  <1> QED BY <1>1, <1>4, <1>5, <1>6, <1>7, SameLink DEF StackInv

LEMMA LinkPerson ==
    ASSUME Types, LinkInv, Person \/ Isr
    PROVE  LinkInv'
  <1>1. CASE Person
    <2>1. UNCHANGED <<table, thread>>
      BY <1>1 DEF Person, Plug, Unplug
    <2> QED BY <2>1, TablesKept, LinkStill DEF table, thread
  <1>2. CASE Isr
    <2>1. PICK h \in Hubs : HubStatus(h) \/ HubStatusError(h)
      BY <1>2 DEF Isr
    <2>2. UNCHANGED <<list, udev, drive, bound, thread>>
      BY <2>1 DEF HubStatus, HubStatusError
    <2>3. \A g \in Hubs : SameSlot(g)
      <3>1. hub \in [Hubs -> HubType]
        BY DEF Types, TableTypes
      <3>2. CASE HubStatus(h)
        BY <3>1, <3>2 DEF HubStatus, SameSlot, HubType
      <3>3. CASE HubStatusError(h)
        BY <3>1, <3>3 DEF HubStatusError, SameSlot, HubType
      <3> QED BY <2>1, <3>2, <3>3
    <2>4. SameTables
      BY <2>2, <2>3 DEF SameTables, Listed
    <2> QED BY <2>2, <2>4, LinkStill DEF thread
  <1> QED BY <1>1, <1>2

-----------------------------------------------------------------------------
(* Steps that change the list, the slots or the drives.                    *)

LEMMA DrivesKept ==
    ASSUME DriveInv, drive' = drive, bound' = bound, \A v : IsDisk(v) => IsDisk(v)',
           \A f \in Calls : Mounts(f) => \E g \in Calls' : Mounts(g) /\ g.d = f.d
    PROVE  DriveInv'
  <1>1. ASSUME NEW d \in bound' PROVE drive'[d] # 0 /\ drive'[d] \in Listed' /\ udev'[drive'[d]].kind = "disk"
    <2>1. PICK u : u = drive[d]
      OBVIOUS
    <2>2. u # 0 /\ IsDisk(u)
      BY <1>1, <2>1 DEF DriveInv, BoundInv
    <2>3. IsDisk(u)'
      BY <2>2
    <2> QED BY <2>1, <2>2, <2>3 DEF IsDisk
  <1>2. BoundInv'
    BY <1>1 DEF BoundInv, IsDisk
  <1>3. ASSUME NEW d \in Drives \ bound', drive'[d] # 0 PROVE \E g \in Calls' : Mounts(g) /\ g.d = d
    <2>1. PICK f \in Calls : Mounts(f) /\ f.d = d
      BY <1>3 DEF DriveInv, MountInv
    <2> QED BY <2>1
  <1>4. MountInv'
    BY <1>3 DEF MountInv, Mounts
  <1> QED BY <1>2, <1>4 DEF DriveInv

\* No call that waits has searched its ports, so none has anything cleared.
LEMMA WaitUncleared ==
    ASSUME Types, ShapeInv, LinkInv, stk # <<>>, ~Takes(Top)
    PROVE  /\ \A f \in Waits : f.at \in {"rootdone", "portdone", "mount", "mounted", "rfind", "rgo"}
           /\ \A f \in Waits : \A v \in Udevs : ~Cleared(f, v)'
  <1>1. \A f \in Waits : f.at \in {"rootdone", "portdone", "mount", "mounted", "rfind", "rgo"}
    BY WaitPlaces DEF LinkInv, StackInv
  <1> QED BY <1>1 DEF Cleared

\* A device is listed and its connect_device is called.
LEMMA LinkAlloc ==
    ASSUME Types, ShapeInv, ListInv, LinkInv, stk # <<>>, ~Takes(Top), ~Mounts(Top),
           NEW u \in FreeUdevs, NEW h \in 0..NHubs, NEW p \in Ports, AllocDevice(u, h, p),
           hub' = hub, drive' = drive, bound' = bound,
           h = 0 => p = Last(Root), h # 0 => InUse(h) /\ p \in hub[h].ports, Append(Pos(h), p) \in Locs,
           \A v \in Listed : ~ (udev[v].hub = h /\ udev[v].port = p),
           NEW next \in GoodFrames, Call(On("connect", u), next), Awaits(next), next.u = u,
           next.h # 0 => InUse(next.h)
    PROVE  LinkInv'
  <1>1. TreeInv /\ StackInv /\ DriveInv
    BY DEF LinkInv
  <1>2. /\ TreeInv' /\ Listed' = Listed \cup {u} /\ u \notin Listed /\ u \in Udevs
        /\ \A v \in Listed : udev'[v] = udev[v]
    BY <1>1, TreeAlloc
  <1>3. PICK fr : fr = On("connect", u)
    OBVIOUS
  <1>4. fr \in GoodFrames /\ fr.at = "connect" /\ fr.u = u /\ fr.h = 0 /\ Call(fr, next)
    <2>1. "connect" \in WithDevice \ (WithHub \cup WithPort \cup WithDrive)
      BY DEF WithDevice, WithHub, WithPort, WithDrive
    <2>2. fr \in GoodFrames /\ fr.at = "connect" /\ fr.u = u /\ fr.h = 0
      BY <1>2, <1>3, <2>1, OnFrame
    <2> QED BY <1>3, <2>2
  <1>5. \A v : IsDisk(v) => IsDisk(v)'
    BY <1>2 DEF IsDisk
  <1>6. /\ \A f \in Waits : f.at \in {"rootdone", "portdone", "mount", "mounted", "rfind", "rgo"}
        /\ \A f \in Waits : \A v \in Udevs : ~Cleared(f, v)'
        /\ \A f \in Waits : f \in GoodFrames /\ FrameOK(f)
    BY <1>1, WaitUncleared, TopOK
  <1>7. ASSUME NEW f \in Waits PROVE FrameOK(f)'
    <2>1. Mounts(f) => drive'[f.d] = drive[f.d] /\ f.d \notin bound'
      BY <1>6 DEF FrameOK, MountOK
    <2>2. ASSUME Live(f)
          PROVE  /\ f.u # 0 => f.u \in Listed'
                 /\ f.h # 0 /\ f.at # "scan" => SameSlot(f.h)
                 /\ IsDisk(f.u) => IsDisk(f.u)'
                 /\ f.at = "rfind" => \A v \in Udevs : drive'[f.d] = v => IsDisk(v)'
      <3>1. LiveOK(f) /\ DiskOK(f)
        BY <1>6, <2>2 DEF FrameOK
      <3> QED BY <1>2, <1>5, <3>1 DEF LiveOK, DiskOK, SameSlot
    <2> QED BY <1>6, <2>1, <2>2, FrameUntouched DEF Untouched
  <1>8. Carried
    BY <1>6, <1>7 DEF Carried
  <1>9. FrameOK(fr)' /\ FrameOK(next)' /\ ~Mounts(fr) /\ ~Awaits(fr) /\ ~Mounts(next)
        /\ next.at \in Pausing /\ Covers(fr, next)' /\ \A v \in Udevs : ~Cleared(fr, v)'
    BY <1>2, <1>4 DEF FrameOK, MountOK, LiveOK, PlaceOK, DiskOK, Mounts, Awaits, Pausing, Covers, Cleared,
                      InUse
  <1>10. ASSUME NEW b \in Waits PROVE PairOK(next, b)
    <2>1. Awaits(b) /\ Live(b) => b.u # u
      <3>1. b.at \in WithDevice => b.u \in Udevs
        BY <1>6 DEF GoodFrames
      <3> QED BY <1>2, <1>6, <3>1, Numbers DEF FrameOK, LiveOK, Awaits, WithDevice
    <2> QED BY <1>9, <2>1 DEF PairOK
  <1>11. StackInv'
    BY <1>1, <1>4, <1>8, <1>9, <1>10, StackCallOK
  <1>12. TopInv'
    BY <1>1, <1>4, TopPlain DEF StackInv
  <1>13. DriveInv'
    <2>1. Calls = {Top} \cup Waits /\ Calls' = {fr, next} \cup Waits
      BY <1>4, CallsAre, CallsCall DEF Types
    <2> QED BY <1>1, <1>5, <2>1, DrivesKept
  <1> QED BY <1>2, <1>11, <1>12, <1>13 DEF LinkInv

LEMMA LinkRootReset ==
    ASSUME Types, ShapeInv, ListInv, LinkInv, RootReset
    PROVE  LinkInv'
  <1>1. stk # <<>> /\ Top.at = "reset" /\ Live(Top) /\ ~Mounts(Top) /\ ~Takes(Top)
    BY AtTop DEF RootReset, Mounts, Takes
  <1>2. UNCHANGED <<hub, drive, bound>>
    BY DEF RootReset
  <1>3. CASE Goto(Fresh("hubs")) /\ UNCHANGED <<list, udev>>
    <2>1. PICK fr : fr = Fresh("hubs")
      OBVIOUS
    <2>2. fr \in GoodFrames /\ Idle(fr) /\ LiveOK(fr) /\ Goto(fr)
      BY <1>3, <2>1, FreshFrame, FreshIdle DEF Places, WithDevice, WithHub, WithPort, WithDrive, Idle
    <2>3. SameTables
      BY <1>2, <1>3, TablesKept
    <2> QED BY <1>1, <2>2, <2>3, LinkIdle
  <1>4. CASE /\ Present(Root) /\ FreeUdevs # {} /\ AllocDevice(Min(FreeUdevs), 0, Last(Root))
             /\ Call(On("connect", Min(FreeUdevs)), On("rootdone", Min(FreeUdevs)))
    <2>1. PICK u : u = Min(FreeUdevs)
      OBVIOUS
    <2>2. u \in FreeUdevs /\ u \in Udevs
      BY <1>4, <2>1, FoundTypes DEF Types
    <2>3. PICK next : next = On("rootdone", u)
      OBVIOUS
    <2>4. next \in GoodFrames /\ next.at = "rootdone" /\ next.u = u /\ next.h = 0
      <3>1. "rootdone" \in WithDevice \ (WithHub \cup WithPort \cup WithDrive)
        BY DEF WithDevice, WithHub, WithPort, WithDrive
      <3> QED BY <2>2, <2>3, <3>1, OnFrame
    <2>5. AllocDevice(u, 0, Last(Root)) /\ Call(On("connect", u), next)
      BY <1>4, <2>1, <2>3
    <2>6. Root \in Locs /\ Last(Root) \in Ports /\ Append(Pos(0), Last(Root)) = Root /\ 0 \in 0..NHubs
      BY <1>4, LocsAre, Numbers DEF Present, Ports, Pos
    <2>7. \A v \in Listed : ~ (udev[v].hub = 0 /\ udev[v].port = Last(Root))
      <3>1. \A v \in Udevs : ~Cleared(Top, v)
        BY <1>1, TopOK DEF LinkInv
      <3> QED BY <1>1, <3>1, FoundTypes DEF Cleared, Types
    <2>8. Awaits(next)
      BY <2>4 DEF Awaits
    <2>9. PICK h, p : h = 0 /\ p = Last(Root)
      OBVIOUS
    <2>10. /\ h \in 0..NHubs /\ p \in Ports /\ AllocDevice(u, h, p) /\ Append(Pos(h), p) \in Locs
           /\ h = 0 => p = Last(Root)
           /\ h # 0 => InUse(h) /\ p \in hub[h].ports
           /\ \A v \in Listed : ~ (udev[v].hub = h /\ udev[v].port = p)
           /\ next.h # 0 => InUse(next.h)
      BY <2>4, <2>5, <2>6, <2>7, <2>9
    <2> QED BY <1>1, <1>2, <2>2, <2>4, <2>5, <2>8, <2>10, LinkAlloc
  <1> QED BY <1>3, <1>4 DEF RootReset

LEMMA LinkPortReset ==
    ASSUME Types, ShapeInv, ListInv, LinkInv, PortReset
    PROVE  LinkInv'
  <1>1. stk # <<>> /\ Top.at = "portreset" /\ Live(Top) /\ ~Mounts(Top) /\ ~Takes(Top)
    BY AtTop DEF PortReset, Mounts, Takes
  <1>2. UNCHANGED <<hub, drive, bound>>
    BY DEF PortReset
  <1>3. Top.h \in Hubs /\ InUse(Top.h) /\ Top.h # 0 /\ Top.h \in 0..NHubs
    BY <1>1, TopHub DEF WithHub
  <1>4. /\ TopType /\ (Top.u # 0 => Top.u \in Listed) /\ Top.p \in Ports
        /\ Top.p \in hub[Top.h].ports /\ PortOf(Top) \in Locs
    <2>1. TopType /\ LiveOK(Top) /\ PlaceOK(Top)
      BY <1>1, TopOK DEF LinkInv
    <2> QED BY <1>1, <2>1 DEF PlaceOK, LiveOK, TopType, WithPort
  <1>5. CASE Goto([Top EXCEPT !.at = "rest"]) /\ UNCHANGED <<list, udev>>
    <2>1. PICK fr : fr = [Top EXCEPT !.at = "rest"]
      OBVIOUS
    <2>2. fr \in GoodFrames /\ fr.at = "rest" /\ fr.u = Top.u /\ fr.h = Top.h /\ Goto(fr)
      <3>1. "rest" \in Places \ (WithDrive \cup WithDevice)
        BY DEF Places, WithDrive, WithDevice
      <3> QED BY <1>3, <1>4, <1>5, <2>1, <3>1, TopMoves
    <2>3. SameTables
      BY <1>2, <1>5, TablesKept
    <2>4. Idle(fr) /\ LiveOK(fr)
      BY <1>3, <1>4, <2>2 DEF Idle, LiveOK
    <2> QED BY <1>1, <2>2, <2>3, <2>4, LinkIdle
  <1>6. CASE /\ FreeUdevs # {} /\ AllocDevice(Min(FreeUdevs), Top.h, Top.p)
             /\ Call(On("connect", Min(FreeUdevs)), [Top EXCEPT !.at = "portdone", !.u = Min(FreeUdevs)])
    <2>1. PICK u : u = Min(FreeUdevs)
      OBVIOUS
    <2>2. u \in FreeUdevs /\ u \in Udevs
      BY <1>6, <2>1, FoundTypes DEF Types
    <2>3. PICK next : next = [Top EXCEPT !.at = "portdone", !.u = u]
      OBVIOUS
    <2>4. next \in GoodFrames /\ next.at = "portdone" /\ next.u = u /\ next.h = Top.h
      <3>1. Top \in Frames /\ u \in 0..NUdevs /\ "portdone" \in Places
        BY <1>4, <2>2, Numbers DEF TopType, Udevs, Places
      <3>2. next \in Frames /\ next.at = "portdone" /\ next.u = u /\ next.h = Top.h /\ next.p = Top.p
        BY <2>3, <3>1 DEF Frames
      <3> QED BY <1>3, <1>4, <2>2, <3>2 DEF GoodFrames, WithDrive
    <2>5. AllocDevice(u, Top.h, Top.p) /\ Call(On("connect", u), next)
      BY <1>6, <2>1, <2>3
    <2>6. \A v \in Listed : ~ (udev[v].hub = Top.h /\ udev[v].port = Top.p)
      <3>1. \A v \in Udevs : ~Cleared(Top, v)
        BY <1>1, TopOK DEF LinkInv
      <3> QED BY <1>1, <3>1, FoundTypes DEF Cleared, Types
    <2>7. Awaits(next) /\ Append(Pos(Top.h), Top.p) \in Locs
      BY <1>4, <2>4 DEF Awaits, PortOf
    <2> QED BY <1>1, <1>2, <1>3, <1>4, <2>2, <2>4, <2>5, <2>6, <2>7, LinkAlloc
  <1> QED BY <1>5, <1>6 DEF PortReset

\* connect_device has failed, and its device is freed.
LEMMA LinkFreed ==
    ASSUME Types, ShapeInv, ListInv, LinkInv, stk # <<>>, Awaits(Top), Live(Top), ret = "error",
           FreeDevice(Top.u), UNCHANGED <<hub, drive, bound>>,
           NEW fr \in GoodFrames, Goto(fr), Idle(fr), fr.u = 0, fr.h # 0 => InUse(fr.h)
    PROVE  LinkInv'
  <1>1. TreeInv /\ StackInv /\ DriveInv /\ TopInv
    BY DEF LinkInv
  <1>2. PICK u : u = Top.u
    OBVIOUS
  <1>3. u \in Udevs /\ FreeDevice(u) /\ u # 0
    BY <1>1, <1>2, TopOK, Numbers DEF TopType, Awaits, WithDevice
  <1>4. udev[u].kind = "none"
    BY <1>1, <1>2, <1>3 DEF TopInv, Failing, Awaits
  <1>5. \A h \in Hubs : hub[h].dev # u
    BY <1>1, <1>3, <1>4 DEF TreeInv, TreeLinked, InUse
  <1>6. /\ TreeInv' /\ Listed' = Listed \ {u} /\ \A v \in Listed \ {u} : udev'[v] = udev[v]
    <2>1. \A h \in Hubs : hub'[h] = IF hub[h].dev = u THEN FreeHub ELSE hub[h]
      BY <1>5
    <2>2. \A v \in Listed : udev[v].hub # 0 => hub[udev[v].hub].dev # u
      <3>1. ASSUME NEW v \in Listed, udev[v].hub # 0 PROVE udev[v].hub \in Hubs
        BY <3>1, FoundTypes, Numbers DEF Hubs, Types, TableTypes, UdevType
      <3> QED BY <1>5, <3>1
    <2> QED BY <1>1, <1>3, <2>1, <2>2, TreeFree
  <1>7. \A v : IsDisk(v) => v # u /\ IsDisk(v)'
    BY <1>4, <1>6 DEF IsDisk
  <1>8. ~Takes(Top) /\ ~Mounts(Top)
    BY DEF Awaits, Takes, Mounts
  <1>9. /\ \A f \in Waits : f.at \in {"rootdone", "portdone", "mount", "mounted", "rfind", "rgo"}
        /\ \A f \in Waits : \A v \in Udevs : ~Cleared(f, v)'
        /\ \A f \in Waits : f \in GoodFrames /\ FrameOK(f) /\ PairOK(Top, f)
    BY <1>1, <1>8, WaitUncleared, TopOK
  <1>10. ASSUME NEW f \in Waits PROVE FrameOK(f)'
    <2>1. Mounts(f) => drive'[f.d] = drive[f.d] /\ f.d \notin bound'
      BY <1>9 DEF FrameOK, MountOK
    <2>2. ASSUME Live(f)
          PROVE  /\ f.u # 0 => f.u \in Listed'
                 /\ f.h # 0 /\ f.at # "scan" => SameSlot(f.h)
                 /\ IsDisk(f.u) => IsDisk(f.u)'
                 /\ f.at = "rfind" => \A v \in Udevs : drive'[f.d] = v => IsDisk(v)'
      <3>1. LiveOK(f) /\ DiskOK(f) /\ PlaceOK(f)
        BY <1>9, <2>2 DEF FrameOK
      <3>2. f.u # u
        <4>1. CASE Awaits(f)
          BY <1>2, <1>9, <2>2, <4>1 DEF PairOK
        <4>2. CASE Mounts(f) \/ f.at = "rgo"
          BY <1>7, <3>1, <4>2 DEF DiskOK
        <4>3. CASE f.at = "rfind"
          BY <1>3, <3>1, <4>3 DEF PlaceOK
        <4> QED BY <1>9, <4>1, <4>2, <4>3 DEF Awaits, Mounts
      <3> QED BY <1>6, <1>7, <3>1, <3>2 DEF LiveOK, DiskOK, SameSlot
    <2> QED BY <1>9, <2>1, <2>2, FrameUntouched DEF Untouched
  <1>11. Carried
    BY <1>9, <1>10 DEF Carried
  <1>12. FrameOK(fr)' /\ ~Mounts(fr) /\ ~Awaits(fr) /\ \A v \in Udevs : ~Cleared(fr, v)'
    BY DEF Idle, FrameOK, MountOK, LiveOK, PlaceOK, DiskOK, Mounts, Awaits, Cleared, InUse
  <1>13. StackInv'
    BY <1>1, <1>8, <1>11, <1>12, StackGotoOK
  <1>14. TopInv'
    BY <1>1, TopPlain DEF StackInv, Idle
  <1>15. DriveInv'
    <2>1. Calls = {Top} \cup Waits /\ Calls' = {fr} \cup Waits
      BY CallsAre, CallsGoto DEF Types
    <2> QED BY <1>1, <1>7, <1>8, <2>1, DrivesKept
  <1> QED BY <1>6, <1>13, <1>14, <1>15 DEF LinkInv

LEMMA LinkRootDone ==
    ASSUME Types, ShapeInv, ListInv, LinkInv, RootDone
    PROVE  LinkInv'
  <1>1. stk # <<>> /\ Top.at = "rootdone" /\ Live(Top) /\ UNCHANGED <<hub, drive, bound>>
    BY AtTop DEF RootDone
  <1>2. PICK fr : fr = Fresh("root")
    OBVIOUS
  <1>3. fr \in GoodFrames /\ Idle(fr) /\ LiveOK(fr) /\ fr.u = 0 /\ fr.h = 0 /\ Goto(fr)
    BY <1>2, FreshFrame, FreshIdle DEF RootDone, Places, WithDevice, WithHub, WithPort, WithDrive, Idle
  <1>4. Awaits(Top) /\ ~Takes(Top) /\ ~Mounts(Top)
    BY <1>1 DEF Awaits, Takes, Mounts
  <1>5. CASE ret = "error"
    <2>1. FreeDevice(Top.u)
      BY <1>5 DEF RootDone
    <2> QED BY <1>1, <1>3, <1>4, <1>5, <2>1, LinkFreed
  <1>6. CASE ret # "error"
    <2>1. SameTables
      BY <1>1, <1>6, TablesKept DEF RootDone
    <2> QED BY <1>1, <1>3, <1>4, <2>1, LinkIdle
  <1> QED BY <1>5, <1>6

LEMMA LinkPortDone ==
    ASSUME Types, ShapeInv, ListInv, LinkInv, PortDone
    PROVE  LinkInv'
  <1>1. stk # <<>> /\ Top.at = "portdone" /\ Live(Top) /\ UNCHANGED <<hub, drive, bound>>
    BY AtTop DEF PortDone
  <1>2. Top.h \in Hubs /\ InUse(Top.h) /\ TopType
    BY <1>1, TopHub, TopOK DEF WithHub, LinkInv
  <1>3. PICK fr : fr = [Top EXCEPT !.at = "rest", !.u = 0]
    OBVIOUS
  <1>4. fr \in GoodFrames /\ fr.at = "rest" /\ fr.u = 0 /\ fr.h = Top.h /\ Goto(fr)
    <2>1. Top \in Frames /\ 0 \in 0..NUdevs /\ "rest" \in Places /\ Top.p \in Ports
      BY <1>1, <1>2, Numbers DEF TopType, Places, WithPort
    <2>2. fr \in Frames /\ fr.at = "rest" /\ fr.u = 0 /\ fr.h = Top.h /\ fr.p = Top.p
      BY <1>3, <2>1 DEF Frames
    <2> QED BY <1>2, <1>3, <2>1, <2>2 DEF PortDone, GoodFrames, WithDevice, WithDrive
  <1>5. Awaits(Top) /\ ~Takes(Top) /\ ~Mounts(Top) /\ Idle(fr) /\ LiveOK(fr)
    BY <1>1, <1>2, <1>4 DEF Awaits, Takes, Mounts, Idle, LiveOK
  <1>6. CASE ret = "error"
    <2>1. FreeDevice(Top.u)
      BY <1>6 DEF PortDone
    <2> QED BY <1>1, <1>2, <1>4, <1>5, <1>6, <2>1, LinkFreed
  <1>7. CASE ret # "error"
    <2>1. SameTables
      BY <1>1, <1>7, TablesKept DEF PortDone
    <2> QED BY <1>1, <1>4, <1>5, <2>1, LinkIdle
  <1> QED BY <1>6, <1>7

\* hub_probe gives the hub a slot.
LEMMA LinkProbeHub ==
    ASSUME Types, ShapeInv, LinkInv, ProbeHub
    PROVE  LinkInv'
  <1>1. /\ stk # <<>> /\ Top.at = "probe" /\ At("probe") /\ Live(Top) /\ udev[Top.u].kind = "hub"
        /\ Return("ok") /\ UNCHANGED <<list, udev, drive, bound>>
        /\ ~Takes(Top) /\ ~Mounts(Top)
    BY AtTop DEF ProbeHub, Takes, Mounts
  <1>2. CASE hub' = hub
    <2>1. SameTables
      BY <1>1, <1>2, TablesKept
    <2> QED BY <1>1, <2>1, LinkReturn
  <1>3. CASE \E h \in Hubs, ports \in SUBSET Ports :
                ~InUse(h) /\ hub' = [hub EXCEPT ![h] = [dev |-> Top.u, pos |-> Loc(Top.u), sc |-> {},
                                                        ports |-> ports, busy |-> TRUE]]
    <2>1. TreeInv /\ StackInv /\ DriveInv /\ TopInv
      BY DEF LinkInv
    <2>2. PICK u : u = Top.u
      OBVIOUS
    <2>3. u \in Listed /\ udev[u].kind = "hub" /\ \A g \in Hubs : hub[g].dev # u
      <3>1. Top.u \in Udevs /\ LiveOK(Top)
        BY <1>1, <2>1, TopOK DEF TopType, WithDevice
      <3> QED BY <1>1, <2>1, <2>2, <3>1, Numbers DEF LiveOK, TopInv
    <2>4. PICK h \in Hubs : /\ ~InUse(h) /\ hub'[h].dev = u /\ hub'[h].pos = Loc(u)
                            /\ \A g \in Hubs \ {h} : hub'[g] = hub[g]
      BY <1>3, <2>2 DEF Types, TableTypes
    <2>5. TreeInv' /\ \A g \in Hubs : InUse(g) => SameSlot(g)
      BY <1>1, <2>1, <2>3, <2>4, TreeSlot
    <2>6. Listed' = Listed /\ \A v : IsDisk(v) => IsDisk(v)'
      BY <1>1 DEF Listed, IsDisk
    <2>7. /\ \A f \in Waits : \A v \in Udevs : ~Cleared(f, v)'
          /\ \A f \in Waits : f \in GoodFrames /\ FrameOK(f)
      BY <1>1, <2>1, WaitUncleared, TopOK
    <2>8. ASSUME NEW f \in Waits PROVE FrameOK(f)'
      <3>1. Mounts(f) => drive'[f.d] = drive[f.d] /\ f.d \notin bound'
        BY <1>1, <2>7 DEF FrameOK, MountOK
      <3>2. ASSUME Live(f)
            PROVE  /\ f.u # 0 => f.u \in Listed'
                   /\ f.h # 0 /\ f.at # "scan" => SameSlot(f.h)
                   /\ IsDisk(f.u) => IsDisk(f.u)'
                   /\ f.at = "rfind" => \A v \in Udevs : drive'[f.d] = v => IsDisk(v)'
        <4>1. LiveOK(f) /\ DiskOK(f)
          BY <2>7, <3>2 DEF FrameOK
        <4>2. f.h \in {0} \cup Hubs
          BY <2>7, Numbers DEF GoodFrames, Frames, Hubs
        <4> QED BY <1>1, <2>5, <2>6, <4>1, <4>2 DEF LiveOK, DiskOK
      <3> QED BY <2>7, <3>1, <3>2, FrameUntouched DEF Untouched
    <2>9. Carried
      BY <2>7, <2>8 DEF Carried
    <2>10. StackInv' /\ TopInv'
      BY <1>1, <2>1, <2>9, StackReturnOK, TopPlain DEF StackInv
    <2>11. DriveInv'
      <3>1. Calls = {Top} \cup Waits /\ Calls' = Waits
        BY <1>1, CallsAre, CallsReturn DEF Types
      <3> QED BY <1>1, <2>1, <2>6, <3>1, DrivesKept
    <2> QED BY <2>5, <2>10, <2>11 DEF LinkInv
  <1>4. hub' = hub \/ \E h \in Hubs, ports \in SUBSET Ports :
                ~InUse(h) /\ hub' = [hub EXCEPT ![h] = [dev |-> Top.u, pos |-> Loc(Top.u), sc |-> {},
                                                        ports |-> ports, busy |-> TRUE]]
    <2> DEFINE free == {h \in Hubs : ~InUse(h)}
    <2>1. CASE free = {}
      BY <2>1 DEF ProbeHub
    <2>2. CASE free # {}
      <3>1. Min(free) \in free
        <4>1. free \subseteq Nat
          BY Numbers
        <4> HIDE DEF free
        <4> QED BY <2>2, <4>1, MinIn
      <3>2. PICK h : h = Min(free)
        OBVIOUS
      <3>3. \E ok, sent \in BOOLEAN :
                hub' = IF sent THEN [hub EXCEPT ![h] = [dev |-> Top.u, pos |-> Loc(Top.u), sc |-> {},
                                            ports |-> IF ok THEN Ports ELSE {}, busy |-> TRUE]]
                               ELSE hub
        BY <2>2, <3>2, Zenon DEF ProbeHub
      <3>4. PICK ok \in BOOLEAN, sent \in BOOLEAN :
                hub' = IF sent THEN [hub EXCEPT ![h] = [dev |-> Top.u, pos |-> Loc(Top.u), sc |-> {},
                                            ports |-> IF ok THEN Ports ELSE {}, busy |-> TRUE]]
                               ELSE hub
        BY <3>3
      <3>5. PICK ports \in SUBSET Ports : ports = IF ok THEN Ports ELSE {}
        OBVIOUS
      <3>6. h \in Hubs /\ ~InUse(h)
        BY <3>1, <3>2
      <3> QED BY <3>4, <3>5, <3>6
    <2> QED BY <2>1, <2>2
  <1> QED BY <1>2, <1>3, <1>4

\* msc_probe takes a drive that is free and mounts it.
LEMMA LinkProbeDisk ==
    ASSUME Types, ShapeInv, LinkInv, ProbeDisk
    PROVE  LinkInv'
  <1>1. /\ stk # <<>> /\ Top.at = "probe" /\ Live(Top) /\ udev[Top.u].kind = "disk"
        /\ UNCHANGED <<list, udev, hub, bound>> /\ ~Takes(Top) /\ ~Mounts(Top)
    BY AtTop DEF ProbeDisk, Takes, Mounts
  <1> DEFINE free == {d \in Drives : drive[d] = 0}
  <1>2. CASE Return("ok") /\ drive' = drive
    <2>1. SameTables
      BY <1>1, <1>2, TablesKept
    <2> QED BY <1>1, <1>2, <2>1, LinkReturn
  <1>3. CASE /\ free # {} /\ drive' = [drive EXCEPT ![Min(free)] = Top.u]
             /\ Call(Fresh("root"), Frame("mount", Top.u, 0, 0, Min(free), "none"))
    <2>1. Min(free) \in free
      <3>1. free \subseteq Nat
        BY Numbers
      <3> HIDE DEF free
      <3> QED BY <1>3, <3>1, MinIn
    <2>2. PICK d : d = Min(free)
      OBVIOUS
    <2>3. d \in Drives /\ drive[d] = 0 /\ d \in 0..NDrives
      BY <2>1, <2>2, Numbers
    <2>4. TreeInv /\ StackInv /\ DriveInv /\ BoundInv /\ MountInv
      BY DEF LinkInv, DriveInv
    <2>5. PICK u : u = Top.u
      OBVIOUS
    <2>6. u \in Udevs /\ u \in 0..NUdevs /\ u # 0 /\ IsDisk(u)
      <3>1. Top.u \in Udevs /\ LiveOK(Top)
        BY <1>1, <2>4, TopOK DEF TopType, WithDevice
      <3> QED BY <1>1, <2>5, <3>1, Numbers DEF LiveOK, IsDisk, Udevs
    <2>7. drive'[d] = u /\ \A e \in Drives : e # d => drive'[e] = drive[e]
      BY <1>3, <2>2, <2>3, <2>5 DEF Types, TableTypes
    <2>8. PICK x : x = Fresh("root")
      OBVIOUS
    <2>9. PICK next : next = Frame("mount", u, 0, 0, d, "none")
      OBVIOUS
    <2>10. Call(x, next)
      BY <1>3, <2>2, <2>5, <2>8, <2>9
    <2>11. x \in GoodFrames /\ x.at = "root" /\ LiveOK(x)
      <3>1. "root" \in Places \ (WithDevice \cup WithHub \cup WithPort \cup WithDrive)
        BY DEF Places, WithDevice, WithHub, WithPort, WithDrive
      <3> QED BY <2>8, <3>1, FreshFrame, FreshIdle
    <2>12. next.at = "mount" /\ next.u = u /\ next.h = 0 /\ next.p = 0 /\ next.d = d /\ next.f = "none"
      BY <2>9 DEF Frame
    <2>13. next \in GoodFrames
      BY <2>3, <2>6, <2>9, <2>12, Numbers DEF Frame, GoodFrames, Frames, Places, WithHub, WithPort
    <2>14. Listed' = Listed /\ \A v : IsDisk(v) => IsDisk(v)'
      BY <1>1 DEF Listed, IsDisk
    <2>15. TreeInv'
      <3>1. \A h \in Hubs : SameSlot(h)
        BY <1>1 DEF SameSlot
      <3> QED BY <1>1, <2>4, <2>14, <3>1, TreeSame
    <2>16. /\ \A f \in Waits : \A v \in Udevs : ~Cleared(f, v)'
           /\ \A f \in Waits : f \in GoodFrames /\ FrameOK(f)
      BY <1>1, <2>4, WaitUncleared, TopOK
    <2>17. \A f \in Waits : Mounts(f) => f.d # d /\ f.d \in Drives
      BY <2>3, <2>16 DEF FrameOK, MountOK, Mounts, GoodFrames, WithDrive
    <2>18. ASSUME NEW f \in Waits PROVE FrameOK(f)'
      <3>1. Mounts(f) => drive'[f.d] = drive[f.d] /\ f.d \notin bound'
        BY <1>1, <2>7, <2>16, <2>17 DEF FrameOK, MountOK
      <3>2. ASSUME Live(f)
            PROVE  /\ f.u # 0 => f.u \in Listed'
                   /\ f.h # 0 /\ f.at # "scan" => SameSlot(f.h)
                   /\ IsDisk(f.u) => IsDisk(f.u)'
        <4>1. LiveOK(f)
          BY <2>16, <3>2 DEF FrameOK
        <4> QED BY <1>1, <2>14, <4>1 DEF LiveOK, SameSlot
      <3>3. ASSUME Live(f), f.at = "rfind", NEW v \in Udevs, drive'[f.d] = v PROVE IsDisk(v)'
        <4>1. f.d \in Drives /\ DiskOK(f)
          BY <2>16, <3>3 DEF GoodFrames, WithDrive, FrameOK
        <4>2. IsDisk(v)
          BY <2>6, <2>7, <3>3, <4>1 DEF DiskOK
        <4> QED BY <2>14, <4>2
      <3> QED BY <2>16, <3>1, <3>2, <3>3, FrameUntouched DEF Untouched
    <2>19. Carried
      BY <2>16, <2>18 DEF Carried
    <2>20. d \notin bound
      BY <2>3, <2>4 DEF BoundInv
    <2>21. FrameOK(next)' /\ ~Awaits(next) /\ Mounts(next) /\ next.at \in Pausing /\ Covers(x, next)'
      <3>1. IsDisk(u)' /\ u \in Listed'
        BY <2>6, <2>14 DEF IsDisk
      <3> QED BY <1>1, <2>6, <2>7, <2>12, <2>20, <3>1
          DEF FrameOK, MountOK, LiveOK, PlaceOK, DiskOK, IsDisk, Mounts, Awaits, Pausing, Covers, Cleared
    <2>22. FrameOK(x)' /\ ~Mounts(x) /\ ~Awaits(x) /\ \A v \in Udevs : ~Cleared(x, v)'
      <3>1. x.u = 0 /\ x.h = 0
        BY <2>8 DEF Fresh, Frame
      <3> QED BY <2>11, <3>1 DEF FrameOK, MountOK, LiveOK, PlaceOK, DiskOK, Mounts, Awaits, Cleared
    <2>23. \A b \in Waits : PairOK(next, b)
      BY <2>12, <2>17, <2>21 DEF PairOK
    <2>24. StackInv'
      BY <1>1, <2>4, <2>10, <2>11, <2>13, <2>19, <2>21, <2>22, <2>23, StackCallOK
    <2>25. TopInv'
      BY <1>1, <2>4, <2>10, <2>11, TopPlain DEF StackInv
    <2>26. DriveInv'
      <3>1. Calls = {Top} \cup Waits /\ Calls' = {x, next} \cup Waits
        BY <1>1, <2>10, <2>11, <2>13, CallsAre, CallsCall DEF Types
      <3>2. ASSUME NEW e \in bound'
            PROVE  drive'[e] # 0 /\ drive'[e] \in Listed' /\ udev'[drive'[e]].kind = "disk"
        <4>1. e \in bound /\ e # d /\ e \in Drives
          BY <1>1, <2>20, <3>2 DEF Types, TableTypes
        <4>2. PICK v : v = drive[e]
          OBVIOUS
        <4>3. v # 0 /\ IsDisk(v) /\ drive'[e] = v
          BY <2>4, <2>7, <4>1, <4>2 DEF BoundInv
        <4>4. IsDisk(v)'
          BY <2>14, <4>3
        <4> QED BY <4>3, <4>4 DEF IsDisk
      <3>3. BoundInv'
        BY <3>2 DEF BoundInv, IsDisk
      <3>4. ASSUME NEW e \in Drives \ bound', drive'[e] # 0 PROVE \E g \in Calls' : Mounts(g) /\ g.d = e
        <4>1. CASE e = d
          BY <2>12, <2>21, <3>1, <4>1
        <4>2. CASE e # d
          <5>1. drive[e] # 0 /\ e \in Drives \ bound
            BY <1>1, <2>7, <3>4, <4>2
          <5>2. PICK f \in Calls : Mounts(f) /\ f.d = e
            BY <2>4, <5>1 DEF MountInv
          <5> QED BY <1>1, <3>1, <5>2
        <4> QED BY <4>1, <4>2
      <3>5. MountInv'
        BY <3>4 DEF MountInv, Mounts
      <3> QED BY <3>3, <3>5 DEF DriveInv
    <2> QED BY <2>15, <2>24, <2>25, <2>26 DEF LinkInv
  <1> QED BY <1>2, <1>3 DEF ProbeDisk

\* A mount ends: its drive is bound from now on.
LEMMA LinkMounted ==
    ASSUME Types, ShapeInv, LinkInv, Mounted
    PROVE  LinkInv'
  <1>1. /\ stk # <<>> /\ Top.at = "mounted" /\ Live(Top) /\ Mounts(Top) /\ ~Takes(Top)
        /\ Return("ok") /\ UNCHANGED <<list, udev, hub, drive>>
    BY AtTop DEF Mounted, Mounts, Takes
  <1>2. TreeInv /\ StackInv /\ BoundInv /\ MountInv
    BY DEF LinkInv, DriveInv
  <1>3. PICK d : d = Top.d
    OBVIOUS
  <1>4. bound' = bound \cup {d} /\ drive[d] # 0 /\ IsDisk(drive[d])
    <2>1. drive[d] = Top.u /\ IsDisk(Top.u) /\ drive[d] # 0
      BY <1>1, <1>2, <1>3, TopOK DEF DiskOK, FrameOK, MountOK
    <2> QED BY <1>3, <2>1 DEF Mounted
  <1>5. Listed' = Listed /\ \A v : IsDisk(v) => IsDisk(v)'
    BY <1>1 DEF Listed, IsDisk
  <1>6. TreeInv'
    <2>1. \A h \in Hubs : SameSlot(h)
      BY <1>1 DEF SameSlot
    <2> QED BY <1>1, <1>2, <1>5, <2>1, TreeSame
  <1>7. /\ \A f \in Waits : \A v \in Udevs : ~Cleared(f, v)'
        /\ \A f \in Waits : f \in GoodFrames /\ FrameOK(f) /\ PairOK(Top, f)
    BY <1>1, <1>2, WaitUncleared, TopOK
  <1>8. ASSUME NEW f \in Waits PROVE FrameOK(f)'
    <2>1. Mounts(f) => drive'[f.d] = drive[f.d] /\ f.d \notin bound'
      BY <1>1, <1>3, <1>4, <1>7 DEF FrameOK, MountOK, PairOK
    <2>2. ASSUME Live(f)
          PROVE  /\ f.u # 0 => f.u \in Listed'
                 /\ f.h # 0 /\ f.at # "scan" => SameSlot(f.h)
                 /\ IsDisk(f.u) => IsDisk(f.u)'
                 /\ f.at = "rfind" => \A v \in Udevs : drive'[f.d] = v => IsDisk(v)'
      <3>1. LiveOK(f) /\ DiskOK(f)
        BY <1>7, <2>2 DEF FrameOK
      <3> QED BY <1>1, <1>5, <3>1 DEF LiveOK, DiskOK, SameSlot
    <2> QED BY <1>7, <2>1, <2>2, FrameUntouched DEF Untouched
  <1>9. Carried
    BY <1>7, <1>8 DEF Carried
  <1>10. StackInv' /\ TopInv'
    BY <1>1, <1>2, <1>9, StackReturnOK, TopPlain DEF StackInv
  <1>11. BoundInv'
    <2>1. ASSUME NEW e \in bound' PROVE drive'[e] # 0 /\ drive'[e] \in Listed' /\ udev'[drive'[e]].kind = "disk"
      <3>1. drive[e] # 0 /\ IsDisk(drive[e])
        BY <1>2, <1>4, <2>1 DEF BoundInv
      <3> QED BY <1>1, <1>5, <3>1 DEF IsDisk
    <2> QED BY <2>1 DEF BoundInv, IsDisk
  <1>12. MountInv'
    <2>1. Calls = {Top} \cup Waits /\ Calls' = Waits
      BY <1>1, CallsAre, CallsReturn DEF Types
    <2>2. ASSUME NEW e \in Drives \ bound', drive'[e] # 0 PROVE \E g \in Calls' : Mounts(g) /\ g.d = e
      <3>1. e \in Drives \ bound /\ e # d /\ drive[e] # 0
        BY <1>1, <1>4, <2>2
      <3>2. PICK f \in Calls : Mounts(f) /\ f.d = e
        BY <1>2, <3>1 DEF MountInv
      <3> QED BY <1>3, <2>1, <3>1, <3>2
    <2> QED BY <2>2 DEF MountInv, Mounts
  <1> QED BY <1>6, <1>10, <1>11, <1>12 DEF LinkInv, DriveInv

\* What msc_disconnect leaves of the drives.
LEMMA Released ==
    ASSUME Types, DriveInv, NEW u, Release(u)
    PROVE  /\ bound' \subseteq bound
           /\ \A d \in bound' : drive'[d] = drive[d] /\ drive[d] # u
           /\ \A d \in Drives : d \notin bound => d \notin bound' /\ drive'[d] = drive[d]
           /\ \A d \in Drives : drive'[d] # 0 => drive'[d] = drive[d]
           /\ \A d \in Drives \ bound' : drive'[d] # 0 => d \notin bound
           /\ \A d \in Drives : drive'[d] \in 0..NUdevs
  <1>1. /\ DrivesOf(u) \subseteq bound /\ DrivesOf(u) \subseteq Drives /\ bound \subseteq Drives
        /\ \A d \in bound : d \notin DrivesOf(u) => drive[d] # u
    BY DEF DrivesOf, Types, TableTypes
  <1>2. /\ bound' = bound \ DrivesOf(u)
        /\ \A d \in Drives : drive'[d] = IF d \in DrivesOf(u) THEN 0 ELSE drive[d]
    BY DEF Release
  <1>3. \A d \in Drives : drive[d] \in 0..NUdevs
    BY DEF Types, TableTypes
  <1> QED BY <1>1, <1>2, <1>3, Numbers

\* The drivers of a disk that is reset let go of it.
LEMMA LinkResetUnbind ==
    ASSUME Types, ShapeInv, LinkInv, ResetUnbind
    PROVE  LinkInv'
  <1>1. /\ stk # <<>> /\ Top.at = "rgo" /\ Live(Top) /\ ~Mounts(Top) /\ ~Takes(Top)
        /\ UNCHANGED <<list, udev, hub>>
    BY AtTop DEF ResetUnbind, Mounts, Takes
  <1>2. TreeInv /\ StackInv /\ DriveInv /\ BoundInv /\ MountInv
    BY DEF LinkInv, DriveInv
  <1>3. PICK u, fr : u = Top.u /\ fr = On("readdress", u)
    OBVIOUS
  <1>4. u \in Udevs /\ IsDisk(u) /\ Goto(fr) /\ Release(u)
    <2>1. Top.u \in Udevs /\ IsDisk(Top.u)
      BY <1>1, <1>2, TopOK DEF DiskOK, TopType, WithDevice
    <2> QED BY <1>3, <2>1 DEF ResetUnbind
  <1>5. fr \in GoodFrames /\ fr.at = "readdress" /\ fr.u = u /\ fr.h = 0
    <2>1. "readdress" \in WithDevice \ (WithHub \cup WithPort \cup WithDrive)
      BY DEF WithDevice, WithHub, WithPort, WithDrive
    <2> QED BY <1>3, <1>4, <2>1, OnFrame
  <1>6. Listed' = Listed /\ \A v : IsDisk(v) => IsDisk(v)'
    BY <1>1 DEF Listed, IsDisk
  <1>7. TreeInv'
    <2>1. \A h \in Hubs : SameSlot(h)
      BY <1>1 DEF SameSlot
    <2> QED BY <1>1, <1>2, <1>6, <2>1, TreeSame
  <1>8. /\ \A f \in Waits : \A v \in Udevs : ~Cleared(f, v)'
        /\ \A f \in Waits : f \in GoodFrames /\ FrameOK(f)
    BY <1>1, <1>2, WaitUncleared, TopOK
  <1>9. /\ bound' \subseteq bound
        /\ \A d \in bound' : drive'[d] = drive[d] /\ drive[d] # u
        /\ \A d \in Drives : d \notin bound => d \notin bound' /\ drive'[d] = drive[d]
        /\ \A d \in Drives : drive'[d] # 0 => drive'[d] = drive[d]
        /\ \A d \in Drives \ bound' : drive'[d] # 0 => d \notin bound
    BY <1>2, <1>4, Released
  <1>10. ASSUME NEW f \in Waits PROVE FrameOK(f)'
    <2>1. Mounts(f) => drive'[f.d] = drive[f.d] /\ f.d \notin bound'
      BY <1>8, <1>9 DEF FrameOK, MountOK, Mounts, GoodFrames, WithDrive
    <2>2. ASSUME Live(f)
          PROVE  /\ f.u # 0 => f.u \in Listed'
                 /\ f.h # 0 /\ f.at # "scan" => SameSlot(f.h)
                 /\ IsDisk(f.u) => IsDisk(f.u)'
                 /\ f.at = "rfind" => \A v \in Udevs : drive'[f.d] = v => IsDisk(v)'
      <3>1. LiveOK(f) /\ DiskOK(f)
        BY <1>8, <2>2 DEF FrameOK
      <3>2. ASSUME f.at = "rfind", NEW v \in Udevs, drive'[f.d] = v PROVE IsDisk(v)'
        <4>1. f.d \in Drives /\ v # 0
          BY <1>8, <3>2, Numbers DEF GoodFrames, WithDrive
        <4>2. drive[f.d] = v
          BY <1>9, <3>2, <4>1
        <4> QED BY <1>6, <3>1, <3>2, <4>2 DEF DiskOK
      <3> QED BY <1>1, <1>6, <3>1, <3>2 DEF LiveOK, SameSlot
    <2> QED BY <1>8, <2>1, <2>2, FrameUntouched DEF Untouched
  <1>11. Carried
    BY <1>8, <1>10 DEF Carried
  <1>12. FrameOK(fr)' /\ ~Mounts(fr) /\ ~Awaits(fr) /\ \A v \in Udevs : ~Cleared(fr, v)'
    <2>1. IsDisk(u)' /\ u \in Listed'
      BY <1>4, <1>6 DEF IsDisk
    <2> QED BY <1>5, <2>1 DEF FrameOK, MountOK, LiveOK, PlaceOK, DiskOK, IsDisk, Mounts, Awaits, Cleared
  <1>13. StackInv' /\ TopInv'
    <2>1. StackInv'
      BY <1>1, <1>2, <1>4, <1>5, <1>11, <1>12, StackGotoOK
    <2>2. TopInv'
      BY <1>1, <1>2, <1>4, <1>5, TopPlain DEF StackInv
    <2> QED BY <2>1, <2>2
  <1>14. BoundInv'
    <2>1. ASSUME NEW e \in bound' PROVE drive'[e] # 0 /\ drive'[e] \in Listed' /\ udev'[drive'[e]].kind = "disk"
      <3>1. drive[e] # 0 /\ IsDisk(drive[e]) /\ drive'[e] = drive[e]
        BY <1>2, <1>9, <2>1 DEF BoundInv
      <3> QED BY <1>1, <1>6, <3>1 DEF IsDisk
    <2> QED BY <2>1 DEF BoundInv, IsDisk
  <1>15. MountInv'
    <2>1. Calls = {Top} \cup Waits /\ Calls' = {fr} \cup Waits
      BY <1>1, <1>4, <1>5, CallsAre, CallsGoto DEF Types
    <2>2. ASSUME NEW e \in Drives \ bound', drive'[e] # 0 PROVE \E g \in Calls' : Mounts(g) /\ g.d = e
      <3>1. e \in Drives \ bound /\ drive[e] # 0
        BY <1>9, <2>2
      <3>2. PICK f \in Calls : Mounts(f) /\ f.d = e
        BY <1>2, <3>1 DEF MountInv
      <3> QED BY <1>1, <2>1, <3>2
    <2> QED BY <2>2 DEF MountInv, Mounts
  <1> QED BY <1>7, <1>13, <1>14, <1>15 DEF LinkInv, DriveInv

\* disconnect_device frees a device on which none hangs any more, and marks the
\* calls that wait and use it.
LEMMA LinkLeft ==
    ASSUME Types, ShapeInv, ListInv, LinkInv, stk # <<>>, Takes(Top), NEW u \in Udevs, u = Top.u,
           ReturnFreed(u),
           \A h \in Hubs : hub'[h] = IF hub[h].dev = u THEN FreeHub ELSE hub[h],
           \A v \in Listed : udev[v].hub # 0 => hub[udev[v].hub].dev # u,
           bound' \subseteq bound,
           \A d \in bound' : drive'[d] = drive[d] /\ drive[d] # u,
           \A d \in Drives : d \notin bound => d \notin bound' /\ drive'[d] = drive[d],
           \A d \in Drives : drive'[d] # 0 => drive'[d] = drive[d],
           \A d \in Drives \ bound' : drive'[d] # 0 => d \notin bound
    PROVE  LinkInv'
  <1>1. TreeInv /\ StackInv /\ DriveInv /\ BoundInv /\ MountInv
    BY DEF LinkInv, DriveInv
  <1>2. /\ TreeInv' /\ Listed' = Listed \ {u} /\ \A v \in Listed \ {u} : udev'[v] = udev[v]
        /\ \A h \in Hubs : InUse(h) /\ hub[h].dev # u => SameSlot(h)
    <2>1. FreeDevice(u)
      BY DEF ReturnFreed
    <2> QED BY <1>1, <2>1, TreeFree
  <1>3. \A v : IsDisk(v) /\ v # u => IsDisk(v)'
    BY <1>2 DEF IsDisk
  <1>4. \A f \in Waits : f \in GoodFrames /\ FrameOK(f)
    BY <1>1, TopOK
  <1>5. ASSUME NEW f \in Waits, Mounts(f)
        PROVE  drive'[f.d] = drive[f.d] /\ drive[f.d] # 0 /\ f.d \notin bound'
    BY <1>4, <1>5 DEF FrameOK, MountOK, Mounts, GoodFrames, WithDrive
  <1>6. ASSUME NEW f \in Waits, Live(f), ~Uses(f, u) PROVE Untouched(f)
    <2>1. LiveOK(f) /\ DiskOK(f) /\ f \in GoodFrames /\ f.h \in {0} \cup Hubs
      BY <1>4, <1>6, Numbers DEF FrameOK, GoodFrames, Frames, Hubs
    <2>2. /\ f.u # u /\ (f.h # 0 => hub[f.h].dev # u)
          /\ f.at = "rfind" => f.d \in bound \/ drive[f.d] # u
      BY <1>6 DEF Uses, Live
    <2>3. f.u # 0 => f.u \in Listed'
      BY <1>2, <2>1, <2>2 DEF LiveOK
    <2>4. f.h # 0 /\ f.at # "scan" => SameSlot(f.h)
      BY <1>2, <2>1, <2>2 DEF LiveOK
    <2>5. IsDisk(f.u) => IsDisk(f.u)'
      BY <1>3, <2>2
    <2>6. ASSUME f.at = "rfind", NEW v \in Udevs, drive'[f.d] = v PROVE IsDisk(v)'
      <3>1. f.d \in Drives /\ v # 0
        BY <2>1, <2>6, Numbers DEF GoodFrames, WithDrive
      <3>2. drive[f.d] = v
        BY <2>6, <3>1
      <3>3. v # u
        BY <2>2, <2>6, <3>1, <3>2
      <3> QED BY <1>3, <2>1, <2>6, <3>2, <3>3 DEF DiskOK
    <2> QED BY <1>5, <2>3, <2>4, <2>5, <2>6 DEF Untouched
  <1>7. ASSUME NEW f \in Waits, NEW m, m = Mark(f, u) PROVE FrameOK(m)'
    <2>1. m \in GoodFrames /\ SameCall(m, f) /\ (Live(m) => m = f /\ ~Uses(f, u))
      BY <1>4, <1>7, MarkIs
    <2>2. CASE Live(m)
      BY <1>4, <1>6, <2>1, <2>2, FrameUntouched
    <2>3. CASE ~Live(m)
      <3>1. MountOK(m)'
        BY <1>5, <2>1 DEF MountOK, Mounts, SameCall
      <3> QED BY <2>3, <3>1 DEF FrameOK, Live
    <2> QED BY <2>2, <2>3
  <1>8. ASSUME NEW f \in Waits, NEW v \in Udevs, Cleared(f, v)' PROVE Cleared(f, v) /\ v # u
    <2>1. v \in Listed /\ v # u /\ udev'[v] = udev[v]
      BY <1>2, <1>8 DEF Cleared
    <2> QED BY <1>8, <2>1 DEF Cleared, Live
  <1>9. StackInv'
    BY <1>1, <1>7, <1>8, StackFreedOK
  <1>10. TopInv'
    BY <1>1, TopPlain DEF StackInv
  <1>11. BoundInv'
    <2>1. ASSUME NEW e \in bound' PROVE drive'[e] # 0 /\ drive'[e] \in Listed' /\ udev'[drive'[e]].kind = "disk"
      <3>1. PICK v : v = drive[e]
        OBVIOUS
      <3>2. drive'[e] = v /\ v # u /\ v # 0 /\ IsDisk(v)
        BY <1>1, <2>1, <3>1 DEF BoundInv
      <3>3. IsDisk(v)'
        BY <1>3, <3>2
      <3> QED BY <3>2, <3>3 DEF IsDisk
    <2> QED BY <2>1 DEF BoundInv, IsDisk
  <1>12. MountInv'
    <2>1. ASSUME NEW e \in Drives \ bound', drive'[e] # 0 PROVE \E g \in Calls' : Mounts(g) /\ g.d = e
      <3>1. e \in Drives \ bound /\ drive[e] # 0
        BY <2>1
      <3>2. PICK f \in Calls : Mounts(f) /\ f.d = e
        BY <1>1, <3>1 DEF MountInv
      <3>3. f \in Waits
        BY <3>2, CallsAre DEF Types, Takes, Mounts
      <3>4. Mark(f, u) \in Calls' /\ SameCall(Mark(f, u), f)
        BY <1>4, <3>3, CallsFreed, MarkIs DEF Types
      <3> QED BY <3>2, <3>4 DEF SameCall, Mounts
    <2> QED BY <2>1 DEF MountInv, Mounts
  <1> QED BY <1>2, <1>9, <1>10, <1>11, <1>12 DEF LinkInv, DriveInv

LEMMA LinkDisconnect ==
    ASSUME Types, ShapeInv, ListInv, LinkInv, Disconnect
    PROVE  LinkInv'
  <1> DEFINE mine == {h \in Hubs : hub[h].dev = Top.u}
  <1>1. stk # <<>> /\ Top.at = "disc" /\ Live(Top) /\ Takes(Top) /\ ~Mounts(Top)
    BY AtTop DEF Disconnect, Takes, Mounts
  <1>2. TreeInv /\ StackInv /\ DriveInv
    BY DEF LinkInv
  <1>3. PICK u : u = Top.u
    OBVIOUS
  <1>4. u \in Udevs /\ u \in Listed /\ u # 0
    <2>1. Top.u \in Udevs /\ LiveOK(Top)
      BY <1>1, <1>2, TopOK DEF TopType, WithDevice
    <2> QED BY <1>3, <2>1, Numbers DEF LiveOK
  <1>5. CASE mine # {}
    <2>1. Min(mine) \in mine
      <3>1. mine \subseteq Nat
        BY Numbers
      <3> HIDE DEF mine
      <3> QED BY <1>5, <3>1, MinIn
    <2>2. PICK h, fr : h = Min(mine) /\ fr = Frame("kids", u, h, 0, 0, "none")
      OBVIOUS
    <2>3. h \in Hubs /\ hub[h].dev = u
      BY <1>3, <2>1, <2>2
    <2>4. hub' = [hub EXCEPT ![h].busy = FALSE] /\ Goto(fr) /\ UNCHANGED <<list, udev, drive, bound>>
      BY <1>3, <1>5, <2>2 DEF Disconnect
    <2>5. SameTables
      <3>1. \A g \in Hubs : SameSlot(g)
        BY <2>4 DEF SameSlot, Types, TableTypes, HubType
      <3> QED BY <2>4, <3>1 DEF SameTables, Listed
    <2>6. fr.at = "kids" /\ fr.u = u /\ fr.h = h /\ fr.p = 0 /\ fr.d = 0 /\ fr.f = "none"
      BY <2>2 DEF Frame
    <2>7. fr \in GoodFrames
      BY <1>4, <2>2, <2>3, <2>6, Numbers DEF Frame, GoodFrames, Frames, Places, WithPort, WithDrive
    <2>8. FrameOK(fr) /\ ~Mounts(fr) /\ ~Awaits(fr) /\ Takes(fr)
      BY <1>4, <2>3, <2>6
      DEF FrameOK, MountOK, LiveOK, PlaceOK, DiskOK, InUse, Mounts, Awaits, Takes
    <2>9. ASSUME NEW v \in Udevs, Cleared(fr, v) PROVE FALSE
      <3>1. v \in Listed /\ udev[v].hub = h /\ udev[v].port <= 0
        BY <2>6, <2>9 DEF Cleared
      <3>2. udev[v].port \in Nat \ {0}
        <4>1. h # 0 /\ hub[h].ports \subseteq Nat \ {0}
          BY <2>3, Numbers DEF Types, TableTypes, HubType
        <4> QED BY <1>2, <3>1, <4>1 DEF TreeInv, HangInv
      <3> QED BY <3>1, <3>2
    <2>10. TopInv'
      BY <1>1, <1>2, <2>4, <2>6, TopPlain DEF StackInv
    <2> QED BY <1>1, <1>3, <2>4, <2>5, <2>6, <2>7, <2>8, <2>9, <2>10, LinkGoto
  <1>6. CASE mine = {}
    <2>1. Release(u) /\ ReturnFreed(u) /\ UNCHANGED hub
      BY <1>3, <1>6 DEF Disconnect
    <2>2. \A h \in Hubs : hub[h].dev # u
      BY <1>3, <1>6
    <2>3. \A v \in Listed : udev[v].hub # 0 => hub[udev[v].hub].dev # u
      <3>1. \A v \in Listed : v \in Udevs
        BY FoundTypes DEF Types
      <3>2. \A v \in Udevs : udev[v].hub \in 0..NHubs
        BY DEF Types, TableTypes, UdevType
      <3>3. \A n \in 0..NHubs : n # 0 => n \in Hubs
        BY Numbers DEF Hubs
      <3> QED BY <2>2, <3>1, <3>2, <3>3
    <2>4. \A h \in Hubs : hub'[h] = IF hub[h].dev = u THEN FreeHub ELSE hub[h]
      BY <2>1, <2>2
    <2>5. /\ bound' \subseteq bound
          /\ \A d \in bound' : drive'[d] = drive[d] /\ drive[d] # u
          /\ \A d \in Drives : d \notin bound => d \notin bound' /\ drive'[d] = drive[d]
          /\ \A d \in Drives : drive'[d] # 0 => drive'[d] = drive[d]
          /\ \A d \in Drives \ bound' : drive'[d] # 0 => d \notin bound
      BY <1>2, <2>1, Released
    <2> QED BY <1>1, <1>3, <1>4, <2>1, <2>3, <2>4, <2>5, LinkLeft
  <1> QED BY <1>5, <1>6

LEMMA LinkDisconnectKids ==
    ASSUME Types, ShapeInv, ListInv, LinkInv, DisconnectKids
    PROVE  LinkInv'
  <1>1. stk # <<>> /\ Top.at = "kids" /\ Live(Top) /\ Takes(Top) /\ ~Mounts(Top) /\ UNCHANGED <<drive, bound>>
    BY AtTop DEF DisconnectKids, Takes, Mounts
  <1>2. TreeInv /\ StackInv /\ BoundInv
    BY DEF LinkInv, DriveInv
  <1>3. PICK u, h : u = Top.u /\ h = Top.h
    OBVIOUS
  <1>4. /\ TopType /\ FrameOK(Top) /\ LiveOK(Top) /\ hub[h].dev = u /\ u \in Udevs
        /\ \A v \in Udevs : ~Cleared(Top, v)
    BY <1>1, <1>2, <1>3, TopOK DEF PlaceOK, TopType, WithDevice
  <1>5. /\ h \in Hubs /\ InUse(h) /\ h # 0 /\ hub[h].ports \subseteq Nat \ {0} /\ hub[h].ports \subseteq Ports
        /\ udev[u].kind = "hub"
    BY <1>1, <1>3, <1>4, TopHub DEF WithHub
  <1>6. Top.p \in Nat
    <2>1. Top.p \in {0} \cup Ports
      BY <1>4 DEF TopType
    <2>2. {0} \cup Ports \subseteq Nat
      BY Numbers
    <2> QED BY <2>1, <2>2
  <1> DEFINE kids == {p \in hub[h].ports : p > Top.p /\ FindDevice(Pos(h), p) # 0}
  <1>7. ASSUME NEW v \in Listed, udev[v].hub = h PROVE udev[v].port \in kids
    <2>1. v \in Udevs
      BY FoundTypes DEF Types
    <2>2. udev[v].port \in hub[h].ports /\ udev[v].port \in Nat
      BY <1>2, <1>5, <1>7 DEF TreeInv, HangInv
    <2>3. ~ (udev[v].port <= Top.p)
      BY <1>1, <1>3, <1>4, <1>7, <2>1 DEF Cleared
    <2>4. FindDevice(Pos(h), udev[v].port) # 0
      BY <1>2, <1>5, <1>7, FindAtHub
    <2> QED BY <1>6, <2>2, <2>3, <2>4
  <1>8. CASE kids # {}
    <2>1. Min(kids) \in kids /\ \A p \in kids : Min(kids) <= p
      <3>1. kids \subseteq Nat
        BY <1>5
      <3> HIDE DEF kids
      <3> QED BY <1>8, <3>1, MinIn
    <2>2. PICK q : q = Min(kids)
      OBVIOUS
    <2>3. q \in hub[h].ports /\ q \in Nat /\ q \in Ports /\ FindDevice(Pos(h), q) # 0 /\ \A p \in kids : q <= p
      BY <1>5, <2>1, <2>2
    <2>4. PICK v : v = FindDevice(Pos(h), q)
      OBVIOUS
    <2>5. v \in Listed /\ udev[v].hub = h /\ udev[v].port = q
      BY <1>2, <1>5, <2>3, <2>4, FindAtHub
    <2>6. PICK next : next = [Top EXCEPT !.p = q]
      OBVIOUS
    <2>7. Call(On("disc", v), next) /\ UNCHANGED <<list, udev, hub>>
      BY <1>3, <1>8, <2>2, <2>4, <2>6 DEF DisconnectKids, KidPorts
    <2>8. next.at = "kids" /\ next.u = u /\ next.h = h /\ next.p = q /\ next.d = Top.d /\ next.f = Top.f
      BY <1>1, <1>3, <1>4, <2>6 DEF TopType, Frames
    <2>9. next \in GoodFrames
      <3>1. next \in Frames
        BY <1>4, <2>3, <2>6 DEF TopType, Frames
      <3> QED BY <1>4, <1>5, <2>8, <3>1 DEF GoodFrames, WithPort, WithDrive
    <2>10. FrameOK(next) /\ ~Mounts(next) /\ ~Awaits(next) /\ next.at \in Pausing /\ Takes(next)
      BY <1>1, <1>3, <1>4, <1>5, <2>8
      DEF FrameOK, MountOK, LiveOK, PlaceOK, DiskOK, Mounts, Awaits, Pausing, Takes
    <2>11. ASSUME NEW w \in Udevs, Cleared(next, w) PROVE w = v
      <3>1. w \in Listed /\ udev[w].hub = h /\ udev[w].port <= q
        BY <2>8, <2>11 DEF Cleared
      <3>2. udev[w].port \in kids /\ udev[w].port \in Nat
        BY <1>5, <1>7, <3>1
      <3>3. udev[w].port = q
        BY <2>3, <3>1, <3>2
      <3>4. Loc(w) = Loc(v)
        BY <2>5, <3>1, <3>3 DEF Loc
      <3> QED BY <1>2, <2>5, <3>1, <3>4 DEF TreeInv, TreeLinked
    <2>12. SameTables
      BY <1>1, <2>7, TablesKept
    <2> QED BY <1>1, <1>3, <2>5, <2>7, <2>8, <2>9, <2>10, <2>11, <2>12, LinkTake
  <1>9. CASE kids = {}
    <2>1. hub' = [hub EXCEPT ![h] = FreeHub] /\ ReturnFreed(u)
      BY <1>3, <1>9 DEF DisconnectKids, KidPorts
    <2>2. \A g \in Hubs : hub[g].dev = u => g = h
      BY <1>2, <1>4, <1>5, Numbers DEF TreeInv, TreeLinked, InUse
    <2>3. \A g \in Hubs : hub'[g] = IF hub[g].dev = u THEN FreeHub ELSE hub[g]
      BY <1>4, <1>5, <2>1, <2>2 DEF Types, TableTypes
    <2>4. \A v \in Listed : udev[v].hub # 0 => hub[udev[v].hub].dev # u
      <3>1. \A v \in Listed : v \in Udevs
        BY FoundTypes DEF Types
      <3>2. \A v \in Udevs : udev[v].hub \in 0..NHubs
        BY DEF Types, TableTypes, UdevType
      <3>3. \A n \in 0..NHubs : n # 0 => n \in Hubs
        BY Numbers DEF Hubs
      <3>4. \A v \in Listed : udev[v].hub # h
        <4> HIDE DEF kids
        <4> QED BY <1>7, <1>9
      <3> QED BY <2>2, <3>1, <3>2, <3>3, <3>4
    <2>5. \A d \in bound : drive[d] # u
      BY <1>2, <1>5 DEF BoundInv, IsDisk
    <2>6. /\ bound' \subseteq bound
          /\ \A d \in bound' : drive'[d] = drive[d] /\ drive[d] # u
          /\ \A d \in Drives : d \notin bound => d \notin bound' /\ drive'[d] = drive[d]
          /\ \A d \in Drives : drive'[d] # 0 => drive'[d] = drive[d]
          /\ \A d \in Drives \ bound' : drive'[d] # 0 => d \notin bound
      BY <1>1, <2>5
    <2> QED BY <1>1, <1>3, <1>4, <2>1, <2>3, <2>4, <2>6, LinkLeft
  <1> QED BY <1>8, <1>9

-----------------------------------------------------------------------------
(* The invariant holds at first and after every step.                      *)

LEMMA LinkInit ==
    ASSUME Init
    PROVE  LinkInv
  <1>1. /\ list = <<>> /\ stk = <<>> /\ bound = {}
        /\ \A h \in Hubs : hub[h] = FreeHub
        /\ \A d \in Drives : drive[d] = 0
    BY DEF Init
  <1>2. Listed = {}
    BY <1>1 DEF Listed, ToSet
  <1>3. \A h \in Hubs : ~InUse(h) /\ hub[h].pos = <<>>
    BY <1>1 DEF InUse, FreeHub
  <1>4. TreeInv
    BY <1>2, <1>3 DEF TreeInv, TreeLinked, RootPort, HangInv, LocsInv, SlotInv
  <1>5. DOMAIN stk = {}
    BY <1>1
  <1>6. StackInv
    BY <1>1, <1>5 DEF StackInv, FramesInv, PairsInv, PauseInv, ClearInv, Calls, Waits, Under
  <1>7. TopInv
    BY <1>1 DEF TopInv, At, Failing
  <1>8. DriveInv
    BY <1>1 DEF DriveInv, BoundInv, MountInv
  <1> QED BY <1>4, <1>6, <1>7, <1>8 DEF LinkInv

LEMMA LinkStep ==
    ASSUME Types, ShapeInv, AddrInv, LinkInv, [Next]_vars
    PROVE  LinkInv'
  <1>0. ListInv /\ ConnectInv
    BY DEF AddrInv
  <1>1. CASE Person \/ Isr
    BY <1>1, LinkPerson
  <1>2. CASE UNCHANGED vars
    <2>1. UNCHANGED <<table, thread>>
      BY <1>2 DEF vars
    <2> QED BY <2>1, TablesKept, LinkStill DEF table, thread
  <1>3. CASE AppPoll
    BY <1>3, LinkAppPoll
  <1>4. CASE \E d \in Drives : AppRead(d)
    BY <1>4, LinkAppRead
  <1>5. CASE RootPolling
    BY <1>0, <1>5, LinkRootPoll, LinkRootOld, LinkRootReset, LinkRootDone DEF RootPolling
  <1>6. CASE HubPolling
    BY <1>0, <1>6, LinkHubsEnter, LinkHubsScan, LinkHubsPort, LinkPortClear, LinkPortOld, LinkPortReset,
       LinkPortDone, LinkPortRest, LinkHubResubmit DEF HubPolling
  <1>7. CASE Connecting
    BY <1>0, <1>7, LinkConnect, LinkSetAddress, LinkDescribe, LinkProbePlain, LinkProbeHub, LinkProbeDisk,
       LinkMountRead, LinkMounted DEF Connecting
  <1>8. CASE Disconnect \/ DisconnectKids
    BY <1>0, <1>8, LinkDisconnect, LinkDisconnectKids
  <1>9. CASE ResetFind \/ ResetUnbind \/ ResetAddress
    BY <1>9, LinkResetFind, LinkResetUnbind, LinkResetAddress
  <1> QED BY <1>1, <1>2, <1>3, <1>4, <1>5, <1>6, <1>7, <1>8, <1>9 DEF Next, Thread

LEMMA GoodInit ==
    ASSUME Init
    PROVE  Good
  BY TypesInit, ShapeInit, AddrInit, LinkInit DEF Good

LEMMA GoodStep ==
    ASSUME Good, [Next]_vars
    PROVE  Good'
  BY TypesStep, ShapeStep, AddrStep, LinkStep DEF Good

LEMMA GoodHolds == Spec => []Good
  <1>1. Init => Good
    BY GoodInit
  <1>2. Good /\ [Next]_vars => Good'
    BY GoodStep
  <1> QED BY <1>1, <1>2, PTL DEF Spec

\* What the lists of the library say of each other: a hub in use belongs to a
\* listed hub device, at the place of its port, and no two of them to the same
\* one; the hub of a listed device is in use; no two devices are at one port.
\* usbh_hub_polling, connect_device and disconnect_device keep it so through
\* every nesting of their calls, whatever is plugged or unplugged meanwhile.
THEOREM TreeLinkedHolds == Spec => []TreeLinked
  <1>1. Good => TreeLinked
    BY DEF Good, LinkInv, TreeInv
  <1> QED BY <1>1, GoodHolds, PTL

\* A drive in use is bound to a listed disk, or a mount in progress has it, of a
\* listed disk too unless the disk was freed inside the mount: msc_disconnect
\* and the reset of a disk leave no drive behind whose device is gone.
THEOREM DrivesBoundHolds == Spec => []DrivesBound
  <1>1. ASSUME Good PROVE DrivesBound
    <2>1. BoundInv /\ MountInv /\ FramesInv
      BY <1>1 DEF Good, LinkInv, StackInv, DriveInv
    <2>2. ASSUME NEW d \in Drives, drive[d] # 0, d \notin bound
          PROVE  \E i \in DOMAIN stk : /\ stk[i].at \in {"mount", "mounted"} /\ stk[i].d = d
                                       /\ stk[i].f # "stale" => IsDisk(drive[d]) /\ stk[i].u = drive[d]
      <3>1. PICK f \in Calls : Mounts(f) /\ f.d = d
        BY <2>1, <2>2 DEF MountInv
      <3>2. f.f # "stale" => IsDisk(drive[d]) /\ f.u = drive[d]
        BY <2>1, <3>1 DEF FramesInv, FrameOK, DiskOK, Live
      <3>3. PICK i \in DOMAIN stk : stk[i] = f
        BY <3>1 DEF Calls
      <3> QED BY <3>1, <3>2, <3>3 DEF Mounts
    <2>3. \A d \in Drives : drive[d] # 0 /\ d \in bound => IsDisk(drive[d])
      BY <2>1 DEF BoundInv
    <2> QED BY <2>2, <2>3 DEF DrivesBound
  <1> QED BY <1>1, GoodHolds, PTL

\* Every variable keeps to its type. That a hub's place is a port that exists is
\* no local fact: it needs the links between the hubs and the listed devices.
THEOREM TypeOKHolds == Spec => []TypeOK
  <1>1. ASSUME Good PROVE TypeOK
    <2>1. Types /\ TreeLinked /\ LocsInv /\ SlotInv
      BY <1>1 DEF Good, LinkInv, TreeInv
    <2>2. hub \in [Hubs -> [dev : 0..NUdevs, pos : {<<>>} \cup Locs, ports : SUBSET Ports,
                            sc : SUBSET Ports, busy : BOOLEAN]]
      <3>1. \A h \in Hubs : hub[h].pos \in {<<>>} \cup Locs
        BY <2>1 DEF TreeLinked, LocsInv, SlotInv
      <3>2. hub \in [Hubs -> HubType]
        BY <2>1 DEF Types, TableTypes
      <3>3. \A h \in Hubs : hub[h] \in [dev : 0..NUdevs, pos : {<<>>} \cup Locs, ports : SUBSET Ports,
                                        sc : SUBSET Ports, busy : BOOLEAN]
        BY <3>1, <3>2 DEF HubType
      <3> QED BY <3>2, <3>3
    <2>3. stk \in Seq([at : Places, u : 0..NUdevs, h : 0..NHubs, p : {0} \cup Ports, d : 0..NDrives,
                       f : {"none", "on", "off", "ok", "error", "change", "stale"}])
      <3>1. stk \in Seq(GoodFrames) /\ GoodFrames \subseteq Frames
        BY <2>1 DEF Types, ThreadTypes, GoodFrames
      <3>2. stk \in Seq(Frames)
        BY <3>1
      <3> QED BY <3>2 DEF Frames
    <2> QED BY <2>1, <2>2, <2>3 DEF TypeOK, Types, BusTypes, TableTypes, ThreadTypes, UseTypes, UdevType
  <1> QED BY <1>1, GoodHolds, PTL

=============================================================================
