------------------------------ MODULE UsbTree ------------------------------
(***************************************************************************)
(* The device tree of UsbHostLib: how one call of usbh_pooling_hubs turns  *)
(* what is plugged into the ports into a list of devices with addresses,   *)
(* hub slots and mounted drives, and takes it apart again.                 *)
(*                                                                         *)
(* One thread calls the library.  Its call stack is a variable because the *)
(* polling is entered again from inside itself: connecting a disk mounts   *)
(* it, FatFs calls disk_initialize, and disk_initialize polls the hubs; a  *)
(* failed read of a disk resets it, which polls twice.  The other actors   *)
(* are the person at the ports and the status pipes of the hubs, whose     *)
(* callback hub_status_irq runs in the interrupt handler.                  *)
(*                                                                         *)
(* A port is the sequence of port numbers from the root (hub.c's pos_id    *)
(* followed by the port), so a hub at position l owns the ports l \o <<p>>. *)
(***************************************************************************)
EXTENDS Integers, Sequences, FiniteSets, SequencesExt, FiniteSetsExt

CONSTANTS
    Locs,       \* the ports that exist
    MayHold,    \* Locs -> what can be plugged there
    NUdevs,     \* devices that fit in the memory pool
    NHubs,      \* MAX_HUB_DEVICE
    NDrives,    \* USBDRV_CNT
    MaxAddr,    \* 127, the largest device address
    Moves,      \* bound: how often something is plugged or unplugged
    Reads,      \* bound: how many reads of a drive fail (a bad sector)
    Faults      \* bound: how many requests a present device leaves unanswered

Kinds  == {"hub", "disk", "plain"}
Udevs  == 1..NUdevs
Hubs   == 1..NHubs
Drives == 1..NDrives
Addrs  == 1..MaxAddr
Ports  == {Last(l) : l \in Locs}
Root   == <<1>>                            \* the single port of the root hub

ASSUME ConstAssumption ==
    /\ Locs \subseteq Seq(Nat \ {0})           \* ports are counted from 1
    /\ \A l \in Locs : Len(l) > 0 /\ (l = Root \/ Front(l) \in Locs)
    /\ MayHold \in [Locs -> SUBSET Kinds]
    /\ NUdevs \in Nat /\ NHubs \in Nat /\ NDrives \in Nat
    /\ MaxAddr \in Nat \ {0}
    /\ Moves \in Nat /\ Reads \in Nat /\ Faults \in Nat

VARIABLES
    \* the ports and what is in them
    kind,       \* Locs -> what is plugged there, "none" if nothing
    paddr,      \* Locs -> -1 port not enabled, 0 default address, or the address
    conf,       \* ports whose device has been sent SET_CONFIGURATION
    chg,        \* ports with a connect status change nobody cleared
    \* the library
    list,       \* g_udev_list
    udev,       \* Udevs -> [hub, port, addr, kind]; hub 0 is the root hub
    hub,        \* Hubs -> [dev, pos, ports, sc, busy]; dev 0 is a free slot
    pool,       \* the addresses marked in _dev_addr_pool
    cursor,     \* _device_addr
    drive,      \* Drives -> the device of the drive's msc, 0 is a free drive
    bound,      \* drives whose interface is linked in the device's iface_list
    mutex,      \* _hub_polling_mutex
    stk,        \* the calls in progress, innermost first
    ret,        \* what the call that returned last returned
    \* how much of each bound is used
    moves, reads, faults,
    \* history, which no action of the program reads
    disturbed   \* ports at which, or above which, something was plugged or
                \* unplugged while a call was connecting or resetting them

bus    == <<kind, paddr, conf, chg>>
table  == <<list, udev, hub, pool, cursor, drive, bound, mutex>>
thread == <<stk, ret>>
person == <<moves, disturbed>>
vars   == <<bus, table, thread, person, reads, faults>>

FreeUdev == [hub |-> 0, port |-> 0, addr |-> 0, kind |-> "none"]
FreeHub  == [dev |-> 0, pos |-> <<>>, ports |-> {}, sc |-> {}, busy |-> FALSE]

\* A call: where it is, the device, hub slot, port and drive it works on, and
\* a flag whose meaning the place gives.  The flag "stale" marks a call that
\* waits for another which has freed the device or the hub slot it works on.
\* What such a call does when it goes on is a use of freed memory, to which C
\* gives no meaning: the call is never At a place, and the behaviour ends.
Frame(at, u, h, p, d, f) == [at |-> at, u |-> u, h |-> h, p |-> p, d |-> d, f |-> f]
Fresh(at)  == Frame(at, 0, 0, 0, 0, "none")
On(at, u)  == Frame(at, u, 0, 0, 0, "none")
Top        == Head(stk)
At(place)  == stk # <<>> /\ Top.at = place /\ Top.f # "stale"
Goto(fr)       == stk' = <<fr>> \o Tail(stk) /\ UNCHANGED ret
Call(fr, next) == stk' = <<fr, next>> \o Tail(stk) /\ UNCHANGED ret
Return(r)      == stk' = Tail(stk) /\ ret' = r

---------------------------------------------------------------------------
(* The devices of the library and the devices in the ports. *)

Pos(h)      == IF h = 0 THEN <<>> ELSE hub[h].pos
Loc(u)      == Append(Pos(udev[u].hub), udev[u].port)
InUse(h)    == hub[h].dev # 0
PortOf(fr)  == Append(Pos(fr.h), fr.p)
Listed      == ToSet(list)
Parent(l)   == Front(l)
AtOrBelow(l, m) == IsPrefix(l, m)

Present(l)  == l \in Locs /\ kind[l] # "none"
Answers(u)  == Present(Loc(u)) /\ paddr[Loc(u)] = udev[u].addr
\* What the driver of a disk needs besides: a device that was not sent
\* SET_CONFIGURATION has no endpoint but endpoint 0.
Serves(u)   == Answers(u) /\ Loc(u) \in conf

\* A request that a device present on the bus leaves unanswered is a fault.
Request(able, ok) == /\ ok => able
                     /\ able /\ ~ok => faults > 0
                     /\ faults' = IF able /\ ~ok THEN faults - 1 ELSE faults

\* usbh_find_device: through the first slot at that position, 0 when none.
FindDevice(pos, p) ==
    LET slots == {h \in Hubs : InUse(h) /\ hub[h].pos = pos}
        found == SelectInSeq(list, LAMBDA u : udev[u].hub = Min(slots) /\ udev[u].port = p)
    IN  IF slots = {} \/ found = 0 THEN 0 ELSE list[found]

\* ohci_find_device_by_port
FindRootDevice ==
    LET found == SelectInSeq(list, LAMBDA u : udev[u].hub = 0 /\ udev[u].port = Last(Root))
    IN  IF found = 0 THEN 0 ELSE list[found]

FreeUdevs == Udevs \ Listed

\* alloc_device: the new device heads the list; then its parent and port.
AllocDevice(u, h, p) ==
    /\ list' = <<u>> \o list
    /\ udev' = [udev EXCEPT ![u] = [FreeUdev EXCEPT !.hub = h, !.port = p]]

FreeDevice(u) == list' = RemoveFirst(list, u) /\ udev' = [udev EXCEPT ![u] = FreeUdev]

\* The calls that still use a device when it is freed.  msc_disconnect frees the
\* drives whose interface is linked; a reset that has yet to look for its drive
\* finds none then, but the freed device if the drive is only being mounted.
Uses(fr, u) == /\ fr.f # "stale"
               /\ \/ fr.u = u
                  \/ fr.h # 0 /\ hub[fr.h].dev = u
                  \/ fr.at = "rfind" /\ fr.d \notin bound /\ drive[fr.d] = u
Marked(frames, u) == [i \in DOMAIN frames |-> IF Uses(frames[i], u)
                                              THEN [frames[i] EXCEPT !.f = "stale"] ELSE frames[i]]
\* disconnect_device ends: the device is freed, whoever waits for its return.
ReturnFreed(u) == FreeDevice(u) /\ stk' = Marked(Tail(stk), u) /\ ret' = "ok"

\* A port reset that reaches the port: the device there, if any, answers at
\* address 0 and is not configured.
ResetPort(l) == /\ paddr' = IF Present(l) THEN [paddr EXCEPT ![l] = 0] ELSE paddr
                /\ conf' = conf \ {l}

\* reset_device, whose result no caller looks at.  ohci_rh_port_reset clears
\* the connect change when it finds the device gone; do_port_reset reaches the
\* port only when the hub answers.
ResetDevice(u) ==
    IF udev[u].hub = 0
    THEN ResetPort(Loc(u)) /\ chg' = IF Present(Loc(u)) THEN chg ELSE chg \ {Loc(u)}
    ELSE /\ IF Answers(hub[udev[u].hub].dev) THEN ResetPort(Loc(u)) ELSE UNCHANGED <<paddr, conf>>
         /\ UNCHANGED chg

---------------------------------------------------------------------------
(* The person at the ports and the status pipes of the hubs. *)

\* The port that a call is connecting or resetting a device at.
AtWork(fr, l) ==
    /\ fr.f # "stale"
    /\ \/ fr.at \in {"sense", "new", "reset"} /\ l = Root
       \/ fr.at \in {"clear", "old", "portreset"} /\ l = PortOf(fr)
       \/ fr.at \in {"connect", "mount", "mounted", "rgo"} /\ l = Loc(fr.u)
       \/ fr.at = "rfind" /\ drive[fr.d] # 0 /\ l = Loc(drive[fr.d])
Disturb(l) == disturbed' = disturbed \cup {m \in Locs : /\ AtOrBelow(l, m)
                                                      /\ \E i \in DOMAIN stk : AtWork(stk[i], m)}

Plug(l) ==
    /\ moves < Moves
    /\ kind[l] = "none"
    /\ l # Root => kind[Parent(l)] = "hub"
    /\ \E k \in MayHold[l] : kind' = [kind EXCEPT ![l] = k]
    /\ chg' = chg \cup {l}
    /\ moves' = moves + 1
    /\ Disturb(l)
    /\ UNCHANGED <<paddr, conf, table, thread, reads, faults>>

\* What was below an unplugged hub is gone with it.
Unplug(l) ==
    LET gone == {m \in Locs : AtOrBelow(l, m)}
    IN  /\ moves < Moves
        /\ kind[l] # "none"
        /\ kind' = [m \in Locs |-> IF m \in gone THEN "none" ELSE kind[m]]
        /\ paddr' = [m \in Locs |-> IF m \in gone THEN -1 ELSE paddr[m]]
        /\ conf' = conf \ gone
        /\ chg' = (chg \ gone) \cup {l}
        /\ moves' = moves + 1
        /\ Disturb(l)
        /\ UNCHANGED <<table, thread, reads, faults>>

\* hub_status_irq: a report of changed ports ends the status request.
HubStatus(h) ==
    LET changed == {p \in Ports : Append(hub[h].pos, p) \in chg}
    IN  /\ InUse(h) /\ hub[h].busy /\ Serves(hub[h].dev) /\ changed # {}
        /\ hub' = [hub EXCEPT ![h].sc = @ \cup changed, ![h].busy = FALSE]
        /\ UNCHANGED <<bus, list, udev, pool, cursor, drive, bound, mutex, thread,
                       person, reads, faults>>

\* The status request ends in an error: the hub is gone, or a fault.
HubStatusError(h) ==
    /\ InUse(h) /\ hub[h].busy
    /\ Request(Serves(hub[h].dev), FALSE)
    /\ hub' = [hub EXCEPT ![h].busy = FALSE]
    /\ UNCHANGED <<bus, list, udev, pool, cursor, drive, bound, mutex, thread, person, reads>>

---------------------------------------------------------------------------
(* The application: it polls, and it reads drives, whatever has become of  *)
(* the disk; a read that fails calls usbh_umas_reset_disk.                 *)

AppPoll == /\ stk = <<>>
           /\ stk' = <<Fresh("root")>>
           /\ UNCHANGED <<bus, table, ret, person, reads, faults>>

AppRead(d) == /\ stk = <<>> /\ drive[d] # 0 /\ reads > 0
              /\ reads' = reads - 1
              /\ stk' = <<Fresh("root"), Frame("rfind", 0, 0, 0, d, "none")>>
              /\ UNCHANGED <<bus, table, ret, person, faults>>

---------------------------------------------------------------------------
(* usbh_pooling_hubs, first half: ohci_rh_polling until it returns 0. *)

\* The change is cleared before the connect status is read.
MutRootCleared == chg                      \* the change is not cleared
RootCleared    == chg \ {Root}
RootPoll ==
    /\ At("root")
    /\ chg' = RootCleared
    /\ Goto(Fresh(IF Root \in chg THEN "sense" ELSE "hubs"))
    /\ UNCHANGED <<kind, paddr, conf, table, person, reads, faults>>

RootSense ==
    /\ At("sense")
    /\ Goto(Fresh(IF Present(Root) THEN "new" ELSE "gone"))
    /\ UNCHANGED <<bus, table, person, reads, faults>>

\* Every device listed at the port goes first, whatever is there now.
RootOld ==
    /\ At("new") \/ At("gone")
    /\ IF FindRootDevice # 0 THEN Call(On("disc", FindRootDevice), Top)
       ELSE Goto(Fresh(IF Top.at = "new" THEN "reset" ELSE "root"))
    /\ UNCHANGED <<bus, table, person, reads, faults>>

RootReset ==
    /\ At("reset")
    /\ ResetPort(Root)
    /\ IF Present(Root) /\ FreeUdevs # {}
       THEN LET u == Min(FreeUdevs)
            IN  AllocDevice(u, 0, Last(Root)) /\ Call(On("connect", u), On("rootdone", u))
       ELSE Goto(Fresh("hubs")) /\ UNCHANGED <<list, udev>>
    /\ chg' = IF Present(Root) THEN chg ELSE chg \ {Root}
    /\ UNCHANGED <<kind, hub, pool, cursor, drive, bound, mutex, person, reads, faults>>

RootDone ==
    /\ At("rootdone")
    /\ IF ret = "error" THEN FreeDevice(Top.u) ELSE UNCHANGED <<list, udev>>
    /\ Goto(Fresh("root"))
    /\ UNCHANGED <<bus, hub, pool, cursor, drive, bound, mutex, person, reads, faults>>

(* Second half: hub_polling until it returns 0. *)

MutPollingBusy == FALSE                    \* _hub_polling_mutex is not tested
PollingBusy    == mutex
HubsEnter ==
    /\ At("hubs")
    /\ IF PollingBusy THEN Return("ok") ELSE Goto(Fresh("scan"))
    /\ mutex' = TRUE
    /\ UNCHANGED <<bus, list, udev, hub, pool, cursor, drive, bound, person, reads, faults>>

\* The flag of the frame tells the local variables change and ret: a hub whose
\* turn ended in an error has left ret negative for the next one.
HubsScan ==
    LET ready == {h \in Hubs : h > Top.h /\ InUse(h) /\ hub[h].sc # {}}
    IN  /\ At("scan")
        /\ IF ready # {}
           THEN /\ Goto(Frame("ports", 0, Min(ready), 0, 0,
                              IF Top.f = "error" THEN "error" ELSE "none"))
                /\ UNCHANGED mutex
           ELSE /\ mutex' = FALSE
                /\ IF Top.f = "none" THEN Return("ok") ELSE Goto(Fresh("hubs"))
        /\ UNCHANGED <<bus, list, udev, hub, pool, cursor, drive, bound, person, reads, faults>>

\* The loop over the ports, with the get_port_status of port_status_change;
\* the flag keeps the connect status read.
HubsPort ==
    LET h    == Top.h
        next == {p \in hub[h].sc \cap hub[h].ports : p > Top.p}
        p    == Min(next)
        l    == Append(Pos(h), p)
    IN  /\ At("ports")
        /\ \/ /\ next = {}
              /\ Goto([Top EXCEPT !.at = "resubmit", !.f = IF @ = "error" THEN @ ELSE "ok"])
              /\ UNCHANGED faults
           \/ /\ next # {}
              /\ \E ok \in BOOLEAN :
                    /\ Request(Answers(hub[h].dev), ok)
                    /\ Goto(CASE ~ok         -> [Top EXCEPT !.at = "resubmit", !.f = "error"]
                              [] l \notin chg -> [Top EXCEPT !.p = p, !.f = "none"]
                              [] OTHER       -> [Top EXCEPT !.at = "clear", !.p = p,
                                                     !.f = IF Present(l) THEN "on" ELSE "off"])
        /\ UNCHANGED <<bus, table, person, reads>>

\* clear_port_feature(FS_C_PORT_CONNECTION)
PortClear ==
    /\ At("clear")
    /\ \E ok \in BOOLEAN :
        /\ Request(Answers(hub[Top.h].dev), ok)
        /\ chg' = IF ok THEN chg \ {PortOf(Top)} ELSE chg
        /\ Goto(IF ok THEN [Top EXCEPT !.at = "old"]
                      ELSE [Top EXCEPT !.at = "resubmit", !.f = "error"])
    /\ UNCHANGED <<kind, paddr, conf, table, person, reads>>

\* port_connect_change: the device listed at the port goes first.
PortOld ==
    /\ At("old")
    /\ LET old  == FindDevice(Pos(Top.h), Top.p)
           next == [Top EXCEPT !.at = IF Top.f = "on" THEN "portreset" ELSE "rest"]
       IN  IF old # 0 THEN Call(On("disc", old), next) ELSE Goto(next)
    /\ UNCHANGED <<bus, table, person, reads, faults>>

\* do_port_reset, which a port without a device passes too, get_port_status
\* and alloc_device; port_status_change ignores a failure of either.
PortReset ==
    LET h == Top.h
        l == PortOf(Top)
        u == Min(FreeUdevs)
    IN  /\ At("portreset")
        /\ \E ok \in BOOLEAN :
            /\ Request(Answers(hub[h].dev), ok)
            /\ IF ok THEN ResetPort(l) ELSE UNCHANGED <<paddr, conf>>
            /\ IF ok /\ FreeUdevs # {}
               THEN /\ AllocDevice(u, h, Top.p)
                    /\ Call(On("connect", u), [Top EXCEPT !.at = "portdone", !.u = u])
               ELSE Goto([Top EXCEPT !.at = "rest"]) /\ UNCHANGED <<list, udev>>
        /\ UNCHANGED <<kind, chg, hub, pool, cursor, drive, bound, mutex, person, reads>>

PortDone ==
    /\ At("portdone")
    /\ IF ret = "error" THEN FreeDevice(Top.u) ELSE UNCHANGED <<list, udev>>
    /\ Goto([Top EXCEPT !.at = "rest", !.u = 0])
    /\ UNCHANGED <<bus, hub, pool, cursor, drive, bound, mutex, person, reads, faults>>

\* The other change bits of the port: there are none to clear, or clearing
\* them succeeds, or it fails and ends the loop over the ports.
PortRest ==
    /\ At("rest")
    /\ \/ Goto([Top EXCEPT !.at = "ports", !.f = "none"]) /\ UNCHANGED faults
       \/ /\ Request(Answers(hub[Top.h].dev), FALSE)
          /\ Goto([Top EXCEPT !.at = "resubmit", !.f = "error"])
    /\ UNCHANGED <<bus, table, person, reads>>

\* The end of the hub's turn: its status request goes out again only when ret
\* is 0, that is, the last port looked at gave no error.
MutAskedAgain == FALSE                     \* the request is not submitted again
AskedAgain    == Top.f = "ok"
MutLeftOver   == hub[Top.h].sc             \* sc_bitmap is not reset
LeftOver      == {}
HubResubmit ==
    /\ At("resubmit")
    /\ hub' = [hub EXCEPT ![Top.h].sc = LeftOver, ![Top.h].busy = AskedAgain]
    /\ Goto(Frame("scan", 0, Top.h, 0, 0, IF AskedAgain THEN "change" ELSE "error"))
    /\ UNCHANGED <<bus, list, udev, pool, cursor, drive, bound, mutex, person, reads, faults>>

---------------------------------------------------------------------------
(* connect_device *)

\* The first descriptor request and the second reset, both unchecked.
Connect ==
    /\ At("connect")
    /\ ResetDevice(Top.u)
    /\ Goto(On("address", Top.u))
    /\ UNCHANGED <<kind, table, person, reads, faults>>

\* The address alloc_dev_address finds: the first free one after the cursor.
After(a)    == (a % MaxAddr) + 1
MutNextAddress == cursor + 1               \* the cursor does not wrap
NextAddress == CHOOSE a \in Addrs \ pool :
                   \A b \in Addrs \ pool : (a - After(cursor)) % MaxAddr <= (b - After(cursor)) % MaxAddr

\* usbh_set_address; alloc_dev_address searches on while no address is free.
SetAddress ==
    /\ At("address")
    /\ Addrs \ pool # {}
    /\ cursor' = NextAddress
    /\ \E ok \in BOOLEAN :
        /\ Request(Answers(Top.u), ok)
        /\ IF ok
           THEN /\ pool' = pool \cup {NextAddress}
                /\ udev' = [udev EXCEPT ![Top.u].addr = NextAddress]
                /\ paddr' = [paddr EXCEPT ![Loc(Top.u)] = NextAddress]
                /\ Goto(On("describe", Top.u))
           ELSE Return("error") /\ UNCHANGED <<pool, udev, paddr>>
    /\ UNCHANGED <<kind, conf, chg, list, hub, drive, bound, mutex, person, reads>>

MutGivenBack(u) == pool                    \* free_dev_address is not called
GivenBack(u)    == pool \ {udev[u].addr}

\* The descriptors and usbh_set_configuration; a failure gives the address back.
Describe ==
    /\ At("describe")
    /\ \E ok \in BOOLEAN :
        /\ Request(Answers(Top.u), ok)
        /\ IF ok
           THEN /\ udev' = [udev EXCEPT ![Top.u].kind = kind[Loc(Top.u)]]
                /\ conf' = conf \cup {Loc(Top.u)}
                /\ Goto(On("probe", Top.u))
                /\ UNCHANGED pool
           ELSE /\ pool' = GivenBack(Top.u)
                /\ Return("error")
                /\ UNCHANGED <<udev, conf>>
    /\ UNCHANGED <<kind, paddr, chg, list, hub, cursor, drive, bound, mutex, person, reads>>

(* usbh_parse_configuration: the probe of the driver that matches.  A probe *)
(* that fails leaves the device without a driver; that is not an error.     *)

\* hub_probe.  Without the hub descriptor the hub has no ports for the driver;
\* its status request is submitted all the same, or that fails.
ProbeHub ==
    LET free == {h \in Hubs : ~InUse(h)}
        h    == Min(free)
    IN  /\ At("probe") /\ udev[Top.u].kind = "hub"
        /\ Return("ok")
        /\ IF free = {} THEN UNCHANGED <<hub, faults>>
           ELSE \E ok, sent \in BOOLEAN :
                /\ Request(Answers(Top.u), ok)
                /\ ok \/ ~Answers(Top.u) => sent
                /\ hub' = IF sent
                          THEN [hub EXCEPT ![h] = [dev |-> Top.u, pos |-> Loc(Top.u), sc |-> {},
                                   ports |-> IF ok THEN Ports ELSE {}, busy |-> TRUE]]
                          ELSE hub
        /\ UNCHANGED <<bus, list, udev, pool, cursor, drive, bound, mutex, person, reads>>

ProbePlain ==
    /\ At("probe") /\ udev[Top.u].kind = "plain"
    /\ Return("ok")
    /\ UNCHANGED <<bus, table, person, reads, faults>>

\* msc_probe as far as f_mount, which polls the hubs in disk_initialize.
ProbeDisk ==
    LET free == {d \in Drives : drive[d] = 0}
        d    == Min(free)
    IN  /\ At("probe") /\ udev[Top.u].kind = "disk"
        /\ \E ok \in BOOLEAN :
            /\ Request(Serves(Top.u), ok)
            /\ IF ok /\ free # {}
               THEN /\ drive' = [drive EXCEPT ![d] = Top.u]
                    /\ Call(Fresh("root"), Frame("mount", Top.u, 0, 0, d, "none"))
               ELSE Return("ok") /\ UNCHANGED drive
        /\ UNCHANGED <<bus, list, udev, hub, pool, cursor, bound, mutex, person, reads>>

\* The rest of f_mount, once its polling has returned: it reads the drive, and
\* a read that fails resets the disk.  The probe then succeeds either way and
\* the interface is linked.
MountRead ==
    /\ At("mount")
    /\ \E ok \in BOOLEAN :
        /\ Request(Serves(Top.u), ok)
        /\ IF ok THEN Goto([Top EXCEPT !.at = "mounted"])
           ELSE /\ stk' = <<Fresh("root"), Frame("rfind", 0, 0, 0, Top.d, "none"),
                            [Top EXCEPT !.at = "mounted"]>> \o Tail(stk)
                /\ UNCHANGED ret
    /\ UNCHANGED <<bus, table, person, reads>>

Mounted ==
    /\ At("mounted")
    /\ bound' = bound \cup {Top.d}
    /\ Return("ok")
    /\ UNCHANGED <<bus, list, udev, hub, pool, cursor, drive, mutex, person, reads, faults>>

---------------------------------------------------------------------------
(* disconnect_device: each driver's disconnect, then the device itself.    *)

\* msc_disconnect finds the drives through the interfaces that are linked.
MutDrivesOf(u) == {}                       \* the drives are not freed
DrivesOf(u) == {d \in bound : drive[d] = u}
Release(u)  == /\ drive' = [d \in Drives |-> IF d \in DrivesOf(u) THEN 0 ELSE drive[d]]
               /\ bound' = bound \ DrivesOf(u)

Disconnect ==
    /\ At("disc")
    /\ LET mine == {h \in Hubs : hub[h].dev = Top.u}
       IN  IF mine # {}
           THEN \* hub_disconnect: the status request is quit first
                /\ hub' = [hub EXCEPT ![Min(mine)].busy = FALSE]
                /\ Goto(Frame("kids", Top.u, Min(mine), 0, 0, "none"))
                /\ UNCHANGED <<list, udev, pool, drive, bound>>
           ELSE /\ Release(Top.u)
                /\ pool' = GivenBack(Top.u)
                /\ ReturnFreed(Top.u)
                /\ UNCHANGED hub
    /\ UNCHANGED <<bus, cursor, mutex, person, reads, faults>>

\* hub_disconnect, continued: the devices at its ports go before its slot.
MutKidPorts(h) == hub[h].ports \ {Max(Ports)}     \* the last port is left out
KidPorts(h)    == hub[h].ports
DisconnectKids ==
    LET h    == Top.h
        kids == {p \in KidPorts(h) : p > Top.p /\ FindDevice(Pos(h), p) # 0}
    IN  /\ At("kids")
        /\ IF kids # {}
           THEN /\ Call(On("disc", FindDevice(Pos(h), Min(kids))), [Top EXCEPT !.p = Min(kids)])
                /\ UNCHANGED <<list, udev, hub, pool>>
           ELSE /\ hub' = [hub EXCEPT ![h] = FreeHub]
                /\ pool' = GivenBack(Top.u)
                /\ ReturnFreed(Top.u)
        /\ UNCHANGED <<bus, cursor, drive, bound, mutex, person, reads, faults>>

---------------------------------------------------------------------------
(* usbh_umas_reset_disk, after its polling: find the drive, then           *)
(* usbh_reset_device, which polls once more.                               *)

ResetFind ==
    /\ At("rfind")
    /\ IF drive[Top.d] = 0 THEN Return("error")
       ELSE Call(Fresh("root"), On("rgo", drive[Top.d]))
    /\ UNCHANGED <<bus, table, person, reads, faults>>

\* The drivers let go, the port is reset, the device gets its old address
\* again.  usbh_set_configuration then finds the configuration unchanged and
\* sends nothing, and the interfaces are probed.
ResetUnbind ==
    /\ At("rgo")
    /\ Release(Top.u)
    /\ ResetDevice(Top.u)
    /\ Goto(On("readdress", Top.u))
    /\ UNCHANGED <<kind, list, udev, hub, pool, cursor, mutex, person, reads, faults>>

ResetAddress ==
    /\ At("readdress")
    /\ \E ok \in BOOLEAN :
        /\ Request(Present(Loc(Top.u)) /\ paddr[Loc(Top.u)] = 0, ok)
        /\ paddr' = IF ok THEN [paddr EXCEPT ![Loc(Top.u)] = udev[Top.u].addr] ELSE paddr
        /\ IF ok THEN Goto(On("probe", Top.u)) ELSE Return("error")
    /\ UNCHANGED <<kind, conf, chg, table, person, reads>>

---------------------------------------------------------------------------
Init ==
    /\ kind = [l \in Locs |-> "none"] /\ paddr = [l \in Locs |-> -1]
    /\ conf = {} /\ chg = {}
    /\ list = <<>> /\ udev = [u \in Udevs |-> FreeUdev]
    /\ hub = [h \in Hubs |-> FreeHub]
    /\ pool = {} /\ cursor = 1
    /\ drive = [d \in Drives |-> 0] /\ bound = {}
    /\ mutex = FALSE /\ stk = <<>> /\ ret = "ok"
    /\ moves = 0 /\ disturbed = {} /\ reads = Reads /\ faults = Faults

Person == \E l \in Locs : Plug(l) \/ Unplug(l)

Isr == \E h \in Hubs : HubStatus(h) \/ HubStatusError(h)

RootPolling == RootPoll \/ RootSense \/ RootOld \/ RootReset \/ RootDone

HubPolling == \/ HubsEnter \/ HubsScan \/ HubsPort \/ PortClear \/ PortOld
              \/ PortReset \/ PortDone \/ PortRest \/ HubResubmit

Connecting == \/ Connect \/ SetAddress \/ Describe
              \/ ProbeHub \/ ProbePlain \/ ProbeDisk \/ MountRead \/ Mounted

Thread == \/ AppPoll \/ RootPolling \/ HubPolling \/ Connecting
          \/ Disconnect \/ DisconnectKids
          \/ ResetFind \/ ResetUnbind \/ ResetAddress

Next == Person \/ Isr \/ Thread \/ (\E d \in Drives : AppRead(d))

Spec == Init /\ [][Next]_vars

\* The application keeps polling and the library's thread keeps running; a hub
\* with something to report is asked in the next interval of its pipe.
FairSpec == Spec /\ WF_vars(Thread) /\ \A h \in Hubs : WF_vars(HubStatus(h))

---------------------------------------------------------------------------
(* Properties                                                              *)

Places == {"root", "sense", "new", "gone", "reset", "rootdone", "hubs", "scan", "ports", "clear",
           "old", "portreset", "portdone", "rest", "resubmit", "connect", "address", "describe",
           "probe", "mount", "mounted", "disc", "kids", "rfind", "rgo", "readdress"}

\* Every variable has its type.
TypeOK ==
    /\ kind \in [Locs -> Kinds \cup {"none"}]
    /\ paddr \in [Locs -> -1..MaxAddr]
    /\ conf \subseteq Locs /\ chg \subseteq Locs
    /\ list \in Seq(Udevs)
    /\ udev \in [Udevs -> [hub : 0..NHubs, port : {0} \cup Ports, addr : 0..MaxAddr,
                           kind : Kinds \cup {"none"}]]
    /\ hub \in [Hubs -> [dev : 0..NUdevs, pos : {<<>>} \cup Locs, ports : SUBSET Ports,
                         sc : SUBSET Ports, busy : BOOLEAN]]
    /\ pool \subseteq Addrs /\ cursor \in Addrs
    /\ drive \in [Drives -> 0..NUdevs] /\ bound \subseteq Drives
    /\ mutex \in BOOLEAN
    /\ stk \in Seq([at : Places, u : 0..NUdevs, h : 0..NHubs, p : {0} \cup Ports, d : 0..NDrives,
                    f : {"none", "on", "off", "ok", "error", "change", "stale"}])
    /\ ret \in {"ok", "error"}
    /\ disturbed \subseteq Locs
    /\ moves \in 0..Moves /\ reads \in 0..Reads /\ faults \in 0..Faults

\* A polling takes a device away from a call that goes on to use it, a mount or
\* a reset, only when the device no longer answers in its port, or when the port or
\* one above it was disturbed: never in answer to the very change that brought the
\* device in, to one of another port, or to one that was dealt with before.
Undisturbed(l) == \A m \in disturbed : ~AtOrBelow(m, l)
Taken(u) == u \in Listed /\ u \notin Listed' /\ \E i \in 2..Len(stk) : Uses(stk[i], u)
TakenOnlyWhenGone == [][\A u \in Udevs : Taken(u) => ~Answers(u) \/ ~Undisturbed(Loc(u))]_vars

\* The lists agree: a hub slot belongs to a listed hub and records its position,
\* no two slots to the same one, a listed device hangs on a slot in use, and no
\* two listed devices are at one port.
TreeLinked ==
    /\ \A h \in Hubs : InUse(h) => /\ hub[h].dev \in Listed
                                   /\ udev[hub[h].dev].kind = "hub"
                                   /\ hub[h].pos = Loc(hub[h].dev)
    /\ \A u \in Listed : udev[u].hub # 0 => InUse(udev[u].hub)
    /\ \A u, v \in Listed : u # v => Loc(u) # Loc(v)
    /\ \A g, h \in Hubs : InUse(g) /\ InUse(h) /\ g # h => hub[g].dev # hub[h].dev

\* The addresses marked as used are those of the listed devices, each of them
\* once: no address is lost, so the search of alloc_dev_address ends, and none
\* is given out twice.  A device whose connect has failed keeps the address it
\* gave back until free_device.
Failing(u) == stk # <<>> /\ Top.at \in {"rootdone", "portdone"} /\ Top.u = u /\ ret = "error"
Addressed  == {u \in Listed : udev[u].addr # 0 /\ ~Failing(u)}
AddressesExact == /\ pool = {udev[u].addr : u \in Addressed}
                  /\ \A u, v \in Addressed : u # v => udev[u].addr # udev[v].addr

\* A drive in use is bound to a listed disk, or a mount in progress has it, of a
\* listed disk too unless the disk was freed inside the mount: no drive stays in
\* use behind a disk that is gone.
IsDisk(u) == u \in Listed /\ udev[u].kind = "disk"
DrivesBound == \A d \in Drives : drive[d] # 0 =>
    IF d \in bound THEN IsDisk(drive[d])
    ELSE \E i \in DOMAIN stk : /\ stk[i].at \in {"mount", "mounted"} /\ stk[i].d = d
                              /\ stk[i].f # "stale" => IsDisk(drive[d]) /\ stk[i].u = drive[d]

\* _hub_polling_mutex is set exactly while one hub_polling is on the stack,
\* whatever polls inside it.
InHubPolling == {"scan", "ports", "clear", "old", "portreset", "portdone", "rest", "resubmit"}
PollingNotNested ==
    Cardinality({i \in DOMAIN stk : stk[i].at \in InHubPolling}) = IF mutex THEN 1 ELSE 0

\* Once nobody plugs any more, the library ends up with exactly the devices in
\* the ports, each under its own address and each hub with a slot; without a
\* failed read each disk has its drive too.  Nothing is promised of a port that was
\* disturbed, and of those below it: the library may have missed its last change.
\* A single unanswered request may leave a hub deaf or a device unknown, and
\* excuses everything; so does the use of freed memory.
Known(l) == \E u \in Listed :
               /\ Loc(u) = l /\ udev[u].addr = paddr[l] /\ udev[u].kind = kind[l]
               /\ kind[l] = "hub" => \E h \in Hubs : hub[h].dev = u
               /\ kind[l] = "disk" /\ reads = Reads => \E d \in Drives : drive[d] = u
Settled == /\ \A l \in Locs : Undisturbed(l) /\ Present(l) => Known(l)
           /\ \A u \in Listed : Undisturbed(Loc(u)) => Present(Loc(u))
Stale   == stk # <<>> /\ Top.f = "stale"
Settles == <>[](Settled \/ faults < Faults \/ Stale)

\* Every call the application makes returns, unless it comes to use freed memory,
\* or a hub was taken in without its ports: such a hub reports the same change for
\* ever.
PollReturns == (stk # <<>>) ~> (stk = <<>> \/ Stale \/ \E h \in Hubs : InUse(h) /\ hub[h].ports = {})
=============================================================================
