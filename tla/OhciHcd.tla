------------------------------ MODULE OhciHcd ------------------------------
(***************************************************************************)
(* The OHCI host controller driver of UsbHostLib (src_core/ohci.c) over    *)
(* the pool of hardware units of src_core/mem_alloc.c, driven by the three *)
(* kinds of client the library has: usbh_ctrl_xfer, msc_bulk_transfer and  *)
(* the owners of an interrupt pipe (hub.c, hid_core.c).                    *)
(*                                                                         *)
(* Three actors share the state.  Main is the one thread that calls the    *)
(* library.  Isr is OHCI_IRQHandler: it preempts Main, which takes no step *)
(* while an enabled interrupt is pending or being served; a region between *)
(* DISABLE_OHCI_IRQ and ENABLE_OHCI_IRQ is therefore one action of Main.   *)
(* Hc is the controller: it walks the lists in memory on its own, whatever *)
(* the interrupt mask says.                                                *)
(***************************************************************************)
EXTENDS Integers, Sequences, FiniteSets, SequencesExt

CONSTANTS
    NUnits,       \* units of _hw_mem_pool left once _Ied[0..5] are allocated
    Eps,          \* endpoints; an ED's Info names exactly one of them
    Kind,         \* Eps -> {"ctrl", "bulk", "int"}
    Utrs,         \* transfer requests the DMA pool can hold
    None,         \* the null pointer of an endpoint or a request
    BulkTds,      \* bound: how many TDs (4096-byte pieces) a bulk request may need
    Resubmits,    \* interrupt endpoints whose callback resubmits (hid_read_irq)
    Stoppable,    \* endpoints the application stops or disconnects
    DelayFrames   \* frames that begin during delay_us(2000): 2 at full speed

Units == 1..NUnits
Ptr   == 0..NUnits                         \* 0 is USBNULL
Kinds == {"ctrl", "bulk", "int"}

ASSUME ConstAssumption ==
    /\ NUnits \in Nat
    /\ Kind \in [Eps -> Kinds]
    /\ None \notin Eps \cup Utrs
    /\ BulkTds \subseteq Nat \ {0}
    /\ Resubmits \subseteq {e \in Eps : Kind[e] = "int"}
    /\ Stoppable \subseteq Eps
    /\ DelayFrames \in Nat \ {0}

VARIABLES
    \* the units of _hw_mem_pool
    used,         \* _hw_unit_used
    info,         \* ED.Info: the endpoint the descriptor is for
    skip, halt,   \* ED_SKIP, and the H bit of ED.HeadP
    queue,        \* the TDs from ED.HeadP on (an interrupt ED ends in a dummy)
    tdUtr,        \* TD.utr
    failed,       \* TDs whose condition code is an error
    \* what the driver links
    list,         \* EDs the controller can reach from each of its lists
    removeList,   \* ed_remove_list
    hwPipe,       \* ep->hw_pipe
    \* the transfer requests
    alive, utrEp, tdCnt, status, done,
    \* the controller
    hcEd,         \* the ED being served, 0 when none
    hcDone,       \* HcDoneHead, newest first
    hccaDone,     \* hcca.done_head
    wdh, sf,      \* HcInterruptStatus
    sfEn,         \* SF in HcInterruptEnable; WDH is always enabled
    \* OHCI_IRQHandler
    ipc, isrWdh, work,
    \* the thread
    mpc, mu, mep, mtds, med, mn, frames, slot

mem   == <<used, info, skip, halt, queue, tdUtr, failed>>
links == <<list, removeList, hwPipe>>
utrs  == <<alive, utrEp, tdCnt, status, done>>
hc    == <<hcEd, hcDone, hccaDone, wdh, sf, sfEn>>
isr   == <<ipc, isrWdh, work>>
main  == <<mpc, mu, mep, mtds, med, mn, frames, slot>>
vars  == <<mem, links, utrs, hc, isr, main>>

Init ==
    /\ used = [u \in Units |-> FALSE]
    /\ info = [u \in Units |-> None]
    /\ skip = [u \in Units |-> FALSE]
    /\ halt = [u \in Units |-> FALSE]
    /\ queue = [u \in Units |-> <<>>]
    /\ tdUtr = [u \in Units |-> None]
    /\ failed = {}
    /\ list = [k \in Kinds |-> {}]
    /\ removeList = <<>>
    /\ hwPipe = [e \in Eps |-> 0]
    /\ alive = [r \in Utrs |-> FALSE]
    /\ utrEp = [r \in Utrs |-> None]
    /\ tdCnt = [r \in Utrs |-> 0]
    /\ status = [r \in Utrs |-> "ok"]
    /\ done = [r \in Utrs |-> FALSE]
    /\ hcEd = 0 /\ hcDone = <<>> /\ hccaDone = <<>>
    /\ wdh = FALSE /\ sf = TRUE /\ sfEn = FALSE
    /\ ipc = "idle" /\ isrWdh = FALSE /\ work = <<>>
    /\ mpc = "idle" /\ mu = None /\ mep = None /\ mtds = <<>>
    /\ med = 0 /\ mn = 0 /\ frames = 0
    /\ slot = [e \in Eps |-> None]

-----------------------------------------------------------------------------
(* The unit pool.  alloc_ohci_ED and alloc_ohci_TD take the first free unit. *)

IsFirstFree(us, u) == ~us[u] /\ \A v \in Units : v < u => us[v]

FirstFree(us) ==
    IF \E u \in Units : IsFirstFree(us, u)
    THEN CHOOSE u \in Units : IsFirstFree(us, u)
    ELSE 0

MutTaken(us, u) == us                       \* the flag is not set
Taken(us, u) == [v \in Units |-> us[v] \/ v = u]

\* free_ohci_ED and free_ohci_TD of every unit in S; a null is ignored.  The
\* memset of the next alloc is done here: nobody may look at a unit in between
\* (ReachableAllocated).
FreeUnits(S) ==
    /\ used' = [u \in Units |-> used[u] /\ u \notin S]
    /\ info' = [u \in Units |-> IF u \in S THEN None ELSE info[u]]
    /\ skip' = [u \in Units |-> skip[u] /\ u \notin S]
    /\ halt' = [u \in Units |-> halt[u] /\ u \notin S]
    /\ queue' = [u \in Units |-> IF u \in S THEN <<>> ELSE queue[u]]
    /\ tdUtr' = [u \in Units |-> IF u \in S THEN None ELSE tdUtr[u]]
    /\ failed' = failed \ S

\* The ED an endpoint is found by: its Info matches, so it is not ED_SKIPped.
EdOf(e) == {u \in list[Kind[e]] : info[u] = e /\ ~skip[u]}

Linked(u) == \E k \in Kinds : u \in list[k]

-----------------------------------------------------------------------------
(* The controller.                                                         *)

\* An interrupt ED's last TD is the dummy TailP points to.  What the controller
\* does on a freed unit is not followed up: LinkedEdsAllocated says it has none.
HasWork(u) ==
    /\ info[u] # None
    /\ Len(queue[u]) > IF Kind[info[u]] = "int" THEN 1 ELSE 0

HcFetch ==
    /\ hcEd = 0
    /\ \E u \in Units :
          /\ Linked(u) /\ ~skip[u] /\ ~halt[u] /\ HasWork(u)
          /\ hcEd' = u
    /\ UNCHANGED <<mem, links, utrs, hcDone, hccaDone, wdh, sf, sfEn, isr, main>>

\* The device answers NAK: the TD stays where it is.
HcNak ==
    /\ hcEd # 0
    /\ hcEd' = 0
    /\ UNCHANGED <<mem, links, utrs, hcDone, hccaDone, wdh, sf, sfEn, isr, main>>

\* The head TD is retired, with an error the ED halts as well.
HcRetire ==
    /\ hcEd # 0 /\ queue[hcEd] # <<>>
    /\ \E err \in BOOLEAN :
          /\ halt' = [halt EXCEPT ![hcEd] = err]
          /\ failed' = IF err THEN failed \cup {Head(queue[hcEd])}
                              ELSE failed \ {Head(queue[hcEd])}
    /\ hcDone' = <<Head(queue[hcEd])>> \o hcDone
    /\ queue' = [queue EXCEPT ![hcEd] = Tail(@)]
    /\ hcEd' = 0
    /\ UNCHANGED <<used, info, skip, tdUtr, links, utrs, hccaDone, wdh, sf, sfEn,
                   isr, main>>

\* A frame begins between two transactions: SF, and the done queue is handed
\* over unless the driver still owes the acknowledgement of the last one.
HcFrame ==
    /\ hcEd = 0
    /\ sf' = TRUE
    /\ frames' = IF mpc = "delay" /\ frames < DelayFrames THEN frames + 1 ELSE frames
    /\ IF ~wdh /\ hcDone # <<>>
       THEN wdh' = TRUE /\ hccaDone' = hcDone /\ hcDone' = <<>>
       ELSE UNCHANGED <<wdh, hccaDone, hcDone>>
    /\ UNCHANGED <<mem, links, utrs, hcEd, sfEn, isr, mpc, mu, mep, mtds, med, mn, slot>>

-----------------------------------------------------------------------------
(* ohci_int_xfer, called by Main and, from a class driver's callback, by   *)
(* the ISR.  The TD that is filled is the dummy the queue ends in; td_new  *)
(* becomes the dummy.                                                      *)

IntNew     == FirstFree(used)                          \* td_new
IntNewEd   == FirstFree(Taken(used, IntNew))           \* a new ED ...
IntNewTd   == FirstFree(Taken(Taken(used, IntNew), IntNewEd))  \* ... and its dummy

\* Each failure is an early return; without an ED to allocate td_new is lost.
IntXferFails(e) ==
    \/ IntNew = 0
    \/ EdOf(e) = {} /\ (IntNewEd = 0 \/ IntNewTd = 0)

IntXferFail(e) ==
    /\ used' = IF IntNew # 0 /\ IntNewEd = 0 THEN Taken(used, IntNew) ELSE used
    /\ UNCHANGED <<info, skip, halt, queue, tdUtr, list, hwPipe>>

IntXferOk(r, e) ==
    IF EdOf(e) # {}
    THEN LET ed == CHOOSE u \in EdOf(e) : TRUE
             td == queue[ed][Len(queue[ed])]
         IN  /\ used' = Taken(used, IntNew)
             /\ queue' = [queue EXCEPT ![ed] = Append(@, IntNew)]
             /\ tdUtr' = [tdUtr EXCEPT ![td] = r]
             /\ hwPipe' = [hwPipe EXCEPT ![e] = ed]
             /\ UNCHANGED <<info, skip, halt, list>>
    ELSE /\ used' = Taken(Taken(Taken(used, IntNew), IntNewEd), IntNewTd)
         /\ info' = [info EXCEPT ![IntNewEd] = e]
         /\ queue' = [queue EXCEPT ![IntNewEd] = <<IntNewTd, IntNew>>]
         /\ tdUtr' = [tdUtr EXCEPT ![IntNewTd] = r]
         /\ hwPipe' = [hwPipe EXCEPT ![e] = IntNewEd]
         /\ list' = [list EXCEPT !["int"] = @ \cup {IntNewEd}]
         /\ UNCHANGED <<skip, halt>>

-----------------------------------------------------------------------------
(* OHCI_IRQHandler.                                                        *)

IrqPending == (sfEn /\ sf) \/ wdh

\* int_sts is read once; the SF branch disables SF before it runs remove_ed.
IsrEnter ==
    /\ ipc = "idle" /\ IrqPending
    /\ isrWdh' = wdh
    /\ IF sfEn /\ sf THEN ipc' = "remove" /\ sfEn' = FALSE
                     ELSE ipc' = "wdh" /\ UNCHANGED sfEn
    /\ UNCHANGED <<mem, links, utrs, hcEd, hcDone, hccaDone, wdh, sf, work, main>>

\* TDs of request r queued under an ED.
TdsUnder(ed, r) == {i \in DOMAIN queue[ed] : tdUtr[queue[ed][i]] = r}

\* What remove_ed leaves of r's td_cnt once the TDs under ed are freed.
MutCntAfterRemove(ed, r) == tdCnt[r]
CntAfterRemove(ed, r) ==
    LET n == Cardinality(TdsUnder(ed, r))
    IN  IF tdCnt[r] > n THEN tdCnt[r] - n ELSE 0

MutUnlinked(ed) == list
Unlinked(ed) == [list EXCEPT ![Kind[info[ed]]] = @ \ {ed}]

MutUnitsUnder(ed) == {ed}                   \* the TDs are not reclaimed
UnitsUnder(ed) == Range(queue[ed]) \cup {ed}

\* One turn of remove_ed's loop.  A request that loses its last TD ends with
\* ABORT; its callback returns at once on that status (hid_read_irq,
\* hub_status_irq).  TDs of an ED found on no list are not reclaimed.
RemoveEd ==
    /\ ipc = "remove" /\ removeList # <<>>
    /\ LET ed == Head(removeList)
       IN  IF ed \in list[Kind[info[ed]]]
           THEN /\ list' = Unlinked(ed)
                /\ FreeUnits(UnitsUnder(ed))
                /\ tdCnt' = [r \in Utrs |-> CntAfterRemove(ed, r)]
                /\ status' = [r \in Utrs |->
                      IF tdCnt[r] > 0 /\ CntAfterRemove(ed, r) = 0
                      THEN "abort" ELSE status[r]]
                /\ done' = [r \in Utrs |->
                      done[r] \/ (tdCnt[r] > 0 /\ CntAfterRemove(ed, r) = 0)]
           ELSE /\ FreeUnits({ed})
                /\ UNCHANGED <<list, tdCnt, status, done>>
    /\ removeList' = Tail(removeList)
    /\ UNCHANGED <<hwPipe, alive, utrEp, hc, isr, main>>

RemoveDone ==
    /\ ipc = "remove" /\ removeList = <<>>
    /\ sf' = FALSE
    /\ ipc' = IF isrWdh THEN "wdh" ELSE "idle"
    /\ UNCHANGED <<mem, links, utrs, hcEd, hcDone, hccaDone, wdh, sfEn, isrWdh, work, main>>

\* The done list is taken, acknowledged and put into completion order.
TakeDoneList ==
    /\ ipc = "wdh"
    /\ work' = Reverse(hccaDone)
    /\ hccaDone' = <<>>
    /\ wdh' = FALSE
    /\ ipc' = "td_done"
    /\ UNCHANGED <<mem, links, utrs, hcEd, hcDone, sf, sfEn, isrWdh, main>>

\* The part of td_done before the callback.
TdDoneCount(td, r) ==
    /\ tdCnt' = [tdCnt EXCEPT ![r] = @ - 1]
    /\ status' = IF td \in failed THEN [status EXCEPT ![r] = "error"] ELSE status
    /\ done' = [done EXCEPT ![r] = @ \/ tdCnt[r] = 1]

\* A TD always belongs to a request here: the driver faults on a null TD before
\* it can be queued.
CallsResubmit(td, r) ==
    /\ td # 0 /\ r # None
    /\ tdCnt[r] = 1
    /\ utrEp[r] \in Resubmits
    /\ status[r] = "ok" /\ td \notin failed

\* td_done for a TD whose request has no callback that submits again.
TdDone ==
    /\ ipc = "td_done" /\ work # <<>>
    /\ LET td == Head(work)
           r  == tdUtr[td]
       IN  ~CallsResubmit(td, r) /\ TdDoneCount(td, r)
    /\ ipc' = "td_free"
    /\ UNCHANGED <<mem, links, alive, utrEp, hc, isrWdh, work, main>>

\* td_done whose callback is hid_read_irq and resubmits the same request; when
\* that fails the callback frees the request.
TdDoneResubmit ==
    /\ ipc = "td_done" /\ work # <<>>
    /\ LET td == Head(work)
           r  == tdUtr[td]
           e  == utrEp[r]
       IN  /\ CallsResubmit(td, r)
           /\ done' = [done EXCEPT ![r] = TRUE]
           /\ IF IntXferFails(e)
              THEN /\ IntXferFail(e)
                   /\ alive' = [alive EXCEPT ![r] = FALSE]
                   /\ tdCnt' = [tdCnt EXCEPT ![r] = 0]
              ELSE /\ IntXferOk(r, e)
                   /\ tdCnt' = [tdCnt EXCEPT ![r] = 1]
                   /\ UNCHANGED alive
    /\ ipc' = "td_free"
    /\ UNCHANGED <<failed, removeList, utrEp, status, hc, isrWdh, work, main>>

MutReclaimed == {}
Reclaimed == {Head(work)}

TdFree ==
    /\ ipc = "td_free"
    /\ FreeUnits(Reclaimed)
    /\ work' = Tail(work)
    /\ ipc' = "td_done"
    /\ UNCHANGED <<links, utrs, hc, isrWdh, main>>

\* The last write acknowledges what int_sts still holds.  Of the modelled bits
\* that can only be an SF that is not enabled, which ArmSf drops as well.
IsrExit ==
    /\ ipc = "td_done" /\ work = <<>>
    /\ ipc' = "idle" /\ isrWdh' = FALSE
    /\ UNCHANGED <<mem, links, utrs, hc, work, main>>

-----------------------------------------------------------------------------
(* Main: one library call at a time, preempted by the ISR.                 *)

MainTurn == ipc = "idle" /\ ~IrqPending

SyncUnch == UNCHANGED <<slot, frames, hc, isr>>

\* usbh_ctrl_xfer and msc_bulk_transfer up to the submission; n is the number
\* of TDs the request needs: SETUP, [DATA,] STATUS, or its 4096-byte pieces.
XferBegin ==
    /\ MainTurn /\ mpc = "idle"
    /\ \E e \in Eps, r \in Utrs :
          /\ ~alive[r] /\ Kind[e] # "int"
          /\ alive' = [alive EXCEPT ![r] = TRUE]
          /\ utrEp' = [utrEp EXCEPT ![r] = e]
          /\ mu' = r /\ mep' = e
          /\ \/ /\ Kind[e] = "ctrl"
                /\ mpc' = "ctrl_td" /\ mn' \in {2, 3}
             \/ /\ Kind[e] = "bulk"
                /\ mpc' = "bulk_ed" /\ mn' \in BulkTds
    /\ UNCHANGED <<mem, links, tdCnt, status, done, mtds, med>> /\ SyncUnch

\* The client returns; the requests in S are back in their pool (and cleared
\* here, as alloc_utr does).
Return(S) ==
    /\ alive' = [r \in Utrs |-> alive[r] /\ r \notin S]
    /\ utrEp' = [r \in Utrs |-> IF r \in S THEN None ELSE utrEp[r]]
    /\ tdCnt' = [r \in Utrs |-> IF r \in S THEN 0 ELSE tdCnt[r]]
    /\ status' = [r \in Utrs |-> IF r \in S THEN "ok" ELSE status[r]]
    /\ done' = [r \in Utrs |-> done[r] /\ r \notin S]
    /\ mpc' = "idle" /\ mu' = None /\ mep' = None
    /\ mtds' = <<>> /\ med' = 0 /\ mn' = 0

\* The client's reaction to a submission that returns < 0.  usbh_ctrl_xfer
\* forgets the pipe and frees the request; msc_bulk_transfer just returns.
SubmitFails ==
    IF Kind[mep] = "ctrl"
    THEN hwPipe' = [hwPipe EXCEPT ![mep] = 0] /\ Return({mu})
    ELSE hwPipe' = hwPipe /\ Return({})

\* ohci_ctrl_xfer: the TDs are allocated one by one, a null is only noticed in
\* the last.
CtrlAllocTd ==
    /\ MainTurn /\ mpc = "ctrl_td" /\ Len(mtds) < mn
    /\ LET u == FirstFree(used)
       IN  /\ used' = IF u = 0 THEN used ELSE Taken(used, u)
           /\ tdUtr' = IF u = 0 THEN tdUtr ELSE [tdUtr EXCEPT ![u] = mu]
           /\ mtds' = Append(mtds, u)
    /\ UNCHANGED <<info, skip, halt, queue, failed, links, utrs, mpc, mu, mep, med, mn>>
    /\ SyncUnch

CtrlEd ==
    /\ MainTurn /\ mpc = "ctrl_td" /\ Len(mtds) = mn
    /\ LET u == FirstFree(used)
           new == hwPipe[mep] = 0
       IN  IF mtds[mn] = 0 \/ (new /\ u = 0)
           THEN /\ FreeUnits(Range(mtds))
                /\ SubmitFails
           ELSE /\ used' = IF new THEN Taken(used, u) ELSE used
                /\ med' = IF new THEN u ELSE hwPipe[mep]
                /\ mpc' = "ctrl_link"
                /\ UNCHANGED <<info, skip, halt, queue, tdUtr, failed, hwPipe, utrs,
                               mu, mep, mtds, mn>>
    /\ UNCHANGED <<list, removeList>>
    /\ SyncUnch

MutCtrlTdCnt == mn - 1                      \* the STATUS stage is not counted
CtrlTdCnt == mn

\* The ED is filled and becomes the whole control list.
CtrlLink ==
    /\ MainTurn /\ mpc = "ctrl_link"
    /\ info' = [info EXCEPT ![med] = mep]
    /\ skip' = [skip EXCEPT ![med] = FALSE]
    /\ halt' = [halt EXCEPT ![med] = FALSE]
    /\ queue' = [queue EXCEPT ![med] = mtds]
    /\ tdCnt' = [tdCnt EXCEPT ![mu] = CtrlTdCnt]
    /\ hwPipe' = [hwPipe EXCEPT ![mep] = med]
    /\ list' = [list EXCEPT !["ctrl"] = {med}]
    /\ mtds' = <<>> /\ med' = 0 /\ mn' = 0
    /\ mpc' = "wait"
    /\ UNCHANGED <<used, tdUtr, failed, removeList, alive, utrEp, status, done, mu, mep>>
    /\ SyncUnch

\* ohci_bulk_xfer up to its loop.
BulkEd ==
    /\ MainTurn /\ mpc = "bulk_ed"
    /\ LET u == FirstFree(used)
       IN  \/ /\ \/ \E ed \in EdOf(mep) : queue[ed] # <<>>     \* EP_BUSY
                 \/ EdOf(mep) = {} /\ u = 0                    \* MEMORY_OUT
              /\ SubmitFails
              /\ UNCHANGED <<used, info>>
           \/ /\ EdOf(mep) = {} /\ u # 0
              /\ used' = Taken(used, u)
              /\ info' = [info EXCEPT ![u] = mep]
              /\ hwPipe' = [hwPipe EXCEPT ![mep] = u]
              /\ med' = u /\ mpc' = "bulk_td"
              /\ UNCHANGED <<utrs, mu, mep, mtds, mn>>
           \/ \E ed \in EdOf(mep) :
              /\ queue[ed] = <<>>
              /\ hwPipe' = [hwPipe EXCEPT ![mep] = ed]
              /\ med' = ed /\ mpc' = "bulk_td"
              /\ UNCHANGED <<used, info, utrs, mu, mep, mtds, mn>>
    /\ UNCHANGED <<skip, halt, queue, tdUtr, failed, list, removeList>>
    /\ SyncUnch

BulkAllocTd ==
    /\ MainTurn /\ mpc = "bulk_td" /\ Len(mtds) < mn /\ FirstFree(used) # 0
    /\ LET u == FirstFree(used)
       IN  /\ used' = Taken(used, u)
           /\ tdUtr' = [tdUtr EXCEPT ![u] = mu]
           /\ mtds' = Append(mtds, u)
    /\ tdCnt' = [tdCnt EXCEPT ![mu] = @ + 1]
    /\ UNCHANGED <<info, skip, halt, queue, failed, links, alive, utrEp, status, done,
                   mpc, mu, mep, med, mn>>
    /\ SyncUnch

\* "mem_out": the TDs go back and so does the ED, new or not.
BulkMemOut ==
    /\ MainTurn /\ mpc = "bulk_td" /\ Len(mtds) < mn /\ FirstFree(used) = 0
    /\ FreeUnits(Range(mtds) \cup {med})
    /\ SubmitFails
    /\ UNCHANGED <<list, removeList>>
    /\ SyncUnch

BulkLink ==
    /\ MainTurn /\ mpc = "bulk_td" /\ Len(mtds) = mn
    /\ queue' = [queue EXCEPT ![med] = mtds]
    /\ halt' = [halt EXCEPT ![med] = FALSE]
    /\ list' = [list EXCEPT !["bulk"] = @ \cup {med}]
    /\ mtds' = <<>> /\ med' = 0 /\ mn' = 0
    /\ mpc' = "wait"
    /\ UNCHANGED <<used, info, skip, tdUtr, failed, removeList, hwPipe, utrs, mu, mep>>
    /\ SyncUnch

\* The client polls bIsTransferDone ...
WaitDone ==
    /\ MainTurn /\ mpc = "wait" /\ done[mu]
    /\ Return({mu})
    /\ UNCHANGED <<mem, links>> /\ SyncUnch

\* ... and gives up after its timeout.
MutTimedOut == FALSE
TimedOut == ~done[mu]

WaitTimeout ==
    /\ MainTurn /\ mpc = "wait" /\ TimedOut
    /\ mpc' = "quit"
    /\ UNCHANGED <<mem, links, utrs, mu, mep, mtds, med, mn>> /\ SyncUnch

\* A pipe without a request of its own is quit when its device goes away
\* (disconnect_device, msc_disconnect), whether it was ever used or not.
QuitEp ==
    /\ MainTurn /\ mpc = "idle"
    /\ \E e \in Stoppable :
          /\ Kind[e] # "int"
          /\ mep' = e /\ mpc' = "quit"
    /\ UNCHANGED <<mem, links, utrs, mu, mtds, med, mn>> /\ SyncUnch

\* hub_probe, usbh_hid_start_int_read: a failed submission frees the request.
IntStart ==
    /\ MainTurn /\ mpc = "idle"
    /\ \E e \in Eps, r \in Utrs :
          /\ Kind[e] = "int" /\ slot[e] = None /\ ~alive[r]
          /\ IF IntXferFails(e)
             THEN IntXferFail(e) /\ UNCHANGED <<alive, utrEp, tdCnt, slot>>
             ELSE /\ IntXferOk(r, e)
                  /\ alive' = [alive EXCEPT ![r] = TRUE]
                  /\ utrEp' = [utrEp EXCEPT ![r] = e]
                  /\ tdCnt' = [tdCnt EXCEPT ![r] = 1]
                  /\ slot' = [slot EXCEPT ![e] = r]
    /\ UNCHANGED <<failed, removeList, status, done, hc, isr, mpc, mu, mep, mtds, med,
                   mn, frames>>

\* hub_polling submits the request again once its completion was handled.
HubResubmit ==
    /\ MainTurn /\ mpc = "idle"
    /\ \E e \in Eps \ Resubmits :
          LET r == slot[e]
          IN  /\ Kind[e] = "int" /\ r # None
              /\ done[r] /\ tdCnt[r] = 0 /\ status[r] = "ok"
              /\ IF IntXferFails(e)
                 THEN IntXferFail(e) /\ UNCHANGED tdCnt
                 ELSE IntXferOk(r, e) /\ tdCnt' = [tdCnt EXCEPT ![r] = 1]
    /\ UNCHANGED <<failed, removeList, alive, utrEp, status, done, hc, isr, main>>

\* hub_disconnect, usbh_hid_stop_int_read.
IntStop ==
    /\ MainTurn /\ mpc = "idle"
    /\ \E e \in Stoppable :
          /\ Kind[e] = "int" /\ slot[e] # None
          /\ slot' = [slot EXCEPT ![e] = None]
          /\ mu' = slot[e] /\ mep' = e /\ mpc' = "quit"
    /\ UNCHANGED <<mem, links, utrs, mtds, med, mn, frames, hc, isr>>

MutNothingToQuit(ed) == ed \in Range(removeList)      \* no NULL check
NothingToQuit(ed) == ed = 0 \/ ed \in Range(removeList)

MutWithRemoved(ed) == removeList            \* skipped but not inserted
WithRemoved(ed) == <<ed>> \o removeList

\* ohci_quit_xfer and the masked part of add_to_ED_remove_list.
Quit ==
    /\ MainTurn /\ mpc = "quit"
    /\ LET ed == hwPipe[mep]
       IN  IF NothingToQuit(ed)
           THEN mpc' = "quit_done" /\ UNCHANGED <<skip, removeList>>
           ELSE /\ skip' = [skip EXCEPT ![ed] = TRUE]
                /\ removeList' = WithRemoved(ed)
                /\ mpc' = "arm"
    /\ UNCHANGED <<used, info, halt, queue, tdUtr, failed, list, hwPipe, utrs,
                   mu, mep, mtds, med, mn>>
    /\ SyncUnch

MutSfEnabled == sfEn                        \* SF is left disabled
SfEnabled == TRUE

\* A stale SF is dropped and the interrupt enabled before the delay.
ArmSf ==
    /\ MainTurn /\ mpc = "arm"
    /\ sf' = FALSE /\ sfEn' = SfEnabled
    /\ mpc' = "delay"
    /\ UNCHANGED <<mem, links, utrs, hcEd, hcDone, hccaDone, wdh, isr,
                   mu, mep, mtds, med, mn, frames, slot>>

\* delay_us(2000) is over.
MutDelayElapsed == TRUE
DelayElapsed == frames >= DelayFrames

DelayOver ==
    /\ MainTurn /\ mpc = "delay" /\ DelayElapsed
    /\ mpc' = "quit_done" /\ frames' = 0
    /\ UNCHANGED <<mem, links, utrs, mu, mep, mtds, med, mn, slot, hc, isr>>

\* The pipe is forgotten and the request freed.
QuitDone ==
    /\ MainTurn /\ mpc = "quit_done"
    /\ hwPipe' = [hwPipe EXCEPT ![mep] = 0]
    /\ Return({mu})
    /\ UNCHANGED <<mem, list, removeList>> /\ SyncUnch

-----------------------------------------------------------------------------
Hc == HcFetch \/ HcNak \/ HcRetire \/ HcFrame

Isr == IsrEnter \/ RemoveEd \/ RemoveDone \/ TakeDoneList \/ TdDone
       \/ TdDoneResubmit \/ TdFree \/ IsrExit

Main == XferBegin \/ CtrlAllocTd \/ CtrlEd \/ CtrlLink \/ BulkEd \/ BulkAllocTd
        \/ BulkMemOut \/ BulkLink \/ WaitDone \/ WaitTimeout \/ QuitEp
        \/ IntStart \/ HubResubmit \/ IntStop \/ Quit \/ ArmSf \/ DelayOver
        \/ QuitDone

Next == Hc \/ Isr \/ Main

Spec == Init /\ [][Next]_vars

\* The CPU runs the thread and serves an interrupt that is pending; the
\* controller ends every transaction it starts, and a frame begins every 1 ms
\* however busy the bus is.  Nothing makes the device answer.
Fairness ==
    /\ WF_vars(Main) /\ WF_vars(Isr)
    /\ WF_vars(HcNak \/ HcRetire) /\ SF_vars(HcFrame)

FairSpec == Spec /\ Fairness

-----------------------------------------------------------------------------
(* Properties.                                                             *)

\* Every variable keeps its type.
TypeOK ==
    /\ used \in [Units -> BOOLEAN]
    /\ info \in [Units -> Eps \cup {None}]
    /\ skip \in [Units -> BOOLEAN]
    /\ halt \in [Units -> BOOLEAN]
    /\ queue \in [Units -> Seq(Ptr)]
    /\ tdUtr \in [Units -> Utrs \cup {None}]
    /\ failed \subseteq Ptr
    /\ list \in [Kinds -> SUBSET Units]
    /\ removeList \in Seq(Units)
    /\ hwPipe \in [Eps -> Ptr]
    /\ alive \in [Utrs -> BOOLEAN]
    /\ utrEp \in [Utrs -> Eps \cup {None}]
    /\ tdCnt \in [Utrs -> Int]
    /\ status \in [Utrs -> {"ok", "error", "abort"}]
    /\ done \in [Utrs -> BOOLEAN]
    /\ hcEd \in Ptr
    /\ hcDone \in Seq(Ptr) /\ hccaDone \in Seq(Ptr) /\ work \in Seq(Ptr)
    /\ wdh \in BOOLEAN /\ sf \in BOOLEAN /\ sfEn \in BOOLEAN /\ isrWdh \in BOOLEAN
    /\ ipc \in {"idle", "remove", "wdh", "td_done", "td_free"}
    /\ mpc \in {"idle", "ctrl_td", "ctrl_link", "bulk_ed", "bulk_td", "wait",
               "quit", "arm", "delay", "quit_done"}
    /\ mu \in Utrs \cup {None} /\ mep \in Eps \cup {None}
    /\ mtds \in Seq(Ptr) /\ med \in Ptr /\ mn \in Nat /\ frames \in Nat
    /\ slot \in [Eps -> Utrs \cup {None}]

\* The pipes that are not being quit: ohci_quit_xfer only clears hw_pipe when
\* add_to_ED_remove_list is back, after the ISR has freed the ED.
SettledPipes ==
    {hwPipe[e] : e \in {f \in Eps : f = mep => mpc \notin {"arm", "delay", "quit_done"}}}

\* The EDs something still points to.
ActiveEds ==
    ({u \in Units : Linked(u)} \cup Range(removeList) \cup SettledPipes
        \cup {hcEd, med}) \ {0}

\* Every chain a TD can be on: Main's local list, the two done queues, what the
\* ISR has taken and not freed, and the queue of each active ED.
Places == ({"main", "hc", "hcca", "isr"} \X {0}) \cup ({"ed"} \X ActiveEds)
Chain(p) == CASE p[1] = "main" -> mtds
              [] p[1] = "hc"   -> hcDone
              [] p[1] = "hcca" -> hccaDone
              [] p[1] = "isr"  -> work
              [] p[1] = "ed"   -> queue[p[2]]
TdsOn(p) == Range(Chain(p))
LiveTds  == UNION {TdsOn(p) : p \in Places}

\* No unit that a list, a pipe, the controller or a chain of TDs still refers
\* to has gone back to the pool, where the next alloc would hand it out again.
ReachableAllocated ==
    \A u \in ActiveEds \cup LiveTds : u # 0 /\ used[u]

\* A TD is on one chain, once, and is not at the same time an ED: no frees
\* twice, and no chain is corrupted through another.
TdsExclusive ==
    /\ \A p, q \in Places : p # q => TdsOn(p) \cap TdsOn(q) = {}
    /\ \A p \in Places : Cardinality(TdsOn(p)) = Len(Chain(p))
    /\ LiveTds \cap ActiveEds = {}

\* As long as the pool is not exhausted every allocated unit is still known to
\* someone who will free it.
NoUnitLost == \A u \in Units : used[u] => u \in ActiveEds \cup LiveTds

\* Neither the controller nor the ISR can reach a request its owner has freed:
\* what the 2 ms in add_to_ED_remove_list are for.
NoFreedRequest ==
    \A t \in LiveTds : t # 0 /\ tdUtr[t] # None => alive[tdUtr[t]]

\* TDs of request r the controller has not retired or the ISR not yet counted.
Outstanding(r) ==
    {t \in UNION {TdsOn(p) : p \in {q \in Places : q[1] \notin {"main", "isr"}}} : tdUtr[t] = r}
    \cup {work[i] : i \in {j \in DOMAIN work :
                tdUtr[work[j]] = r /\ (ipc = "td_free" => j > 1)}}

\* td_cnt is the number of TDs still outstanding, so the callback comes exactly
\* when the last one is retired or removed.
TdCntExact ==
    \A r \in Utrs :
        (alive[r] /\ ~(r = mu /\ mpc \in {"ctrl_td", "ctrl_link", "bulk_td"}))
            => tdCnt[r] = Cardinality(Outstanding(r))

\* Whoever quits a pipe is held in add_to_ED_remove_list until the ISR has taken
\* the ED off the remove list: no call returns, and no request is freed, with a
\* removal still to come, and there is never more than one.
RemovedBeforeReturn ==
    /\ removeList # <<>> => mpc \in {"arm", "delay"}
    /\ Len(removeList) <= 1

\* Once a pipe was quit (its owner has the null pipe back) the controller has
\* no descriptor of that endpoint left to serve.
QuitIsFinal ==
    \A e \in Eps : mpc = "idle" /\ hwPipe[e] = 0
        => \A u \in list[Kind[e]] : info[u] # e

\* The client of a control or bulk request polls bIsTransferDone and then reads
\* the status: what it reads is final, no TD of the request comes in later.
ResultStable ==
    [][\A r \in Utrs :
          /\ alive[r] /\ alive'[r] /\ done[r]
          /\ Kind[utrEp[r]] # "int"
          => status'[r] = status[r] /\ tdCnt'[r] = tdCnt[r]]_vars

\* usb_core.c says of a submitted bulk or interrupt request that the stack calls
\* utr->func() once the transfer was done or aborted: a request the ISR has seen
\* fail is called back.
FailureIsReported ==
    \A r \in Utrs : alive[r] /\ status[r] = "error" /\ ipc = "idle" => done[r]

\* The bulk list only leads to allocated descriptors: what the cleanup
\* "free all allocated TDs and ED" of ohci_bulk_xfer may not touch.
LinkedEdsAllocated == \A u \in Units : Linked(u) => used[u]

\* A control or bulk call always returns, even from a device that never
\* answers or answers with errors.
CallsReturn == (mpc # "idle") ~> (mpc = "idle")

\* An ED put on the remove list is taken off it by a later start of frame.
RemovalHappens == (removeList # <<>>) ~> (removeList = <<>>)
=============================================================================
