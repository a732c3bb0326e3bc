# Verification of the M3351 BSP

TLA+ models, TLC configurations and TLAPS proofs for the program logic of this
board support package.  The code that is modelled is C for a Cortex-M without
an operating system: one thread, interrupt handlers that preempt it, and
peripherals that read and write the same memory.  What goes wrong in such code
goes wrong in an interleaving, so the models keep all of the control and reduce
the data to what the properties tell apart.

## 1. Inventory

| Component | State it keeps | Operations | Interacts with |
|---|---|---|---|
| OHCI driver, `UsbHostLib/src_core/ohci.c` | the lists of endpoint descriptors (ED) the controller walks, `ed_remove_list`, `_Ied[]`, the HCCA | `ohci_ctrl/bulk/int/iso_xfer`, `ohci_quit_xfer`, `ohci_rh_polling`, `OHCI_IRQHandler` (`remove_ed`, `td_done`) | the controller through memory and registers; the unit pool; the client through `utr->func` and `bIsTransferDone` |
| Pools, `src_core/mem_alloc.c` | `_hw_unit_used[]` for EDs and transfer descriptors (TD), `_dma_unit_used[]`, the device list, the address pool | `alloc/free_ohci_ED`, `alloc/free_ohci_TD`, `usbh_alloc/free_mem`, `alloc_utr`, `alloc_device`, `alloc_dev_address` | called by the thread and by the interrupt handler |
| USB core, `src_core/usb_core.c` | the device tree, the registered drivers, `udev->cur_conf`, `ep->hw_pipe` | `usbh_ctrl_xfer`, `connect_device`, `disconnect_device`, `usbh_reset_device`, `usbh_set_configuration`, `usbh_quit_utr` | OHCI driver below, class drivers above |
| Hub driver, `src_core/hub.c` | `g_hub_dev[]`, `sc_bitmap`, the polling mutex | `hub_probe`, `hub_status_irq`, `hub_polling`, `port_status_change`, `hub_disconnect` | interrupt pipe; enumerates and disconnects devices recursively |
| HID driver, `src_hid` | `utr_list[]` per device | `usbh_hid_start/stop_int_read/write`, `hid_read_irq`, report requests | interrupt pipe, resubmitted in interrupt context |
| Mass storage, `src_msc` | the command and status block per unit | `msc_bulk_transfer`, `do_scsi_command`, read, write, probe | bulk pipes; FatFs through `Storage/diskio_USBHost.c` |
| CDC, `src_cdc` | `rx_busy`, `sts_running` | bulk in/out, status pipe | bulk and interrupt pipes, callbacks |
| Audio, `src_uac` | the ring of isochronous requests per stream | start, stop, the completion callbacks | isochronous pipes |
| XMODEM, `Commu/xmodem.c` | packet number, retry counters, bytes moved | `XmodemSend`, `XmodemRecv` | a UART, the flash controller |
| Disk glue, `Storage/diskio_USBHost.c` | none of its own | `disk_initialize`, `disk_read`, `disk_write`, `disk_ioctl` | called by FatFs; polls the hubs and resets the disk |
| CMSIS USART, `Driver_USART_UART.c` | `tx_trans`, `rx_trans` (wanted, counted), PDMA channels, INTEN | `Send`, `Receive`, `GetTxCount`, `GetRxCount`, `GetStatus`, the UART and PDMA interrupts | UART, PDMA manager, event callback |
| Standard input and output, `CMSIS/Compiler` | `UART_StdOutBuf`, `UART_StdInBuf` | `stdout_putchar`, `stdin_getchar`, `UART_Event_Callback` | CMSIS USART |
| PDMA manager, `drv_pdma.c` | channel table, descriptor tables | channel and descriptor allocation, transfers, chains, `PDMA_IRQHandler` | CMSIS drivers |
| Other CMSIS drivers, `CMSIS/Driver/Source` | status and transfer info per port, PDMA channel tables | the CMSIS driver API and interrupt handlers | StdDriver |
| Standard drivers, `StdDriver/src` | mostly registers; `usbd.c` keeps the endpoint 0 transfer state | per peripheral | hardware |
| Crypto glue, LLSI library, startup, samples, tools | little or none | | |

`PROJECT.json` lists each with its status; third-party code (FatFs, FreeRTOS,
mbedTLS, the CMSIS core) is left aside.

### What is hard, and what makes each part correct

*OHCI driver and pools.*  Three actors work on the same descriptors: the
thread, the interrupt handler that preempts it, and the controller, which no
interrupt mask stops.  A descriptor is taken from the controller by setting its
skip bit and waiting for a start of frame, counted on a delay of 2 ms; a
completion may arrive in that very frame.  Correct means: nothing the
controller, the handler or a pipe can still reach is in the free pool; a TD is
on one chain only; no unit is lost; a request is called back once, when its
last TD is retired or removed; no request is freed under the controller; every
call returns.

*USB core, hub.*  Enumeration and disconnection nest (the hub polling runs
inside a device reset), a transfer may fail at each step, and the cleanup must
undo exactly what was done.  Correct means: device, address and pipes are
released once, a device reported as connected is configured, a hub goes on
reporting after a transient failure.

The polling enters itself: mounting a disk that was just connected calls
`disk_initialize`, which polls; a failed read resets the disk, which polls
twice.  What the outer call goes on to use, the inner one may free.

*USART and standard input and output.*  The buffer of `stdout_putchar` is read
by the interrupt handler or by the PDMA while the thread waits; INTEN is read
and written back by both sides; `GetTxCount` and `GetRxCount` read a
descriptor's count and store it in the structure the handler writes; the next
reception is started from inside the handler of the last.  Correct means:
reception never stops, a buffer is written only when nobody reads it any more,
characters come out once and in order, both calls return.

*Class drivers.*  Busy flags shared with callbacks, requests resubmitted from
the callback while the thread stops them.

*XMODEM.*  Two timeouts race over a half-duplex line; a lost acknowledgement
makes the sender repeat what the receiver has.  Correct means: the flash holds
the sender's packets in order and once each, all of them when the sender
reports success, and both calls return.

## 2. Plan

Built, in this order:

1. `OhciHcd` - OHCI driver, unit pool, controller and the three kinds of client;
   proofs in `OhciHcdProofs`, `OhciOwnProofs` and `OhciRequestProofs`.
2. `Xmodem` - sender, receiver and line, implementing the abstract
   `XmodemTransfer`; proofs in `XmodemProofs`.
3. `UsbTree` - the device tree: root port, hubs, enumeration, disconnection, disk
   mount and reset, with the polling that is entered again; proofs in
   `UsbTreeProofs` and `UsbTreeLinkProofs`.
4. `UsartStdio` - the CMSIS USART driver under standard input and output,
   implementing the abstract `Console`; proofs in `UsartStdioProofs` and
   `UsartStreamProofs`.

Left, in this order:

5. `HwPool` - the allocator with the scan, the test and the set as separate
   steps against an allocation in interrupt context, refining an atomic
   allocator; the DMA pool's multi-unit search against a reference.
6. `MscBot` - the phases of a bulk-only command and their recovery; `CdcRx`;
   `UacStream` with `ohci_iso_xfer`.
7. `PdmaChannels` - descriptor chains, channel allocation; the endpoint 0 handler
   of `usbd.c`; the SPI and I2C drivers with their aborts.

Abstract specifications: a reliable in-order transfer (2), the console (4), both
built; the atomic allocator (5).  Every safety property that a passing run checks
is a theorem but one, the action property `TakenOnlyWhenGone` of `UsbTree`.  Worth
proving next are that one and that the modules to come implement their abstract
specifications.

## 3. What is modelled

### OhciHcd

| Code | Model |
|---|---|
| units of `_hw_mem_pool`, `_hw_unit_used` | `Units`, `used`; the six static EDs are left out |
| `ED.Info`, `ED_SKIP`, halt bit, the TD chain from `HeadP` | `info`, `skip`, `halt`, `queue` |
| control list, bulk list, interrupt tree | `list["ctrl" / "bulk" / "int"]`, as sets: the order in which the controller visits EDs is arbitrary |
| `ed_remove_list`, `ep->hw_pipe` | `removeList`, `hwPipe` |
| UTR: allocated, `ep`, `td_cnt`, `status`, `bIsTransferDone` | `alive`, `utrEp`, `tdCnt`, `status`, `done` |
| HcDoneHead, `hcca.done_head`, WDH, SF, SF enable | `hcDone`, `hccaDone`, `wdh`, `sf`, `sfEn` |
| `OHCI_IRQHandler` | `ipc` and the actions `IsrEnter`, `RemoveEd`, `RemoveDone`, `TakeDoneList`, `TdDone`, `TdDoneResubmit`, `TdFree`, `IsrExit` |
| the thread, inside `usbh_ctrl_xfer`, `msc_bulk_transfer`, `usbh_hid_stop_int_read`, `hub_disconnect`, ... | `mpc` and the actions of `Main` |

The thread's steps are cut where an interrupt or the controller can see the
difference: between two allocations, before the ED is linked, between the
insertion into the remove list, the arming of SF and the end of the delay.  A
region under `DISABLE_OHCI_IRQ` is one step.  While an enabled interrupt is
pending or being served `Main` is disabled (`MainTurn`); the controller never
is.  The controller may take any TD at the head of an ED that is linked, not
skipped and not halted, keep it for a while, and retire it well, retire it with
an error, or leave it (NAK).  It hands its done queue over at a frame only when
the last one was acknowledged.

Simplifications: the fields of a freed unit are cleared when it is freed, not
when it is next allocated (`ReachableAllocated` says nobody looks in between);
allocation is one step here although the code tests and sets the flag in two
(planned as `HwPool`); addresses, data, toggles and lengths are left out, a
bulk request needs one TD per 4096 bytes (`BulkTds`).

Clients: `XferBegin` to `WaitTimeout` are `usbh_ctrl_xfer` and
`msc_bulk_transfer`, with the timeout possible at any moment; `IntStart`,
`IntStop` and `HubResubmit` are the owners of an interrupt pipe; `Resubmits`
names the pipes whose callback submits again from interrupt context
(`hid_read_irq`); `QuitEp` is the disconnection of a device whose pipe is idle.

### Xmodem

| Code | Model |
|---|---|
| the bytes between the two UARTs and in their FIFOs | `toS`, `toR`: queues of control characters and whole packets |
| `XmodemSend`: position, `i32Retry`, `i32Len`, result | `spc`, `stry`, `slen`, `sres` and the actions of `Sender` |
| `XmodemRecv`: position, `i32Idx`, `cTryChar`, `u8PacketNo`, result | `rpc`, `rtry`, `started`, `rno`, `rres` and the actions of `Receiver` |
| flash programmed by `XMD_Write8Bytes`, `i32Err` | `flash`, `rerr` |

One action is the code from one `XMD_getc` to the next.  `XMD_putc` may lose
the character (`Put`: its own time-out, or the line) or deliver one that means
nothing.  A packet may be lost, arrive with a damaged number or a failing
check, be cut short, or lose its SOH; then `XmodemRecv` reads its data as
characters (`RStray`) and any of them may be EOT, CAN or a start character.  A
receiver that waits for missing bytes takes them from what comes next
(`RShortFill`).  CRC errors are always detected.  `XmodemSend` only sends
128-byte packets with CRC to this receiver, so 1024-byte packets and checksums
are left out; `i32Retrans` of the receiver is set just before it is tested, so
that test never succeeds and is left out too.

`XmodemTransfer` is the promise: packets are stored in order and once; the
sender reports success only when the flash holds all there was room for and
the receiver has returned.  It does not promise that the receiver reports
success as well: TLC showed that a loose byte of a repeated, headless packet
can end the receiver as a cancel while its ACK ends the sender well.

### UsbTree

| Code | Model |
|---|---|
| what is plugged in, the address and the configuration a device has, the ports' connect status change bits | `kind`, `paddr`, `conf`, `chg` (external: hardware) |
| `g_udev_list`, `UDEV_T` | `list`, `udev` |
| `g_hub_dev[]` (`iface`, `pos_id`, `bNbrPorts`, `sc_bitmap`, status request) | `hub` |
| `_dev_addr_pool`, `_device_addr` | `pool`, `cursor` |
| the FatFs drives of `msc_driver.c`, `udev->iface_list` | `drive`, `bound` |
| `_hub_polling_mutex` | `mutex` |
| the C call stack and the value returned | `stk`, `ret` |
| `ohci_rh_polling` | `RootPoll` to `RootDone` |
| `hub_polling`, `port_status_change`, `port_connect_change` | `HubsEnter` to `HubResubmit` |
| `connect_device` and the probes | `Connect` to `Mounted` |
| `disconnect_device`, `hub_disconnect`, `msc_disconnect` | `Disconnect`, `DisconnectKids` |
| `usbh_umas_reset_disk`, `usbh_reset_device` | `AppRead`, `ResetFind`, `ResetUnbind`, `ResetAddress` |
| `hub_status_irq` | `HubStatus`, `HubStatusError` |

A frame of `stk` is a place with the device, hub slot, port and drive that call
holds in its local variables.  A port is the sequence of port numbers from the
root.  A request succeeds when the device is there and answers at the address
the library uses (`Answers`) and, for an endpoint other than 0, was sent
SET_CONFIGURATION (`Serves`); it fails otherwise, or as one of the `Faults`.

The person plugs and unplugs at any point of any call, and the application reads
any drive that is in use, whatever has become of its disk.  So the polling inside
a mount or a reset may free the very device that the call around it goes on to
use, as the code lets it (`usb_core.c:1206`, `msc_driver.c:578`).  The model
follows such a call up to that use and no further: when a device is freed
(`ReturnFreed`), the calls that wait and still have it are marked `"stale"`
(`Uses`, `Marked`), everything inside them runs to its end, and the behaviour ends
when the stale call would go on, because C gives no meaning to what it does.  The
safety properties hold in all of these states too.

`disturbed` is a history variable: the ports at which, or above which, something
was plugged or unplugged while a call was connecting or resetting a device there.
No action of the program reads it.  Two properties do, because the code goes
wrong at such ports:

- It takes away a device for the change that the device was plugged in with,
  when that comes after the change was cleared, and a disk is then freed inside
  its own mount: `TakenOnlyWhenGone` excuses a disturbed port.
- A plug between the reading of a hub's port as empty and the clearing of its
  change loses the event (`hub.c:602`), and a reset at the root port of a disk just
  pulled clears the change that tells of it (`ohci.c:1016`), so the disk stays
  listed: `Settles` promises nothing of a disturbed port.

Coarser than the code are the port resets, which either reach the port or fail
before they change anything (in `do_port_reset` a request after the reset may
fail, and the time of the reset may run out).  A configuration that fails to
parse after its probes succeeded is left out, and so is running out of memory but
for devices (`NUdevs`), hub slots and drives.  The run has devices and slots enough;
it runs out of drives when a mount keeps that of a disk that was freed.  The
proofs cover all three.

### UsartStdio and Console

| Code | Model |
|---|---|
| `pdma_tx_chan_id`, `pdma_rx_chan_id` | `tmode`, `rmode`: "irq" or "pdma" |
| INTEN and the thread's copy of it | `inten`, `reg` |
| the FIFOs, the line, the PDMA engine | `txfifo`, `rxfifo`, `LineOut`, `LineIn`, `DmaOut`, `DmaIn` |
| `tx_trans.num`, `.cnt`, the descriptor's count, its done flag | `tnum`, `tcnt`, `tleft`, `ttd` |
| `rx_trans.cnt`, the descriptor's count, its done flag | `rcnt`, `rleft`, `rtd` |
| `UART_StdOutBuf`, `UART_StdInBuf` (`buf`, `cnt`) | `obuf`, `oidx`; `ibuf`, `icnt`; its `idx` is `Len(got)` |
| `UARTn_IRQHandler`, `PDMA_TX_CB_Handler`, `PDMA_RX_CB_Handler` with the `Receive` that `UART_Event_Callback` calls | `UARTn_IRQHandler`, `PdmaTxDone`, `PdmaRxDone`, `Drained` |
| the thread in `stdout_putchar` or `stdin_getchar` | `tpc` and the actions of `Thread` |

The thread is cut at each read and each write of what an interrupt handler or
the PDMA changes: INTEN is read and written back in two steps, a count is read
and stored in two.  Both interrupts have the same priority, so one handler is
one step up to `UART_WAIT_TX_EMPTY` (`isr = "drain"`), during which the line and
the PDMA go on.  The two versions of `stdout_putchar` (`stdio_cmsis_uart.c` and
the example `stdout_USART.c`) differ in what they wait for: `WriteInten`
chooses.

`Console` is the promise: what is put comes out once and in order, and so does
what comes in, until the line takes a liberty: a character behind the end of a
reception or into a full FIFO ("burst"), a reception that ends while
`stdin_getchar` counts ("late"), a line further ahead of the reader than the
buffer is long ("lag").  All of them are in the run, which shows that output and
the reception's arming do not suffer from them; what they do to the input is
open in `Console` (`Misread`), and `UsartBurst` shows one of them.

## 4. Runs

The Ohci runs are over `MCOhciHcd`; `c1`, `c2` are endpoints 0 of two devices,
`b1` a bulk pipe, `i1` an interrupt pipe.  The others are over `MCXmodem`,
`MCUsbTree` and `MCUsartStdio`.

| Run | Instance | Shows |
|---|---|---|
| `OhciSync` | c1, c2, b1; one request at a time; 6 units | every safety property for control and bulk transfers that complete, fail, time out at any point or are quit |
| `OhciHub` | b1 and a stoppable i1, resubmitted by the thread; 6 units | no unit lost, no freed request in use and a quit that is final, with an interrupt pipe and requests of two TDs |
| `OhciHid` | b1 and an i1 that resubmits from its callback; requests of one or two TDs, 8 units | ownership while the interrupt handler allocates |
| `OhciTight` | a pool too small for most submissions, under `FairSpec` | the error paths free what they took and nothing else; every call returns, every removal happens |
| `OhciHidStop`, `OhciMemOut`, `OhciBulkError` | small instances | the findings below |
| `XmodemLine` | three packets, room for two, numbers that wrap, everything the line can do, programming that may fail, under `FairSpec` | order, at most one packet between the two ends, the refinement of `XmodemTransfer`, both calls return |
| `XmodemFlash` | a line that only damages packets, programming that may fail | the finding below |
| `UsbTree` | a root port for a hub or a disk, two ports below, one of them for a second hub with one port; five plugs and unplugs, one read that fails, one unanswered request; under `FairSpec` | slots, addresses, drives and list agree, also after a device was freed under a waiting call; that happens only to a device that is gone or whose port was disturbed; the library ends up with what is plugged in at the other ports; every poll returns |
| `UsartStdio` | four combinations of interrupts and PDMA, buffers and FIFOs of two, four characters out, five in, every liberty; under `FairSpec` | reception stays armed, the output buffer is left alone between sends, the refinement of `Console`, both calls return |
| `UsartBurst` | the same with "burst" only | the finding below |

Bounds.  `Utrs` bounds the requests alive at once: the library's clients wait
for each control or bulk request, so one plus one per interrupt pipe is what can
happen.  `NUnits` is large enough in `OhciSync`, `OhciHub` and `OhciHid` that no
allocation fails, and too small in `OhciTight` and the out-of-memory runs.
`BulkTds` up to two TDs gives a first, a last and a retired-in-part request.
`DelayFrames` is two: the frames that begin in 2 ms at full speed.

In the Xmodem runs `NoMod` is two for 256: `NeverTwoApart` is what makes the
modulus enough, and two is the hardest case.  The limits of the waiting loops
(1536, 160, 25 and 10 in the code) are two: a try that is repeated and a last
one.  They also bound the queues, no other bound does.

In `UsbTree`, `MaxAddr` is four for 127 and equal to the number of devices, so
the cursor wraps while addresses are in use; two hub slots and two drives are
what the ports can need; five moves are two hubs, a device and a replug, or a
disk plugged and unplugged twice; one unanswered request reaches each error path
once.  `UsbTree` has `CHECK_DEADLOCK FALSE`: the behaviour ends where a call would
use freed memory.  In `UsartStdio` two characters per buffer make a first and a last one and
a wrap; with five characters in, the input buffer fills twice and the third
reception has begun.  `UsartStdio` and `UsartBurst` have `CHECK_DEADLOCK FALSE`:
after `Puts` and `Feeds` characters nothing need happen.

Fairness (`FairSpec`, liveness only).  The CPU executes the thread when no
interrupt is pending and serves a pending one (weak fairness of `Main` and
`Isr`); the controller ends each transaction (weak fairness of `HcNak \/
HcRetire`); a frame begins every millisecond however busy the bus is (strong
fairness of `HcFrame`, which is disabled during a transaction).  Nothing is
assumed of the device: it may answer NAK forever.  In Xmodem each end runs
(weak fairness of `Sender` and `Receiver`: both poll their UART and count
milliseconds); nothing is assumed of the line.  In UsbTree the application goes
on polling and the thread runs (weak fairness of `Thread`), and a hub with a
change to report is asked in the next interval of its pipe (weak fairness of
`HubStatus`); nothing is assumed of the person.  In UsartStdio the thread, the
handlers, the transmitter and the PDMA go on (weak fairness of `Thread`, `Isr`,
`LineOut`, `DmaOut`, `DmaIn`); nothing is assumed of what comes in.

### Findings

- `OhciHidStop`: stopping a HID input pipe whose report completes in the frame
  the stop waits for leaves a linked ED whose TD points to the freed request:
  one interrupt removes the ED first and then runs `hid_read_irq`, which
  submits again.
- `OhciMemOut`: `ohci_bulk_xfer` out of units frees an ED it did not allocate
  and that the controller's bulk list still holds.
- `OhciBulkError`: a bulk request that fails before its last TD is never called
  back, against the comment on `usbh_bulk_xfer`.
- `XmodemFlash`: `i32Err` keeps only the result of the last 8-byte write, so
  `XmodemRecv` returns the size over words it failed to program.
- `UsartBurst`: when the input buffer is full, the `Receive` that
  `UART_Event_Callback` calls resets the receive FIFO, and `stdin_getchar`
  returns a later character than the next one.

Met as well, without a run of their own:

- `ohci_ctrl_xfer` out of units notices only a missing STATUS TD.
- A disk pulled while it is mounted or reset: the polling inside frees its
  `UDEV_T`, and `usbh_reset_device` (`usb_core.c:1206`) or the rest of the mount
  (`msc_driver.c:578`) goes on with it.  The run `UsbTree` has these states; they are
  those with `Top.f = "stale"`.  Nothing in the repository promises otherwise, so
  there is no sentence a run could refute.
- The events lost at a disturbed port, in `UsbTree` above.
- `hub_polling` does not ask a hub again after one request has failed
  (`hub.c:697`), and goes round for ever for a hub without its descriptor
  (`hub.c:271`); `Settles` and `PollReturns` excuse these two.

## 5. Proofs

`OhciHcdProofs` proves, for every pool size, set of endpoints, set of requests
and delay, from `ConstAssumption` alone:

- `TypeCorrect`: `Spec => []TypeOK`.  `TypeOK` is not inductive; `TypeInv` adds
  that the handler frees a TD only from a list that has one, that a call in
  progress has its endpoint, and that a submission about to fill an ED has got
  one (`med \in Units`, not null).  One lemma per actor, one step per action.
- `RemovedBeforeReturnHolds`: `Spec => []RemovedBeforeReturn`, the handshake of
  `add_to_ED_remove_list`: no call comes back with a removal outstanding.  The
  inductive invariant `RemoveInv` says SF is enabled only during the delay, the
  handler's `remove_ed` phase happens only then and with SF disabled again, a
  waiting ED always has SF enabled or the handler at work, and once a frame has
  begun SF is pending; so when the delay ends with no interrupt pending the list
  is empty.  The one assumption on the delay is that a frame begins in it
  (`DelayFrames > 0`).  On a suspended bus, where no frame begins, it does not
  hold; suspend is not modelled.

`OhciOwnProofs` proves who owns the units of the pool, again from
`ConstAssumption` alone but for the runs in which the pool is not exhausted in
the middle of a submission: `Spec /\ []~Exhausted => []Inv`.  `Exhausted` is a
state in which `ohci_ctrl_xfer` or `ohci_bulk_xfer` needs another TD and no unit
is free.  The hypothesis cannot be dropped, as `OhciMemOut` shows: out of units
the code frees an ED that is linked, or queues a null TD.  Exhaustion anywhere
else (in `ohci_int_xfer`, or no ED for a request whose TDs were found) is
covered.  `~Exhausted` holds in every state of `OhciSync`, `OhciHid` and
`OhciHub`, so there the theorems speak of every behaviour; `OhciTight` and
`OhciMemOut` have states of both kinds.

- `ReachableAllocatedHolds`, `TdsExclusiveHolds` and `LinkedEdsAllocatedHolds`,
  from one invariant, `OwnInv`.  The properties look at the chains of the active
  EDs; that is not inductive, since an ED becomes active with the chain it has.
  `ChainsInv` therefore speaks of every chain there is (`Spots`): none repeats a
  TD, no two share one; `TdsInv`: what is on a chain is allocated and is no ED.
  `EdsInv` has what is known of EDs: the endpoint they are for decides the list
  they may be on, a settled pipe leads to an ED of its endpoint, the ED to be
  removed belongs to the endpoint being quit, and `RemovalInv`: once SF is
  pending with its interrupt enabled, or the handler is in `remove_ed`, the
  controller is not at that ED.  It is what the wait for a start of frame is for:
  without it the handler would free the TD the controller is about to retire.
  `ChainsMove` says what a step may do to two chains, `FreeOwn` what freeing
  does, `IntXferOwn` is `ohci_int_xfer` for its three callers.

`OhciRequestProofs` goes on to the requests, for every pool, set of endpoints and
of requests.  Its theorems have two or three hypotheses, one for each case in
which the code loses track of a unit or a request:

- `NoRace`: no pipe that the application stops has a callback that submits again.
  `OhciHidStop` shows what happens otherwise: the callback revives the request
  that is about to be freed.  It is an assumption on constants; `OhciSync`,
  `OhciHid` and `OhciHub` meet it, `OhciHid` with one pipe of each kind.
- `[]~Exhausted` as above, for all but the first `[]~Starved`: neither that nor
  `Dropped`, a callback whose submission finds no unit.  `hid_read_irq` then frees
  a request that the owner of the pipe still knows.  What the counters say after
  either is left to the runs: `OhciTight` checks `NoFreedRequest` in states that
  are `Exhausted`.
- `[]~Spilled`, for the last only: never is an interrupt pipe without an ED to be
  opened while one unit is left.  `ohci_int_xfer` takes that unit for `td_new`,
  gets no ED and loses it (`ohci.c:734`).

All three hold in every state of `OhciSync`, `OhciHid` and `OhciHub`.

- `QuitIsFinalHolds`, from `QuitInv`: an endpoint has one ED, the one its
  `hw_pipe` leads to, or while it is being quit the one on the removal list; an ED
  is skipped only then; bulk and interrupt EDs are on their list from when they
  get their endpoint.  So a null pipe means no ED, and `ohci_int_xfer` never finds
  an ED that is not its own.
- `NoFreedRequestHolds`, `TdCntExactHolds` and `ResultStableHolds` (an action
  property) from one invariant, `ReqInv`.  `Out(r)` are the TDs of request r that
  are queued under some ED, retired or handed over and not yet counted; `td_cnt`
  is their number once the submission is over (`CountInv`), and the result is
  there only when it is 0.  The properties look at the chains of the active EDs
  only; `EdsActive` shows that there are no others.  An ED of a control or bulk
  pipe carries TDs only of the call that waits for it (`QueuesInv`), and an
  interrupt pipe's ED ends in the dummy.  What makes freeing the request sound is
  `HandInv`: once the first frame of the delay has passed, the controller has no
  TD of the request waiting for the next write-back, and when the delay ends no
  interrupt is pending, so `Out` of the request is empty.
- `NoUnitLostHolds`, from `UnitsInv`: a unit in use is on a chain, belongs to an
  endpoint, or is about to.

`XmodemProofs` proves, from its own `ConstAssumption` alone (any number of
packets, any limits, packet numbers modulo two or more, any subset of the line's
faults):

- `TypeCorrect`, from `TypeInv`: the packet that waits for an answer exists and
  so does every packet on the line.
- `InOrderHolds` and `NeverTwoApartHolds`.  The inductive invariant `OrderInv`
  says that while the receiver runs and has room, with n packets stored, the
  sender has n or n - 1 acknowledged, the packets on the line are copies of the
  last one stored followed by copies of the next, and at most one ACK is on its
  way back, none when the sender has caught up.  Copies of the stored packet
  carry another number than the one expected because n and n + 1 differ modulo
  `NoMod` (`NoDiffers`).  The lemmas on `Calm` and `Orderly` say what losing,
  damaging, reading and cutting do to the two queues; `SenderStep` and
  `ReceiverStep` reduce each action to what it does to them.
- `ImplementsTransferHolds`: every step of the protocol delivers the next packet,
  ends one side with a result `XmodemTransfer` allows, or is a stutter of it; the
  sender reports success only after the last packet was stored.

`UsartStdioProofs` proves, from its `ConstAssumption` alone (buffers and FIFOs of
any size, any number of characters, every liberty of the line):

- `TypeCorrect`, `ReceptionArmedHolds` and `QuietHolds` from one invariant,
  `IInv`, which says for each place of the thread what the driver is doing:
  nothing (`Quiet`), about to start (`Ready`), sending (`Running`) or with its
  interrupts over (`Over`).  The last two both occur while the thread waits, and
  the difficult case is between the reading and the storing of the count: a
  channel's count that was set back by the store is set right by the next read,
  and a count that says all was moved implies `Over`, because the thread only
  reads it when no PDMA interrupt is pending.
- `OutputInOrderHolds`: what reaches the line is 1, 2, 3, ..., the output half of
  `Console`.  `OutInv` adds that the buffer holds the last characters put, and
  that line and FIFO together hold exactly what was put before the buffer and
  what the driver has moved out of it (`Moved`).  `OutSame`, `OutMoves` and
  `OutLeaves` are the three things a step can do to it.

`UsartStreamProofs` goes on from there:

- `InputInOrderHolds`: what the thread reads is 1, 2, 3, ... while no character is
  dropped, the input half of `Console`.  `InInv` says that buffer and FIFO hold
  the last characters of the line in their places, across the wrap of the buffer
  (`ContentInv`), that the reader is behind by one buffer at most (`BehindInv`),
  and that a count it has read is still true when it is used (`CountInv`).
- `ImplementsConsoleHolds`: with both halves every step of the driver is a step of
  `Console` or a stutter.

`UsbTreeProofs` proves, from `ConstAssumption` alone (any tree of locations, any
number of devices, hubs and drives, whatever the person and the application do):

- `PollingNotNestedHolds`, from `Types` and `PollInv`.  `Types` is what holds of
  every frame of the call stack whatever the ports do (`GoodFrames`); `PollInv`
  says the polling runs in at most one frame, and that frame holds the mutex.
- `AddressesExactHolds`: the addresses marked as used are those of the listed
  devices, and no two devices have the same one.  While a device is connected it
  is listed without an address, and after a connect that fails it is listed with
  one it has given back, until the caller frees it; the code that does so runs
  in a frame further out, after calls that may take other devices away.  So the
  invariant must say which frames can be inside which.  `ShapeInv` does:
  `connect_device` runs directly inside the code that frees its device when it
  fails, for the same device, and what is called from a place of `Waiting` only
  disconnects.  With it `ListInv` (a device is listed once, and an unlisted slot
  is free) and `ConnectInv` (a device that answers its connection is listed, of
  no kind yet, and has no address until it is given one) are inductive.

`UsbTreeLinkProofs` goes on to the tree itself, from the same assumption alone.
`TreeLinkedHolds`, `DrivesBoundHolds` and `TypeOKHolds` hold for every behaviour of
`Spec`, with disks pulled in the middle of their mount or reset and calls that
wait for what is freed inside them.  `TypeOK` is proved here because a hub's place
is that of its device only while the two are linked.

The tables alone are not inductive: whether a step keeps them depends on what the
calls in progress hold, and what a waiting call holds may be freed by the one
inside it.  The inductive invariant `Good` adds to `Types`, `ShapeInv` and `AddrInv`
the parts of `LinkInv`:

- `TreeInv` is `TreeLinked` with what makes it inductive: the port of a listed
  device exists and is one its hub's driver looks after, and a free slot has no
  place.
- `FramesInv`: a call that is not stale holds a listed device and a slot in use,
  its port exists, and what it mounts or resets is a disk.  Of a stale call only
  this is claimed: a mount still has its drive, which nobody has bound.
- `PairsInv`: of two calls in progress no two mount one drive, and no two await
  the connection of one device.
- `PauseInv` and `ClearInv`: only some places wait for others; a port that was
  searched for a listed device, as `port_connect_change` does before it enters a
  new one, has none left but the one just being disconnected.
- `TopInv`: a device about to be probed as a hub has no slot yet, and one whose
  connection failed has no driver.
- `DriveInv`: a drive in use is bound to a listed disk, or a call is mounting it.

`CallsGoto`, `CallsCall`, `CallsReturn`, `CallsFreed` and `CallsMount` say what a step
does to the calls and their nesting, `StackGotoOK` and its like what the step must
show for `StackInv`, `TreeAlloc` and `TreeFree` what entering and freeing a device
does to the tables; then there is one lemma per action.

Only model-checked: the liveness properties (`CallsReturn`, `RemovalHappens` and
those of the other modules), which TLAPS does not treat, and `TakenOnlyWhenGone`,
whose proof would have to relate the changes pending at each port, the call stack
and the history `disturbed`.

## 6. Not modelled

- UsbHostLib: isochronous transfers, suspend and resume, `ohci_init`'s register
  sequence, the DMA pool's search, descriptor parsing, `hub_status_change`, the
  phases of a bulk-only command, disks of several logical units,
  `usbh_set_interface`, HID output pipes and report parsing, CDC and audio.
- CMSIS USART: aborts, power off and re-initialisation, `Transfer`, error
  events, flow control.  PDMA manager: chains, memory functions, the allocation
  of channels and descriptor tables.  The other CMSIS drivers.
- What moves values between memory and registers (most of StdDriver), crypto
  glue, LED effects, startup code, samples.
- Third-party code (FatFs, FreeRTOS, mbedTLS, the CMSIS core), which is most of
  the repository's lines and is maintained and specified elsewhere.

### Hazards met there

`PROJECT.json` lists the hazards of the modelled code.  These belong to what is
not modelled, or are certain to go wrong when their condition holds, so that a
run would add nothing:

- `ohci.c:402`: `ohci_ctrl_xfer` tests only the last of the TDs it allocates;
  `ohci.c:734`: `ohci_int_xfer` loses `td_new` when it gets no ED;
  `ohci.c:852`: `ohci_iso_xfer` does not set `hw_pipe` for an ED it creates;
  `ohci.c:1016`: a device that comes back while the port reset clears the change
  of one that is gone is not seen.
- `mem_alloc.c:112`: the search misses a free run at the end of the DMA pool;
  `mem_alloc.c:236`: `free_device` gives back 512 bytes whatever was allocated;
  `mem_alloc.c:346`: an update of the pool counter can be lost (it is only
  reported).
- `usb_core.c:1171`: a connect that fails after the probes leaves hub slot and
  drive behind; `cdc_core.c:400`: `rx_busy` after an abort; `msc_xfer.c:49`: no
  `free_utr` when the submission fails; `msc_driver.c:594`: a reader without a
  card loses an `MSC_T` per probe; `diskio_USBHost.c:42`: the status is compared
  with a code that is never returned.
- `Driver_USART_UART.c:676`: the result of `nu_pdma_transfer` is ignored; `:852`:
  an abort leaves the PDMA request enabled; `:1138`: RECEIVE_COMPLETE is repeated
  for a client that does not call `Receive`.
- `drv_pdma.c:372`: freeing a channel keeps its descriptor tables; `:874`: an
  exact multiple of the largest descriptor gets one of count 0; `:987`: a transfer
  that ends between two register reads is served twice; `:1118`:
  `nu_pdma_memfun` waits for a transfer that failed to start.
