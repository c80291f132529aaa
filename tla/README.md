# TLA+ model of the AIC8800DC driver of the LuckFox Pico Ultra W layer

The repository is a Yocto layer (`meta-rockchip-rv1106`) for a board with a
single-core RV1106 and an AIC8800DC WiFi/Bluetooth chip on SDIO.  Its own
program logic is the out-of-tree kernel driver of that chip under
`recipes-connectivity/aic8800dc/files/`: `aic8800_bsp` powers the chip and loads
its firmware, `aic8800_fdrv` is the WiFi driver, `aic8800_btlpm` is the Bluetooth
low-power driver.  The rest is recipes, boot configuration, device trees and
small demos.  File names below are those of `aic8800_fdrv` unless they say more.

Build configuration modelled (`aic8800_fdrv/Makefile`): SDIO, AIC8800DC,
fullmac, `CONFIG_SDIO_PWRCTRL`, `AICWF_RX_REORDER`, `CONFIG_FILTER_TCP_ACK`,
`AICWF_ARP_OFFLOAD`, `CONFIG_RWNX_RADAR`; no USB, `CONFIG_OOB`,
`CONFIG_RWNX_FHOST`, `CONFIG_SDIO_ADMA`, `CONFIG_TX_NETIF_FLOWCTRL`,
`CONFIG_PREALLOC_RX_SKB`, `CONFIG_RADAR_OR_IR_DETECT`.

## Inventory

| component | state | operations | hard because |
|---|---|---|---|
| command manager (`rwnx_cmds.c`, `rwnx_send_msg*`) | list of commands, flags, completions, pool of 40, CRASHED | queue, force-defer, worker, confirmation, timeout, drain | two pushers outside the lock, unlocked reads, late answers |
| frame queue (`aicwf_txrxif.c`) | a list per priority, the hint `hi_prio`, a frame counter | enqueue or refuse, test for emptiness, dequeue, flush | the hint and the counter are kept apart from the lists |
| SDIO transmit (`aicwf_sdio.c`: `bus_txmsg`, `bus_txdata`, `tx_process`, `send`, `aggr*`) | command mailbox, frame queue, aggregation buffer, `tx_pktcnt`, firmware credit | enqueue, flow control, aggregate, send, stop | one thread serves commands and data; trigger, sleep and credit interact |
| SDIO receive (`hal_irqhandler`, `enq_rxpkt`, `busrx_thread`) | rx queue, `rx_cnt`, trigger | interrupt, enqueue, process | the counter is updated outside the queue's lock, the trigger depends on it |
| SDIO power (`aicwf_sdio_pwr_stctl`, `pwrctl` thread and timer, suspend) | `state`, timer, wake-up semaphore | wake, allow sleep, timer tick | sleep is decided from counters other threads change |
| receive reorder (`rwnx_rx.c`) | window per station and traffic class: `ind_sn`, list, timer, worker; pool of 250 | insert, forward in sequence, timeout, flush, removal | modulo-4096 arithmetic, timer against receive path, teardown |
| transmit queues (`rwnx_txq.c`, `rwnx_tx.c`) | status bits, credits, packet lists, list per hardware queue | start, stop, queue, retry, process, confirm, power save | stop reasons combine; queue membership follows status and contents |
| TCP ACK filter (`aicwf_tcp_ack.c`) | per connection: held ACK, thresholds, timer | filter, replace, timer flush, recycle | timer against transmit path, sequence wrap |
| virtual interfaces, stations, scan, connection (`rwnx_main.c`, `rwnx_msg_rx.c`) | tables indexed by firmware, per-interface flags | open, close, connect, roam, disconnect, AP start/stop, station add/delete | firmware events race cfg80211 calls |
| radar (`rwnx_radar.c`), TDLS (`rwnx_tdls.c`) | pulse pools and detectors; link state | add pulse, detect, CAC; setup, teardown | timers and windows |
| receive preallocation (`aicwf_rx_prealloc.c`) | list of buffers | alloc, free | not compiled in |
| message formats, vendor commands, parameters, debugfs, regulatory tables | little | build, parse, print | no control of their own |
| board support (`aic8800_bsp`) | power state, subsystem reference, firmware tables | power on/off, load, register | probe against power-off, one wait with timeout |
| Bluetooth low power (`aic8800_btlpm`) | an rfkill switch; wake lines and timers are not compiled in | block, unblock | it calls the board support module |
| demos (`rknn-demo`, `npu_hello`, `luckfox-lvgl-demo`), `status.cgi` | none shared | initialise, infer, draw, print | sequential |
| boot and images (U-Boot, kernel, device tree, OP-TEE, rkbin, avahi, wpa-supplicant, bt-init) | none | configuration | not programs |

How they interact: cfg80211 and the network stack call `rwnx_main.c` and
`rwnx_tx.c`; these send commands through the command manager, which hands them
to the SDIO transmit thread through a one-message mailbox; data goes through the
transmit queues and the frame queue to the same thread.  The SDIO interrupt puts
received blocks on the rx queue; the rx thread gives confirmations and events to
the command manager and `rwnx_msg_rx.c`, and data to the reorder windows.  The
power control thread puts the bus to sleep when none of these has work.

What makes each correct: the command manager keeps one command outstanding and
answers its own sender; the transmit thread loses no command, neither overdraws
the credit nor forgets a frame; the power control never sleeps over work and
leaves no bus awake for nothing; the receive path loses no wakeup; the frame
queue's hint and counter follow its lists; a reorder window delivers in order
and never stalls; a transmit queue is on its hardware list exactly when it may
and must send; a held ACK is sent, replaced or dropped, once; cfg80211, driver
and firmware come to the same opinion of a connection and of the stations of an
access point, whatever crosses on the way, and no indication meets an interface
half gone.

## Modules

| module | models | extends |
|---|---|---|
| `CmdMgr` | command manager | |
| `CmdChannel` | what it promises: one command at a time, in order | |
| `MCCmdMgr` | its message types for TLC | `CmdMgr` |
| `FrameQueue` | the frame queue, as operators | |
| `SdioTx` | transmit path | `FrameQueue` |
| `FrameCarrier` | what it promises its callers | |
| `SdioRx` | receive path | |
| `SdioPwr` | power control | |
| `SdioBus` | the three together | `SdioTx`, `SdioRx`, `SdioPwr` |
| `MCSdioTx`, `MCSdioBus` | frames, priorities and symmetry for TLC | |
| `RxReorder` | one reorder window | |
| `InOrderWindow` | what it promises, on true numbers | |
| `TxQueue` | the transmit queues of one station | |
| `FrameLines` | what they promise: lines that frames leave in order | |
| `TcpAck` | the TCP acknowledgement filter | |
| `AckStream` | what it promises | |
| `StaIface` | one interface as a station | |
| `ApIface` | the same interface as an access point | `StaIface` |
| `MCTxQueue`, `MCTcpAck` | queues, frames and numbers for TLC | `TxQueue`, `TcpAck` |
| `OrderFacts` | facts that several proofs need: least and greatest elements, initial segments of a finite set, sums over finite sets | |
| `CmdMgr_proofs`, `SdioTx_proofs` (with `FrameQueue`), `SdioBus_proofs` (with `SdioRx` and `SdioPwr`), `RxReorder_proofs`, `TxQueue_proofs`, `TcpAck_proofs`, `Iface_proofs` (`StaIface` and `ApIface`) | theorems | the module they are about |

A step is what no other thread can see half done: a critical section, or one
access to a variable that is read without the lock.  Each component's module
names the variable of the code beside each of its variables.  Operators whose
name ends in `Mut` are wrong variants of the operator that follows them, the way
a slip in the code would make them; nothing uses them.  They show what each
property is able to notice: with the wrong variant in place of the operator, TLC
finds the property violated (PROJECT.json, "mutants").

### Command manager (`CmdMgr`)

A sender goes through `queue` (the call of `rwnx_send_msg` with a command of the
pool; if all are used the code writes to the NULL it is given, and `SendNull`
leaves the thread `dead`), then either `push` and `wait` (it hands its command to the transmit path
and sleeps) or `check` and `wake` (it leaves the command to the worker).
`QueueDirect`, `QueueDeferred` and `Refuse` are the critical section of
`cmd_mgr_queue`, `ForceDefer` is `cmd_mgr_queue_force_defer`, `CheckWake` the
read of `queue_sz` after the unlock, `Push` `aicwf_set_cmd_tx`, `Remove` and
`WakeNext` what follows a confirmation, `TimeOut`, `Crash` and `Unlock` the
timeout path, split because an unlocked reader can release the lock in between
(`PollCrashed`).  `WorkStart` and `Scan` are the worker, `MsgInd` is
`cmd_mgr_msgind` with a confirmation of the firmware, `Transmit` the SDIO
transmit thread as this module sees it: it empties the mailbox.  A `Kind` per
message type stands for the places where the code asks for the type, the
buffer for the confirmation, and `reqcfm`.

`CmdChannel` has commands pending in order, at most one outstanding, and those
answered; `ImplementsChannel` maps the list, the flags and CRASHED to it.

`PoolConsistent` also says how large a pool suffices: as many commands as the
list takes and one for each thread that sends at the same time.  The driver has 40
for a list of 16, enough for 24 such threads; nothing in the code limits them.

Left out: `rwnx_cmd_mgr_deinit` and `cmd_mgr_drain` (removal of the card), and
sending while the bus is down.

### SDIO bus (`FrameQueue`, `SdioTx`, `SdioRx`, `SdioPwr`, `SdioBus`)

`Txdata`, `Count`, `Txmsg` and `Trigger` are the two calls of the upper layers,
cut where the transmit thread can look: between queueing a frame and counting
it, and before the completion.  The thread's position `txpc` follows
`aicwf_sdio_tx_process`: `Wake`, `PowerUp`, `LookForCmd`, `CheckState` (twice,
before the command and before data), `TxMsg`, `FirstCredit`, `Loop`, `NoCredit`
or `Pick`, and `aicwf_sdio_send` as `TakeFrame`, `AggrSend` and `Uncount`.  The
firmware's buffers are the set `inFw`; `Credits` is what reading its register
through `aicwf_sdio_flow_ctrl` yields.  Of `aicwf_sdio_send` the branch that
sends a full buffer before it takes a frame is not an action: the buffer is sent
when it becomes full, so it is never full at the start.

`Interrupt`, `EnqRxpkt`, `CountRxpkt` and `TriggerRx` are the interrupt handler,
`RxWake` to `RxPower` the rx thread with `aicwf_process_rxframes`.

`Activate` is `aicwf_sdio_pwr_stctl(SDIO_ACTIVE_ST)`; `TimerFires`, `PwrWake` and
`PwrCheck` the timer and the pwrctl thread; `EnterSleep`, `SleepAllow` and
`SleepDone` the way to sleep, for the pwrctl thread and for suspend, under the
semaphore `pwrctl_wakeup_sema`.  `chip` is the chip's own state, asleep from the
write of the sleep request on; `hold` is a scan or a P2P connection.

`SdioBus` joins them: the two paths activate the bus, the transmit thread looks
at `state`, the sleepers look at the counters (`Idle`), and suspend needs the
semaphore the transmit thread holds while it sends.  `Idle` reads the three
counters in one step, the code one after the other.  Only the order
tx-then-rx matters; a command or frame that comes between the reads is one that
comes right after them, since the decision is taken without a lock anyway.

`FrameCarrier` says what the callers may count on: a line for each priority, the
highest in use served first, bundles that never take more than the buffers of
the firmware less its reserve, each frame in one place and handed over once, and
a message never between the frames of a bundle.  `ImplementsCarrier` maps the
lists, the aggregation buffer, the firmware's buffers and `cmd_txstate` to it;
the hint, both counters, credit, wakeups and positions are not seen there.

Left out: start and stop of the bus (stopping threads, flushing queues), resume,
the layout of the aggregation buffer and of received blocks, wake locks.

### Receive reorder (`RxReorder`, `InOrderWindow`)

Frames have true numbers; the code sees `Sn(n)`, modulo `M`.  `Alloc`, `Lookup`
(or the ways out before it, `WrongType` and `NoWindow`) and one of `UnitLate`, `UnitDuplicate`, `Unit` are `reord_process_unit` with
`reord_need_check` (`NeedCheck`), `reord_rxframe_enqueue` (`Place`,
`IsDuplicate`), `reord_rxframes_process` (`Advance`, the end of the run without a gap) and
`reord_rxframes_ind` (`Indicate`); `FlushTid`, `FlushTimer`, `FlushWork` and
`Direct` are a frame that was not sent in an aggregate and flushes the window.
`TimerFires`, `WorkStarts` and `Worker` are the timer and its worker, which may
be scheduled again while it runs.  The timer handler runs in a softirq of the
one core, so it is not half done when the rx thread runs.

Two ways out of `reord_process_unit` free the frame and never give its `recv_msdu`
back: `WrongType`, when the interface has meanwhile become neither a station nor
an access point, and `NoWindow`, when `reord_init_sta` makes no window.
`PoolConserved` is therefore about steps: these two lose one each, and no other
step any.

The environment is a sender with a window of `SendWin` frames that gives frames
up, so that they are lost, and a medium that reorders and repeats; no more than
`Burst` frames in a row are missing.  This last assumption is the code's: a gap
of half the modulus makes new frames look late.  `RxReorderAssumption` says how
much that takes: the longest gap and a window, the receiver's or the sender's,
together fit in half the modulus.  That the sender's window alone stays below it
is not enough: with a modulus of 12, windows of 2 and 4 and a gap of 4 a flush
may leave `ind_sn` so far behind that frame 7 passes for a late one.

`InOrderWindow` says the same without modulo arithmetic, list or timer: hold,
deliver what follows without a gap, give up.  `TrueNext` maps `ind_sn` to the
true number it stands for.

Left out: frames that pass the window by (multicast and EAPOL, which take a
`recv_msdu` and return it at once), a flush for an interface of another type (the
same test in `reord_flush_tid`, where the caller goes on with the freed frame,
`rwnx_rx.c:1460`), the removal of a station, and the sharing of the pool with
other windows (a pool smaller than the window makes it run empty instead).

### Transmit queues (`TxQueue`)

`tx[q]` is `struct rwnx_txq`: its frames, the reasons that stop it, whether it is
on its hardware list (`sched`), credits, `push_limit`, `nb_retry` and
`last_retry_skb`.  What the functions of `rwnx_txq.c` do to one queue is an
operator (`Started`, `Stopped`, `WithFrames`, `Served`); the actions are their
callers.  `IntfTx` is `rwnx_start_xmit` with `intf_tx`, `MgmtCheck` and
`MgmtXmit` the two halves of a management frame, `Task` the tasklet
`rwnx_task`; all of them end in `rwnx_hwq_process` (`Process`).  Then the
indications, `ChanPreSwitch` to `CreditsUpdate`, and the work behind a channel
switch announcement; `TrafficReq` is `rwnx_ps_bh_traffic_req`, which deals the
request out to the queues.  `CfmDone`, `CfmRetry`, `RetryLink`, `RetryCount` and
`RetryList` are `rwnx_txdatacfm`, which works without `tx_lock`.  `DelStation`,
`Deinit`, `Flush` and `AddStation` are the station that goes and the next one
with its index.

A softirq is atomic to the threads, since there is one core, and the busrx thread
enables softirqs before each indication, so that a scheduled tasklet has run by then.
Whether anything runs inside a confirmation is a constant, `CfmInterrupted`.
The comment at `rwnx_tx.c:2353` says that `tx_lock` is held there; it is not, and
with `CfmInterrupted = TRUE` TLC finds an empty queue on its list, which
is `BUG_ON(!rwnx_txq_skb_ready(txq))`.  The runs say `FALSE`:
they show what the rest of the code does when that window is not hit.

`FrameLines` keeps of all this the lines of frames: which reason stops a queue,
whether it is on a list and what a service period allows only decide when frames
leave.  `ImplementsLines` shows that they leave in order, that a frame to be
repeated goes back behind those that came back before it and ahead of the
others, and that frames are thrown away only with their queue.  A management frame
that comes to a queue whose removal began after `mgmt_tx` had looked is freed by
`rwnx_hwq_process` with whatever that queue still holds: `Send` allows that of a
closed line.

Left out: multicast, off-channel and TDLS queues, A-MSDU, MU-MIMO groups, the
frames themselves.  `Incremented` wraps as the `s8` of the code does, but
`CreditBound` stops long before; in the code nothing does.

### TCP acknowledgement filter (`TcpAck`, `AckStream`)

`SendAck` is `filter_send_tcp_ack` with the sweep of old slots (`Swept`), the
search for a slot (`Allocated`), a first acknowledgement (`Taken`) and a later
one (`Handled`); `Timeout` is the 5 ms timer, `Age` the passing of
`ACK_OLD_TIME`, `RxMatch` and `RxMark` the busrx thread that notes a pushed
segment, `Deinit` and `DeinitSlot` the removal.  The filter compares numbers
modulo `Wrap`; the model numbers them truly and the stack never goes back.

`AckStream` says what thinning must preserve: what is transmitted of a
connection is the highest number offered at that moment.

A segment is its acknowledgement number here, and with the code every segment
without data that has the ACK flag is one: `is_drop_tcp_ack` does not look at SYN,
FIN or RST, and `tcp_ack_handle_new` ignores the type (2 for other options than
time stamp and window scale, or for a small window) that it is given.  What such a
segment carries beside its number is left out: the properties say that the newest
number goes out, not that a FIN, a RST or a new window does.  Held ones may be
freed for a later acknowledgement, of the same number even (see Findings).

### Interfaces (`StaIface`, `ApIface`)

The RTNL serialises the calls of cfg80211 and the network core: `user` is where
the present one stands, `cmd` the command it waits for.  The busrx thread
(`Take`, then one handler, cut where it can be overtaken) delivers
confirmations and indications in order.  `kern` and `kev` are cfg80211: what it
believes, and the events for its own work.  `rwnx_close` is `CloseScan` to
`Closed`; the connection `Connect` to `DisconnectDone` with the indications
`ConnectInd`... and `DisconnectInd`...; `Change` to `Changed` is
`rwnx_cfg80211_change_iface`.

As an access point, `StartAp` to `ApStopped` are `rwnx_cfg80211_start_ap` and
`_stop_ap`, `AddStation` to `DelDone` the stations, `Probe` and `Probed`
`probe_client` with its work, `LossInd` to `LossDone` the loss of a station and
`apm_staloss_work_process`, which runs without the RTNL.  The firmware keeps its
stations by index (`fwSta`) and takes commands in the order they came (`next`).

What surrounds the driver is the constant `Environments`; each member is a set
of habits (see the module).  Assumed everywhere:

- cfg80211's event work runs before the next call (`Call` has `kev = <<>>`), and
  cfg80211 disconnects before it closes an interface it believes connected.
- Without the habit `preempt`, a thread is overtaken only where it sleeps.  That
  is a kernel without preemption, which the repository neither states nor rules
  out: the base configuration of the kernel is not part of it, and the fragment of
  the layer says nothing about `PREEMPT`.
- Without `haste`, the firmware ends a connection within the waits of
  `rwnx_close` (4 s and 2 s), and no answer comes while the loss work waits for
  the worker of the reorder windows, which never sleeps.
- The bus stays up, and commands are sent: no `-EPIPE`, no timeout.

With other habits TLC shows what depends on them:

- `haste`: `rwnx_close` goes on before the disconnection is indicated, and
  `Agreement` fails after the next open (`NoOops` still holds).
- `haste` with `ap`: the work that handles a lost station has taken it off the
  list; meanwhile the interface is closed, opened and started anew and another
  station gets the index; the work then frees the queues of that station and has
  the firmware delete it (`StationsAgree`).
- `refuse`: a refused connection leaves the state CONNECTING
  (`rwnx_main.c:2569`).  So does `preempt`, in the moment between
  the test of the state and its change.
- `drop` with `roam`: a loss of the link that is already queued when cfg80211
  reassociates is taken for the end of the old connection: carrier, station and
  cfg80211's own view stay.  With `roam` alone a disconnection asked for while the
  firmware leaves the old access point has the like effect: cfg80211 goes on
  believing it is connected.  A `connect` during a disconnection clears `is_roam`.
- `NoOops` holds for `haste`, for `drop` with `roam` and for `preempt` with
  `drop`.

Also seen: `rwnx_cfg80211_probe_client` tests `!sta` after `list_for_each_entry`,
which is never true (`rwnx_main.c:3689`), so that it queues the work for unknown
stations too; hostapd is not told of a station that the loss work deletes; the
work queue of an access point that fails to start is not destroyed; `adding_sta`
stays set when `rwnx_send_me_sta_add` fails (`rwnx_main.c:2819`).

Left out: several interfaces, mesh, P2P devices, keys, external authentication,
the cookies of stays on a channel, monitor mode, and the `rwnx_close` of the
driver's removal.  With the habit `ap` the interface is not used as a station.

## Runs

| run | question | result |
|---|---|---|
| `cmd_safety` | does the manager carry one command at a time, in order, to the firmware and back, whatever the senders, the worker, late answers and timeouts do? | holds |
| `cmd_liveness` | is every queued command retired (or the manager CRASHED), and does every sender return? | holds, for messages other than the two in `cmd_lost_wakeup` |
| `cmd_lost_wakeup` | the same with messages that are always left to the worker | violated, finding |
| `tx` | is no frame held back, is the credit honoured, does the highest priority go first, is every frame carried once and in its turn; do commands go although the firmware frees no buffer, urgent frames although commands keep coming? | holds |
| `bus_safety` | with the power control: nothing forgotten, commands to an awake chip only | holds |
| `bus_live` | are commands sent and blocks taken, is no block stranded, does a quiet bus sleep? | holds |
| `reorder` | does a window do with numbers modulo `M` what it promises for true numbers, and does no gap stall it? | holds |
| `txq_safety` | is a queue on its hardware list exactly when it may and must be, are the counters kept through retries and service periods, is no list corrupted, does a sleeping station get what it asked for and no more? | holds, with confirmations that nothing interrupts |
| `txq_live` | do frames leave their queue in order, and do repeated ones go back in order and before the rest, whatever stops and serves the queue; does every service period end? | holds, under the same condition |
| `tcp_ack` | is the newest acknowledgement sent, and none but the newest; are the slots accounted for? | holds |
| `iface` | do calls and indications, in any order, leave interface, station, channel context and scan as they must be; do all sides agree afterwards; do attempts and requests end? | holds |
| `iface_retype` | the same when cfg80211 changes the type of a running station | violated, finding |

Bounds, and why they are enough:

- `cmd_safety`: two senders, messages of every kind, a list of three, five
  commands.  Two senders and the worker are all the pushers the protocol tells
  apart; three on the list allow one outstanding, one deferred and one behind
  it, so that deferral by the last command only, and overtaking, could go wrong.
  The pool is the list limit plus one per sender, the least that suffices
  (`PoolSuffices`).  The theorems do away with all of these.
- `cmd_liveness`: two on the list and three commands, one less than suffices, so
  that a sender may be given NULL; three kinds of message.
- `tx`: four frames of two priorities, two callers, five firmware buffers
  of which two are reserved: the buffer is sent because it is full, because the
  frame is the last, and because a command is pending.  `QMax` of three is
  reached.  `TrggMax` bounds completions that are pending: a caller that adds
  one more finds the thread due already.
- `bus_safety`: one frame, two callers, one block on the rx queue: enough for
  work to appear at every point of the thread and of the sleepers, since the
  counters are compared with zero and one only.
- `bus_live`: no data frames.  With frames the run does not end in reasonable
  time; data is covered by `tx` with an awake bus, and by `NothingForgotten`
  with a sleeping one.
- `reorder`: a window of four, a pool of three, eight frames whose numbers wrap
  after the third; the modulus 12 is the least that satisfies the assumption on
  gaps, so a comparison that is right only for smaller distances would show.
  `HeldGoes` is stated for a sender with finitely many frames.
- `txq_safety`: two data queues and the management queue on two hardware queues,
  all of U-APSD, whose service periods span queues and pushes; three frames, two
  of them confirmed and repeated: two retries of one queue are linked one behind
  the other.
  `StopBound` is the number of reasons that stop the interface at a time, one
  besides those of the station; flow control stops a subqueue beyond one frame.
  `CreditBound` lets credits rise twice above the first.
- `txq_live`: a legacy queue and the management queue on one hardware queue, two
  data frames and one management frame.  The data frames are repeated until
  `CreditBound`: one comes back while the other waits, or both come back, in
  either order.  A period ends by a push, an interruption or the station's waking
  or leaving.  Flow control is left to `txq_safety` (`NdevStop` is above the number
  of frames); with its queues the refinement would take too long.
- `tcp_ack`: two slots and two connections, so that a slot is swept and taken
  over by the other connection; numbers wrap at 4 after the first, the
  third of a row goes at once; `MCMaxSeq` ends the run.
- `iface`: two channel contexts, so that one left linked shows; two stations and
  two indices, so that an index is reused while its last owner is being deleted.
  One interface, as everything in it is indexed by interface.  Each environment
  allows one source of trouble (loss of the link, reassociation, access point).

`CHECK_DEADLOCK FALSE` is given where the system really may stop: a CRASHED
command manager, a reorder window whose sender has sent everything, a stack that
has acknowledged everything.

### Fairness

- Threads that are runnable run: weak fairness of the steps of a thread between
  two waits (`WF` on senders, the worker, the transmit, rx and pwrctl threads,
  the interrupt handler once begun).
- The kernel gives a semaphore to the task that has waited longest, so a thread
  that waits for `pwrctl_wakeup_sema` or `txctl_sema` gets it although others take
  it again and again: strong fairness of `TxPowerUp`, `TxCheckState`, `RxPowerUp`
  and `EnterSleep`.
- Timers expire and scheduled work runs: weak fairness.
- A tasklet that is scheduled runs; a call under the RTNL, the busrx thread, work
  items and cfg80211's own work go on (`txq_live`, `iface`).
- Nothing obliges a caller to call, an interrupt to come, suspend or a scan to
  begin, or a sender to send.
- The firmware: it need not free data buffers (`CommandsGo` holds without;
  `UrgentFramesGo` has it as its hypothesis; in `bus_live` there are none), it
  need not answer when `FwMayStall`.  In `iface` it answers, ends a connection
  attempt, a disconnection, a scan and a stay it has begun; it never has to lose
  a link or a station.

### Findings

1. A deferred command may never be sent (`cmd_lost_wakeup`): `cmd_mgr_queue`
   reads `queue_sz` after it has released the lock (`rwnx_cmds.c:247`); two senders
   that both queue first read two and neither wakes the worker.
2. The type of a running station may be changed while its disconnection is under
   way (`iface_retype`): `rwnx_cfg80211_change_iface` writes the type at once
   (`rwnx_main.c:2066`), and the late indication reaches the statement whose comment
   says "should be not here" (`rwnx_msg_rx.c:1167`), a `BUG()`.

Shown by the models with a constant or a property changed, without a run of
their own:

- A message without confirmation overwrites another in the one-message mailbox
  or is overwritten (`rwnx_msg_tx.c:395`): `Push` and `SendNoCfm` of `CmdMgr`.
- A sender that sees CRASHED leaves the polling loop without the lock and
  unlocks it (`rwnx_cmds.c:173`), in the critical section of the thread that
  timed out: `PollCrashed`.
- One failed allocation in the rx thread stops reception for good
  (`aicwf_txrxif.c:463`): `rx_cnt` is not counted down and never reads one again.
  `BlocksTaken` fails with `MayFail = TRUE`.
- Data may be written to a sleeping chip (`aicwf_sdio.c:2035`): the state is
  checked before the loop only, and the pwrctl thread does not take `txctl_sema`.
- A `recv_msdu` is lost whenever the interface has the wrong type or no window can
  be made (`rwnx_rx.c:1833` and `1848`): `WrongType` and `NoWindow` of `RxReorder`.
  With 250 lost, every aggregated frame is dropped.
- What is said above of `CfmInterrupted` and of the habits.

Seen in the code and not modelled, or only restating it: a FIN, a RST or a change
of the window without data is held like an acknowledgement and freed when a later
one replaces it (`aicwf_tcp_ack.c:165`); a refused command is
freed without its message (`rwnx_msg_tx.c:405`); a failed wakeup makes the state
ACTIVE (`aicwf_sdio.c:1395`); the removal of a station may free a reorder window
whose timer the worker has started again (`rwnx_rx.c:1529`); after the board
support module has switched the chip off the SDIO driver stays registered, so
that switching it on again fails (`aic8800_bsp/aicsdio.c:201`).  These and the other
places where this code can go wrong are listed in PROJECT.json under "hazards",
each with the properties that watch it or the reason why none does.

## Proofs

TLAPS proves the following for every value of the constants that satisfies the
named assumption of the module (`CmdMgrAssumption`, `SdioTxAssumption`,
`SdioRxAssumption`, `SdioPwrAssumption`, `TcpAckAssumption`,
`RxReorderAssumption`, `TxqAssumption`, `IfaceAssumption`, `ApAssumption`) and
the hypotheses given here.  Every safety property that a run checks is among them,
some for less than the run allows: `Agreement` without reassociation, the
properties of `TxQueue` without what disturbs them.

- `CmdMgr_proofs`: `IndInv` is an invariant of `Spec`, and with it type
  correctness, `OneOutstanding`, `DeferredBehindBusy`, `ConfirmsItsCommand`,
  `PoolConsistent`, `BufferLive`, that nothing is queued after the crash, and the
  refinement `ImplementsChannel`.
  `OneOutstanding` alone is not inductive: that a push is safe follows from the
  order of the list (behind a busy command everything waits), which is kept only
  because flags, the positions of the threads and the packets on their way tell
  the same story about every command.  `IndInv` is that story.  Per action there
  is a lemma, resting on two facts about appending to and removing from a
  sequence.  That the pool suffices is a count over it (`PoolInv`): who wants a
  command holds none, the others hold one each, and the list keeps to its limit.  The refinement needs more of the sequence than the invariant: the
  pending commands of the channel are those of the list that were not pushed, in
  its order, so that a push takes the first and everything else leaves them be.
- `SdioBus_proofs`, the receive path: if no allocation fails, `RxIndInv`, and from
  it `NotStranded`.  The invariant says by how much `rx_cnt` may differ from the
  queue, and that with a sleeping thread only the block whose interrupt is still
  being handled can be on the queue; this block is the one that makes `rx_cnt`
  read one.
- `SdioBus_proofs`, the power control: `PwrIndInv`, also with failing wakeups,
  and, if wakeups succeed, `ActiveMeansAwake`.  The two paths are arbitrary:
  whether the counters read zero is a parameter.
- `SdioTx_proofs`, the frame queue: each of its operations keeps `Sound`: the
  counter is the number of frames in the lists, and no list above the hint
  `hi_prio` has one.
- `SdioTx_proofs`, about `TxSpec` (the bus awake), for any set of frames and
  callers: `QueueInStep`, `ReserveKept`, `NothingHeldBack`, `NothingForgotten`,
  `HighestFirst` and the refinement `ImplementsCarrier`, of which `HighestFirst` is
  the part about priorities.  `TxIndInv` adds to `Sound` that `tx_pktcnt` counts the
  frames queued and not sent apart from those whose caller has yet to count them
  (`Counted`), that what the thread believes to have in credit is covered by free
  buffers (`CreditCovers`), that a frame in the buffer has another one behind it
  in the queue, or the buffer is about to go (`LastGoes`), and that work without
  a thread awake has a wakeup (`WakeupKept`).  For the refinement these parts are
  what the abstract guards ask for: that the hint hides no frame makes the list
  served the highest in use, `CreditCovers` leaves room for the bundle, and a
  message is sent only from positions where the buffer is empty.
- `SdioBus_proofs`, the bus: it implements `RxSpec` and `PwrSpec`, so these
  theorems hold of it; and, if wakeups succeed, `CommandToAwakeChip`.  The
  invariant `CmdInv` says that from its wakeup to the write the transmit thread
  has work that shows in the counters, so nobody begins to put the bus to sleep,
  and that nobody was about to when it was woken.
  The bus does not implement `TxSpec`, because its transmit thread may also give
  up (`sdio state err`) where the path by itself always goes on.  But it gives up
  only when a wakeup is on its way or nothing waits (`DataInv`: a thread about to
  send frames finds the bus ACTIVE, and nobody about to write that it sleeps, or a
  wakeup comes), so giving up keeps `TxIndInv` as well.  From it, whether
  wakeups succeed or not, `NothingForgotten`, `QueueInStep`, `ReserveKept` and
  `NothingHeldBack` hold of the whole bus, and so does `ImplementsCarrier`: whoever
  gives up, sleeps or wakes, the carrier of frames sees nothing of it.
- `RxReorder_proofs`, for any modulus, window, pool and number of frames:
  `PoolConserved`, `HeldIsTimed`, `WindowOrdered` and the refinement
  `ImplementsWindow`.  The first needs only that no more are owned than there are.  The others are not inductive alone.  The invariant says that
  the sender is at most a burst and a window ahead (`SenderInv`), that `ind_sn`
  stands for exactly one true number within half the modulus of everything that
  may still arrive (`AnchorInv`), that the list is increasing in the true numbers
  and lies within a window behind that number (`ListInv`), and where the threads
  are (`ControlInv`).  From these, the comparisons modulo `M` of `NeedCheck`,
  `Place` and `Indicate` are comparisons of true numbers, and a step of the code is
  a step of the abstract window.
- `TxQueue_proofs`, for any queues, hardware queues, frames and credits:
  `NeverHalts` (no `BUG_ON`), `QueuesInService`, `RetriesFirst`, `OnlyGranted`,
  `ReadyCounted` and `GrantKept`.  The invariant `IndInv` has a part for each
  queue by itself (`Sane`: the frames to retry come first, the queue is on its
  list only with something to send, a grant is covered by credits and by frames,
  is on the list and belongs to a station asleep), and parts that relate queues
  and threads: every frame is in one place (`PlaceInv`), only a queue in the
  hands of `rwnx_tx_retry` may be missing from its list (`ListedInv`), a queue with
  a grant has its hardware queue and the tasklet marked, so that no indication
  finds a grant (`GrantInv`; the indications run after the tasklet), a sleeping
  station has its queues in use and stopped (`StationInv`), and the frame that
  `rwnx_tx_retry` holds fits where it will link it (`RetryInv`).  That the counters
  `pkt_ready` and `sp_cnt` agree with the queues (`Counted`) is proved over it
  with facts about sums: a frame that is queued, pushed or linked changes one
  summand, and what is dealt out to the queues is the sum over their images.
  The refinement `ImplementsLines` follows from `IndInv` step by step: what stops,
  starts, grants and lists moves no frame; `rwnx_hwq_process` takes from each queue
  a first part of its frames, or from one no longer in use all of them; and the
  place behind `last_retry_skb` at which `rwnx_tx_retry` links a frame is the place
  behind the `nb_retry` frames that came back before (`RetriesFirst`, and `RetryInv`
  while the thread is about to link it).  `RetriesFirst` has no run of its own:
  `ImplementsLines` is what comes of it.
  All this holds as long as nothing disturbs it (`Undisturbed`, a condition on the
  steps of the behaviour): no step of another thread or softirq falls inside
  `rwnx_txdatacfm`, and no retry finds the credits of its queue at 127.  The code
  ensures neither, so the theorem about `NeverHalts` is named for what it says of
  the code, `BugsHaveTwoCauses`: whoever meets one of these BUGs has met one of the
  two before.  For the counters there are also to be fewer frames than 65536,
  since they have 16 bits.
- `TcpAck_proofs`, for any number of slots and connections and any modulus:
  `SlotsCounted`, `HeldIsTimed` and the refinement `ImplementsStream`.  The
  invariant `IndInv` adds that the timer of an old slot does not run
  (`QuietWhenOld`), without which a sweep could drop what is
  held, and that nothing held is newer than what was offered (`HeldBounds`).
- `Iface_proofs`, for any channels, peers, station indices and any set of
  surroundings without `retype`: `NoOops` and `ContextsCounted`.  What the driver
  has been told last is not a variable, nor a function of the state: it depends on
  the messages that are still under way.  The invariant therefore says that there
  is a link `k` that the driver knows of (one of the six that the firmware's may
  be), such that the messages under way lead from `k` to the link of the firmware
  (`Explains`), and that everything the driver has at this moment
  follows from `k` and the positions of the threads (`Inv`): which indication may
  come at all, whether the table has the interface, what the contexts count.  A
  step then either keeps `k` or, where the busrx thread takes an indication, goes
  to the next.  `retype` has to be excluded: `iface_retype` is the counterexample.
- `Iface_proofs`, the opinions: `Agreement` if in every surroundings the firmware
  only drops the link, or the interface may be an access point.  Reassociation is
  not among them: with `roam` the opinions may part for good (see above).  `Agr` adds to `Inv` that the state of the connection,
  the carrier and cfg80211's view follow `k`, each behind it only while an
  identified step is still to come (`ConnInv`, `CarrierInv`, `CallInv`).  Each of
  `refuse`, `preempt` and `haste` alone lets TLC violate it (see above).
- `Iface_proofs`, the stations: `StationsAgree` without `retype` and `haste`.  A
  station that only one side has is in the hands of a call or of the work
  (`HeldInv`), what these hold fits their position (`ArgInv`, `WorkInv`), and a
  request under way finds what it is about (`QueueInv`).  `haste` has to be
  excluded: with it and `ap` the property is false.  `retype` is excluded because the
  proof builds on `Inv`.

The models avoid what the provers cannot take apart: the loops of `RxReorder` are
stated by their result where that is simple (`Place`, `Indicate`: the longest
prefix of the list before a number) and by a recursive function otherwise
(`Advance`), and the sums of `TxQueue` are sums of functions, not folds of
operators.  The library's induction theorems take an operator as an argument,
which cannot be instantiated; `OrderFacts` and `RxReorder_proofs` therefore argue
with the least element of a set of counterexamples, for the sums over finite sets
and for `Advance` over a list of any length.

Model-checked only: all liveness (`QueuedLeaves`, `WaitersReturn`, `CommandsGo`,
`UrgentFramesGo`, `BlocksTaken`, `QuietBusSleeps`, `HeldGoes`, `GrantServed`,
`NewestGoes`, `AttemptsEnd`, `RequestsEnd`), since TLAPS proves neither properties
under fairness nor anything with `ENABLED`.

## Not modelled

Every component and the reason is in PROJECT.json under "components".  In short:
removal of the card, which crosses all of the above; board support, which runs
once in one thread; Bluetooth, of which this build has only an rfkill switch;
radar and TDLS, mostly tables and frame construction; formats, tables, vendor
commands, demos and recipes have no control worth a model; USB, PCI and Bluetooth
over SDIO are not part of this build.  By lines most of the repository is such:
the firmware as an array alone is a quarter of it.

## Plan

1. Done: `CmdMgr` against `CmdChannel`; the SDIO bus, its transmit path against
   `FrameCarrier`; `RxReorder` against `InOrderWindow`; `TxQueue` against
   `FrameLines`; `TcpAck` against `AckStream`; `StaIface` and `ApIface`; the proofs
   above.
2. Theorems: `StationsAgree` without the hypothesis on `retype`, and what is left
   of `Agreement` where cfg80211 reassociates and then waits for the indication.
3. Removal of the card: `cmd_mgr_drain`, the order in which threads are stopped
   and structures freed, `reord_deinit_sta`.
4. Two interfaces on one channel context; keys and external authentication.
5. Board support: power on and off against probe and removal.

The set of runs is kept at a dozen, so that all of them can be repeated after
every change: a new component's run takes the place of one whose question is
answered elsewhere, as happened to the runs that only exhibited a flaw of one
statement.
