# TLA+ verification of the FVS318G firmware's switch driver

The repository is a custom firmware for the Netgear FVS318G router: a Linux
2.6.16 kernel for the STR9100 system-on-chip, busybox, iptables, wget and the
scripts that pack them into an image.  The logic that is the firmware's own, and
that is concurrent, is the driver of the gigabit switch (GSW) in
`linux-2.6.16-star/drivers/net/str9100/`: it shares two rings of descriptors with
DMA engines, takes interrupts, polls under NAPI and serves several network
devices at once.  This project models that driver, with the IGMP snooping that it
does for the LAN switch, the timer that keeps the WAN port in step with its PHY, the
access to the PHYs' registers, and, on the same board, the watchdog and the reset
button.

Paths below are relative to `src/linux-2.6.16-star/`; `star_gsw.c` stands for
`drivers/net/str9100/star_gsw.c`.

## 1. Inventory

| Component | State | Operations | Interacts with |
|---|---|---|---|
| Transmit path, `star_gsw_send_packet` | `txring`: 80 descriptors with ownership bit `cown`, `fs`/`ls` flags, data pointers; `skb_ptr[]`; `cur_index`; TS DMA control register | send a buffer of 1 + `nr_frags` segments | the TS DMA engine reads the ring and gives descriptors back; the queueing discipline calls it and retries a refused buffer |
| Receive path, `star_gsw_receive_packet`, `star_gsw_poll` | `rxring`: 96 descriptors with a buffer each; `cur_index`; FSSD; `is_qf` | take frames, replace buffers, restart the engine | the FS DMA engine fills the ring; FSRC and FSQF interrupts; `net_rx_action` |
| Interrupt handlers `star_gsw_receive_isr`, `star_gsw_fsqf_isr` | mask, latched edge, `disable_depth`; `is_qf` | schedule the poll; note a full queue | `arch/arm/kernel/irq.c`, `arch/arm/mach-str9100/str9100_intc.c` |
| Open and close | `install_isr_account`, actions of two lines, RX_SCHED bit of the one `STAR_NAPI_DEV`, MAC ports | `star_gsw_open`, `star_gsw_close`, `star_gsw_install_isr`, `star_gsw_uninstall_isr` | rtnl serialises calls; interrupts and polls run between their steps; all devices share handlers and NAPI device |
| IGMP snooping, `star_gsw_get_rfd_buff`, `brcmTagDelete`, `brcmTagAdd`, `star_gsw_send_packet_wrapper` | `igmpSnoopStatus`; static entries of the address table; the memory of the buffers | learn joins and leaves, tag multicast frames with the ports of their group | hosts and querier on the LAN; the switch, which takes the tag off; the queue, which calls again with a refused frame |
| Address table, VLAN, QoS, `/proc` | switch registers | search, write; ioctl and `/proc` handlers | IGMP snooping; user space |
| PHY access, `star_gsw_phy.c` | PHY control register, address bits in a second register, register 0 of each PHY | `star_gsw_read_phy`, `star_gsw_write_phy`, `std_phy_power_down` | called from process context and from the WAN-polling timer, with no lock |
| WAN polling, `bcm5081_polling.c` | `polling_status`, carrier of the WAN device, speed and duplex of MAC port 1 | `wan_polling` once a second, `get_set_speed` | the PHY; open and close write the same MAC register |
| Push button, `push_button.c` | `counter`, `button_pressed`, its timer, a file in `/tmp` | `push_button_polling` | GPIO; user space reads the file; `machine_restart` |
| Watchdog, `drivers/char/watchdog/str9100_wdt.c` | `soft_margin`, kernel timer, hardware counter | load, unload, open, write, ioctl, release, timer | user space; shares the timer softirq with the button; resets the board |
| GPIO, RTC, LED, board support, flash map, USB glue | registers | register access | - |
| Rest of the kernel, busybox, iptables, wget, iptadmin, irqd | - | third-party | - |
| Build and start-up scripts | - | sequential | - |

What is hard here.  The driver and two DMA engines work on shared memory with
no lock between them: the ownership bit is the protocol.  The interrupt is
edge-triggered, and unmasking it clears the latched edge
(`str9100_intc.c:156-163`).  The receive engine stops by itself when the ring is
full.  The NAPI device is shared, opened and closed by several devices and counted
by one integer.  Allocations and `request_irq` may fail in the middle of it all.
The PHY registers are driven in several stores from two contexts.  IGMP messages
are lost, and the table that they maintain never ages.  The watchdog, its own kernel
timer and the button are a matter of time: who is due first decides.
The properties that make the components correct:

- transmit: the engine never reads a freed buffer; no buffer is lost or freed
  twice; the engine sees whole frames only and sends them in order; what was
  handed over is sent;
- receive: no frame is taken twice, out of order or from an empty slot; the
  interrupt is off exactly while the poll answers for the ring; frames and a
  stopped engine are eventually attended to;
- open and close: handlers are installed exactly while a device is up; the poll
  is gone after the last close; close ends;
- WAN polling: carrier, remembered status and the speed of the MAC follow the PHY
  over every sequence of changes, and recover from reads that fail;
- PHY access: a read-modify-write changes one bit of one PHY, and every call returns;
- IGMP snooping: members get their group's frames, others do not; a tag is where the
  switch looks for it, and the bytes around the frame stay as they are;
- watchdog and button: a board that hangs is reset, one that runs is not; what a press
  comes to depends on how long it lasted.

## 2. Modules

| Module | Models | Code |
|---|---|---|
| `GswTx` | transmit path and TS DMA engine; refinement mapping to `TxFifo` | `star_gsw.c` 2265-2289, 2999-3231, 3494-3526 |
| `TxFifo` | abstract: a bounded queue of frames and the last frame sent | - |
| `MCGswTx` | instance for TLC | - |
| `GswTx_proofs` | theorems about `GswTx`: who owns which slot and buffer | - |
| `GswTxFifo_proofs` | theorems about `GswTx`: whole frames, and the refinement; extends `GswTx_proofs` | - |
| `GswRx` | receive ring, both interrupts, poll, FS DMA engine; refinement mapping to `RxFifo` | `star_gsw.c` 1821-1903, 2244-2339, 2908-2979; `irq.c`, `netdevice.h` |
| `RxFifo` | abstract: a bounded queue of frames and the last frame taken | - |
| `MCGswRx` | instance for TLC | - |
| `GswRx_proofs` | theorems about `GswRx` | - |
| `GswNapi` | open, close, interrupt installation, the shared NAPI bits | `star_gsw.c` 1570-1574, 1979-2167; `irq.c`, `netdevice.h`, `dev.c` |
| `MCGswNapi` | instance for TLC | - |
| `GswNapi_proofs` | theorems about `GswNapi` | - |
| `WanPolling` | the WAN polling timer, and open and close as far as they share its register | `bcm5081_polling.c` 22-183; `vela.h` 72-119 |
| `MCWanPolling` | instance for TLC | - |
| `WanPolling_proofs` | theorems about `WanPolling` | - |
| `PhyAccess` | the register protocol of PHY access, interleaved with the timer of WAN polling | `star_gsw_phy.c` 192-254, 1182-1202; `bcm5081_polling.c` 60, 126-131 |
| `MCPhyAccess` | instance for TLC: the board's PHYs | - |
| `PhyAccess_proofs` | theorems about `PhyAccess` | - |
| `BrcmTag` | the tag put into and taken out of a buffer: pure operators | `star_gsw.c` 2491-2508, 2528-2618 |
| `IgmpSnoop` | joins, leaves, the static entries, tagged sending; extends `BrcmTag` | `star_gsw.c` 744-777, 1582-1613, 2431-2488, 2587-2615, 2864-2872, 3531-3543 |
| `MCIgmpSnoop` | instance for TLC | - |
| `IgmpSnoop_proofs` | theorems about `IgmpSnoop` | - |
| `KernelTimers` | timers in ticks, and the softirq that runs them | external |
| `Watchdog` | the watchdog driver and its hardware | `str9100_wdt.c` 60-235 |
| `PushButton` | the reset button | `push_button.c` 13-130 |
| `Board` | both drivers on one board: composition, time, restart | - |
| `MCBoard` | instance for TLC | - |
| `Board_proofs` | theorems about `Board` | - |

Each component module has, before its actions, a section of faulty forms of some
definitions (`SendStop_KeepRunning`, ...).  Nothing uses them; putting one in the
place of the definition it is named after makes a property fail, which shows that
the property depends on that piece of code.

### GswTx

One action per access to what the engine shares.  `SendStop` is the entry up to
`org_index = cur_index = txring.cur_index`, including HAL_GSW_TS_DMA_STOP, which
comes before the lock.  `SendCheck`/`SendBusy` are one iteration of the first
loop: it reads `cown` and returns 1 when the engine owns the descriptor.
`SendFill` is the second loop; it touches only descriptors the CPU owns, which the
engine does not look at, so it is one step.  `SendRelease` clears one `cown`.
`SendStart`, `SendFree` and `SendReturn` are the rest.  The kernel is uniprocessor
and `hard_start_xmit` runs with bottom halves off, so there is one call at a time.
The build has STAR_GSW_SG and not FREE_TX_SKB_MULTI (`star_gsw_config.h`), hence
only those branches are modelled.

The engine (external, as the driver uses it): while the control register is 1 it
fetches the descriptor at TSSD if it owns it, later sends the segment and hands the
descriptor back.  A stop lets a fetched descriptor complete and fetches no other.

A buffer is `<<skb, f>>` segments; lengths, checksum flags, VLAN and port map are
left out.  `holder` says who answers for a buffer.

### GswRx

The poll is split where the engine or an interrupt can come in between: the read of
FSSD (`PollStart`), the test of `cown` when the indexes are equal (`PollEqual`), one
iteration of the loop (`LoopReceive`, `LoopNoMemory`, `LoopNoPacket`, `LoopEnd`),
`if (is_qf) is_qf = 0` (`PollAgain`), `HAL_GSW_FS_DMA_START()` (`PollRestart`),
`netif_rx_complete` (`PollComplete`), `enable_irq` (`PollEnable`).  An interrupt that
is pending is taken before the poll's next step, as on the CPU
(`InterruptPending`).

The engine (external): fills the descriptor at FSSD if it owns it, raises FSRC late
(STAR_GSW_DELAYED_INTERRUPT collects arrivals), and when it meets a descriptor it
does not own it raises FSQF and stops.  Frames are model values that the network
may use again once they have left the ring.  `sneaked` is a history variable: a
frame came after the poll's last look and before `enable_irq`; `losses` counts the
failed allocations.

### GswNapi

Open and close run under rtnl, so at most one is in progress (`pc`, `dev`); each of
its steps is an action.  The poll is one action, since no process runs during a
softirq on this uniprocessor.  The ring is a number of frames: `GswRx` has the
detail.  `overlap` and `failed` are history variables: a device was opened while
another was up, and the number of installations that failed.

### WanPolling

`wan_polling` reads AUX_SUM, and when negotiation is complete `get_set_speed` reads
it again: two actions, `PollRead` and `PollSpeed`, with PHY changes in between
(`PhyChange`, which also stands for the power-down that `PORT1_LINK_DOWN` causes).
`star_gsw_read_phy` leaves its output untouched when it times out, so with
`ReadMayFail` a read may give any value.  The timer is a softirq: no process runs
between its two reads, but it may run between the load (`PortLoad`) and the store
(`PortStore`) by which OPEN_PORT and CLOSE_PORT change the same register.  `torn`,
`clobbered` and `misread` are history variables for the causes after which the MAC
may differ from what was seen.

### PhyAccess

`star_gsw_read_phy` and `star_gsw_write_phy` are split at every access to the two
registers they drive: clear `rw_ok` (`ClearOk`), the read-modify-write of the upper
address bits as its mask (`MaskHigh`) and its or (`OrHigh`), the command
(`GiveCommand`), the polls of `rw_ok` (`PollOk`, `PollTimeout`).  A process in
`std_phy_power_down`, which reads register 0, changes bit 11 and writes it, and the
timer function of WAN polling take these steps; the timer function interrupts the
process anywhere and runs to its end.  The interface that does the transfers is
external.  What it does with a command or a clear in the middle of a transfer is not
known, so every outcome is in the model, and it may die.  `hit` and `busy` are
history variables: the timer function came in one of the windows where it can spoil
the process's call, and it began in the middle of a transfer.

### BrcmTag and IgmpSnoop

`BrcmTag` models a buffer as memory, the offset of its data, its length and its end,
with the first bytes of `skb_shared_info` behind the end, and `brcmTagAdd` and
`brcmTagDelete` as functions of it: pad, make room at the tail or by moving the frame
up, move what follows the addresses, write the tag.  Bytes are numbered, so that a
byte in the wrong place shows.  `Tagged` and `Padded` are the reference definitions.

In `IgmpSnoop` receiving and sending are single steps, since both run with bottom
halves off on a uniprocessor.  `Report` and `Leave` are messages of hosts that arrive
or are lost, and find the address table writable or not: `brcmTagDelete` ignores a
write that timed out.  `LooksLikeJoin` is a multicast frame that is no IGMP message
but has the byte of a join where `brcmTagDelete` looks.  `Send` is
`star_gsw_send_packet_wrapper`, with the outcome of `star_gsw_send_packet` as its
parameter: a refused frame stays in the queue as it now is, tag included, because the
wrapper has changed the buffer itself.  `Reaches` says what the switch makes of the
tag.  `stale` is a history variable: entries whose leave did not get through, or that
no join made.

### Watchdog, PushButton and Board

Time is counted in ticks of a third of a second, the scan rate of the button.  A
timer is the number of ticks until it is due; `Tick` waits until everything due has
been called, unless the softirq hangs.  `Watchdog` has one action per file operation,
load, unload and timer function, and the hardware's counter, which only the magic
value in the restart register loads.  `orphan` is the timer that unloading leaves
pending: when it is due the kernel calls a function in freed memory, and hangs or
not.  `PushButton` has `push_button_polling` by its cases; if `filp_open` fails, its
error value goes to `filp_close` in interrupt context, which ends the softirq.
`Board` composes them: they share the softirq (`hung`), and a restart, by the
hardware, the button or user space, starts both anew with the button as it is.
`shared`, `unfed`, `held` and `bounced` are history variables.

## 3. Runs

Passing runs:

| Run | Instance | Shows |
|---|---|---|
| `tx` | ring of 3, frames of 1 to 3 segments, 3 buffers, fairness | `EngineReadsHeldSkb`, `EachSkbRemembered`, `WholeFramesWhileRunning`, `EngineSlotsUntouched`; the ring implements `TxFifo` (`ImplementsFifo`); `SentUnlessStalled`: a descriptor handed over is sent unless a later call found the ring full; `ReclaimedBySends`: as long as sends succeed every buffer comes back |
| `rx` | ring of 3, weight 2, 3 frames, failing allocations, fairness | `PollOwnsInterrupt`, `StopIsRemembered`, `CurIsOldest`, `OneLossNoWedge`; `OvertakesFullRingOnly`: until two allocations have failed the oldest frame is taken, or the newest of a full ring; the ring implements `RxFifo` until an allocation fails (`ImplementsFifo`); `TakenUnlessMissed`, `RestartedUnlessRotting` |
| `napi` | two devices, two frames, failing `request_irq`, fairness | `UpMeansHandlers`, `AccountCountsDevices`, `DownMeansQuiet`, `OneUserNoBug`, `CloseEnds` |
| `wan` | no speed, 100 half, 1000 full; failing reads; fairness | `SpeedFollows`, `CarrierFollows`, `Settles` |
| `phy` | the board's PHYs 0 and 9, a dying interface, fairness | `OneBitUnlessHit`: bit 11 of the PHY asked for changes and nothing else, unless the timer function came in one of three windows; `PollReadsStatus`; `NeverTheOtherPhy`: mixed address bits lead to PHY 8, which does not exist; `PowerDownReturns` |
| `igmp` | two hosts behind one of two ports, one group, six buffer shapes, lost messages, failed writes, refused sends, fairness | `NoOutsiders`, `Healed`, `TagInPlace`, `InfoKeptExactly`, `CloneKeptExactly`; `PassedOnExactly`: through refused calls and changes of `igmpSnoopStatus` the hosts get the stack's frame exactly if it has as many tags as the switch takes off |
| `board` | second of 3 ticks, margins 0 to 2, two files, thresholds 2 and 4, fairness | `ResetOnlyWhenHung`, `OnWhileOpen`, `AnsweredInTime`, `HoldDecides`, `HangEnds`, `HeldIsAnswered` |

The type invariants and the inductive invariants are theorems for every instance
(section 4), so the runs do not check them again.  `phy` does check its `TypeOK`, which
says more than types: which address bits the stores of two calls can leave behind.

Several properties name the cases in which the code does not do what one would hope,
and say that there are no others.  Every such case was seen to be necessary: without
it TLC finds a counterexample.

Runs in which the code disagrees with what the repository says of it:

| Run | Property | The disagreement |
|---|---|---|
| `tx_requeue` | `RefusedIsSentLater` | "re-queue the skb" (`star_gsw.c:3085`), but the return of 1 leaves the engine stopped, so a full ring stays full |
| `tx_free_list` | `SkbFreeFits` | `skb_free[MAX_SKB_FRAGS]` (`star_gsw.c:3026`) against a loop that may note `MAX_SKB_FRAGS + 1` buffers |
| `rx_rotting` | `FrameTaken` | `NAPI_HOWTO.txt:693` asks for a second look after `netif_rx_complete`; the poll takes none, and `enable_irq` clears the edge |
| `rx_no_memory` | `CurEmptyRingEmpty` | after a failed allocation `cur_index` points at an empty slot before waiting frames, against the rule at `star_gsw.c:2968` |
| `napi_bug` | `NoNapiBug` | opening a second device clears RX_SCHED under a scheduled poll; `netdevice.h:866` calls that a BUG |

Observations that need no run: a sent buffer is freed only when a later send
comes to its slot, whereas `Documentation/networking/driver.txt:64-70` asks for a
finite time; `star_gsw_open` ignores the result of `star_gsw_install_isr`
(`star_gsw.c:2129`), which is why `failed` counts and `AccountCountsDevices` has
the term it has; a WAN link that is down from the start leaves the carrier on,
because `polling_status` starts as 0 and no change is seen; and after a torn read
or an overwritten register the WAN port keeps the wrong speed until the PHY
changes again, which is why `SpeedFollows` names both.

- `Documentation/watchdog/watchdog-api.txt` has the board reset when user space stops
  writing.  Here the driver's own kernel timer restarts the hardware for ever, so only
  a kernel whose timers stop is reset (`ResetOnlyWhenHung`).  The close of one of two
  open files disables the hardware for the other (`OnWhileOpen`); a margin of 0 is
  accepted; a module that is loaded again enables a counter that an earlier load has
  left nearly run out (`unfed`).
- A button released in the last second before the factory threshold restarts the
  board: `counter` is then the threshold, which `< FACTORY_RESET_THRESHOLD` excludes
  from a custom reset (`HoldDecides`, third part).
- One failed allocation leaves the receive ring out of step for good (`OutOfStepCorrect`,
  section 4): when the poll comes to the slot it gave back, it waits there until the
  engine has gone round the ring, and the frame that ends the wait is passed up before
  all the older ones (`OvertakesFullRingOnly`).
- After `star_gsw_send_packet` refuses a tagged frame the wrapper tags it again at the
  next call, and the hosts get a frame with a tag in it, also if snooping has been turned
  off in between (`PassedOnExactly`).  `brcmTagAdd` moves `BRCM_TAG_SIZE`
  bytes more than the frame has, into `skb_shared_info` if the tailroom is small
  (`InfoKeptExactly`), writes into buffers that may be clones, which
  `include/linux/skbuff.h:460` rules out (`CloneKeptExactly`), and returns 0 also when
  there was no room.
- A host's leave takes its port out of the group although another host behind the port
  is a member; the next all-hosts query, which goes to every port, heals that
  (`Healed`).  A group-specific query goes to the ports in the table only, so it would
  not, whatever the comment at `star_gsw.c:2590` says of queries.
- One failed allocation puts `cur_index` behind the engine, but the engine comes round
  to it; two can leave the poll at an empty slot and the engine at a full one for good
  (`OneLossNoWedge`).
- The search of the address table waits for the hardware without a bound
  (`star_gsw.c:744-777`); the model takes it to end.
- `INTC_ENABLE_INTERRUPT_SOURCE` at `star_gsw.c:922` is a read-modify-write outside any
  lock.  It is harmless: it always clears the bit of FSRC, and the handlers of other
  lines mask and unmask within one interrupt.

### Bounds and why they are enough

The rings are small so that they fill, wrap and refill many times.

- `tx`: a ring of 3 with frames of up to 3 segments has a frame that takes the whole
  ring, a frame with an inner segment, two frames at once and a wrap inside a frame.
  Three buffers fill the ring with frames of one segment each.
- `rx`: a poll weight of 2 below the ring size makes the poll run out of quota with
  frames left.  The three frames come again and again; they fill the ring, and two
  allocations may fail.
- `napi`: two devices are what the shared state needs, and a ring of two frames lets
  the poll leave one.
- `wan`: the three values of the speed field are one that sets nothing and two that
  differ in both speed and duplex.
- `phy`: the PHYs 0 and 9 are the board's, so the instance is the real one; both bits
  in which their addresses differ lie on different sides of the register's split.
- `igmp`: two hosts behind one port let the leave of one hit the other, and the second
  port has no members.  The six rooms are a tail with room for the tag, one just too
  short, room at the head only, none at all, and frames to be padded at either end.
  `MAX_TRIES` 2 has a frame refused once and tagged twice.
- `board`: `SECOND` 3 scans stands for HZ ticks, so that a second has a start, an inside
  and an end.  The margins include 0.  Two files are what a close that disables the
  other's watchdog needs.  Thresholds of 2 and 4 seconds leave a hold for each kind of
  reset and for the gap at the factory threshold.  `HW_RESET` is a value of the counter
  longer than the default margin lasts, and different from what any margin loads, so that
  a counter that was used is told apart.

The theorems below remove the bounds for the properties they cover.

`CHECK_DEADLOCK FALSE` is said for the transmit, receive and NAPI models.  A router with
no traffic, a stalled receive engine or a kernel that met its BUG really stops.  In `tx`
every buffer may rest in a slot after it was sent, and then there is nothing to send
until the stack brings another.  The timers of `wan`, `phy` and `board` run for ever, and
so does the querier of `igmp`.

### Fairness

- A started `send_packet`, open, close or poll runs on: it holds the CPU.
- The DMA engines work on what they own, the delayed interrupt is raised after
  `max_pend_time`, a pending unmasked interrupt is taken, and a listed poll is
  called by `net_rx_action` or ksoftirqd: weak fairness.
- A buffer that the stack holds is tried again and again (`SF` on `SendStop`):
  the queueing discipline requeues what was refused and NET_TX_SOFTIRQ runs it
  again.
- `wan_polling` adds its timer again at every end, so polls whose reads succeed
  recur.  Fairness is on those only: fairness of every poll would, once nothing is
  left to change, force reads to fail.
- `phy`: the timer function holds the CPU once it runs.  It runs once a second, and a
  transfer takes milliseconds at most, so the process and a transfer that no timer
  function is polling go on infinitely often (`SF`).  A transfer that ends is assumed to
  be shorter than the 0x1000 polls of `star_gsw_read_phy`; one that does not is `Die`.
- `igmp`: the querier asks for ever, which is what an IGMP querier is for.  Of its
  queries not all are refused at their first send, of a host's reports not all are lost,
  and of the writes of the address table not all time out (`SF`).  Nothing is assumed of
  leaves or of the user who sets the snooping status.
- `board`: the clock ticks, a due timer of a running kernel is called, and an expired
  hardware counter resets the chip.  The last is not assumed for a margin of 0, since the
  source does not say what a reload value of 0 does.
- Nothing is assumed of arrivals, opens, closes, the PHY, the user or the button.

## 4. Proofs

| Module | Holds for every | Assumption |
|---|---|---|
| `GswTx_proofs` | ring size, fragment limit, set of buffers | `TxAssumption` (`MAX_SKB_FRAGS < TFD_NUM`, as 17 or 18 is less than 80) |
| `GswTxFifo_proofs` | the same | `TxAssumption` |
| `GswRx_proofs` | ring size, weight, set of frames | `RxAssumption` |
| `GswNapi_proofs` | finite set of devices, ring size | `NapiAssumption` |
| `WanPolling_proofs` | set of speeds | `WanAssumption` |
| `PhyAccess_proofs` | set of PHY addresses that the board keeps apart | `PhyAssumption` |
| `IgmpSnoop_proofs` | set of ports, groups, hosts; lengths, headrooms and tailrooms of frames; sizes of tag, addresses and padding | `SnoopAssumption` (a frame has at least its addresses: the stack calls a driver with an Ethernet header in place), `TagAssumption` |
| `Board_proofs` | margins, ratio, number of files, thresholds | `SecondAssumption`, `WatchdogAssumption`, `ButtonAssumption` |

Each component's types are proved too, so that only `phy` still checks them.

**Transmit.** `EngineReadsHeldSkb` is not inductive: that the engine's buffer is
not in the list to be freed depends on where the loops of `send_packet` are and on
which slots the engine can still own.  `RingInv` says it in five parts:

- `LoopPosition`: the loop counters and indexes agree;
- `EngineWindow`: the engine's descriptors are exactly those from TSSD up to the
  last one released;
- `SlotsForFrame`: the slots a call has checked, or has yet to release, are the
  CPU's, and the release does not run into TSSD;
- `LastSegmentPending`: the buffer of an engine descriptor is recorded at a slot
  that the engine reaches no sooner, so it cannot be in a slot already given back;
- `Records`: a buffer is recorded once, and what is to be freed comes from slots
  that were checked.

`RingInvCorrect` proves `TypeOK /\ RingInv` one action at a time, from lemmas on
`Plus`, `NextSlot` and `Distance` (arithmetic around the ring).
`EngineReadsHeldSkbCorrect` and `EngineSlotsUntouchedCorrect` follow;
`EachSkbRememberedCorrect` adds `NothingLost`, the converse of `Records`, and a
cardinality argument.

*Whole frames and the queue* (`GswTxFifo_proofs`).  That the engine never meets half a frame
needs more than ownership.  `FrameInv` describes the slots that are committed, that is the
engine's or filled and about to be released:

- `FlagsMatchSegment`: flags, segment number and recorded buffer of such a slot agree;
- `SegmentsFollow`: a segment is followed by the next one of its buffer, a last one by a
  first one, and the slot before `cur_index` ends a frame;
- `FramePrepared`: what the two loops have written so far, at which distance from
  `cur_index`.  It carries the flags from the first loop over to the second;
- `GatheredSoFar`: the engine has gathered exactly the segments before the one at TSSD;
- `FramesEnd`: as many frames begin in the ring, with the one being sent, as end there.
  `WholeFramesWhileRunning` compares these two numbers, and `send_packet` may be in the
  middle of a release only while the engine is stopped (`StoppedWhileSending`).

`ImplementsFifoCorrect` is the step simulation.  A frame is queued while its last segment
is the engine's, and the k-th frame is at the k-th such slot from TSSD (`Rank`, `Nth`).
Lemmas on ranks say what one slot more at the far end, one less at the near end, and a
TSSD that moves over a slot without a last segment do to that order; with them `SendRelease`
of a last segment is `Accept`, `DmaComplete` of one is `Transmit`, because what was gathered
is that frame, and every other step leaves the queue alone (`QueueKept`).

**Receive.** `PollOwnsInterrupt`, `StopIsRemembered` and the types are proved
directly; `CurIsOldestCorrect` uses `RingWindow` (until an allocation fails, the frames
fill the ring from `cur_index` to FSSD), and `rx_no_memory` shows that the condition is
needed.  Beyond the first failed allocation `SkewCorrect` follows the ring: `SkewWindow`
says that the frames then lie between `cur_index` and FSSD with one gap (`GapAt`), which
the poll is never past, or that the engine has filled the gap, the ring is full and FSSD
is one slot ahead of `cur_index`.  From that come `OneLossNoWedgeCorrect`,
`OvertakesFullRingOnlyCorrect` (the age of a frame is its distance from FSSD, because the
engine fills the slots in order; only in the second case is the one at `cur_index` not the
oldest) and `OutOfStepCorrect` (neither case is `RingWindow`).
`ImplementsFifoCorrect` rests on `RingWindow`: the queue is the `Held` slots from
`cur_index` on, `HwReceive` appends to it, `LoopReceive` takes its head off, the first
failed allocation is `Break`, and the other steps leave it alone.

**Open and close.** No property of `GswNapi` is inductive, because open and close run in
steps over state that both devices share.  `NapiInv` has three parts:

- `Account`: `install_isr_account` is the number of devices up, less the failed opens and
  less the one whose close has already counted down;
- `Handlers`: until an installation fails, which of the two handlers are installed is given
  by the account and by whether an open is between the two requests;
- `Quiet`: with one user at a time, a listed poll has its RX_SCHED bit, and it is listed
  only while there is a handler, or a close that waits for it.

The count is over any finite set of devices, by lemmas on the cardinality of the devices
up before and after one of them changes.

**WAN polling.** `SpeedFollows` is inductive together with the types, from three
lemmas on `WithSpeed` (it keeps the type, is idempotent, and does not look at the
enable bit).  `CarrierFollowsCorrect` needs `CarrierAhead`: between the two reads the
carrier already is what the first one asks for.

**PHY access.** Two calls drive the same registers, so none of the properties is inductive.
`PhyInv` has four parts next to the types:

- `Address`: what the upper address bits are at each store of a call, and after the timer
  function has come in between: those of PHY 9, or a mix with them;
- `Transfer`: whose transfer runs, and what `rw_ok` says of it, while the interface lives;
- `Calls`: the process's call is for the PHY it was asked for;
- `Progress`: as long as nothing has spoiled it, how far `std_phy_power_down` has come,
  and that the value it will write differs from the register in bit 11 only.

`PhyAssumption` is the property of the board's addresses that `NeverTheOtherPhy` comes from:
the lower bit of one PHY's address with the upper bits of PHY 9, or with the bitwise or of
both, is that PHY's address or nobody's.  The addresses 0 and 9 of this board have it, since
there is no PHY 8; with a third PHY at 8, or with PHY 1 in the place of 0, it would fail.

**IGMP snooping.** `NoOutsiders` is inductive with the types and `FrameInv`, the fields of
a frame and that none is sent more than `MAX_TRIES` times.  That proof never expands
`brcmTagAdd`.

`TagInPlace`, `InfoKeptExactly` and `CloneKeptExactly` are about the bytes that it moves.
Each of its steps has a lemma that says, for every buffer, where every byte of the memory
comes from (`AfterPut`, `AfterPad`, `AfterRoom`, `AfterInsert`): the runs try six buffers,
the lemmas cover all headrooms, lengths and tailrooms.  Up to `MakeRoom` the memory stays
that of a buffer (`Buffer`: what is behind the end, and nothing else, is `skb_shared_info`);
`TagInsert` is the one step that may break it, and where the move of `TAG_SIZE` bytes too
many ends decides `InfoKeptExactly`.  `BufInv` brings this to the specification: the buffer
is the stack's until the first tag, and then `brcmTagAdd` of that.  After a second tag,
which only a refused frame gets, these three properties say nothing.

`PassedOnExactly` is about those frames too, for any number of refused calls.  What is
behind the buffer's end may have been overwritten by then, so its lemmas are about a weaker
`Block`, and whether a later call finds room does not matter.  `StackInv` is the inductive
form: a tagged frame has a tag right behind its addresses (`First`), and one that was tagged
again has another behind that (`Second`), which is what is left when the switch takes one
off; the stack's frame has an own or a zero byte there.  It also shows that `Reaches`, which
counts tags, is right about the bytes.

**Board.** That the hardware resets only a hung kernel is a race of two timers.  `Ahead`
is the inductive form: while the module is loaded and the kernel runs, the kernel timer is
pending and the counter has more left than it, unless the load found the counter unfed or
the margin is 0.  `AnsweredInTime`
and `HoldDecides` need `CounterIsTime`: the button's counter is the time held in seconds,
up to the scan that is due.

**Only model-checked**: liveness (`SentUnlessStalled`, `ReclaimedBySends`,
`TakenUnlessMissed`, `RestartedUnlessRotting`, `CloseEnds`, `Settles`,
`PowerDownReturns`, `Healed`, `HangEnds`, `HeldIsAnswered`), because the prover has no
support for fairness.  Every invariant, action property and refinement that a passing run
checks is also a theorem.

## 5. Not modelled

Third-party programs, the rest of the kernel, the build scripts and register-only
drivers (GPIO, RTC, LED, board support) have no state machine of the firmware's own.
`star_gsw_timeout` is not modelled: the queue is never stopped while a device is up,
so the transmit watchdog does not fire it.  The non-NAPI, timer and
FREE_TX_SKB_MULTI branches are not built.  `star_gsw_open` also starts the FS DMA
engine; `GswRx` starts from an open device, so a later open of another device, which
would restart a stopped engine, is not in it.  The non-atomic write of the interrupt
mask in `star_gsw_interrupt_enable` is a single step here.

Also left out: frames with paged data in `brcmTagAdd`; the sequences of register writes
that configure each PHY and the switch's VLAN and QoS tables, which are straight-line
I/O; the search of the address table, which waits for the hardware without a bound; the
choice of the device by the source port, a look-up in a constant table; the MAC address
read from flash; and the error paths of module initialisation and exit.

## 6. Plan

1. Done: transmit, receive, open and close, WAN polling; their safety and liveness.
2. Done: watchdog and push button under one clock, PHY access with its shared control
   register, IGMP snooping with the switch tag.
3. Done: theorems for open and close, IGMP snooping and the board; the ring after one
   failed allocation.
4. Done: theorems for whole frames, both refinements, PHY access and the bytes of a tagged
   frame; with them every safety property of a passing run is proved.
5. Module initialisation and exit with their error paths (`star_gsw.c` 2204-2294,
   4018-4181), in front of `GswNapi`.
6. The interrupt controller with several lines and the register-wide read-modify-write
   of the mask, below `GswRx` and `GswNapi`.
