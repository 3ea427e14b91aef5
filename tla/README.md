# A verification project for the simulated PCI CAN card and its serial forebears

The repository is a QEMU and Linux environment for developing a PCI CAN card built
around an SJA1000 controller: the Linux character drivers of the card
(`source/linux_driver`), example programs (`source/examples`), the successive prototypes
of the QEMU device with their test drivers (`backup/qemu_linux1` to `4`), the QEMU and
Linux serial code the prototypes were patterned on (`backup/qemu_linux0`), QEMU's character
layer with a CAN back end added (`qemu-char.c` in versions 2 to 4), and a root file system,
a kernel and its `config` to run it in. The QEMU device of the final drivers is not in the
repository (a submodule).

The project models the final CAN drivers, the frame layouts, the emulated 16550A UART, the
Linux 8250 driver on it, the serial core above it, the drivers of serial boards beside it,
and the character layer behind it. Paths below are relative to `src/`; `P` stands for
`source/linux_driver/pelican_mode/can_pci.c`, `B` for the file of the same name in
`basiccan_mode`. `PROJECT.json` holds the lines each definition translates, the runs, the
mutants that show each property can fail, and the hazards with their lines.

## 1. Inventory

| component | state | operations | interacts with |
|---|---|---|---|
| CAN driver: file operations and handler (P 93-275, B 56-233) | two rings of frames, each with a count, an in- and an out-index; no lock | `device_open`, `device_release`, `device_read`, `device_write`, `irq_handler` | user programs, controller (registers, interrupt) |
| Frame layout (P 8-89, B 7-53; v4 `can-pci.c` 53-109) | transmit and receive registers | `send_message`, `receive_message`, `buff2frame` | the driver; another card; the CAN back end |
| CAN life cycle (P 278-400) | global `device`, its block, mapping, interrupt, major number, cdev | probe, remove, module load and unload | PCI core, interrupts, open files |
| Example programs | none | polling reads; open, write, close | the driver |
| 16550A UART (`QEMU/serial.c`) | registers, two FIFOs, four timers, the interrupt line | register accesses, `serial_xmit`, receive callbacks, reset, migration | the guest's driver; the character layer |
| 8250 port driver (`8250.c`) | shadow of the interrupt mask, saved status bits, workaround flags, `port->lock` | autoconfig, startup, shutdown, set_termios, interrupt handler, backup timer, console | UART; serial core |
| interrupt chain (`8250.c` 1547-1706) | `irq_lists`, one `irq_info` per interrupt, a circular list of ports | link, unlink, the handler's walk | ports starting and stopping; the card's shared line (`serial-pci.c`) |
| serial core (`serial_core.c`) | count, flags, wait queues and power state of a line; transmit ring | open, close, hang-up, set_info, autoconfig, suspend, resume, add and remove | tty layer; 8250 |
| table of lines and board drivers (`8250.c` 2688-3322, `8250_pci.c`, `8250_pnp.c`) | `serial8250_ports`; each board's `line[]`, mapped registers, PCI enable count | register, unregister, probe, remove, sleep, error recovery, module load and unload | PCI, PnP and platform buses; serial core |
| board tables (`8250_pci.c`) | `serial_pci_tbl`, `pci_boards`, `pci_serial_quirks` | counting and placing of ports, the guess at an unlisted board | the board drivers |
| character layer (`qemu_linux4/qemu-char.c`) | per back end: connection, timers, partial input; multiplexer: focus, escape, rings | main-loop poll, read, timers, accept, hang-up; multiplexing | peers; UART and monitor |
| QEMU devices v1 to v3, their drivers | a memory window, a timer interrupt (v3) | read and write of the window | each other |
| Environment (`config`, images, `qemu.sh`) | none | boots the above | all |

What makes each correct, and what is hard about it:

* **CAN file operations and handler.** An accepted frame goes out once, whole; frames are read
  in order; counts and indices never disagree. Hard: the handler runs between any two
  instructions; a call sleeps in its copy after it tested a count and before it uses it;
  any close resets the one controller under the other files.
* **Layouts.** What one card stores another must read. Hard: shifts and masks that a test with one
  identifier cannot tell apart; registers that remember the last frame.
* **CAN life cycle.** An interrupt between `request_irq` and `free_irq` must find the block and the
  mapping. Hard: failure at each of eight steps.
* **UART.** The line and the identification register always say what stands; characters are
  neither lost nor repeated through mode changes, FIFO clears, loopback and reset; nobody waits for
  ever. Hard: the device refuses characters at its trigger level and relies on a timer below it.
* **8250 port.** Characters pass once and in order, output never stalls, status bits that reading
  clears reach whom they are for. Hard: the handler drops the lock half way; the backup timer and
  the console write the mask behind the shadow.
* **Chain.** The interrupt is requested exactly while ports are on the list; an edge-triggered line
  is seen down before the handler leaves. Hard: joins, leaves and walks overlap.
* **Serial core.** The hardware runs only for somebody, for whoever has the port open, and not after
  removal; addresses are given back once. Hard: opens wait with the mutex released while others
  close, hang up, reconfigure, sleep or remove the port.
* **Lines and boards.** The table, each board's notes and the resource tree agree, however boards
  come and go; each board's ports lie inside its registers. Hard: lines remember old addresses;
  three tables written apart.
* **Character layer.** What is asked for before a wait must fit after it; commands split over reads
  are decoded; the front end knows whether somebody is connected. Hard: sizes, focus and connection
  change between the question and its use.

## 2. Modules

| module | what it is | proofs |
|---|---|---|
| `CanDriver` | file operations and `irq_handler` of both drivers, the controller as environment | `CanProofs` |
| `CanRxAbs` | abstract receive side: a queue; `CanDriver` is shown to implement it | `CanProofs` |
| `CanCodec` | register layouts of both drivers and of the emulated v4 card | `CanProofs` |
| `CanProbe` | life cycle of the CAN module | `CanProofs` |
| `Uart16550` | the 16550A's handlers as operators on a device record | `Uart16550Proofs` |
| `Serial16550` | that device under any guest, back end, timer, reset and migration | `Serial16550Proofs` |
| `Port8250` | one port of the 8250 driver on the device of `Uart16550` | `Port8250Proofs` |
| `SerialCore` | life cycle of one line | `SerialCoreProofs` |
| `IrqChain` | several ports on one interrupt, with the card's shared line | `IrqChainProofs` |
| `PciBoards` | the three tables of `8250_pci.c` and the functions that combine them | |
| `SerialLines` | the table of lines and the board drivers; extends `PciBoards` | `SerialLinesProofs` |
| `CharMux` | back ends, main loop, multiplexer, a UART's FIFO and a monitor | `CharMuxProofs` |
| `MC...` | instances for TLC | |

`Uart16550` is composed with two environments: `Serial16550` lets the guest do anything,
`Port8250` puts the real driver there. `SerialCore` uses the port's operations at the
grain of `port->mutex`, `IrqChain` those of the chain, `SerialLines` those of the table.

### CanDriver

*Concurrency.* `config` builds the kernel without SMP (line 235) and with
`CONFIG_PREEMPT_NONE` (292). A system call gives up the processor only where it sleeps: in
the copies from and to user space (`GotoCopy`, when `CopyMaySleep`). `cpu` is the process
inside the kernel and not asleep. The handler runs between any two steps of a process and to
its end (`Running`). The compiled modules in `rootfs/home/can_pci` update each counter with one
memory instruction and compute the slot's address before the copy, so an update is one step
and `slot` is fixed when the copy starts.

*Steps* end where an interrupt or another process can tell the difference: `OpenChip`,
`OpenTx`, `OpenRxCount`, `OpenRxIndex`; `Read`, `ReadCopy`, `ReadAdvance`; `Write`,
`WriteCopy`, `WriteStatus`, then `WriteQueue` or `WriteId`, `WriteData`, `WriteCommand`;
`IrqEnter`, `IrqTx`, `IrqRx`, `IrqDoi`; `Release`. Calls that return before changing
anything are stutters.

*Controller (external).* RI is level, TI and DOI are latched and cleared by reading the
interrupt register; the transmit registers and the transmission request take effect only in
operation mode with the buffer released; reset mode aborts the transmission and empties the FIFO.

*Switches.* `CopyMaySleep`, `CopyMayFail`; `QuietOpen` (no frame arrives while `device_open`
runs); `PromptIrq` (an asserted interrupt is taken before the next instruction of a process).
`SizeMax` stands for the largest `size_t`: 7 is above every ring used, so a wrap shows.
*Histories*: `nTx`, `nRx` number frames; `wire`, `got` are the frames sent and returned by read;
`accepted` those for which `write` returned `count`; `flushed` those a reset or reopen threw away.

### CanCodec, CanProbe

Shifts by constants are products and quotients. The path `emulated` is the version-4
device: its test driver's store (`qemu_test_pci.c` 114-148), a buffer that keeps the bytes of the
last frame, and `buff2frame`, which ORs into a `can_id` only remote frames assign
(uninitialised: `dirty` is a choice). A frame the back end refuses is lost (`ReleaseBuffers`).

In `CanProbe`, `owned` is what is acquired, as pairs of a step of `pcisimple_probe` and its
owner; `After`, `Unwind` and `Down` are the order of the calls, the `goto` of each failure and the
chain of labels, which `pcisimple_remove` enters at its top. `MaxProbes` bounds probes.

### Uart16550, Serial16550

The device is one record; each register access is an operator from a device to a device (or
a value and a device). Interrupt causes are ranked as in `serial_update_irq`. The divisor, line
parameters and character time are left out; time is the order of timer events.

### Port8250

`phase` follows a port from an unknown state left by firmware (`Init` has several) through
probe, startup, set_termios and shutdown. The interrupt handler (`h`), console (`con`), two
processes of the tty layer (`wr`, `th`) interleave; `lock` is `port->lock`. An operation
that holds it throughout is one action; the handler and the console are a step per register
access because characters, breaks and line changes arrive in between, and the handler gives the lock
up around the flip buffer (`Relock`). `Modes`: interrupt, interrupt with the backup timer
(`UART_BUG_THRE`), or polled (irq 0).

Startup is six steps, because the port is on its chain (or its poll timer is armed) from
`OpenLink` on, before the second of its two tests of the transmit interrupt: the test made before that,
under the lock (`OpenLink`); the interrupt enabled (`OpenTxen`) and asked for (`OpenTxenEnd`) in one
hold of the lock; the registers read (`OpenDrain`) and the mask written (`OpenEnable`) without it. The
handler reads the identification without the lock (`Identification`), also between `OpenTxen` and
`OpenTxenEnd`, and then takes the interrupt the test waits for: `UART_BUG_TXEN` is turned on for a device
that does not need it. `hist.taken` notes that this happened; `ProbedRight` allows the flag only then, and
the other properties hold with it. The interleavings are those of an SMP kernel; on the kernel of `config`
the lock disables interrupts, nothing else runs while it is held, and there are fewer.

### SerialCore

Everything under `port->mutex` is one step; a file's `pc` keeps the gaps outside of it. An ioctl
(`uart_set_info`, `uart_do_autoconfig`) is two steps: `Ask` finds the file not hung up and reads the
port, then copies from user space and waits for the mutex; `SetFlags`, `SetIrq`, `SetPort` and
`Autoconfig` do the work under it, and `AskRefused` is a request that comes to nothing. A hang-up,
a close by another file, or a removal may come between; the code asks neither again. The
tty layer (block-til-ready, close-start, vhangup) is external, modelled from its use here. Eight
interleavings are named by `Race(...)` and left out of the run with `Races = {}`; each of them
violates a property:

| race | what happens | violates |
|---|---|---|
| `late_hangup` | hang-up of a port that opens have counted but nobody made active | `CountIsOpeners`, `StartsBalanced`, `RemovedIsQuiet` |
| `refused_close` | the file of a refused, uncounted open is closed while another has the port open | `CountIsOpeners`, `OpenPortServed`, `RegionHeld`, `RemovedIsQuiet` |
| `drain_remove` | the port is removed while a close still drains or a failed open is still to be closed | `RemovedIsQuiet` |
| `two_closes` | an open that failed during a close is closed before that close is over | `OpenPortServed`, `RegionHeld`, `RemovedIsQuiet` |
| `config_busy` | a typed port is configured at an address another driver holds | `RegionHeld` |
| `info_busy` | set_info gives an untyped port a type whose address is taken | `RegionHeld` |
| `hungup_start` | an ioctl that waited across a hang-up starts a port that is down (`serial_core.c` 874, 999) | `StartsBalanced` |
| `ask_remove` | a removal releases the port while an ioctl that has read it waits; it goes on with the NULL it finds later | `RemovedIsQuiet` |

What is left of the gap is in the run: a waiting ioctl whose file is hung up still changes the
port's flags, interrupt and address, and starts it where another file has it running.

### IrqChain

Each port starts (find or allocate the `irq_info`, add itself, request the interrupt) and stops
(silence, free the interrupt, leave the list) in steps with the gaps of `hash_mutex` and
`i->lock`; the handler's visits are steps. Stops overlap one another as `hash_mutex` lets them.
`Anchored = TRUE`: a start overlaps other starts and stops only while some port stays up. Without one
the code goes wrong in two ways, since `hash_mutex` covers the look-up of a linking but neither its
addition to the list nor the request of the interrupt: a start that finds the `irq_info`
of a first port whose request has not come back is up without an interrupt, for good if the request
fails; one that finds the `irq_info` of the last port while that is leaving joins freed memory. With
FALSE `ChainSound` fails. `BusyStop = FALSE`: on an edge-triggered line no
port is stopped while it holds the line up (with TRUE `EdgeNotLost` fails). `PassLimit` is above
what `MaxEvents` can use up; at the limit the handler gives up with the line high.

### PciBoards, SerialLines

A `Row` of `Ids...` is one or several adjacent entries of `serial_pci_tbl` that differ only in
what is not modelled (the baud base, names of devices that share a board); order is kept, since
the first match counts. `find_quirk`, the init functions' port counts, `pci_default_setup`
and the eleven other setups place port `i` of a device (`PciPlace`).
`Identify` is what `pciserial_init_one` finds out about a device: its quirk, its board from the
table or `serial_pci_guess_board`'s guess, its number of ports.

In `SerialLines` one registration or removal of a line (under `serial_mutex`) is one step and
a board's probe is many. `line` is `serial8250_ports` with what the serial core keeps of each
line, `claimed` the resource tree, `board` each driver's private data. `serial8250_find_match_or_unused`
is `Chosen`. The PCI enable count is `cnt`, `on` its effect. `8250_pnp.c` drives the devices of its
table, and those its two wildcards bring if they look like a modem (`PnpAccepts`).

### CharMux

One action per handler the main loop calls; `loop.at` says whether it waits or runs timers. A
size asked for before the wait (`Poll`) is used after it, while the guest may have emptied or
disabled its FIFO. Bytes carry a number, so order and repetition show. The UART's receive path is
that of `serial.c`. A read of the FIFO tells the back end that there is room, except in loopback
(`serial.c` 478): there nobody hears of it (`Unheard`), and a byte that the UART would take may wait until the
next read outside of loopback. `NoStall` excepts that, as it excepts a FIFO the guest resets or fills by
looping back; so does `Fits`, because above its trigger level the UART says it takes one byte, and a
read down to that level makes it none. `Backlogs`: whether the guest starts with breaks unread behind a
full ring; `Letters`: which bytes a back end's peer sends.

## 3. Runs

| run | bounds | shows | states |
|---|---|---|---|
| `RxPeli` | one reader, one writer, ring 3, FIFO 2, 6 frames in, 1 out; copies may sleep and fail; silent open | `TypeOK`, `RingInv` (counts bounded, in = out + count), `RxImplements` (the receive path implements `CanRxAbs`) | 390 000 |
| `RxBasic` | BasicCAN, two processes that read and write, ring 2, 4 frames in, two open files; fairness | `RxServed`: `RxImplements` with a lossy queue, and every stored frame leaves | 68 000 |
| `TxPrompt` | two processes, ring 2, 5 frames out, 2 in; prompt interrupts | `TxSound` (each accepted frame in exactly one place, and whole), `SendsWhenReleased` | 293 000 |
| `Probe` | one card, four probes, the failures that are unwound | `HandlerSafe`, `NoLeak`, `BoundComplete` | 150 |
| `Codec` | all standard identifiers, extended ones with one bit set or clear; data of 0, 1 and 8 bytes | `Faithful`, `DataKept` | 121 000 |
| `Uart` | FIFO 3, trigger 2, four characters | `IrqLevel`, `TxDone`, `FifosRight`, `Signalled` | 583 000 |
| `Port` | FIFO 2, both triggers, ring 2, three modes, CTS flow control, four events | `ShadowRight`, `ProbedRight`, `TxOrder`, `TxNoStall`, `RxOrder`, `StatusNotLost` | 1 919 000 |
| `Core` | two files, two addresses, another driver; fairness | `StartsBalanced`, `CountIsOpeners`, `OpenPortServed`, `RegionHeld`, `RemovedIsQuiet`, `OpenReturns` | 262 000 |
| `Irq` | three ports, four `irq_info` objects, level and edge; fairness | `ChainSound`, `EdgeNotLost`, `WorkIsDone` | 287 000 |
| `Lines` | five pairs of boards, one board of each layout in exact registers, every device of the table | `LinesOwned`, `Reachable`, `PortsPlaced` | 204 000 |
| `Char` | four kinds of back end, with and without multiplexer; ring 1, FIFO 3, trigger level 1, three keys, one FIFO reset, loopback change or looped character; fairness | `Fits`, `Decoded`, `Routed`, `NoStall`, `OpenedTruth`, `PtyTruth`, `InputDrains` | 702 000 |
| `OpenRace` | as `RxPeli`, but frames may arrive during open | `ReadsReal` fails (P 193-196) | |

Several properties are conjunctions of parts with comments of their own: `TxSound` =
`TxAccounted`, `WireIntact`; `FifosRight` = `TypeOK`, `ReceiveQueue`; `Signalled` =
`ThrottledMeansSignalled`, `DataWillSignal`; `ShadowRight` = `TypeOK`, `IerShadow`; `StatusNotLost` =
`BreakNotLost`, `CtsFollowed`; `LinesOwned` = `TypeOK`, `OneOwner`, `PortsInside`, `RegionsExact`.

*Why the bounds suffice.* A ring of two or three slots is filled, emptied, wrapped and
overrun. Two files are the least with which one close happens under another's open; one more
driver on two addresses the least that makes a reconfiguration lose its region. Three ports
let one leave while another joins and a third stays. A FIFO of two or three has characters below,
at and above its trigger. Four events of `Port` let a request, an arrival, a break or line change and
a console write or flow-control call meet in one handler run. In `Lines` a table of two or three
lines is too small for both boards, so that the search for a free line takes its last resort; every
device of `8250_pci.c` is probed once, and the boards whose setup function is peculiar also have
registers of the exact size. In `Char` three keys hold an escape, a command and a byte and are more than the
multiplexer's ring of one; the FIFO is two deeper than its trigger level, because a break into a FIFO filled to
that level makes the UART take a byte again, and the next one must still find a place. The six
theorems about `Char` hold for every size. Symmetry is used only in `TxPrompt`, where the two processes have the
same part and no liveness is checked. Where a run's behaviours end at a bound on events, or no frame
or card need come, its cfg says `CHECK_DEADLOCK FALSE`.

### What the runs leave out on purpose

Each of these is a constant or an instance, and the property it would break is known:

* `Races`, `Anchored`, `BusyStop` (above); `QuietOpen` (run `OpenRace`); `MayFail` of `Probe`: a
  failed `pci_iomap` is reported as success (P 313), `cdev_add`'s failure and a bad revision leak.
* `OpenWhileDown = FALSE`: no user opens a line between its board's bus error and its recovery.
  `uart_open` does not ask, and `Reachable` fails with TRUE.
* In `Lines` ports at which no UART answers are at I/O addresses: a silent memory-mapped port keeps
  `iobase` 0, its line is taken for unused and handed to the next board, and `LinesOwned` fails.
* `Misplaced`: the NETMOS 9865 with subsystem 0x3004 (4S). `netmos_9900_setup` (`8250_pci.c` 781) puts
  port `i` in register `3 * i`, beyond the six a device has for the third port: `PortsPlaced` fails.
  (Its 2S sibling uses registers 0 and 3, and is checked.) `pbn_b4_bt_2/4/8` say `bt` without the
  flag that gives each port a register; what the code does with them is inside their one register.
* Boards of vendors whose quirk ignores a guess are guessed at only in a few representative instances.
* A migrated UART is excepted from `IrqLevel` (pending bits are not in `vmstate_serial`); a FIFO
  emptied under a data-ready bit from `ReceiveQueue`; a break alone from `DataWillSignal`; a telnet
  connection that begins inside the last one's command from `Decoded`.

### Claims of the source that do not hold

`OpenRace` is the one run that is expected to fail: a frame arriving in the few instructions between
enabling interrupts and clearing the ring in `device_open` leaves count and index apart, and a read
returns a slot no interrupt filled. Other claims are written down next to the properties, checked
once and found not to hold; no run is kept for them:

| definition | claim | what the code does |
|---|---|---|
| `CanDriver!TxDrains` | a queued frame is sent (P 256) | a frame queued just after the last transmit interrupt waits for the next write |
| `CanCodec!StdIdKept` | standard identifiers arrive (`can_pci.h` 33) | PeliCAN mode keeps two of three low bits (P 44) |
| `Serial16550!RetryBeforeDrop` | `serial_xmit` drops only after `MAX_XMIT_RETRY` | the counter never leaves 0: the first refusal drops |
| `Serial16550!TimeoutHasData` | a pending timeout means data | reset keeps the pending timeout |
| `Port8250!XonSent` | `uart_send_xchar` sends the character | a stop in between also stops it; a second overwrites it |
| `Port8250!QuietAfterClose` | shutdown disables the port's interrupts | a console write around it puts the mask it saved back |
| `SerialCore!RunsPowered` | a running port is powered up | a port reconfigured by its second user may not be |
| `CharMux!SwitchIsImmediate` | Ctrl-A c switches to the next device | the rest of the same read still goes to the old one |
| `CharMux!ConnectedMeansSomebody` | the pty timer's guess means a connection | it may run in a round that did not wait for the descriptor |
| `CharMux!OptionsRemoved` | all telnet options are removed | a command cut by a disconnect continues in the next connection |
| `SerialLines!OffWhenGone` | a removed board is switched off | resume enables without a disable; a board given up is disabled twice |

## 4. Fairness

* `CanDriver`: `WF(Irq)`, an asserted interrupt is served; `WF(TransmitDone)`; `SF` of a process's
  steps inside a call (the scheduler resumes it, though the handler may interrupt it each time);
  `SF(Read)` of a reader, the endless loop of `receive.c`. Nothing of arrivals, opens, closes, writes.
* `SerialCore`: `WF` of waiting for the carrier, waking and removing; `SF` of what needs the tty lock
  after a close (the lock is handed over, not withheld from one for ever); eventually the system stays
  awake. Nobody has to open, close or see the carrier.
* `IrqChain`: `WF(Handler)`: a pending interrupt is taken and its handler runs on.
* `CharMux`: the main loop goes round; timers that are due expire; the guest, whose handler reads when
  told, reads again and again (`SF`). Peers have no duties.

## 5. Proofs

Every theorem holds for all values of the constants (sizes, processes, ports, files, bounds) that
satisfy the named assumptions of its module; a hypothesis beyond those is part of its statement and
is explained here. Each safety theorem has an inductive invariant, a conjunction of named parts, one
lemma per action (or per group of actions that change the same things), and lemmas about the
operators those use.

### CAN driver (`CanProofs`)

| theorem | states | hypothesis |
|---|---|---|
| `TypeCorrect` | `[]TypeOK` | |
| `RingCorrect` | `[]RingInv` | `Discipline` |
| `SendsSafely` | `[]SendsWhenReleased` | `PromptIrq` |
| `TxCorrect` | `[]TxSound` | `Undisturbed` |
| `RxCorrect` | `RxImplements`, the refinement of `CanRxAbs` | `Discipline` |

* `TypeCorrect`: the conjunct that is not local says that the handler, once it has read RI, still finds
  a frame in the FIFO; `CallInv` adds that only the handler and a reset take frames out and that no
  process runs while the handler does.
* `Discipline`: no frame during `device_open`, and if copies may sleep, one open file, one reader and one
  writer. `RingInv` alone is not inductive: the decrement in `ReadAdvance` needs a positive count
  (`ReadHasFrame`), the increment in `WriteQueue` a free slot (`WriteHasRoom`), which hold because no
  one else can have taken it (`KernelOwner`, or the discipline: lemmas `Alone`, `Sole`); the stores of
  `device_open` need an idle controller (`OpenQuiet`). `RingIInv` is the conjunction.
* `SendsSafely`: `SendInv` follows TI from the chip through the handler: it is raised when the buffer is
  released and taken before a process can lock it again.
* `TxCorrect`: `Undisturbed` adds to `Discipline` prompt interrupts, one open file at a time, and copies
  that neither sleep nor fail. Each is needed: a second open that fails leaves the controller reset
  under the first file; two sleeping copies share a slot; a failed copy queues a blank frame; a late
  interrupt lets `send_message` overwrite a locked buffer. `TxIInv` says where every frame is
  (`Distinct`: ring, controller and bus are disjoint, no frame twice, none halved), that a frame leaves
  these only by a flush (`Kept`), and that the frame being written is in none of them (`WriterHolds`).
* `RxCorrect`: the queue of `CanRxAbs` is the ring followed by the chip's FIFO. `ReadRight` says a read in
  progress is still about the oldest frame; each action is then a step of the queue (`AbsArrive`,
  `AbsIrqRx`, `AbsDeliver`, `AbsDown`, `AbsOpen`) or does not show (`AbsOther`). The lemmas `Concat...` and
  `Frames...` are about sequences and rings.

### Layouts and life cycle (`CanProofs`)

* `CodecFaithful`: `[]Faithful`, identifiers below 2^29, data up to 8 bytes; the lemmas `ExtIdBack`,
  `DescriptorBack`, `InfoBack` are the arithmetic, `PeliBack`, `BasicBack` and `CardBack` the layouts.
  `CodecKeepsData`: `[]DataKept`, on every path, whatever the registers held.
* `ProbeSafe`, `ProbeLeaksNothing`, `BoundIsComplete`: with one card and failures that are unwound,
  `HandlerSafe`, `NoLeak` and `BoundComplete` hold through any number of loads. `Exact` says that what is
  acquired is exactly what the label being executed implies, `Stage` in which stage of the module's life
  each label can be. (`FilesSafe`, in `ProbeSafe`: open files find a mapped, complete device; only the
  proof checks it.)

### 16550A UART (`Uart16550Proofs`, `Serial16550Proofs`)

No hypotheses: any FIFO length, any trigger levels, any guest, back end, timer order, reset, migration.
One lemma per handler of the device says what it does to a well-formed device and which fields it
leaves alone (`Same`); these lemmas are in `Uart16550Proofs`, and `Port8250Proofs` rests on them too. `UartInvariant` proves `UartInv`: the device is well-formed (`Dev`); the
transmitter is idle between accesses (`Quiet`); in FIFO mode the trigger level is the selected one, and a
character in the FIFO is timed, timed out or a break (`Armed`); a cause implies the line, even after
migration (`Told`); unless migrated, the identification is exact (`Right`); the FIFO, the register and
the data-ready bit are what was not read (`Queue`). From it `LevelCorrect` (`[]IrqLevel`), `TxCorrect`
(`[]TxDone`), `FifosCorrect` (`[]FifosRight`) and `SignalsCorrect` (`[]Signalled`).

### 8250 port (`Port8250Proofs`)

`PortCorrect` proves `[]PortInv` for every ring, trigger level, load size, mode, number of events, and
every FIFO length but 1 and 64 (`PortAssumption`: at those the driver would not take the device for a
16550A). The parts of `PortInv`, and what needs each:

| part | says | because |
|---|---|---|
| `Types` | between operations the device is well-formed, not sending, exactly identified, not in loopback | the lemmas of the device ask for it |
| `Locks` | who holds `port->lock`, and where handler, console and processes may then stand | an action that takes the lock must find the others outside |
| `Shadow` | the device's mask is the shadow but for what a console write or the backup timer has under way; the mask a console write saved is still the shadow | the timer and the console write the mask behind the shadow |
| `Out` | the line followed by the ring is what was queued | `TxOrder` is about an empty ring |
| `Sending` | output that may go on has its interrupt enabled (`Going`), which is then pending (`Pending`) or already seen by the handler | the interrupt is latched once, when the register empties |
| `Receiving` | what was pushed, followed by the FIFO, is what was accepted; a read of an empty FIFO (`Ghost`) is counted | the handler reads on the strength of a status that a FIFO clear can make stale |
| `BreakKept` | a break is in the device, in the saved bits or in the handler's status; one that came after the handler's read (`Late`) has a character behind it | reading the status clears it |
| `CtsKept` | a change of CTS is in the modem register or with the handler | the same |
| `Blame` | the interrupt of startup's second test is pending until the handler takes it; `UART_BUG_TXEN` is on only if it did | the handler may read the identification before the test does |

From it `ShadowCorrect` (`[]ShadowRight`), `ProbeCorrect` (`[]ProbedRight`), `OrderCorrect` (`[]TxOrder`),
`TransmitCorrect` (`[]TxNoStall`), `ReceiveCorrect` (`[]RxOrder`), `StatusCorrect` (`[]StatusNotLost`). The
proof goes up in three layers: what a register access does to a device that is not sending (`Calm`), what
the driver's register sequences do to the record of an operation (`Carries`, `Follows`), and one lemma per
action. The functions defined by recursion (the characters of a write, the loads and drains of a FIFO) are
total by the lemmas `Climb` and `Computed`: bounded induction, from the well-foundedness of `<`.

### Serial core (`SerialCoreProofs`)

| theorem | states | races allowed |
|---|---|---|
| `NeverTwice` | `[]Balanced`: started once, not while suspended, never shut down twice | all eight |
| `StartsCorrect` | `[]StartsBalanced` | `config_busy`, `info_busy` |
| `CountCorrect` | `[]CountIsOpeners` | `config_busy`, `info_busy` |
| `ServedCorrect` | `[]OpenPortServed` | `config_busy`, `info_busy` |
| `RemovalCorrect` | `[]RemovedIsQuiet` | `config_busy`, `info_busy` |
| `RegionCorrect` | `[]RegionHeld` | none |

The six other races each violate one of these properties (section 2), which
hold together or not at all in the argument: they share one invariant. `CoreInv` says what the flags of the
line exclude (`Sound`), that a port sleeps only while the system does (`Frozen`), how far a removal has
come (`Removal`), that the counts are the cardinalities of sets of files (`CountIsOpeners`,
`BlockedCounted`), that hardware runs for a file that serves as reason (`ForSomebody`), that a hang-up or
the last close leaves nothing on the old tty (`TtyKept`), that one file at a time closes and nobody has the
port open meanwhile (`ClosingAlone`), and that the port of a file about to become ready is served
(`ServedInv`).

### Interrupt chain (`IrqChainProofs`)

* `ChainCorrect`: `Anchored => []ChainSound`, any number of ports and `irq_info`s, that join and leave at once
  as section 2 says. `ChainInv`: a port that joins is the only one or some port is up (`Anchor`), so that what it
  looked up stays and is requested; one port at a time frees the interrupt (`OneFrees`, from `hash_mutex`); every
  port that is not down uses the `irq_info` of `irq_lists` (`MineIsInfo`) whose list holds each port once
  (`Lists`); and the request follows the list (`Requested`, `HandlerAt`).
* `EdgeCorrect`: `[]EdgeNotLost` if `Anchored`, no `BusyStop`, and `MaxEvents <= PassLimit`. A line that is up
  with no new edge is up for a port the handler has still to visit (`EdgeAhead`). The handler gives up after
  `PASS_LIMIT` rounds; `Rounds` says every round but the one under way has dealt with a cause, so with at
  most that many causes it never does.

### Lines and boards (`SerialLinesProofs`)

| theorem | states | hypotheses |
|---|---|---|
| `LinesSafe` | `[]LinesInv`, the inductive invariant | `WellBuilt` |
| `OwnersCorrect` | `[]LinesOwned` | `WellBuilt` |
| `PortsReachable` | `[]Reachable` | `WellBuilt`, no `OpenWhileDown` |

Any number of lines and boards, any order of registrations, removals, sleep and bus errors, any bounds.
`WellBuilt` is about the machine, which never changes, and is true of all 108 machines of `Lines`:

* `CardOk`: the fields of a card have their types, and a PnP device has one port at most.
* `Placed`: a PCI card's ports lie in registers that it has, apart from each other. `PciBoards` is opaque
  to the proof: that its tables do place them so is the property `PortsPlaced`, which TLC checks.
* `NoConflict`: nobody else is at the address of a PnP device (the bus gives addresses out), and a UART
  answers at the ports of PCI and PnP devices. Without the second half a silent port's line is taken for
  unused and given to another board while the first still has it noted (section 3). Platform devices, whose
  addresses a board file states, may share addresses and be silent.
* `LegacyOk`: legacy addresses are I/O ports, each given once.

`LinesOwned` is not inductive: that a driver's notes stay right needs the table to be in order between
the changes too. The parts of `LinesInv`, and what needs each:

| part | says | because |
|---|---|---|
| `Sane` | no two lines have the same address, an address fits its line's kind, only attached lines are detected | a line is found by its address (`Chosen`) |
| `Held` (in `Tab`) | the claimed regions are exactly those of the detected lines | `Release` goes by the address, whoever claimed it |
| `Noting` | the notes that a driver still goes by are the lines that name its board; each is detected and at its own port | a detected line is never given away, and two ports are never at one address (`PortsDiffer`) |
| `Counting` | the walk over ports ends at their number; a removal has not passed more lines than there are | `next` is bounded, also for platform devices, whose lines are found by name |
| `Awake` (without `OpenWhileDown`) | no line of a board that sleeps or is in trouble runs; the board is switched on where it counts | `Reachable` |
| `Mapped`, `Present` | memory mapped by a driver is in its list; an unloaded module has no lines and no boards | `Reachable`; `Load` starts from an empty table |

The invariant is written over values, a table `ln` and boards `bd`, not over the variables, so that one lemma
serves the table before, within and after an action. `RemoveFacts`, `AddFacts`, `RegisterFacts` and
`UnregisterFacts` say that the helpers of the table change one line and its region (`With`), `Replace` that
such a change keeps the table in order, `OtherBoard` that it leaves the other boards' notes alone, `Carry` that
what is good of the new values is the invariant at the next state. Loading and unloading walk over all the
lines; the walk is compared line by line with its result (`LoadingStep`, `LeavingStep`, `SameWalk`).

### Character layer (`CharMuxProofs`)

| theorem | states |
|---|---|
| `CharInvAlways` | `[]CharInv`, the inductive invariant |
| `FitsAlways` | `[]Fits` |
| `DecodedAlways` | `[]Decoded` |
| `RoutedAlways` | `[]Routed` |
| `NoStallAlways` | `[]NoStall` |
| `OpenedTruthAlways` | `[]OpenedTruth` |
| `ConnectedIsRealAlways` | `ConnectedIsReal`, the safety half of `PtyTruth` |

No hypotheses but `CharAssumption`: any of the back ends, any ring, any FIFO and trigger level in it, any
number of bytes and of steps of the guest. The proof has three layers.

*Loops.* `tcp_chr_process_IAC_bytes`, `mux_chr_accept_input`, `mux_chr_read` and `udp_chr_poll` are folds in
`CharMux`, and so is the reference of the multiplexer. `IacRun`, `DeliverRun`, `MuxRun`, `DirectRun`,
`BreakRun`, `StrayRun` and `RouteRun` lay each out as a sequence of states from the first to the last byte,
and `Climb` (the least number that fails) carries along it what one byte preserves.

*Decoding.* `Decode`, the reference, looks ahead in the whole stream; the scanner of the code sees one byte at a
time and keeps `do_telnetopt` between reads. `DecodeRight` shows that they agree for every stream, and
`DecodedSoFar` says that what the front end was given, and the position kept, are those of a
scanner that never stopped.

*The invariant.* `CharInv` is `Sound`, of values and not of variables, so that it can be stated in the middle of a
handler:

| part | says | why it is needed |
|---|---|---|
| `Held` | nothing was lost for want of room; the ring has a place left when the FIFO is above its trigger level, or the monitor has the focus | there the UART answers 1 and may take nothing: a break or a character of the same read came first, or the focus comes back while the read goes on |
| `Room` (in `WaitOk`) | a descriptor that is waited for asked for no more than the ring and the FIFO take, whatever the guest reads before | the answer is used after the wait: `Fits` |
| `Awake` | a front end with bytes waiting has the focus and refuses more, or was away | `NoStall` |
| `RoutedSoFar` | the reference has the focus and the escape state of the multiplexer, and what the front ends have or have waiting is its output | `Routed` alone says nothing of the next byte |
| `DecodedSoFar` | above | `Decoded` |
| `LinkOk` | the server's OPENED is out or has its timer exactly while somebody is connected; only the pty has its own timer; a line that polls has a handler | `OpenedTruth`, and the types |

`During` and `Budget` are `Held` in the middle of a read: the bytes still to come fit, with one place to spare
where the UART may take one less than it said.

### Only model-checked

* Liveness, out of the prover's reach: `RxServed` (but its safety part, `RxImplements`), `OpenReturns`,
  `WorkIsDone`, `InputDrains`, and `PtyNotices`, the other half of `PtyTruth`.
* `PortsPlaced`: the tables of `PciBoards` are data, some 150 devices; TLC goes through them all, and the
  proofs of `SerialLines` take its result as the hypothesis `Placed`.
* `ReadsReal`, and the definitions of section 3 that do not hold.

## 6. Not modelled

* CAN: `can_dlc` above 8 (documented as 0 to 8); removal of a card while its file is open; the status and
  acknowledge registers of the v4 card, which decide nothing, and its mode register, whose reset bit sends a store
  to the mask registers (`can-pci.c` 125) and which the test driver's open clears before any store
  (`qemu_test_pci.c` 44-54); v1 to v3, memory windows whose bytes nothing depends on.
* UART and 8250: divisors and baud rates on both sides, line parameters, break control, chips other than the
  16550A, RSA, autoconfig_irq, kgdb's polled console, `UPF_CONS_FLOW`.
* Serial core: `/proc`, the console option parser, `TIOCMIWAIT` and the statistics, driver registration.
* Boards: register writes of the init and exit quirks (only whether they fail), ce4100's fixed type, the
  NI 8430's transceivers, the eg20t refusals, the list of PnP ids, wake-enabled lines, the legacy
  platform device's own suspend, failure of module load after ports were added. `pciserial_resume_ports`
  runs a board's init again: for ITE 887x it claims another I/O region (`8250_pci.c` 899) and exit gives back
  only one; the model keeps no account of that.
* Character layer: memory, ring-buffer, stdio, tty, parallel and Windows back ends, time stamps, the
  monitor's commands, output other than a pty's write. The copies of versions 2 and 3 are the same code.
* Environment: images and settings; `config` justifies the absence of preemption in `CanDriver`.

## 7. Plan

The safety properties that the runs check are proved, but for the table of devices (`PortsPlaced`). Next would be
a model of the baud rates (`uart_get_baud_rate`, `serial8250_get_divisor`, `serial_update_parameters`) end to
end, as a pure algorithm from termios to the speed the back end is told.
