----------------------------- MODULE CanDriver -----------------------------
(***************************************************************************)
(* The character-device driver of the simulated PCI CAN card,              *)
(* source/linux_driver/{pelican,basiccan}_mode/can_pci.c: two rings of     *)
(* BUFFERSIZE frames shared, without a lock, by device_open, device_read,  *)
(* device_write, device_release (process context) and irq_handler.         *)
(*                                                                         *)
(* The kernel of this repository is built without SMP and without kernel   *)
(* preemption (config: CONFIG_SMP unset, CONFIG_PREEMPT_NONE).  A system   *)
(* call therefore runs to its end unless it faults on a user buffer and    *)
(* sleeps, and irq_handler may run between any two of its instructions.    *)
(* The counters are updated by single memory instructions in that build,   *)
(* so one update is one step.  The SJA1000 controller is external: it is   *)
(* modelled from how the driver uses its registers.                        *)
(*                                                                         *)
(* Frames are numbered in the order of the write calls (tx) and of their   *)
(* arrival (rx); Blank is the frame memset leaves in a slot.               *)
(***************************************************************************)
EXTENDS Integers, Sequences, FiniteSets

CONSTANTS
  Readers,       \* the processes that call read on the device
  Writers,       \* the processes that call write on the device
  BUFFERSIZE,    \* the slots of each ring (6 in can_pci.h)
  SizeMax,       \* the largest value of a size_t counter
  FifoSize,      \* the frames the controller's receive FIFO holds
  MaxOpen,       \* how many open files of the device exist at once
  MaxTx, MaxRx,  \* bounds: write calls, frames arriving from the bus
  Peli,          \* TRUE for the PeliCAN driver, FALSE for the BasicCAN one
  CopyMaySleep,  \* may copy_from_user and copy_to_user fault and sleep?
  CopyMayFail,   \* may copy_from_user and copy_to_user fail?
  QuietOpen,     \* is the bus silent while device_open runs?
  PromptIrq      \* is an asserted interrupt taken before the next instruction
                 \* of a process?

Procs == Readers \cup Writers

ASSUME SizesAssumption ==
  /\ BUFFERSIZE \in Nat \ {0}
  /\ SizeMax \in Nat /\ SizeMax > BUFFERSIZE
  /\ FifoSize \in Nat \ {0}
  /\ MaxOpen \in Nat \ {0}
  /\ MaxTx \in Nat /\ MaxRx \in Nat

ASSUME ProcsAssumption == "none" \notin Procs

ASSUME SwitchAssumption ==
  {Peli, CopyMaySleep, CopyMayFail, QuietOpen, PromptIrq} \subseteq BOOLEAN

VARIABLES
  tx_buf, tx_count, tx_in, tx_out,      \* struct can_dev: the transmit ring
  rx_buf, rx_count, rx_in, rx_out,      \* struct can_dev: the receive ring
  mode, ier, ir, dos, tbs, txreg, rxfifo,             \* the controller
  pc, slot, arg, fault, cpu, opened,    \* the processes and the open files
  ipc, temp,                            \* irq_handler and its local temp
  nTx, nRx, wire, got, accepted, flushed              \* histories

txring == <<tx_buf, tx_count, tx_in, tx_out>>
rxring == <<rx_buf, rx_count, rx_in, rx_out>>
chip   == <<mode, ier, ir, dos, tbs, txreg, rxfifo>>
proc   == <<pc, slot, arg, fault, cpu, opened>>
irq    == <<ipc, temp>>
hist   == <<nTx, nRx, wire, got, accepted, flushed>>
vars   == <<txring, rxring, chip, proc, irq, hist>>

Blank   == 0
Slots   == 0 .. BUFFERSIZE - 1
TxFrame == 0 .. MaxTx
RxFrame == 0 .. MaxRx
NoProc  == "none"

(* Where a process is: in user mode or at a step of a system call.         *)
OpenLabels  == {"o_tx", "o_rxcount", "o_rxindex"}
ReadLabels  == {"r_copy", "r_advance"}
WriteLabels == {"w_copy", "w_status", "w_queue", "w_id", "w_data", "w_command"}
Labels      == {"user"} \cup OpenLabels \cup ReadLabels \cup WriteLabels

(* A defect: the comparison made before the increment.                     *)
AdvanceLate(i) == IF i = BUFFERSIZE THEN 0 ELSE i + 1

(* "x_in++; if (x_in == BUFFERSIZE) x_in = 0;" on a ring index.            *)
Advance(i) == IF i + 1 = BUFFERSIZE THEN 0 ELSE i + 1

(* ++ and -- on a size_t, which wraps.                                     *)
Inc(n) == IF n = SizeMax THEN 0 ELSE n + 1
Dec(n) == IF n = 0 THEN SizeMax ELSE n - 1

(* The i-th slot after slot out, the order in which a ring is drained.     *)
Nth(out, i) == IF out + i < BUFFERSIZE THEN out + i ELSE out + i - BUFFERSIZE

-----------------------------------------------------------------------------
(* The controller (external).  The receive interrupt is level: the handler *)
(* takes one frame per interrupt, so it relies on being called again while *)
(* frames are left.  Reading the interrupt register clears the rest.       *)

Pending ==
  ir \cup (IF "RI" \in ier /\ rxfifo # <<>> THEN {"RI"} ELSE {})

Asserted == Pending # {}

(* Requesting reset mode aborts a transmission and empties the FIFO.       *)
EnterReset ==
  /\ ir' = {} /\ dos' = FALSE /\ tbs' = TRUE
  /\ rxfifo' = <<>>
  /\ UNCHANGED txreg

(* The registers of the transmit buffer take a value only in operation     *)
(* mode and while the buffer is released; so does a transmission request.  *)
Writable == mode = "operation" /\ tbs

(* Command 0x04: release the frame at the head of the receive FIFO.        *)
ReleaseBuffer == rxfifo' = Tail(rxfifo)

(* The frame the controller is transmitting, as a set.                     *)
InFlight == IF tbs THEN {} ELSE {txreg[1], txreg[2]}

(* The frames queued in the transmit ring.                                 *)
Queued ==
  {tx_buf[i] : i \in {Nth(tx_out, j) : j \in 0 .. tx_count - 1} \cap Slots}

(* A frame arrives from the bus; with a full FIFO it is lost (overrun).    *)
Arrive ==
  /\ mode = "operation" /\ nRx < MaxRx
  /\ QuietOpen => \A p \in Procs : pc[p] \notin OpenLabels
  /\ nRx' = nRx + 1
  /\ \/ /\ Len(rxfifo) < FifoSize
        /\ rxfifo' = Append(rxfifo, nRx + 1)
        /\ UNCHANGED <<ir, dos>>
     \/ /\ Len(rxfifo) >= FifoSize
        /\ dos' = TRUE
        /\ ir' = IF ~dos /\ "DOI" \in ier THEN ir \cup {"DOI"} ELSE ir
        /\ UNCHANGED rxfifo
  /\ UNCHANGED <<txring, rxring, mode, ier, tbs, txreg, proc, irq,
                 nTx, wire, got, accepted, flushed>>

(* The transmission ends: the buffer is released and TI is raised.         *)
TransmitDone ==
  /\ mode = "operation" /\ ~tbs
  /\ tbs' = TRUE
  /\ wire' = Append(wire, txreg)
  /\ ir' = IF "TI" \in ier THEN ir \cup {"TI"} ELSE ir
  /\ UNCHANGED <<txring, rxring, mode, ier, dos, txreg, rxfifo, proc, irq,
                 nTx, nRx, got, accepted, flushed>>

-----------------------------------------------------------------------------
(* irq_handler: it runs to its end before any process runs again.          *)

(* temp = ioread8(SJA_INT_REG), which clears the latched interrupts.       *)
IrqEnter ==
  /\ ipc = "idle" /\ Asserted
  /\ temp' = Pending /\ ir' = {}
  /\ ipc' = "tx"
  /\ UNCHANGED <<txring, rxring, mode, ier, dos, tbs, txreg, rxfifo, proc, hist>>

(* "if (temp & TI)": send the oldest queued frame, if there is one.        *)
IrqTx ==
  /\ ipc = "tx" /\ ipc' = "rx"
  /\ \/ /\ "TI" \in temp /\ tx_count > 0
        /\ IF Writable
             THEN txreg' = <<tx_buf[tx_out], tx_buf[tx_out]>> /\ tbs' = FALSE
             ELSE UNCHANGED <<txreg, tbs>>
        /\ tx_out' = Advance(tx_out)
        /\ tx_count' = Dec(tx_count)
     \/ /\ "TI" \notin temp \/ tx_count = 0
        /\ UNCHANGED <<txreg, tbs, tx_out, tx_count>>
  /\ UNCHANGED <<tx_buf, tx_in, rxring, mode, ier, ir, dos, rxfifo, temp,
                 proc, hist>>

(* Defects: a full ring noticed one frame too late, or one too early.      *)
RingIsFullLate == rx_count > BUFFERSIZE
RingIsFullEarly == rx_count >= BUFFERSIZE - 1

(* "if (temp & RI)": take one frame.  With a full ring both drivers return *)
(* at once, BasicCAN after releasing the frame, PeliCAN without.           *)
RingIsFull == IF Peli THEN rx_count = BUFFERSIZE ELSE rx_count >= BUFFERSIZE

(* Defect: the PeliCAN driver treats a full ring as the BasicCAN one does. *)
RxFullDropping ==
  RingIsFull /\ ReleaseBuffer /\ ipc' = "idle" /\ temp' = {} /\ UNCHANGED rxring

RxFull ==
  /\ RingIsFull
  /\ IF Peli THEN UNCHANGED rxfifo ELSE ReleaseBuffer
  /\ ipc' = "idle" /\ temp' = {}
  /\ UNCHANGED rxring

RxStore ==
  /\ ~RingIsFull
  /\ rx_count' = Inc(rx_count)
  /\ rx_buf' = [rx_buf EXCEPT ![rx_in] = Head(rxfifo)]
  /\ ReleaseBuffer
  /\ rx_in' = Advance(rx_in)
  /\ ipc' = "doi"
  /\ UNCHANGED <<rx_out, temp>>

IrqRx ==
  /\ ipc = "rx"
  /\ \/ "RI" \in temp /\ RxFull
     \/ "RI" \in temp /\ RxStore
     \/ "RI" \notin temp /\ ipc' = "doi" /\ UNCHANGED <<rxring, rxfifo, temp>>
  /\ UNCHANGED <<txring, mode, ier, ir, dos, tbs, txreg, proc, hist>>

(* "if (temp & DOI)": clear the overrun; return IRQ_HANDLED.               *)
IrqDoi ==
  /\ ipc = "doi"
  /\ dos' = IF "DOI" \in temp THEN FALSE ELSE dos
  /\ ipc' = "idle" /\ temp' = {}
  /\ UNCHANGED <<txring, rxring, mode, ier, ir, tbs, txreg, rxfifo, proc, hist>>

Irq == IrqEnter \/ IrqTx \/ IrqRx \/ IrqDoi

-----------------------------------------------------------------------------
(* Processes.  One of them is in the kernel at a time, except for those    *)
(* asleep in a copy from or to user space.                                 *)

Running(p) ==
  /\ ipc = "idle" /\ cpu \in {NoProc, p}
  /\ PromptIrq => ~Asserted

Goto(p, label) == pc' = [pc EXCEPT ![p] = label] /\ cpu' = p

GotoCopy(p, label) ==
  /\ pc' = [pc EXCEPT ![p] = label]
  /\ cpu' = IF CopyMaySleep THEN NoProc ELSE p

Return(p) ==
  /\ pc' = [pc EXCEPT ![p] = "user"] /\ cpu' = NoProc
  /\ slot' = [slot EXCEPT ![p] = 0]
  /\ arg' = [arg EXCEPT ![p] = Blank]
  /\ fault' = [fault EXCEPT ![p] = FALSE]

(* device_open.  Its register accesses put the controller in reset mode,   *)
(* enable TI and RI and bring it back; each of the two mode changes may    *)
(* fail after three tries, and the call then returns -EFAULT.              *)
OpenChip(p) ==
  /\ Running(p) /\ pc[p] = "user" /\ opened < MaxOpen
  /\ EnterReset
  /\ ier' = ier \cup {"TI", "RI"}
  /\ flushed' = flushed \cup InFlight
  /\ \/ /\ mode' = "operation"
        /\ Goto(p, "o_tx") /\ UNCHANGED <<slot, arg, fault>>
     \/ /\ mode' = "reset"
        /\ Return(p)
  /\ UNCHANGED <<txring, rxring, irq, opened, nTx, nRx, wire, got, accepted>>

OpenTx(p) ==
  /\ Running(p) /\ pc[p] = "o_tx"
  /\ flushed' = flushed \cup Queued
  /\ tx_buf' = [i \in Slots |-> Blank]
  /\ tx_count' = 0 /\ tx_in' = 0 /\ tx_out' = 0
  /\ Goto(p, "o_rxcount")
  /\ UNCHANGED <<rxring, chip, irq, slot, arg, fault, opened,
                 nTx, nRx, wire, got, accepted>>

OpenRxCount(p) ==
  /\ Running(p) /\ pc[p] = "o_rxcount"
  /\ rx_buf' = [i \in Slots |-> Blank]
  /\ rx_count' = 0
  /\ Goto(p, "o_rxindex")
  /\ UNCHANGED <<txring, rx_in, rx_out, chip, irq, slot, arg, fault, opened, hist>>

OpenRxIndex(p) ==
  /\ Running(p) /\ pc[p] = "o_rxindex"
  /\ rx_in' = 0 /\ rx_out' = 0
  /\ opened' = opened + 1
  /\ Return(p)
  /\ UNCHANGED <<txring, rx_buf, rx_count, chip, irq, hist>>

(* device_release, called when the last reference to one open file goes:   *)
(* a call in progress holds a reference to the file it was made on.  The   *)
(* BasicCAN control register it overwrites also holds the enable bits.     *)
Release(p) ==
  /\ Running(p) /\ pc[p] = "user" /\ opened > 0
  /\ opened > 1 \/ \A q \in Procs : pc[q] = "user"
  /\ EnterReset
  /\ mode' = "reset"
  /\ ier' = IF Peli THEN ier ELSE {}
  /\ opened' = opened - 1
  /\ flushed' = flushed \cup InFlight
  /\ UNCHANGED <<txring, rxring, irq, pc, slot, arg, fault, cpu,
                 nTx, nRx, wire, got, accepted>>

(* Defect: the test of rx_count is off by one and the last frame is kept.  *)
ReadKeepsLast(p) ==
  /\ Running(p) /\ pc[p] = "user" /\ opened > 0
  /\ rx_count > 1
  /\ slot' = [slot EXCEPT ![p] = rx_out]
  /\ GotoCopy(p, "r_copy")
  /\ UNCHANGED <<txring, rxring, chip, irq, arg, fault, opened, hist>>

(* device_read, called with count = sizeof(struct can_frame); it returns 0 *)
(* and changes nothing when rx_count is 0.                                 *)
Read(p) ==
  /\ Running(p) /\ pc[p] = "user" /\ opened > 0
  /\ rx_count # 0
  /\ slot' = [slot EXCEPT ![p] = rx_out]
  /\ GotoCopy(p, "r_copy")
  /\ UNCHANGED <<txring, rxring, chip, irq, arg, fault, opened, hist>>

ReadCopy(p) ==
  /\ Running(p) /\ pc[p] = "r_copy"
  /\ \/ /\ arg' = [arg EXCEPT ![p] = rx_buf[slot[p]]]
        /\ Goto(p, "r_advance") /\ UNCHANGED <<slot, fault>>
     \/ /\ CopyMayFail
        /\ Return(p)
  /\ UNCHANGED <<txring, rxring, chip, irq, opened, hist>>

ReadAdvance(p) ==
  /\ Running(p) /\ pc[p] = "r_advance"
  /\ rx_out' = Advance(rx_out)
  /\ rx_count' = Dec(rx_count)
  /\ got' = Append(got, arg[p])
  /\ Return(p)
  /\ UNCHANGED <<txring, rx_buf, rx_in, chip, irq, opened,
                 nTx, nRx, wire, accepted, flushed>>

(* A defect: device_write does not test tx_count.                          *)
WriteUnchecked(p) ==
  /\ Running(p) /\ pc[p] = "user" /\ opened > 0
  /\ nTx < MaxTx
  /\ nTx' = nTx + 1
  /\ arg' = [arg EXCEPT ![p] = nTx + 1]
  /\ slot' = [slot EXCEPT ![p] = tx_in]
  /\ GotoCopy(p, "w_copy")
  /\ UNCHANGED <<txring, rxring, chip, irq, fault, opened,
                 nRx, wire, got, accepted, flushed>>

(* device_write; with a full ring it returns -EFBIG and changes nothing.   *)
Write(p) ==
  /\ Running(p) /\ pc[p] = "user" /\ opened > 0
  /\ nTx < MaxTx
  /\ tx_count # BUFFERSIZE
  /\ nTx' = nTx + 1
  /\ arg' = [arg EXCEPT ![p] = nTx + 1]
  /\ slot' = [slot EXCEPT ![p] = tx_in]
  /\ GotoCopy(p, "w_copy")
  /\ UNCHANGED <<txring, rxring, chip, irq, fault, opened,
                 nRx, wire, got, accepted, flushed>>

(* A failed copy leaves zeroes in the slot and the call goes on.           *)
WriteCopy(p) ==
  /\ Running(p) /\ pc[p] = "w_copy"
  /\ \/ /\ tx_buf' = [tx_buf EXCEPT ![slot[p]] = arg[p]]
        /\ UNCHANGED fault
     \/ /\ CopyMayFail
        /\ tx_buf' = [tx_buf EXCEPT ![slot[p]] = Blank]
        /\ fault' = [fault EXCEPT ![p] = TRUE]
  /\ Goto(p, "w_status")
  /\ UNCHANGED <<tx_count, tx_in, tx_out, rxring, chip, irq, slot, arg,
                 opened, hist>>

(* A defect: a frame is sent whether or not the buffer is released.        *)
WriteStatusUnchecked(p) ==
  /\ Running(p) /\ pc[p] = "w_status"
  /\ Goto(p, "w_id")
  /\ slot' = [slot EXCEPT ![p] = tx_in]
  /\ UNCHANGED <<txring, rxring, chip, irq, arg, fault, opened, hist>>

(* ioread8(SJA_STATUS_REG): is the transmit buffer released?               *)
WriteStatus(p) ==
  /\ Running(p) /\ pc[p] = "w_status"
  /\ IF tbs THEN Goto(p, "w_id") ELSE Goto(p, "w_queue")
  /\ slot' = [slot EXCEPT ![p] = tx_in]
  /\ UNCHANGED <<txring, rxring, chip, irq, arg, fault, opened, hist>>

(* "Put the message to buffer": returns count, even after a failed copy.   *)
WriteQueue(p) ==
  /\ Running(p) /\ pc[p] = "w_queue"
  /\ tx_count' = Inc(tx_count)
  /\ tx_in' = Advance(tx_in)
  /\ accepted' = accepted \cup {arg[p]}
  /\ Return(p)
  /\ UNCHANGED <<tx_buf, tx_out, rxring, chip, irq, opened,
                 nTx, nRx, wire, got, flushed>>

(* send_message, called by device_write: the identifier registers, the     *)
(* data registers, the transmission request.                               *)
WriteId(p) ==
  /\ Running(p) /\ pc[p] = "w_id"
  /\ txreg' = IF Writable THEN <<tx_buf[slot[p]], txreg[2]>> ELSE txreg
  /\ Goto(p, "w_data")
  /\ UNCHANGED <<txring, rxring, mode, ier, ir, dos, tbs, rxfifo, irq,
                 slot, arg, fault, opened, hist>>

WriteData(p) ==
  /\ Running(p) /\ pc[p] = "w_data"
  /\ txreg' = IF Writable THEN <<txreg[1], tx_buf[slot[p]]>> ELSE txreg
  /\ Goto(p, "w_command")
  /\ UNCHANGED <<txring, rxring, mode, ier, ir, dos, tbs, rxfifo, irq,
                 slot, arg, fault, opened, hist>>

WriteCommand(p) ==
  /\ Running(p) /\ pc[p] = "w_command"
  /\ tbs' = IF Writable THEN FALSE ELSE tbs
  /\ accepted' = IF fault[p] THEN accepted ELSE accepted \cup {arg[p]}
  /\ Return(p)
  /\ UNCHANGED <<txring, rxring, mode, ier, ir, dos, txreg, rxfifo, irq,
                 opened, nTx, nRx, wire, got, flushed>>

Opening(p) == OpenTx(p) \/ OpenRxCount(p) \/ OpenRxIndex(p)
Reading(p) == ReadCopy(p) \/ ReadAdvance(p)
Writing(p) == \/ WriteCopy(p) \/ WriteStatus(p) \/ WriteQueue(p)
              \/ WriteId(p) \/ WriteData(p) \/ WriteCommand(p)

-----------------------------------------------------------------------------
Init ==
  /\ tx_buf = [i \in Slots |-> Blank] /\ rx_buf = [i \in Slots |-> Blank]
  /\ tx_count = 0 /\ tx_in = 0 /\ tx_out = 0
  /\ rx_count = 0 /\ rx_in = 0 /\ rx_out = 0
  /\ mode = "reset" /\ ier \in SUBSET {"DOI"} /\ ir = {}
  /\ dos = FALSE /\ tbs = TRUE /\ txreg = <<Blank, Blank>> /\ rxfifo = <<>>
  /\ pc = [p \in Procs |-> "user"] /\ slot = [p \in Procs |-> 0]
  /\ arg = [p \in Procs |-> Blank] /\ fault = [p \in Procs |-> FALSE]
  /\ cpu = NoProc /\ opened = 0
  /\ ipc = "idle" /\ temp = {}
  /\ nTx = 0 /\ nRx = 0 /\ wire = <<>> /\ got = <<>>
  /\ accepted = {} /\ flushed = {}

Next ==
  \/ Arrive \/ TransmitDone
  \/ Irq
  \/ \E p \in Procs : OpenChip(p) \/ Opening(p) \/ Release(p)
  \/ \E p \in Readers : Read(p) \/ Reading(p)
  \/ \E p \in Writers : Write(p) \/ Writing(p)

Spec == Init /\ [][Next]_vars

(* What the environment owes the driver: an asserted interrupt is served,  *)
(* the controller finishes a transmission, the scheduler lets a process    *)
(* that is in the kernel go on, and a reader polls, as receive.c does.     *)
Fairness ==
  /\ WF_vars(Irq) /\ WF_vars(TransmitDone)
  /\ \A p \in Procs : SF_vars(Opening(p) \/ Reading(p) \/ Writing(p))
  /\ \A p \in Readers : SF_vars(Read(p))

FairSpec == Spec /\ Fairness

-----------------------------------------------------------------------------
(* Properties.                                                             *)

TxTypes ==
  /\ tx_buf \in [Slots -> TxFrame] /\ tx_count \in 0 .. SizeMax
  /\ tx_in \in Slots /\ tx_out \in Slots

RxTypes ==
  /\ rx_buf \in [Slots -> RxFrame] /\ rx_count \in 0 .. SizeMax
  /\ rx_in \in Slots /\ rx_out \in Slots

ChipTypes ==
  /\ mode \in {"reset", "operation"}
  /\ ier \subseteq {"RI", "TI", "DOI"} /\ ir \subseteq {"TI", "DOI"}
  /\ dos \in BOOLEAN /\ tbs \in BOOLEAN /\ txreg \in TxFrame \X TxFrame
  /\ rxfifo \in Seq(RxFrame) /\ Len(rxfifo) <= FifoSize

ProcTypes ==
  /\ pc \in [Procs -> Labels] /\ slot \in [Procs -> Slots]
  /\ arg \in [Procs -> Nat] /\ fault \in [Procs -> BOOLEAN]
  /\ cpu \in Procs \cup {NoProc} /\ opened \in 0 .. MaxOpen
  /\ \A p \in Procs : pc[p] \in WriteLabels => arg[p] \in TxFrame

IrqTypes ==
  /\ ipc \in {"idle", "tx", "rx", "doi"} /\ temp \subseteq {"RI", "TI", "DOI"}
  /\ ipc \in {"tx", "rx"} /\ "RI" \in temp => rxfifo # <<>>

HistTypes ==
  /\ nTx \in 0 .. MaxTx /\ nRx \in 0 .. MaxRx
  /\ wire \in Seq(TxFrame \X TxFrame) /\ got \in Seq(Nat)
  /\ accepted \subseteq TxFrame /\ flushed \subseteq TxFrame

(* Every variable has its type, and the receive path never takes a frame   *)
(* from an empty FIFO: the RI that irq_handler read is still good when the *)
(* handler gets to it.                                                     *)
TypeOK == TxTypes /\ RxTypes /\ ChipTypes /\ ProcTypes /\ IrqTypes /\ HistTypes

(* Neither counter exceeds the ring, and each in-index is where the        *)
(* out-index and the counter say it is: no call and no interrupt, in any   *)
(* order, separates the three.  While device_open is between rx_count = 0  *)
(* and rx_in = 0 the receive indices may disagree.                         *)
RingInv ==
  /\ tx_count <= BUFFERSIZE /\ rx_count <= BUFFERSIZE
  /\ tx_in = Nth(tx_out, tx_count)
  /\ rx_in = Nth(rx_out, rx_count) \/ \E p \in Procs : pc[p] = "o_rxindex"

(* Why RingInv holds.  A process in the kernel and not asleep has the cpu; *)
(* calls are made on an open file; the controller is silent while a file   *)
(* is being opened, and the receive ring empty before its indices are set; *)
(* no call finds, when it updates a counter, that its test of the counter  *)
(* no longer holds.                                                        *)
KernelOwner ==
  \A p \in Procs :
    /\ pc[p] \notin {"user", "r_copy", "w_copy"} => cpu = p
    /\ pc[p] \in {"r_copy", "w_copy"} /\ ~CopyMaySleep => cpu = p

OpenBound == \A p \in Procs : pc[p] \in OpenLabels => opened < MaxOpen

CallsOnOpenFile ==
  \A p \in Procs : pc[p] \in ReadLabels \cup WriteLabels => opened > 0

OpenQuiet ==
  (\E p \in Procs : pc[p] \in OpenLabels) =>
    rxfifo = <<>> /\ ir = {} /\ tbs /\ ipc = "idle"

ReadHasFrame ==
  \A p \in Procs : pc[p] \in ReadLabels => p \in Readers /\ rx_count > 0

WriteHasRoom ==
  \A p \in Procs : pc[p] \in WriteLabels => p \in Writers /\ tx_count < BUFFERSIZE

OpenCleared == \A p \in Procs : pc[p] = "o_rxindex" => rx_count = 0

(* The conditions under which RingInv holds: no frame arrives during       *)
(* device_open, and either no copy sleeps or the device is opened once, by *)
(* one reader and one writer.                                              *)
Discipline ==
  /\ QuietOpen
  /\ CopyMaySleep => /\ MaxOpen = 1
                     /\ \A p, q \in Readers : p = q
                     /\ \A p, q \in Writers : p = q

CallInv == TypeOK /\ KernelOwner /\ OpenBound /\ CallsOnOpenFile

(* RingInv with what it rests on: an inductive invariant.                  *)
RingIInv ==
  /\ CallInv /\ OpenQuiet /\ OpenCleared /\ ReadHasFrame /\ WriteHasRoom
  /\ RingInv

(* The receive path implements CanRxAbs: the queue of the abstract system  *)
(* is the ring followed by the controller's FIFO.                          *)
RxRing == [i \in 1 .. rx_count |-> rx_buf[Nth(rx_out, i - 1)]]
RxUp   == mode = "operation" /\ \A p \in Procs : pc[p] \notin {"o_tx", "o_rxcount"}

RxAbs == INSTANCE CanRxAbs WITH
  Cap <- BUFFERSIZE, Lossy <- ~Peli,
  pend <- RxRing \o rxfifo, got <- got, last <- nRx, up <- RxUp

RxImplements == RxAbs!AbsSpec

(* A frame for which device_write returned count and that no reset threw   *)
(* away is in exactly one place: in the ring, in the controller or on the  *)
(* bus.  Between the test of TBS and the last store of a send nothing may  *)
(* take the frame's place.                                                 *)
Places(f) ==
  LET onWire == {i \in 1 .. Len(wire) : wire[i] = <<f, f>>}
      inRing == {i \in 1 .. tx_count : tx_buf[Nth(tx_out, i - 1)] = f}
      inChip == IF ~tbs /\ txreg = <<f, f>> THEN {1} ELSE {}
  IN  Cardinality(onWire) + Cardinality(inRing) + Cardinality(inChip)

TxAccounted == \A f \in accepted \ flushed : Places(f) = 1

(* No frame goes out with the identifier of one and the data of another.   *)
WireIntact == \A i \in 1 .. Len(wire) : wire[i][1] = wire[i][2]

(* Every accepted frame leaves once and whole, unless a reset flushed it.  *)
TxSound == TxAccounted /\ WireIntact

(* send_message is never at work on a locked transmit buffer: TBS, tested  *)
(* once, stays released until the transmission request.                    *)
SendsWhenReleased ==
  /\ \A p \in Procs : pc[p] \in {"w_id", "w_data", "w_command"} => tbs
  /\ ipc = "tx" /\ "TI" \in temp /\ tx_count > 0 => tbs

(* While the device stays open, every frame the controller stored leaves   *)
(* the driver: a polling reader gets it, or it is dropped or reset away.   *)
Waiting(f) == \E i \in 1 .. Len(rxfifo) + rx_count : (RxRing \o rxfifo)[i] = f

RxDrains ==
  \A f \in 1 .. MaxRx : opened > 0 /\ Waiting(f) ~> ~Waiting(f) \/ opened = 0

(* Both: irq_handler and device_read pass on in order, at most once, what  *)
(* no reset and (in BasicCAN mode) no full ring takes, and nothing stays.  *)
RxServed == RxImplements /\ RxDrains

(* While the device stays open, every queued frame is eventually sent.     *)
TxDrains ==
  \A f \in 1 .. MaxTx : opened > 0 /\ f \in Queued ~> f \notin Queued \/ opened = 0

(* device_read never returns a frame that no receive interrupt stored: it  *)
(* returns 0 when "There is no CAN message now." (can_pci.c:221).          *)
ReadsReal == \A i \in 1 .. Len(got) : got[i] # Blank

=============================================================================
