----------------------------- MODULE CanProofs -----------------------------
(***************************************************************************)
(* Proofs about the CAN drivers.                                           *)
(*                                                                         *)
(* CanDriver, for every number of processes, every size of the rings and   *)
(* of the controller's FIFO, both variants of the driver, and (where it    *)
(* says no more) any scheduling of interrupts and page faults: the types;  *)
(* the counters and indices of the rings; send_message never meets a       *)
(* locked transmit buffer; no frame accepted for transmission is lost,     *)
(* sent twice or sent in halves; and the receive path implements CanRxAbs. *)
(*                                                                         *)
(* CanCodec: the register layouts of can_pci.c lose nothing of the frames  *)
(* they are meant for, whatever the identifiers and the data sent.         *)
(*                                                                         *)
(* CanProbe, with one card and steps of pcisimple_probe that may fail      *)
(* except the three whose failure is not unwound (the revision check,      *)
(* pci_iomap, cdev_add): the driver is safe through any number of loads    *)
(* and unloads.                                                            *)
(***************************************************************************)
EXTENDS CanDriver, CanCodec, CanProbe, FiniteSetTheorems, SequenceTheorems, TLAPS

USE DEF NoProc, Blank

(* An index of a ring stays one.                                           *)
LEMMA AdvanceInRing ==
  ASSUME NEW i \in Slots
  PROVE  Advance(i) \in Slots
BY SizesAssumption DEF Advance, Slots

(* A counter stays a size_t.                                               *)
LEMMA CounterInRange ==
  ASSUME NEW n \in 0 .. SizeMax
  PROVE  Inc(n) \in 0 .. SizeMax /\ Dec(n) \in 0 .. SizeMax
BY SizesAssumption DEF Inc, Dec

(* Reset leaves the controller in a state of the right type.               *)
LEMMA InitInv == Init => CallInv
<1> SUFFICES ASSUME Init PROVE CallInv
  OBVIOUS
<1>1. TypeOK
  BY SizesAssumption
  DEF Init, TypeOK, TxTypes, RxTypes, ChipTypes, ProcTypes, IrqTypes,
      HistTypes, WriteLabels, Slots, TxFrame, RxFrame, Labels
<1>2. KernelOwner /\ OpenBound /\ CallsOnOpenFile
  BY DEF Init, KernelOwner, OpenBound, CallsOnOpenFile,
         OpenLabels, ReadLabels, WriteLabels
<1> QED BY <1>1, <1>2 DEF CallInv


(* The interrupt controller and the bus: the steps that no process takes.  *)
LEMMA ChipStep == TypeOK /\ (Arrive \/ TransmitDone \/ Irq) => TypeOK'
<1> SUFFICES ASSUME TypeOK, Arrive \/ TransmitDone \/ Irq PROVE TypeOK'
  OBVIOUS
<1> USE DEF TypeOK
<1>1. CASE Arrive
  <2>1. (TxTypes /\ RxTypes /\ ProcTypes)'
    BY <1>1 DEF Arrive, TxTypes, RxTypes, ProcTypes, txring, rxring, proc
  <2>2. nRx + 1 \in RxFrame /\ nRx' \in 0 .. MaxRx
    BY <1>1, SizesAssumption DEF Arrive, RxFrame, HistTypes
  <2>3. rxfifo' \in Seq(RxFrame) /\ Len(rxfifo') <= FifoSize /\ (rxfifo # <<>> => rxfifo' # <<>>)
    BY SMTT(20), <1>1, <2>2, SizesAssumption DEF Arrive, ChipTypes
  <2>4. ir' \subseteq {"TI", "DOI"} /\ dos' \in BOOLEAN
    BY <1>1 DEF Arrive, ChipTypes
  <2>5. (ChipTypes /\ IrqTypes /\ HistTypes)'
    BY <1>1, <2>2, <2>3, <2>4 DEF Arrive, ChipTypes, IrqTypes, HistTypes, irq
  <2> QED BY <2>1, <2>5
<1>2. CASE TransmitDone
  BY <1>2
  DEF TransmitDone, TxTypes, RxTypes, ChipTypes, ProcTypes, IrqTypes, HistTypes,
      txring, rxring, proc, irq
<1>3. CASE IrqEnter
  BY <1>3
  DEF IrqEnter, Pending, TxTypes, RxTypes, ChipTypes, ProcTypes, IrqTypes,
      HistTypes, txring, rxring, proc, hist
<1>4. CASE IrqTx
  <2>1. TxTypes'
    BY <1>4, AdvanceInRing, CounterInRange DEF IrqTx, TxTypes
  <2>2. txreg' \in TxFrame \X TxFrame /\ tbs' \in BOOLEAN
    <3>1. tx_buf[tx_out] \in TxFrame
      BY DEF TxTypes
    <3>2. tbs' = FALSE \/ tbs' = tbs
      BY <1>4 DEF IrqTx
    <3>3. txreg' = <<tx_buf[tx_out], tx_buf[tx_out]>> \/ txreg' = txreg
      BY <1>4 DEF IrqTx
    <3>4. tbs' \in BOOLEAN
      BY <3>2 DEF ChipTypes
    <3>5. txreg' \in TxFrame \X TxFrame
      BY <3>1, <3>3 DEF ChipTypes
    <3> QED BY <3>4, <3>5
  <2>3. (ChipTypes /\ IrqTypes)'
    BY <1>4, <2>2 DEF IrqTx, ChipTypes, IrqTypes
  <2>4. (RxTypes /\ ProcTypes /\ HistTypes)'
    BY <1>4 DEF IrqTx, RxTypes, ProcTypes, HistTypes, rxring, proc, hist
  <2> QED BY <2>1, <2>3, <2>4
<1>5. CASE IrqRx
  <2>1. (TxTypes /\ ProcTypes /\ HistTypes)'
    BY <1>5 DEF IrqRx, TxTypes, ProcTypes, HistTypes, txring, proc, hist
  <2>2. CASE "RI" \in temp
    <3>1. /\ rxfifo # <<>> /\ Head(rxfifo) \in RxFrame
          /\ Tail(rxfifo) \in Seq(RxFrame) /\ Len(Tail(rxfifo)) <= FifoSize
      BY <1>5, <2>2, SizesAssumption DEF IrqRx, IrqTypes, ChipTypes
    <3>2. (ChipTypes /\ IrqTypes)'
      BY <1>5, <2>2, <3>1
      DEF IrqRx, RxFull, RxStore, ReleaseBuffer, ChipTypes, IrqTypes
    <3>3. RxTypes'
      BY <1>5, <2>2, <3>1, AdvanceInRing, CounterInRange
      DEF IrqRx, RxFull, RxStore, RxTypes, rxring
    <3> QED BY <2>1, <3>2, <3>3
  <2>3. CASE "RI" \notin temp
    BY <1>5, <2>1, <2>3 DEF IrqRx, RxTypes, ChipTypes, IrqTypes, rxring
  <2> QED BY <2>2, <2>3
<1>6. CASE IrqDoi
  BY <1>6
  DEF IrqDoi, TxTypes, RxTypes, ChipTypes, ProcTypes, IrqTypes, HistTypes,
      txring, rxring, proc, hist
<1> QED BY <1>1, <1>2, <1>3, <1>4, <1>5, <1>6 DEF Irq

(* What a reset of the controller does to its registers.                   *)
LEMMA ResetTypes ==
  ASSUME ChipTypes, EnterReset,
         mode' \in {"reset", "operation"}, ier' \subseteq {"RI", "TI", "DOI"}
  PROVE  ChipTypes'
<1>1. rxfifo' \in Seq(RxFrame) /\ Len(rxfifo') <= FifoSize
  BY SizesAssumption DEF EnterReset
<1>2. dos' \in BOOLEAN /\ tbs' \in BOOLEAN
  BY DEF EnterReset
<1>3. ir' \subseteq {"TI", "DOI"} /\ txreg' \in TxFrame \X TxFrame
  BY DEF EnterReset, ChipTypes
<1> QED BY <1>1, <1>2, <1>3 DEF ChipTypes

(* A process that returns to user mode, or goes on to a label outside      *)
(* device_write, is typed as before.                                       *)
LEMMA ReturnTypes ==
  ASSUME ProcTypes, NEW p \in Procs, Return(p), opened' \in 0 .. MaxOpen
  PROVE  ProcTypes'
BY SizesAssumption DEF Return, ProcTypes, Labels, WriteLabels, Slots

(* A call that goes on to its next instruction keeps the types.            *)
LEMMA GotoTypes ==
  ASSUME ProcTypes, NEW p \in Procs, NEW l \in Labels \ WriteLabels, Goto(p, l),
         slot' \in [Procs -> Slots], fault' \in [Procs -> BOOLEAN],
         NEW v \in Nat, arg' = arg \/ arg' = [arg EXCEPT ![p] = v],
         opened' = opened
  PROVE  ProcTypes'
BY DEF Goto, ProcTypes, Labels, WriteLabels

(* The same for the steps of a system call; OpenBound gives the last step  *)
(* of device_open a file to open.                                          *)
LEMMA ProcStep ==
  ASSUME TypeOK, OpenBound, NEW p \in Procs,
         \/ OpenChip(p) \/ Opening(p) \/ Release(p) \/ Read(p)
         \/ Reading(p) \/ Write(p) \/ Writing(p)
  PROVE  TypeOK'
<1> USE DEF TypeOK
<1>1. CASE OpenChip(p)
  <2>1. (TxTypes /\ RxTypes /\ IrqTypes)'
    BY <1>1 DEF OpenChip, Running, TxTypes, RxTypes, IrqTypes, txring, rxring, irq
  <2>2. ChipTypes'
    <3>1. mode' \in {"reset", "operation"} /\ ier' \subseteq {"RI", "TI", "DOI"}
      BY <1>1 DEF OpenChip, ChipTypes
    <3> QED BY <1>1, <3>1, ResetTypes DEF OpenChip
  <2>3. ProcTypes'
    <3>1. opened' \in 0 .. MaxOpen /\ opened' = opened
      BY <1>1 DEF OpenChip, ProcTypes
    <3>2. CASE Return(p)
      BY <3>1, <3>2, ReturnTypes
    <3>3. CASE Goto(p, "o_tx") /\ UNCHANGED <<slot, arg, fault>>
      BY <3>1, <3>3, GotoTypes DEF ProcTypes, Labels, OpenLabels, WriteLabels
    <3> QED BY <1>1, <3>2, <3>3 DEF OpenChip
  <2>4. HistTypes'
    BY <1>1 DEF OpenChip, InFlight, HistTypes, ChipTypes
  <2> QED BY <2>1, <2>2, <2>3, <2>4
<1>2. CASE OpenTx(p)
  <2>1. TxTypes'
    BY <1>2, SizesAssumption DEF OpenTx, TxTypes, TxFrame, Slots
  <2>2. (RxTypes /\ ChipTypes /\ IrqTypes)'
    BY <1>2 DEF OpenTx, RxTypes, ChipTypes, IrqTypes, rxring, chip, irq
  <2>3. ProcTypes'
    BY <1>2 DEF OpenTx, Goto, ProcTypes, Labels, OpenLabels, WriteLabels
  <2>4. HistTypes'
    BY <1>2 DEF OpenTx, Queued, HistTypes, TxTypes
  <2> QED BY <2>1, <2>2, <2>3, <2>4
<1>3. CASE OpenRxCount(p)
  <2>1. RxTypes'
    BY <1>3, SizesAssumption DEF OpenRxCount, RxTypes, RxFrame
  <2>2. (TxTypes /\ ChipTypes /\ IrqTypes /\ HistTypes)'
    BY <1>3
    DEF OpenRxCount, TxTypes, ChipTypes, IrqTypes, HistTypes, txring, chip, irq, hist
  <2>3. ProcTypes'
    BY <1>3 DEF OpenRxCount, Goto, ProcTypes, Labels, OpenLabels, WriteLabels
  <2> QED BY <2>1, <2>2, <2>3
<1>4. CASE OpenRxIndex(p)
  <2>1. RxTypes'
    BY <1>4, SizesAssumption DEF OpenRxIndex, RxTypes, Slots
  <2>2. (TxTypes /\ ChipTypes /\ IrqTypes /\ HistTypes)'
    BY <1>4
    DEF OpenRxIndex, TxTypes, ChipTypes, IrqTypes, HistTypes, txring, chip, irq, hist
  <2>3. opened < MaxOpen
    BY <1>4 DEF OpenRxIndex, OpenBound, OpenLabels
  <2>4. ProcTypes'
    BY <1>4, <2>3, SizesAssumption
    DEF OpenRxIndex, Return, ProcTypes, Labels, WriteLabels, Slots
  <2> QED BY <2>1, <2>2, <2>4
<1>5. CASE Release(p)
  <2>1. (TxTypes /\ RxTypes /\ IrqTypes)'
    BY <1>5 DEF Release, Running, TxTypes, RxTypes, IrqTypes, txring, rxring, irq
  <2>2. ChipTypes'
    <3>1. mode' \in {"reset", "operation"} /\ ier' \subseteq {"RI", "TI", "DOI"}
      BY <1>5 DEF Release, ChipTypes
    <3> QED BY <1>5, <3>1, ResetTypes DEF Release
  <2>3. ProcTypes'
    BY <1>5, SizesAssumption DEF Release, ProcTypes
  <2>4. HistTypes'
    BY <1>5 DEF Release, InFlight, HistTypes, ChipTypes
  <2> QED BY <2>1, <2>2, <2>3, <2>4
<1>6. CASE Read(p)
  <2>1. (TxTypes /\ RxTypes /\ ChipTypes /\ IrqTypes /\ HistTypes)'
    BY <1>6
    DEF Read, TxTypes, RxTypes, ChipTypes, IrqTypes, HistTypes,
        txring, rxring, chip, irq, hist
  <2>2. ProcTypes'
    BY <1>6 DEF Read, GotoCopy, ProcTypes, RxTypes, Labels, ReadLabels, WriteLabels
  <2> QED BY <2>1, <2>2
<1>7. CASE ReadCopy(p)
  <2>1. (TxTypes /\ RxTypes /\ ChipTypes /\ IrqTypes /\ HistTypes)'
    BY <1>7
    DEF ReadCopy, TxTypes, RxTypes, ChipTypes, IrqTypes, HistTypes,
        txring, rxring, chip, irq, hist
  <2>2. rx_buf[slot[p]] \in Nat
    BY SizesAssumption DEF ProcTypes, RxTypes, RxFrame
  <2>3. ProcTypes'
    <3>1. opened' \in 0 .. MaxOpen /\ opened' = opened
      BY <1>7 DEF ReadCopy, ProcTypes
    <3>2. CASE Return(p)
      BY <3>1, <3>2, ReturnTypes
    <3>3. CASE /\ arg' = [arg EXCEPT ![p] = rx_buf[slot[p]]]
               /\ Goto(p, "r_advance") /\ UNCHANGED <<slot, fault>>
      BY <2>2, <3>1, <3>3, GotoTypes DEF ProcTypes, Labels, ReadLabels, WriteLabels
    <3> QED BY <1>7, <3>2, <3>3 DEF ReadCopy
  <2> QED BY <2>1, <2>3
<1>8. CASE ReadAdvance(p)
  <2>1. RxTypes'
    BY <1>8, AdvanceInRing, CounterInRange DEF ReadAdvance, RxTypes
  <2>2. (TxTypes /\ ChipTypes /\ IrqTypes)'
    BY <1>8 DEF ReadAdvance, TxTypes, ChipTypes, IrqTypes, txring, chip, irq
  <2>3. ProcTypes'
    BY <1>8, SizesAssumption
    DEF ReadAdvance, Return, ProcTypes, Labels, WriteLabels, Slots
  <2>4. HistTypes'
    BY <1>8 DEF ReadAdvance, HistTypes, ProcTypes
  <2> QED BY <2>1, <2>2, <2>3, <2>4
<1>9. CASE Write(p)
  <2>1. (TxTypes /\ RxTypes /\ ChipTypes /\ IrqTypes)'
    BY <1>9
    DEF Write, TxTypes, RxTypes, ChipTypes, IrqTypes, txring, rxring, chip, irq
  <2>2. nTx + 1 \in TxFrame /\ nTx + 1 \in 0 .. MaxTx
    BY <1>9, SizesAssumption DEF Write, HistTypes, TxFrame
  <2>3. ProcTypes'
    BY <1>9, <2>2, SizesAssumption
    DEF Write, GotoCopy, ProcTypes, TxTypes, Labels, WriteLabels, TxFrame
  <2>4. HistTypes'
    BY <1>9, <2>2 DEF Write, HistTypes
  <2> QED BY <2>1, <2>3, <2>4
<1>10. CASE WriteCopy(p)
  <2>1. arg[p] \in TxFrame /\ Blank \in TxFrame
    BY <1>10, SizesAssumption DEF WriteCopy, ProcTypes, WriteLabels, TxFrame
  <2>2. TxTypes'
    BY <1>10, <2>1 DEF WriteCopy, TxTypes
  <2>3. (RxTypes /\ ChipTypes /\ IrqTypes /\ HistTypes)'
    BY <1>10
    DEF WriteCopy, RxTypes, ChipTypes, IrqTypes, HistTypes, rxring, chip, irq, hist
  <2>4. ProcTypes'
    BY <1>10, <2>1 DEF WriteCopy, Goto, ProcTypes, Labels, WriteLabels
  <2> QED BY <2>2, <2>3, <2>4
<1>11. CASE WriteStatus(p)
  <2>1. (TxTypes /\ RxTypes /\ ChipTypes /\ IrqTypes /\ HistTypes)'
    BY <1>11
    DEF WriteStatus, TxTypes, RxTypes, ChipTypes, IrqTypes, HistTypes,
        txring, rxring, chip, irq, hist
  <2>2. ProcTypes'
    BY <1>11 DEF WriteStatus, Goto, ProcTypes, TxTypes, Labels, WriteLabels
  <2> QED BY <2>1, <2>2
<1>12. CASE WriteQueue(p)
  <2>1. TxTypes'
    BY <1>12, AdvanceInRing, CounterInRange DEF WriteQueue, TxTypes
  <2>2. (RxTypes /\ ChipTypes /\ IrqTypes)'
    BY <1>12 DEF WriteQueue, RxTypes, ChipTypes, IrqTypes, rxring, chip, irq
  <2>3. ProcTypes'
    BY <1>12, SizesAssumption
    DEF WriteQueue, Return, ProcTypes, Labels, WriteLabels, Slots
  <2>4. HistTypes'
    BY <1>12 DEF WriteQueue, HistTypes, ProcTypes, WriteLabels
  <2> QED BY <2>1, <2>2, <2>3, <2>4
<1>13. CASE WriteId(p) \/ WriteData(p)
  <2>1. txreg' \in TxFrame \X TxFrame
    BY <1>13 DEF WriteId, WriteData, TxTypes, ChipTypes, ProcTypes
  <2>2. (TxTypes /\ RxTypes /\ ChipTypes /\ IrqTypes /\ HistTypes)'
    BY <1>13, <2>1
    DEF WriteId, WriteData, TxTypes, RxTypes, ChipTypes, IrqTypes, HistTypes,
        txring, rxring, irq, hist
  <2>3. ProcTypes'
    BY <1>13 DEF WriteId, WriteData, Goto, ProcTypes, Labels, WriteLabels
  <2> QED BY <2>2, <2>3
<1>14. CASE WriteCommand(p)
  <2>1. tbs' = FALSE \/ tbs' = tbs
    BY <1>14 DEF WriteCommand
  <2>2. tbs' \in BOOLEAN
    BY <2>1 DEF ChipTypes
  <2>3. (TxTypes /\ RxTypes /\ ChipTypes /\ IrqTypes)'
    BY <1>14, <2>2
    DEF WriteCommand, TxTypes, RxTypes, ChipTypes, IrqTypes, txring, rxring, irq
  <2>4. ProcTypes'
    BY <1>14, SizesAssumption
    DEF WriteCommand, Return, ProcTypes, Labels, WriteLabels, Slots
  <2>5. HistTypes'
    BY <1>14 DEF WriteCommand, HistTypes, ProcTypes, WriteLabels
  <2> QED BY <2>3, <2>4, <2>5
<1> QED
  BY <1>1, <1>2, <1>3, <1>4, <1>5, <1>6, <1>7, <1>8, <1>9, <1>10, <1>11,
     <1>12, <1>13, <1>14
  DEF Opening, Reading, Writing

(* While a process runs, every other one is in user mode or asleep.        *)
LEMMA Alone ==
  ASSUME TypeOK, KernelOwner, NEW p \in Procs, Running(p), NEW q \in Procs, q # p
  PROVE  /\ pc[q] \in {"user", "r_copy", "w_copy"}
         /\ ~CopyMaySleep => pc[q] = "user"
<1>1. cpu # q
  BY ProcsAssumption DEF Running
<1> QED BY <1>1 DEF KernelOwner

(* Who owns the cpu, and what a call knows of the open files, survives a   *)
(* move of process p to label l, whoever is asleep meanwhile.              *)
LEMMA Moved ==
  ASSUME CallInv, NEW p \in Procs, Running(p), NEW l \in Labels,
         pc' = [pc EXCEPT ![p] = l],
         l \in {"user", "r_copy", "w_copy"} \/ cpu' = p,
         l \in {"r_copy", "w_copy"} => CopyMaySleep \/ cpu' = p,
         l \in OpenLabels => opened' < MaxOpen,
         l \in ReadLabels \cup WriteLabels => opened' > 0,
         opened' > 0 \/ \A q \in Procs \ {p} : pc[q] \notin ReadLabels \cup WriteLabels
  PROVE  (KernelOwner /\ OpenBound /\ CallsOnOpenFile)'
<1> SUFFICES ASSUME NEW q \in Procs
    PROVE  /\ pc'[q] \notin {"user", "r_copy", "w_copy"} => cpu' = q
           /\ pc'[q] \in {"r_copy", "w_copy"} /\ ~CopyMaySleep => cpu' = q
           /\ pc'[q] \in OpenLabels => opened' < MaxOpen
           /\ pc'[q] \in ReadLabels \cup WriteLabels => opened' > 0
  BY DEF KernelOwner, OpenBound, CallsOnOpenFile
<1>1. CASE q = p
  <2>1. pc'[q] = l
    BY <1>1 DEF CallInv, TypeOK, ProcTypes
  <2> QED BY <1>1, <2>1
<1>2. CASE q # p
  <2>1. pc'[q] = pc[q]
    BY <1>2 DEF CallInv, TypeOK, ProcTypes
  <2>2. /\ pc[q] \in {"user", "r_copy", "w_copy"}
        /\ ~CopyMaySleep => pc[q] = "user"
    BY <1>2, Alone DEF CallInv
  <2>3. pc[q] \notin OpenLabels
    BY <2>2 DEF OpenLabels
  <2>4. pc[q] \in ReadLabels \cup WriteLabels => opened' > 0
    BY <1>2
  <2> QED BY <2>1, <2>2, <2>3, <2>4
<1> QED BY <1>1, <1>2

(* The steps of a call keep one owner of the kernel and the calls on open files.*)
LEMMA OwnerStep ==
  ASSUME CallInv, NEW p \in Procs,
         \/ OpenChip(p) \/ Opening(p) \/ Release(p) \/ Read(p)
         \/ Reading(p) \/ Write(p) \/ Writing(p)
  PROVE  (KernelOwner /\ OpenBound /\ CallsOnOpenFile)'
<1>1. Running(p)
  BY DEF OpenChip, Opening, Release, Read, Reading, Write, Writing, OpenTx,
         OpenRxCount, OpenRxIndex, ReadCopy, ReadAdvance, WriteCopy,
         WriteStatus, WriteQueue, WriteId, WriteData, WriteCommand
<1>2. opened \in Nat /\ MaxOpen \in Nat
  BY SizesAssumption DEF CallInv, TypeOK, ProcTypes
<1>3. \A q \in Procs : pc[q] \in ReadLabels \cup WriteLabels => opened > 0
  BY DEF CallInv, CallsOnOpenFile
<1>4. pc[p] \in OpenLabels => opened < MaxOpen
  BY DEF CallInv, OpenBound
<1> DEFINE Goes(l) == pc' = [pc EXCEPT ![p] = l]
<1>5. CASE OpenChip(p)
  <2>1. opened' = opened /\ opened < MaxOpen
    BY <1>5 DEF OpenChip
  <2>2. CASE Goes("o_tx") /\ cpu' = p
    BY <1>1, <1>3, <2>1, <2>2, Moved
    DEF Labels, OpenLabels, ReadLabels, WriteLabels
  <2>3. CASE Goes("user")
    BY <1>1, <1>3, <2>1, <2>3, Moved
    DEF Labels, OpenLabels, ReadLabels, WriteLabels
  <2> QED BY <1>5, <2>2, <2>3 DEF OpenChip, Goto, Return
<1>6. CASE OpenTx(p) \/ OpenRxCount(p)
  <2>1. opened' = opened /\ cpu' = p /\ opened < MaxOpen
    BY <1>4, <1>6 DEF OpenTx, OpenRxCount, Goto, OpenLabels
  <2>2. Goes("o_rxcount") \/ Goes("o_rxindex")
    BY <1>6 DEF OpenTx, OpenRxCount, Goto
  <2>3. CASE Goes("o_rxcount")
    BY <1>1, <1>3, <2>1, <2>3, Moved
    DEF Labels, OpenLabels, ReadLabels, WriteLabels
  <2>4. CASE Goes("o_rxindex")
    BY <1>1, <1>3, <2>1, <2>4, Moved
    DEF Labels, OpenLabels, ReadLabels, WriteLabels
  <2> QED BY <2>2, <2>3, <2>4
<1>7. CASE OpenRxIndex(p)
  <2>1. opened' > 0 /\ Goes("user")
    BY <1>2, <1>7 DEF OpenRxIndex, Return
  <2> QED BY <1>1, <2>1, Moved DEF Labels, OpenLabels, ReadLabels, WriteLabels
<1>8. CASE Release(p)
  <2>1. /\ UNCHANGED <<pc, cpu>>
        /\ opened' < MaxOpen \/ opened' <= opened
        /\ opened' > 0 \/ \A q \in Procs : pc[q] = "user"
    BY <1>2, <1>8 DEF Release
  <2>2. KernelOwner'
    BY <2>1 DEF CallInv, KernelOwner
  <2>3. CallsOnOpenFile'
    BY <2>1 DEF CallInv, CallsOnOpenFile, ReadLabels, WriteLabels
  <2>4. OpenBound'
    BY <1>2, <1>8 DEF Release, CallInv, OpenBound
  <2> QED BY <2>2, <2>3, <2>4
<1>9. CASE Read(p) \/ Write(p)
  <2>1. /\ opened' = opened /\ opened > 0 /\ (CopyMaySleep \/ cpu' = p)
        /\ Goes("r_copy") \/ Goes("w_copy")
    BY <1>9 DEF Read, Write, GotoCopy
  <2>2. CASE Goes("r_copy")
    BY <1>1, <2>1, <2>2, Moved DEF Labels, OpenLabels, ReadLabels, WriteLabels
  <2>3. CASE Goes("w_copy")
    BY <1>1, <2>1, <2>3, Moved DEF Labels, OpenLabels, ReadLabels, WriteLabels
  <2> QED BY <2>1, <2>2, <2>3
<1>10. CASE Reading(p) \/ Writing(p)
  <2>1. pc[p] \in ReadLabels \cup WriteLabels /\ opened' = opened
    BY <1>10 DEF Reading, Writing, ReadCopy, ReadAdvance, WriteCopy, WriteStatus,
                 WriteQueue, WriteId, WriteData, WriteCommand, ReadLabels, WriteLabels
  <2>2. opened' > 0
    BY <1>3, <2>1
  <2>3. \/ Goes("user")
        \/ /\ cpu' = p
           /\ \E l \in {"r_advance"} \cup WriteLabels : Goes(l)
    BY <1>10 DEF Reading, Writing, ReadCopy, ReadAdvance, WriteCopy, WriteStatus,
                 WriteQueue, WriteId, WriteData, WriteCommand, Goto, Return, WriteLabels
  <2>4. CASE Goes("user")
    BY <1>1, <2>2, <2>4, Moved DEF Labels, OpenLabels, ReadLabels, WriteLabels
  <2>5. ASSUME NEW l \in {"r_advance"} \cup WriteLabels, Goes(l), cpu' = p
        PROVE  (KernelOwner /\ OpenBound /\ CallsOnOpenFile)'
    <3>1. l \in Labels /\ l \notin OpenLabels
      BY DEF Labels, OpenLabels, ReadLabels, WriteLabels
    <3> QED BY <1>1, <2>2, <2>5, <3>1, Moved
  <2> QED BY <2>3, <2>4, <2>5
<1> QED BY <1>5, <1>6, <1>7, <1>8, <1>9, <1>10 DEF Opening

(* Every step keeps the invariant of the calls.                            *)
LEMMA CallStep == CallInv /\ [Next]_vars => CallInv'
<1> SUFFICES ASSUME CallInv, [Next]_vars PROVE CallInv'
  OBVIOUS
<1>1. CASE Arrive \/ TransmitDone \/ Irq
  <2>1. UNCHANGED proc
    BY <1>1 DEF Arrive, TransmitDone, Irq, IrqEnter, IrqTx, IrqRx, IrqDoi
  <2>2. (KernelOwner /\ OpenBound /\ CallsOnOpenFile)'
    BY <2>1 DEF CallInv, KernelOwner, OpenBound, CallsOnOpenFile, proc
  <2> QED BY <1>1, <2>2, ChipStep DEF CallInv
<1>2. ASSUME NEW p \in Procs,
             \/ OpenChip(p) \/ Opening(p) \/ Release(p) \/ Read(p)
             \/ Reading(p) \/ Write(p) \/ Writing(p)
      PROVE  CallInv'
  BY <1>2, ProcStep, OwnerStep DEF CallInv
<1>3. CASE UNCHANGED vars
  BY <1>3
  DEF CallInv, TypeOK, TxTypes, RxTypes, ChipTypes, ProcTypes, IrqTypes,
      HistTypes, KernelOwner, OpenBound, CallsOnOpenFile,
      vars, txring, rxring, chip, proc, irq, hist
<1> QED BY <1>1, <1>2, <1>3 DEF Next, Procs

(* Type correctness, for every behaviour of the driver: in particular no   *)
(* index leaves its ring and irq_handler never reads an empty FIFO.        *)
THEOREM TypeCorrect == Spec => []TypeOK
<1>1. CallInv => TypeOK
  BY DEF CallInv
<1> QED BY <1>1, InitInv, CallStep, PTL DEF Spec

-----------------------------------------------------------------------------
(* The rings.  Taking a frame out moves the out-index as far as the        *)
(* counter; putting one in moves the in-index likewise.                    *)
LEMMA NthTaken ==
  ASSUME NEW i \in Slots, NEW n \in 1 .. BUFFERSIZE
  PROVE  Nth(Advance(i), n - 1) = Nth(i, n)
BY SizesAssumption DEF Nth, Advance, Slots

(* The slot after the last frame of a ring is the next one to fill.        *)
LEMMA NthPut ==
  ASSUME NEW i \in Slots, NEW n \in 0 .. BUFFERSIZE - 1
  PROVE  Advance(Nth(i, n)) = Nth(i, n + 1)
BY SizesAssumption DEF Nth, Advance, Slots

(* A cleared ring is empty at slot 0.                                      *)
LEMMA NthZero == 0 = Nth(0, 0)
BY SizesAssumption DEF Nth

(* Under the discipline a process that runs is alone in its kind of call,  *)
(* and device_open finds no call in progress.                              *)
LEMMA Sole ==
  ASSUME Discipline, RingIInv, NEW p \in Procs, Running(p), NEW q \in Procs, q # p
  PROVE  /\ pc[q] \notin OpenLabels
         /\ pc[p] \in OpenLabels => pc[q] \notin ReadLabels \cup WriteLabels
         /\ pc[p] \in ReadLabels => pc[q] \notin ReadLabels
         /\ pc[p] \in WriteLabels => pc[q] \notin WriteLabels
<1>1. /\ pc[q] \in {"user", "r_copy", "w_copy"}
      /\ ~CopyMaySleep => pc[q] = "user"
  BY Alone DEF RingIInv, CallInv
<1>2. CASE pc[q] = "user"
  BY <1>2 DEF OpenLabels, ReadLabels, WriteLabels
<1>3. CASE CopyMaySleep /\ pc[q] \in {"r_copy", "w_copy"}
  <2>1. pc[q] \notin OpenLabels
    BY <1>3 DEF OpenLabels
  <2>2. MaxOpen = 1 /\ opened > 0
    BY <1>3 DEF Discipline, RingIInv, CallInv, CallsOnOpenFile, ReadLabels, WriteLabels
  <2>3. pc[p] \notin OpenLabels
    BY <2>2, SizesAssumption
    DEF RingIInv, CallInv, OpenBound, TypeOK, ProcTypes
  <2>4. pc[p] \in ReadLabels => pc[q] \notin ReadLabels
    BY <1>3 DEF Discipline, RingIInv, ReadHasFrame
  <2>5. pc[p] \in WriteLabels => pc[q] \notin WriteLabels
    BY <1>3 DEF Discipline, RingIInv, WriteHasRoom
  <2> QED BY <2>1, <2>3, <2>4, <2>5
<1> QED BY <1>1, <1>2, <1>3

(* What RingIInv says of the counters, for the steps below.                *)
LEMMA Counters ==
  ASSUME RingIInv
  PROVE  /\ tx_count \in 0 .. BUFFERSIZE /\ rx_count \in 0 .. BUFFERSIZE
         /\ tx_in \in Slots /\ tx_out \in Slots
         /\ rx_in \in Slots /\ rx_out \in Slots
         /\ pc \in [Procs -> Labels]
BY SizesAssumption
DEF RingIInv, RingInv, CallInv, TypeOK, TxTypes, RxTypes, ProcTypes

(* The controller and the interrupt handler.                               *)
LEMMA RingChipStep ==
  ASSUME Discipline, RingIInv, Arrive \/ TransmitDone \/ Irq
  PROVE  (OpenQuiet /\ OpenCleared /\ ReadHasFrame /\ WriteHasRoom /\ RingInv)'
<1> USE Counters
<1>1. UNCHANGED <<pc, opened>>
  BY DEF Arrive, TransmitDone, Irq, IrqEnter, IrqTx, IrqRx, IrqDoi, proc
<1>2. CASE Arrive
  <2>1. UNCHANGED <<tx_count, tx_in, tx_out, rx_count, rx_in, rx_out>>
    BY <1>2 DEF Arrive, txring, rxring
  <2>2. \A p \in Procs : pc[p] \notin OpenLabels
    BY <1>2 DEF Arrive, Discipline
  <2> QED
    BY <1>1, <2>1, <2>2
    DEF RingIInv, OpenQuiet, OpenCleared, ReadHasFrame, WriteHasRoom, RingInv
<1>3. CASE TransmitDone \/ IrqEnter \/ IrqDoi
  <2>1. UNCHANGED <<tx_count, tx_in, tx_out, rx_count, rx_in, rx_out>>
    BY <1>3 DEF TransmitDone, IrqEnter, IrqDoi, txring, rxring
  <2>2. \A p \in Procs : pc[p] \notin OpenLabels
    BY <1>3
    DEF TransmitDone, IrqEnter, IrqDoi, Asserted, Pending, RingIInv, OpenQuiet
  <2> QED
    BY <1>1, <2>1, <2>2
    DEF RingIInv, OpenQuiet, OpenCleared, ReadHasFrame, WriteHasRoom, RingInv
<1>4. ASSUME ipc # "idle"
      PROVE  OpenQuiet' /\ \A p \in Procs : pc[p] \notin OpenLabels /\ pc[p] # "o_rxindex"
  BY <1>1, <1>4 DEF RingIInv, OpenQuiet, OpenLabels
<1>5. CASE IrqTx
  <2>1. UNCHANGED <<tx_in, rx_count, rx_in, rx_out>> /\ ipc # "idle"
    BY <1>5 DEF IrqTx, rxring
  <2>2. CASE tx_count > 0 /\ tx_out' = Advance(tx_out) /\ tx_count' = Dec(tx_count)
    <3>1. tx_count' = tx_count - 1
      BY <2>2 DEF Dec
    <3>2. tx_count \in 1 .. BUFFERSIZE
      BY <2>2, SizesAssumption
    <3>3. tx_in' = Nth(tx_out', tx_count')
      BY <2>1, <2>2, <3>1, <3>2, NthTaken DEF RingIInv, RingInv
    <3> QED
      BY <1>1, <1>4, <2>1, <3>1, <3>2, <3>3, SizesAssumption
      DEF RingIInv, OpenCleared, ReadHasFrame, WriteHasRoom, RingInv
  <2>3. CASE UNCHANGED <<tx_out, tx_count>>
    BY <1>1, <1>4, <2>1, <2>3
    DEF RingIInv, OpenCleared, ReadHasFrame, WriteHasRoom, RingInv
  <2> QED BY <1>5, <2>2, <2>3 DEF IrqTx
<1>6. CASE IrqRx
  <2>1. UNCHANGED <<tx_count, tx_in, tx_out, rx_out>> /\ ipc # "idle"
    BY <1>6 DEF IrqRx, RxFull, RxStore, txring, rxring
  <2>2. CASE ~RingIsFull /\ rx_count' = Inc(rx_count) /\ rx_in' = Advance(rx_in)
    <3>1. rx_count \in 0 .. BUFFERSIZE - 1
      BY <2>2, SizesAssumption DEF RingIsFull
    <3>2. rx_count' = rx_count + 1
      BY <2>2, <3>1, SizesAssumption DEF Inc
    <3>3. rx_in = Nth(rx_out, rx_count)
      BY <1>4, <2>1 DEF RingIInv, RingInv
    <3>4. rx_in' = Nth(rx_out', rx_count')
      BY <2>1, <2>2, <3>1, <3>2, <3>3, NthPut
    <3> QED
      BY <1>1, <1>4, <2>1, <3>1, <3>2, <3>4, SizesAssumption
      DEF RingIInv, OpenCleared, ReadHasFrame, WriteHasRoom, RingInv
  <2>3. CASE UNCHANGED <<rx_in, rx_count>>
    BY <1>1, <1>4, <2>1, <2>3
    DEF RingIInv, OpenCleared, ReadHasFrame, WriteHasRoom, RingInv
  <2> QED BY <1>6, <2>2, <2>3 DEF IrqRx, RxFull, RxStore, rxring
<1> QED BY <1>2, <1>3, <1>5, <1>6 DEF Irq

(* The system calls.                                                       *)
LEMMA RingProcStep ==
  ASSUME Discipline, RingIInv, NEW p \in Procs,
         \/ OpenChip(p) \/ Opening(p) \/ Release(p)
         \/ p \in Readers /\ (Read(p) \/ Reading(p))
         \/ p \in Writers /\ (Write(p) \/ Writing(p))
  PROVE  (OpenQuiet /\ OpenCleared /\ ReadHasFrame /\ WriteHasRoom /\ RingInv)'
<1> USE Counters
<1>1. Running(p) /\ ipc' = "idle"
  BY DEF OpenChip, Opening, Release, Read, Reading, Write, Writing, OpenTx,
         OpenRxCount, OpenRxIndex, ReadCopy, ReadAdvance, WriteCopy,
         WriteStatus, WriteQueue, WriteId, WriteData, WriteCommand, Running, irq
<1>2. \A q \in Procs : q # p =>
         /\ pc[q] \notin OpenLabels /\ pc[q] # "o_rxindex"
         /\ pc[p] \in OpenLabels => pc[q] \notin ReadLabels \cup WriteLabels
         /\ pc[p] \in ReadLabels => pc[q] \notin ReadLabels
         /\ pc[p] \in WriteLabels => pc[q] \notin WriteLabels
  BY <1>1, Sole DEF OpenLabels
<1>3. pc[p] # "o_rxindex" => rx_in = Nth(rx_out, rx_count)
  BY <1>2 DEF RingIInv, RingInv
<1>4. pc[p] \in OpenLabels => rxfifo = <<>> /\ ir = {} /\ tbs
  BY DEF RingIInv, OpenQuiet
<1> DEFINE Quiet == rxfifo = <<>> /\ ir = {} /\ tbs
           Goes(l) == pc' = [pc EXCEPT ![p] = l]
           Same == UNCHANGED <<tx_count, tx_in, tx_out, rx_count, rx_in, rx_out>>
<1>5. ASSUME NEW l \in Labels, Goes(l), l \in OpenLabels => Quiet'
      PROVE  OpenQuiet'
  <2>1. \A q \in Procs : pc'[q] \in OpenLabels => q = p
    BY <1>2, <1>5
  <2> QED BY <1>1, <1>5, <2>1 DEF OpenQuiet
<1>6. ASSUME NEW l \in Labels, Goes(l), l # "o_rxindex", Same,
             l \in OpenLabels => Quiet',
             l \in ReadLabels => p \in Readers /\ rx_count > 0,
             l \in WriteLabels => p \in Writers /\ tx_count < BUFFERSIZE,
             pc[p] # "o_rxindex"
      PROVE  (OpenQuiet /\ OpenCleared /\ ReadHasFrame /\ WriteHasRoom /\ RingInv)'
  <2>1. OpenQuiet'
    BY <1>5, <1>6
  <2>2. ReadHasFrame' /\ WriteHasRoom'
    BY <1>6 DEF RingIInv, ReadHasFrame, WriteHasRoom
  <2>3. OpenCleared' /\ RingInv'
    BY <1>3, <1>6 DEF RingIInv, OpenCleared, RingInv
  <2> QED BY <2>1, <2>2, <2>3
<1>7. CASE OpenChip(p)
  <2>1. Same /\ Quiet' /\ pc[p] # "o_rxindex"
    BY <1>7 DEF OpenChip, EnterReset, txring, rxring
  <2>2. Goes("o_tx") \/ Goes("user")
    BY <1>7 DEF OpenChip, Goto, Return
  <2> QED BY <1>6, <2>1, <2>2 DEF Labels, OpenLabels, ReadLabels, WriteLabels
<1>8. CASE OpenTx(p)
  <2>1. /\ tx_count' = 0 /\ tx_in' = 0 /\ tx_out' = 0
        /\ UNCHANGED <<rx_count, rx_in, rx_out>>
        /\ Goes("o_rxcount") /\ pc[p] = "o_tx" /\ Quiet'
    BY <1>4, <1>8 DEF OpenTx, Goto, rxring, chip, OpenLabels
  <2>2. OpenQuiet'
    BY <1>5, <2>1 DEF Labels, OpenLabels
  <2>3. ReadHasFrame' /\ WriteHasRoom'
    BY <2>1, SizesAssumption
    DEF RingIInv, ReadHasFrame, WriteHasRoom, ReadLabels, WriteLabels
  <2>4. OpenCleared' /\ RingInv'
    BY <1>3, <2>1, NthZero, SizesAssumption DEF RingIInv, OpenCleared, RingInv
  <2> QED BY <2>2, <2>3, <2>4
<1>9. CASE OpenRxCount(p)
  <2>1. /\ rx_count' = 0 /\ UNCHANGED <<tx_count, tx_in, tx_out>>
        /\ Goes("o_rxindex") /\ pc[p] = "o_rxcount" /\ Quiet'
    BY <1>4, <1>9 DEF OpenRxCount, Goto, txring, chip, OpenLabels
  <2>2. OpenQuiet'
    BY <1>5, <2>1 DEF Labels, OpenLabels
  <2>3. ReadHasFrame' /\ WriteHasRoom'
    BY <1>2, <2>1
    DEF RingIInv, ReadHasFrame, WriteHasRoom, OpenLabels, ReadLabels, WriteLabels
  <2>4. OpenCleared' /\ RingInv'
    BY <2>1, SizesAssumption DEF RingIInv, OpenCleared, RingInv
  <2> QED BY <2>2, <2>3, <2>4
<1>10. CASE OpenRxIndex(p)
  <2>1. /\ rx_in' = 0 /\ rx_out' = 0 /\ UNCHANGED <<tx_count, tx_in, tx_out, rx_count>>
        /\ Goes("user") /\ pc[p] = "o_rxindex"
    BY <1>10 DEF OpenRxIndex, Return, txring
  <2>2. rx_count = 0
    BY <2>1 DEF RingIInv, OpenCleared
  <2>3. OpenQuiet'
    BY <1>5, <2>1 DEF Labels, OpenLabels
  <2>4. ReadHasFrame' /\ WriteHasRoom'
    BY <2>1 DEF RingIInv, ReadHasFrame, WriteHasRoom, ReadLabels, WriteLabels
  <2>5. OpenCleared' /\ RingInv'
    BY <2>1, <2>2, NthZero DEF RingIInv, OpenCleared, RingInv
  <2> QED BY <2>3, <2>4, <2>5
<1>11. CASE Release(p)
  <2>1. Same /\ Quiet' /\ UNCHANGED pc
    BY <1>11 DEF Release, EnterReset, txring, rxring
  <2>2. OpenQuiet'
    BY <1>1, <2>1 DEF OpenQuiet
  <2>3. (OpenCleared /\ ReadHasFrame /\ WriteHasRoom /\ RingInv)'
    BY <2>1 DEF RingIInv, OpenCleared, ReadHasFrame, WriteHasRoom, RingInv
  <2> QED BY <2>2, <2>3
<1>12. CASE p \in Readers /\ Read(p)
  <2>1. /\ Same /\ Goes("r_copy") /\ rx_count > 0 /\ pc[p] = "user"
    BY <1>12 DEF Read, GotoCopy, txring, rxring
  <2> QED
    BY <1>6, <1>12, <2>1 DEF Labels, OpenLabels, ReadLabels, WriteLabels
<1>13. CASE p \in Readers /\ ReadCopy(p)
  <2>1. /\ Same /\ (Goes("r_advance") \/ Goes("user")) /\ pc[p] = "r_copy"
        /\ rx_count > 0
    BY <1>13
    DEF ReadCopy, Goto, Return, txring, rxring, RingIInv, ReadHasFrame, ReadLabels
  <2> QED
    BY <1>6, <1>13, <2>1 DEF Labels, OpenLabels, ReadLabels, WriteLabels
<1>14. CASE p \in Readers /\ ReadAdvance(p)
  <2>1. /\ rx_out' = Advance(rx_out) /\ rx_count' = Dec(rx_count)
        /\ UNCHANGED <<tx_count, tx_in, tx_out, rx_in>>
        /\ Goes("user") /\ pc[p] = "r_advance"
    BY <1>14 DEF ReadAdvance, Return, txring
  <2>2. rx_count > 0
    BY <2>1 DEF RingIInv, ReadHasFrame, ReadLabels
  <2>3. rx_count \in 1 .. BUFFERSIZE /\ rx_count' = rx_count - 1
    BY <2>1, <2>2, SizesAssumption DEF Dec
  <2>4. rx_in' = Nth(rx_out', rx_count')
    BY <1>3, <2>1, <2>3, NthTaken
  <2>5. OpenQuiet'
    BY <1>5, <2>1 DEF Labels, OpenLabels
  <2>6. ReadHasFrame' /\ WriteHasRoom'
    BY <1>2, <2>1
    DEF RingIInv, ReadHasFrame, WriteHasRoom, ReadLabels, WriteLabels
  <2>7. OpenCleared' /\ RingInv'
    BY <1>2, <2>1, <2>3, <2>4, SizesAssumption DEF RingIInv, OpenCleared, RingInv
  <2> QED BY <2>5, <2>6, <2>7
<1>15. CASE p \in Writers /\ Write(p)
  <2>1. Same /\ Goes("w_copy") /\ tx_count # BUFFERSIZE /\ pc[p] = "user"
    BY <1>15 DEF Write, GotoCopy, txring, rxring
  <2>2. tx_count < BUFFERSIZE
    BY <2>1, SizesAssumption
  <2> QED
    BY <1>6, <1>15, <2>1, <2>2 DEF Labels, OpenLabels, ReadLabels, WriteLabels
<1>16. CASE /\ p \in Writers
            /\ \/ WriteCopy(p) \/ WriteStatus(p) \/ WriteId(p)
               \/ WriteData(p) \/ WriteCommand(p)
  <2>1. Same /\ pc[p] \in WriteLabels
    BY <1>16 DEF WriteCopy, WriteStatus, WriteId, WriteData, WriteCommand,
                 txring, rxring, WriteLabels
  <2>2. tx_count < BUFFERSIZE
    BY <2>1 DEF RingIInv, WriteHasRoom
  <2>3. \E l \in {"user"} \cup WriteLabels : Goes(l)
    BY <1>16 DEF WriteCopy, WriteStatus, WriteId, WriteData, WriteCommand,
                 Goto, Return, WriteLabels
  <2>4. PICK l \in {"user"} \cup WriteLabels : Goes(l)
    BY <2>3
  <2>5. /\ l \in Labels /\ l \notin OpenLabels /\ l \notin ReadLabels
        /\ l # "o_rxindex" /\ pc[p] # "o_rxindex"
    BY <2>1 DEF Labels, OpenLabels, ReadLabels, WriteLabels
  <2> QED BY <1>6, <1>16, <2>1, <2>2, <2>4, <2>5
<1>17. CASE p \in Writers /\ WriteQueue(p)
  <2>1. /\ tx_in' = Advance(tx_in) /\ tx_count' = Inc(tx_count)
        /\ UNCHANGED <<tx_out, rx_count, rx_in, rx_out>>
        /\ Goes("user") /\ pc[p] = "w_queue"
    BY <1>17 DEF WriteQueue, Return, rxring
  <2>2. tx_count < BUFFERSIZE
    BY <2>1 DEF RingIInv, WriteHasRoom, WriteLabels
  <2>3. tx_count \in 0 .. BUFFERSIZE - 1 /\ tx_count' = tx_count + 1
    BY <2>1, <2>2, SizesAssumption DEF Inc
  <2>4. tx_in' = Nth(tx_out', tx_count')
    BY <2>1, <2>3, NthPut DEF RingIInv, RingInv
  <2>5. OpenQuiet'
    BY <1>5, <2>1 DEF Labels, OpenLabels
  <2>6. ReadHasFrame' /\ WriteHasRoom'
    BY <1>2, <2>1
    DEF RingIInv, ReadHasFrame, WriteHasRoom, ReadLabels, WriteLabels
  <2>7. OpenCleared' /\ RingInv'
    BY <1>3, <2>1, <2>3, <2>4, SizesAssumption DEF RingIInv, OpenCleared, RingInv
  <2> QED BY <2>5, <2>6, <2>7
<1> QED
  BY <1>7, <1>8, <1>9, <1>10, <1>11, <1>12, <1>13, <1>14, <1>15, <1>16, <1>17
  DEF Opening, Reading, Writing

(* Every step keeps the ring invariant.                                    *)
LEMMA RingStep ==
  ASSUME Discipline
  PROVE  RingIInv /\ [Next]_vars => RingIInv'
<1> SUFFICES ASSUME RingIInv, [Next]_vars PROVE RingIInv'
  OBVIOUS
<1>1. CallInv'
  BY CallStep DEF RingIInv
<1>2. CASE UNCHANGED vars
  BY <1>1, <1>2
  DEF RingIInv, OpenQuiet, OpenCleared, ReadHasFrame, WriteHasRoom, RingInv,
      vars, txring, rxring, chip, proc, irq, hist
<1>3. CASE Arrive \/ TransmitDone \/ Irq
  BY <1>1, <1>3, RingChipStep DEF RingIInv
<1>4. ASSUME NEW p \in Procs,
             \/ OpenChip(p) \/ Opening(p) \/ Release(p)
             \/ p \in Readers /\ (Read(p) \/ Reading(p))
             \/ p \in Writers /\ (Write(p) \/ Writing(p))
      PROVE  RingIInv'
  BY <1>1, <1>4, RingProcStep DEF RingIInv
<1> QED BY <1>2, <1>3, <1>4 DEF Next, Procs

(* The rings of a loaded driver.                                           *)
LEMMA RingInit == Init => RingIInv
BY InitInv, NthZero, SizesAssumption
DEF Init, RingIInv, OpenQuiet, OpenCleared, ReadHasFrame, WriteHasRoom,
    RingInv, OpenLabels, ReadLabels, WriteLabels

(* The ring invariant, for every size of the rings: as long as no frame    *)
(* arrives during device_open, and no second reader or writer gets in      *)
(* while a copy sleeps, neither ring overflows or underflows and the       *)
(* indices of each agree with its counter.                                 *)
THEOREM RingCorrect == ASSUME Discipline PROVE Spec => []RingInv
<1>1. RingIInv => RingInv
  BY DEF RingIInv
<1> QED BY <1>1, RingInit, RingStep, PTL DEF Spec

-----------------------------------------------------------------------------
(* Frames.                                                                 *)

SendLabels == {"w_id", "w_data", "w_command"}

(* The handler has read TI and not yet acted on it.                        *)
TxDue == ipc = "tx" /\ "TI" \in temp

(* Why send_message finds the buffer released: TI, raised when the buffer  *)
(* is released, is taken before anybody locks it again; a writer that saw  *)
(* TBS with no interrupt pending meets none before its request.            *)
SendInv ==
  /\ "TI" \in ir => tbs
  /\ TxDue => tbs /\ "TI" \notin ir
  /\ \A p \in Procs : pc[p] \in SendLabels => tbs /\ "TI" \notin ir /\ ~TxDue

(* The i-th frame of the transmit ring, from 0, and what is on the bus.    *)
Frame(j) == tx_buf[Nth(tx_out, j)]
OnBus == {wire[i][1] : i \in 1 .. Len(wire)}

(* The device is opened once, for writers whose copies neither sleep nor   *)
(* fail, and interrupts are taken at once.                                 *)
Undisturbed ==
  /\ Discipline /\ PromptIrq
  /\ MaxOpen = 1 /\ ~CopyMaySleep /\ ~CopyMayFail

(* A file is open, or being opened, only on a controller in operation; and *)
(* only such a controller raises TI.                                       *)
Operating ==
  /\ opened > 0 \/ (\E p \in Procs : pc[p] \in OpenLabels) => mode = "operation"
  /\ "TI" \in ir \/ TxDue => mode = "operation"

(* Every frame in the ring, in the controller or on the bus was written,   *)
(* and none is in two places, or halved.                                   *)
Somewhere == Queued \cup InFlight \cup OnBus

Distinct ==
  /\ Somewhere \subseteq 1 .. nTx
  /\ Queued \cap InFlight = {} /\ Queued \cap OnBus = {} /\ InFlight \cap OnBus = {}
  /\ \A i, j \in 0 .. tx_count - 1 : Frame(i) = Frame(j) => i = j
  /\ \A i, j \in 1 .. Len(wire) : wire[i] = wire[j] => i = j
  /\ \A i \in 1 .. Len(wire) : wire[i][1] = wire[i][2]
  /\ ~tbs => txreg[1] = txreg[2]

(* No accepted frame that was not flushed is lost.                         *)
Kept == accepted \subseteq 1 .. nTx /\ accepted \ flushed \subseteq Somewhere

(* The frame of a write call in progress is the newest; it is nowhere but  *)
(* in the slot the call is filling, and goes from there to the controller. *)
WriterHolds ==
  \A p \in Procs : pc[p] \in WriteLabels =>
    /\ arg[p] = nTx /\ nTx > 0 /\ nTx \notin Somewhere \cup accepted
    /\ slot[p] = tx_in
    /\ pc[p] # "w_copy" => tx_buf[tx_in] = nTx
    /\ pc[p] \in {"w_data", "w_command"} => txreg[1] = nTx
    /\ pc[p] = "w_command" => txreg[2] = nTx

TxIInv ==
  /\ RingIInv /\ SendInv
  /\ Operating /\ Distinct /\ Kept /\ WriterHolds
  /\ \A p \in Procs : ~fault[p]
-----------------------------------------------------------------------------
(* Locks on the transmit buffer.                                           *)

(* Without an asserted interrupt a process runs and none is half-taken.    *)
LEMMA Unasserted ==
  ASSUME PromptIrq, NEW p \in Procs, Running(p)
  PROVE  ir = {} /\ ~TxDue
BY DEF Running, Asserted, Pending, TxDue

(* The chip and the handler: a send under way still finds the buffer free. *)
LEMMA SendChipStep ==
  ASSUME TypeOK, SendInv, Arrive \/ TransmitDone \/ Irq
  PROVE  SendInv'
<1>1. UNCHANGED pc /\ tbs \in BOOLEAN
  BY DEF Arrive, TransmitDone, Irq, IrqEnter, IrqTx, IrqRx, IrqDoi, proc,
         TypeOK, ChipTypes
<1>2. CASE Arrive
  <2>1. UNCHANGED <<tbs, ipc, temp>> /\ ("TI" \in ir' <=> "TI" \in ir)
    BY <1>2 DEF Arrive, irq
  <2> QED BY <1>1, <2>1 DEF SendInv, TxDue
<1>3. CASE TransmitDone
  BY <1>1, <1>3 DEF TransmitDone, SendInv, TxDue, irq
<1>4. CASE IrqEnter
  <2>1. "TI" \in temp' <=> "TI" \in ir
    BY <1>4 DEF IrqEnter, Pending
  <2> QED BY <1>1, <1>4, <2>1 DEF IrqEnter, SendInv, TxDue
<1>5. CASE IrqTx
  <2>1. ~TxDue' /\ UNCHANGED ir
    BY <1>5 DEF IrqTx, TxDue
  <2>2. CASE "TI" \in temp
    <3>1. TxDue
      BY <1>5, <2>2 DEF IrqTx, TxDue
    <3> QED BY <1>1, <2>1, <3>1 DEF SendInv
  <2>3. CASE UNCHANGED tbs
    BY <1>1, <2>1, <2>3 DEF SendInv
  <2> QED BY <1>5, <2>2, <2>3 DEF IrqTx
<1>6. CASE IrqRx \/ IrqDoi
  <2>1. UNCHANGED <<tbs, ir>> /\ ~TxDue'
    BY <1>6 DEF IrqRx, IrqDoi, RxFull, RxStore, TxDue
  <2> QED BY <1>1, <2>1 DEF SendInv
<1> QED BY <1>2, <1>3, <1>4, <1>5, <1>6 DEF Irq

(* The calls: TBS is read free with no interrupt pending, or not sent on.  *)
LEMMA SendProcStep ==
  ASSUME PromptIrq, TypeOK, KernelOwner, SendInv, NEW p \in Procs,
         \/ OpenChip(p) \/ Opening(p) \/ Release(p) \/ Read(p)
         \/ Reading(p) \/ Write(p) \/ Writing(p)
  PROVE  SendInv'
<1>1. Running(p) /\ UNCHANGED <<ipc, temp>> /\ ir' = {}
  <2>1. Running(p) /\ UNCHANGED <<ipc, temp>> /\ (ir' = ir \/ ir' = {})
    BY DEF OpenChip, Opening, Release, Read, Reading, Write, Writing, OpenTx,
           OpenRxCount, OpenRxIndex, ReadCopy, ReadAdvance, WriteCopy, WriteStatus,
           WriteQueue, WriteId, WriteData, WriteCommand, EnterReset, irq, chip
  <2> QED BY <2>1, Unasserted
<1>2. ~TxDue'
  BY <1>1, Unasserted DEF TxDue
<1>3. \A q \in Procs \ {p} : pc[q] \notin SendLabels /\ pc'[q] = pc[q]
  <2>1. \A q \in Procs \ {p} : pc[q] \in {"user", "r_copy", "w_copy"}
    BY <1>1, Alone
  <2>2. \A q \in Procs \ {p} : pc'[q] = pc[q]
    BY DEF OpenChip, Opening, Release, Read, Reading, Write, Writing, OpenTx,
           OpenRxCount, OpenRxIndex, ReadCopy, ReadAdvance, WriteCopy, WriteStatus,
           WriteQueue, WriteId, WriteData, WriteCommand, Goto, GotoCopy, Return,
           TypeOK, ProcTypes
  <2> QED BY <2>1, <2>2 DEF SendLabels
<1>4. pc'[p] \in SendLabels => tbs'
  <2>1. pc[p] \in Labels /\ pc \in [Procs -> Labels]
    BY DEF TypeOK, ProcTypes
  <2>2. CASE OpenChip(p) \/ Opening(p) \/ Release(p) \/ Read(p) \/ Reading(p) \/ Write(p)
    BY <2>1, <2>2
    DEF OpenChip, Opening, Release, Read, Reading, Write, OpenTx, OpenRxCount,
        OpenRxIndex, ReadCopy, ReadAdvance, Goto, GotoCopy, Return, SendLabels, EnterReset
  <2>3. CASE WriteCopy(p) \/ WriteQueue(p) \/ WriteCommand(p)
    BY <2>1, <2>3 DEF WriteCopy, WriteQueue, WriteCommand, Goto, Return, SendLabels
  <2>4. CASE WriteStatus(p)
    BY <2>1, <2>4 DEF WriteStatus, Goto, SendLabels, chip
  <2>5. CASE WriteId(p) \/ WriteData(p)
    BY <2>5 DEF WriteId, WriteData, SendInv, SendLabels
  <2> QED BY <2>2, <2>3, <2>4, <2>5 DEF Writing
<1> QED BY <1>1, <1>2, <1>3, <1>4 DEF SendInv

(* send_message is only ever at work on a released transmit buffer, with   *)
(* any number of open files and sleeping processes, if interrupts are      *)
(* taken at once.                                                          *)
THEOREM SendsSafely == ASSUME PromptIrq PROVE Spec => []SendsWhenReleased
<1>1. Init => CallInv /\ SendInv
  BY InitInv DEF Init, SendInv, TxDue, SendLabels
<1>2. CallInv /\ SendInv /\ [Next]_vars => (CallInv /\ SendInv)'
  <2> SUFFICES ASSUME CallInv, SendInv, [Next]_vars PROVE SendInv'
    BY CallStep
  <2>1. CASE Arrive \/ TransmitDone \/ Irq
    BY <2>1, SendChipStep DEF CallInv
  <2>2. ASSUME NEW p \in Procs,
               \/ OpenChip(p) \/ Opening(p) \/ Release(p) \/ Read(p)
               \/ Reading(p) \/ Write(p) \/ Writing(p)
        PROVE  SendInv'
    BY <2>2, SendProcStep DEF CallInv
  <2>3. CASE UNCHANGED vars
    BY <2>3 DEF SendInv, TxDue, vars, chip, proc, irq
  <2> QED BY <2>1, <2>2, <2>3 DEF Next, Procs
<1>3. CallInv /\ SendInv => SendsWhenReleased
  BY DEF SendInv, SendsWhenReleased, TxDue, SendLabels
<1> QED BY <1>1, <1>2, <1>3, PTL DEF Spec
-----------------------------------------------------------------------------
(* Where frames are.                                                       *)

(* The slots of a ring are those from the out-index on, each once.         *)
LEMMA NthSlots ==
  ASSUME NEW i \in Slots
  PROVE  /\ \A n \in 0 .. BUFFERSIZE - 1 : Nth(i, n) \in Slots
         /\ \A m, n \in 0 .. BUFFERSIZE - 1 : Nth(i, m) = Nth(i, n) => m = n
         /\ Nth(i, 0) = i
BY SizesAssumption DEF Nth, Slots

(* What the invariant says of the types of the transmit side.              *)
LEMMA TxFacts ==
  ASSUME TxIInv
  PROVE  /\ tx_count \in 0 .. BUFFERSIZE /\ tx_in \in Slots /\ tx_out \in Slots
         /\ tx_in = Nth(tx_out, tx_count) /\ tx_buf \in [Slots -> TxFrame]
         /\ BUFFERSIZE \in Nat \ {0} /\ SizeMax \in Nat /\ SizeMax > BUFFERSIZE
         /\ nTx \in Nat /\ nTx <= MaxTx /\ MaxTx \in Nat
         /\ tbs \in BOOLEAN /\ txreg \in TxFrame \X TxFrame
         /\ wire \in Seq(TxFrame \X TxFrame)
         /\ accepted \subseteq TxFrame /\ opened \in Nat
         /\ pc \in [Procs -> Labels] /\ slot \in [Procs -> Slots]
         /\ arg \in [Procs -> Nat] /\ fault \in [Procs -> BOOLEAN]
<1>1. TypeOK
  BY DEF TxIInv, RingIInv, CallInv
<1> QED
  BY <1>1, SizesAssumption, Counters
  DEF TxIInv, RingIInv, RingInv, TypeOK, TxTypes, ChipTypes, HistTypes, ProcTypes

(* The queued frames, by their place in the ring.                          *)
LEMMA QueuedFrames ==
  ASSUME tx_out \in Slots, tx_count \in 0 .. BUFFERSIZE
  PROVE  Queued = {Frame(j) : j \in 0 .. tx_count - 1}
<1>1. \A j \in 0 .. tx_count - 1 : Nth(tx_out, j) \in Slots
  BY NthSlots, SizesAssumption
<1>2. {Nth(tx_out, j) : j \in 0 .. tx_count - 1} \cap Slots
        = {Nth(tx_out, j) : j \in 0 .. tx_count - 1}
  BY <1>1
<1> QED BY <1>2 DEF Queued, Frame

(* An accepted frame that is somewhere is in one place only.               *)
LEMMA OnePlace ==
  ASSUME TxIInv, NEW f \in Somewhere
  PROVE  Places(f) = 1
<1> DEFINE onWire == {i \in 1 .. Len(wire) : wire[i] = <<f, f>>}
           inRing == {i \in 1 .. tx_count : tx_buf[Nth(tx_out, i - 1)] = f}
           inChip == IF ~tbs /\ txreg = <<f, f>> THEN {1} ELSE {}
<1>1. Places(f) = Cardinality(onWire) + Cardinality(inRing) + Cardinality(inChip)
  BY DEF Places
<1>2. Cardinality({}) = 0
  BY FS_EmptySet
<1>3. \A x : Cardinality({x}) = 1
  BY FS_Singleton
<1>4. /\ tx_count \in 0 .. BUFFERSIZE /\ BUFFERSIZE \in Nat /\ tx_out \in Slots
      /\ wire \in Seq(TxFrame \X TxFrame) /\ txreg \in TxFrame \X TxFrame
  BY TxFacts
<1>5. \A i \in 1 .. tx_count : i - 1 \in 0 .. tx_count - 1
  BY <1>4
<1>6. \A j \in 0 .. tx_count - 1 : j + 1 \in 1 .. tx_count /\ (j + 1) - 1 = j
  BY <1>4
<1>7. inRing = {} <=> f \notin Queued
  <2>1. Queued = {Frame(j) : j \in 0 .. tx_count - 1}
    BY <1>4, QueuedFrames
  <2> QED BY <1>5, <1>6, <2>1 DEF Frame
<1>8. onWire = {} <=> f \notin OnBus
  <2>1. \A i \in 1 .. Len(wire) : wire[i] = <<f, f>> <=> wire[i][1] = f
    BY <1>4 DEF TxIInv, Distinct
  <2> QED BY <2>1 DEF OnBus
<1>9. inChip = IF f \in InFlight THEN {1} ELSE {}
  BY <1>4 DEF InFlight, TxIInv, Distinct
<1>10. CASE f \in Queued
  <2>1. onWire = {} /\ inChip = {}
    BY <1>8, <1>9, <1>10 DEF TxIInv, Distinct
  <2>2. \A i, j \in inRing : i = j
    <3> SUFFICES ASSUME NEW i \in inRing, NEW j \in inRing PROVE i = j
      OBVIOUS
    <3>1. Frame(i - 1) = Frame(j - 1)
      BY DEF Frame
    <3>2. i - 1 = j - 1
      BY <1>5, <3>1 DEF TxIInv, Distinct
    <3> QED BY <1>4, <3>2
  <2>3. \E i : inRing = {i}
    BY <1>7, <1>10, <2>2
  <2> HIDE DEF onWire, inRing, inChip
  <2>4. Cardinality(inRing) = 1
    BY <1>3, <2>3
  <2> QED BY <1>1, <1>2, <2>1, <2>4
<1>11. CASE f \in OnBus
  <2>1. inRing = {} /\ inChip = {}
    BY <1>7, <1>9, <1>11 DEF TxIInv, Distinct
  <2>2. \A i, j \in onWire : i = j
    BY DEF TxIInv, Distinct
  <2>3. \E i : onWire = {i}
    BY <1>8, <1>11, <2>2
  <2> HIDE DEF onWire, inRing, inChip
  <2>4. Cardinality(onWire) = 1
    BY <1>3, <2>3
  <2> QED BY <1>1, <1>2, <2>1, <2>4
<1>12. CASE f \in InFlight
  <2>1. inRing = {} /\ onWire = {} /\ inChip = {1}
    BY <1>7, <1>8, <1>9, <1>12 DEF TxIInv, Distinct
  <2> HIDE DEF onWire, inRing, inChip
  <2>2. Cardinality(inChip) = 1
    BY <1>3, <2>1
  <2> QED BY <1>1, <1>2, <2>1, <2>2
<1> QED BY <1>10, <1>11, <1>12 DEF Somewhere
-----------------------------------------------------------------------------
(* The controller and the interrupt handler.                               *)

(* What the calls in progress hold survives a step that leaves them alone  *)
(* and only moves frames.                                                  *)
LEMMA HoldsSame ==
  ASSUME WriterHolds,
         UNCHANGED <<pc, arg, nTx, slot, tx_in, tx_buf, accepted>>,
         \A p \in Procs : pc[p] \in {"w_data", "w_command"} => UNCHANGED txreg,
         Somewhere' \subseteq Somewhere
  PROVE  WriterHolds'
<1> SUFFICES ASSUME NEW p \in Procs, pc[p] \in WriteLabels
    PROVE  /\ arg[p] = nTx /\ nTx > 0 /\ nTx \notin Somewhere' \cup accepted
           /\ slot[p] = tx_in
           /\ pc[p] # "w_copy" => tx_buf[tx_in] = nTx
           /\ pc[p] \in {"w_data", "w_command"} => txreg'[1] = nTx
           /\ pc[p] = "w_command" => txreg'[2] = nTx
  BY DEF WriterHolds
<1> QED BY DEF WriterHolds

(* Whatever leaves the transmit side alone.                                *)
LEMMA PlacesSame ==
  ASSUME UNCHANGED <<tx_buf, tx_count, tx_out, tbs, txreg, wire>>,
         nTx \in Nat, nTx' \in Nat, nTx <= nTx'
  PROVE  /\ UNCHANGED <<Queued, InFlight, OnBus, Somewhere>>
         /\ Distinct => Distinct'
<1>1. UNCHANGED <<Queued, InFlight, OnBus, Somewhere>>
  BY DEF Queued, InFlight, OnBus, Somewhere
<1>2. Distinct => Distinct'
  <2>1. 1 .. nTx \subseteq 1 .. nTx'
    OBVIOUS
  <2> QED BY <1>1, <2>1 DEF Distinct, Frame
<1> QED BY <1>1, <1>2

(* The transmission ends: the frame goes from the controller to the bus.   *)
LEMMA OntoBus ==
  ASSUME TxIInv, TransmitDone
  PROVE  (Distinct /\ Kept /\ WriterHolds)'
<1>1. /\ wire \in Seq(TxFrame \X TxFrame) /\ txreg \in TxFrame \X TxFrame
      /\ nTx \in Nat
  BY TxFacts
<1>2. /\ ~tbs /\ tbs' = TRUE /\ wire' = Append(wire, txreg)
      /\ UNCHANGED <<tx_buf, tx_count, tx_in, tx_out, txreg, pc, slot, arg, nTx,
                     accepted, flushed>>
  BY DEF TransmitDone, txring, proc
<1>3. txreg = <<txreg[1], txreg[1]>> /\ InFlight = {txreg[1]}
  BY <1>1, <1>2 DEF TxIInv, Distinct, InFlight
<1>4. /\ Len(wire) \in Nat /\ 1 .. Len(wire') = (1 .. Len(wire)) \cup {Len(wire) + 1}
      /\ \A i \in 1 .. Len(wire) : wire'[i] = wire[i]
      /\ wire'[Len(wire) + 1] = txreg
  BY <1>1, <1>2
<1>5. Queued' = Queued /\ InFlight' = {}
  BY <1>2 DEF Queued, InFlight
<1>6. OnBus' = OnBus \cup InFlight
  <2>1. OnBus' = {wire'[i][1] : i \in 1 .. Len(wire)} \cup {wire'[Len(wire) + 1][1]}
    BY <1>4 DEF OnBus
  <2>2. {wire'[i][1] : i \in 1 .. Len(wire)} = OnBus
    BY <1>4 DEF OnBus
  <2> QED BY <1>3, <1>4, <2>1, <2>2
<1>7. Somewhere' = Somewhere
  BY <1>5, <1>6 DEF Somewhere
<1>8. Distinct'
  <2>1. txreg[1] \notin OnBus
    BY <1>3 DEF TxIInv, Distinct
  <2>2. \A i \in 1 .. Len(wire) : wire[i] # txreg
    BY <2>1 DEF OnBus
  <2>3. \A i, j \in 1 .. Len(wire') : wire'[i] = wire'[j] => i = j
    BY <1>4, <2>2 DEF TxIInv, Distinct
  <2>4. \A i \in 1 .. Len(wire') : wire'[i][1] = wire'[i][2]
    BY <1>3, <1>4 DEF TxIInv, Distinct
  <2>5. \A i, j \in 0 .. tx_count' - 1 : Frame(i)' = Frame(j)' => i = j
    BY <1>2 DEF TxIInv, Distinct, Frame
  <2>6. /\ Somewhere' \subseteq 1 .. nTx'
        /\ Queued' \cap InFlight' = {} /\ Queued' \cap OnBus' = {} /\ InFlight' \cap OnBus' = {}
    BY <1>2, <1>5, <1>6, <1>7 DEF TxIInv, Distinct
  <2> QED BY <1>2, <2>3, <2>4, <2>5, <2>6 DEF Distinct
<1>9. Kept'
  BY <1>2, <1>7 DEF TxIInv, Kept
<1>10. WriterHolds'
  BY <1>2, <1>7, HoldsSame DEF TxIInv
<1> QED BY <1>8, <1>9, <1>10

(* The handler sends the oldest queued frame: it goes from the ring to the *)
(* controller, which is in operation and has its buffer released.          *)
LEMMA OntoChip ==
  ASSUME TxIInv, IrqTx
  PROVE  (Distinct /\ Kept /\ WriterHolds)'
<1>1. /\ UNCHANGED <<tx_buf, tx_in, wire, pc, slot, arg, nTx, accepted, flushed>>
      /\ ipc = "tx"
  BY DEF IrqTx, proc, hist
<1>2. CASE UNCHANGED <<txreg, tbs, tx_out, tx_count>>
  <2>1. Distinct' /\ Somewhere' = Somewhere
    BY <1>1, <1>2, TxFacts, PlacesSame DEF TxIInv
  <2>2. Kept'
    BY <1>1, <2>1 DEF TxIInv, Kept
  <2>3. WriterHolds'
    BY <1>1, <1>2, <2>1, HoldsSame DEF TxIInv
  <2> QED BY <2>1, <2>2, <2>3
<1>3. CASE "TI" \in temp /\ tx_count > 0
  <2>1. /\ tx_count \in 1 .. BUFFERSIZE /\ BUFFERSIZE \in Nat \ {0} /\ tx_out \in Slots
        /\ tbs \in BOOLEAN /\ nTx \in Nat
    BY <1>3, TxFacts
  <2>2. TxDue /\ tbs /\ mode = "operation"
    BY <1>1, <1>3 DEF TxDue, TxIInv, SendInv, Operating
  <2>3. /\ txreg' = <<tx_buf[tx_out], tx_buf[tx_out]>> /\ tbs' = FALSE
        /\ tx_out' = Advance(tx_out) /\ tx_count' = tx_count - 1
    <3>1. Writable
      BY <2>2 DEF Writable
    <3>2. /\ IF Writable
               THEN txreg' = <<tx_buf[tx_out], tx_buf[tx_out]>> /\ tbs' = FALSE
               ELSE UNCHANGED <<txreg, tbs>>
          /\ tx_out' = Advance(tx_out) /\ tx_count' = Dec(tx_count)
      BY <1>3, <2>1 DEF IrqTx
    <3>3. Dec(tx_count) = tx_count - 1
      BY <2>1 DEF Dec
    <3> QED BY <3>1, <3>2, <3>3
  <2>4. tx_out' \in Slots /\ tx_count' \in 0 .. BUFFERSIZE
    BY <2>1, <2>3, AdvanceInRing
  <2>5. \A j \in 0 .. tx_count' - 1 :
           /\ j + 1 \in 0 .. tx_count - 1 /\ j + 1 # 0
           /\ Frame(j)' = Frame(j + 1)
    <3> TAKE j \in 0 .. tx_count' - 1
    <3>1. j + 1 \in 1 .. BUFFERSIZE /\ (j + 1) - 1 = j /\ j + 1 \in 0 .. tx_count - 1
      BY <2>1, <2>3
    <3>2. Nth(tx_out', j) = Nth(tx_out, j + 1)
      BY <2>1, <2>3, <3>1, NthTaken
    <3> QED BY <1>1, <3>1, <3>2 DEF Frame
  <2>6. Frame(0) = tx_buf[tx_out]
    BY <2>1, NthSlots DEF Frame
  <2>7. /\ Queued = {Frame(j) : j \in 0 .. tx_count - 1}
        /\ Queued' = {Frame(j)' : j \in 0 .. tx_count' - 1}
    <3>1. (tx_out \in Slots /\ tx_count \in 0 .. BUFFERSIZE)'
      BY <2>4
    <3>2. \A j \in 0 .. tx_count' - 1 : Nth(tx_out', j) \in Slots
      <4>1. \A j \in 0 .. tx_count' - 1 : j \in 0 .. BUFFERSIZE - 1
        BY <2>1, <2>3
      <4> QED BY <2>4, <4>1, NthSlots
    <3>3. {Nth(tx_out', j) : j \in 0 .. tx_count' - 1} \cap Slots
            = {Nth(tx_out', j) : j \in 0 .. tx_count' - 1}
      BY <3>2
    <3> QED BY <2>1, <3>3, QueuedFrames DEF Queued, Frame
  <2>8. /\ Queued = Queued' \cup {Frame(0)} /\ Frame(0) \notin Queued'
    <3>1. \A j \in 0 .. tx_count - 1 : j = 0 \/ (j - 1 \in 0 .. tx_count' - 1 /\ (j - 1) + 1 = j)
      BY <2>1, <2>3
    <3>2. 0 \in 0 .. tx_count - 1
      BY <2>1
    <3>3. \A j \in 0 .. tx_count' - 1 : Frame(j)' # Frame(0)
      BY <2>5, <3>2 DEF TxIInv, Distinct
    <3> QED BY <2>5, <2>7, <3>1, <3>2, <3>3
  <2>9. InFlight = {} /\ InFlight' = {Frame(0)} /\ OnBus' = OnBus
    BY <1>1, <2>2, <2>3, <2>6 DEF InFlight, OnBus
  <2>10. Somewhere' = Somewhere
    BY <2>8, <2>9 DEF Somewhere
  <2>11. Distinct'
    <3>1. \A i, j \in 0 .. tx_count' - 1 : Frame(i)' = Frame(j)' => i = j
      <4> SUFFICES ASSUME NEW i \in 0 .. tx_count' - 1, NEW j \in 0 .. tx_count' - 1,
                          Frame(i)' = Frame(j)'
                   PROVE  i = j
        OBVIOUS
      <4>1. i + 1 = j + 1
        BY <2>5 DEF TxIInv, Distinct
      <4> QED BY <2>1, <2>3, <4>1
    <3>2. /\ \A i, j \in 1 .. Len(wire') : wire'[i] = wire'[j] => i = j
          /\ \A i \in 1 .. Len(wire') : wire'[i][1] = wire'[i][2]
      BY <1>1 DEF TxIInv, Distinct
    <3>3. /\ Somewhere' \subseteq 1 .. nTx'
          /\ Queued' \cap InFlight' = {} /\ Queued' \cap OnBus' = {}
          /\ InFlight' \cap OnBus' = {}
      BY <1>1, <2>8, <2>9, <2>10 DEF TxIInv, Distinct
    <3> QED BY <2>3, <3>1, <3>2, <3>3 DEF Distinct
  <2>12. Kept'
    BY <1>1, <2>10 DEF TxIInv, Kept
  <2>13. \A p \in Procs : pc[p] \notin {"w_data", "w_command"}
    BY <2>2 DEF TxIInv, SendInv, SendLabels
  <2>14. WriterHolds'
    BY <1>1, <2>10, <2>13, HoldsSame DEF TxIInv
  <2> QED BY <2>11, <2>12, <2>14
<1> QED BY <1>2, <1>3 DEF IrqTx

(* The chip and the handler keep the frames of the transmit path apart.    *)
LEMMA TxChipStep ==
  ASSUME TxIInv, Arrive \/ TransmitDone \/ Irq
  PROVE  (Operating /\ Distinct /\ Kept /\ WriterHolds /\ \A p \in Procs : ~fault[p])'
<1>1. UNCHANGED <<mode, opened, pc, slot, arg, fault>>
  BY DEF Arrive, TransmitDone, Irq, IrqEnter, IrqTx, IrqRx, IrqDoi, proc
<1>2. "TI" \in ir' \/ TxDue' => mode = "operation"
  <2>1. CASE Arrive
    <3>1. UNCHANGED <<ipc, temp>> /\ ("TI" \in ir' <=> "TI" \in ir)
      BY <2>1 DEF Arrive, irq
    <3> QED BY <3>1 DEF TxIInv, Operating, TxDue
  <2>2. CASE TransmitDone
    BY <2>2 DEF TransmitDone
  <2>3. CASE IrqEnter
    BY <2>3 DEF IrqEnter, Pending, TxDue, TxIInv, Operating
  <2>4. CASE IrqTx \/ IrqRx \/ IrqDoi
    BY <2>4 DEF IrqTx, IrqRx, IrqDoi, RxFull, RxStore, TxDue, TxIInv, Operating
  <2> QED BY <2>1, <2>2, <2>3, <2>4 DEF Irq
<1>3. Operating'
  BY <1>1, <1>2 DEF TxIInv, Operating
<1>4. CASE Arrive \/ IrqEnter \/ IrqRx \/ IrqDoi
  <2>1. UNCHANGED <<tx_buf, tx_count, tx_in, tx_out, tbs, txreg, wire, nTx, accepted, flushed>>
    BY <1>4 DEF Arrive, IrqEnter, IrqRx, IrqDoi, txring, hist
  <2>2. Distinct' /\ Somewhere' = Somewhere
    BY <2>1, TxFacts, PlacesSame DEF TxIInv
  <2>3. Kept'
    BY <2>1, <2>2 DEF TxIInv, Kept
  <2>4. WriterHolds'
    BY <1>1, <2>1, <2>2, HoldsSame DEF TxIInv
  <2> QED BY <1>1, <1>3, <2>2, <2>3, <2>4 DEF TxIInv
<1> QED BY <1>1, <1>3, <1>4, OntoBus, OntoChip DEF Irq, TxIInv

-----------------------------------------------------------------------------
(* The system calls.                                                       *)

(* A process that runs is alone in the kernel, and no TI is pending.       *)
LEMMA TxAlone ==
  ASSUME Undisturbed, TxIInv, NEW p \in Procs,
         \/ OpenChip(p) \/ Opening(p) \/ Release(p) \/ Read(p)
         \/ Reading(p) \/ Write(p) \/ Writing(p)
  PROVE  /\ \A q \in Procs \ {p} : pc[q] = "user" /\ pc'[q] = "user"
         /\ ir' = {} /\ ~TxDue' /\ \A q \in Procs : ~fault'[q]
<1>1. Running(p) /\ UNCHANGED <<ipc, temp>> /\ (ir' = ir \/ ir' = {})
  BY DEF OpenChip, Opening, Release, Read, Reading, Write, Writing, OpenTx,
         OpenRxCount, OpenRxIndex, ReadCopy, ReadAdvance, WriteCopy, WriteStatus,
         WriteQueue, WriteId, WriteData, WriteCommand, EnterReset, irq, chip
<1>2. \A q \in Procs \ {p} : pc[q] = "user"
  BY <1>1, Alone DEF Undisturbed, TxIInv, RingIInv, CallInv
<1>3. \A q \in Procs \ {p} : pc'[q] = pc[q]
  BY TxFacts
  DEF OpenChip, Opening, Release, Read, Reading, Write, Writing, OpenTx,
      OpenRxCount, OpenRxIndex, ReadCopy, ReadAdvance, WriteCopy, WriteStatus,
      WriteQueue, WriteId, WriteData, WriteCommand, Goto, GotoCopy, Return
<1>4. UNCHANGED fault \/ fault' = [fault EXCEPT ![p] = FALSE]
  BY DEF OpenChip, Opening, Release, Read, Reading, Write, Writing, OpenTx,
         OpenRxCount, OpenRxIndex, ReadCopy, ReadAdvance, WriteCopy, WriteStatus,
         WriteQueue, WriteId, WriteData, WriteCommand, Return, Undisturbed
<1>5. \A q \in Procs : ~fault'[q]
  BY <1>4, TxFacts DEF TxIInv
<1> QED BY <1>1, <1>2, <1>3, <1>5, Unasserted DEF Undisturbed, TxDue

(* A reset throws the frame in the controller away.                        *)
LEMMA ResetFlushes ==
  ASSUME TxIInv, EnterReset, flushed' = flushed \cup InFlight,
         UNCHANGED <<txring, wire, nTx, accepted>>
  PROVE  (Distinct /\ Kept)'
<1>1. /\ UNCHANGED <<tx_buf, tx_count, tx_out, txreg>> /\ tbs' = TRUE
  BY DEF EnterReset, txring
<1>2. Queued' = Queued /\ InFlight' = {} /\ OnBus' = OnBus
  BY <1>1 DEF Queued, InFlight, OnBus
<1>3. Kept'
  BY <1>2 DEF TxIInv, Kept, Somewhere
<1>4. Distinct'
  BY <1>1, <1>2 DEF TxIInv, Distinct, Somewhere, Frame
<1> QED BY <1>3, <1>4

(* Files are open, and opened, on a controller in operation only.          *)
LEMMA OperatingStep ==
  ASSUME Undisturbed, TxIInv, NEW p \in Procs,
         \/ OpenChip(p) \/ Opening(p) \/ Release(p) \/ Read(p)
         \/ Reading(p) \/ Write(p) \/ Writing(p)
  PROVE  Operating'
<1>1. /\ \A q \in Procs \ {p} : pc'[q] \notin OpenLabels
      /\ ir' = {} /\ ~TxDue'
  BY TxAlone DEF OpenLabels
<1>2. opened \in {0, 1} /\ MaxOpen = 1 /\ pc \in [Procs -> Labels]
  BY TxFacts DEF Undisturbed, TxIInv, RingIInv, CallInv, TypeOK, ProcTypes
<1>3. opened > 0 \/ pc[p] \in OpenLabels => mode = "operation"
  BY DEF TxIInv, Operating
<1>4. CASE OpenChip(p)
  <2>1. opened' = 0 /\ (mode' = "operation" \/ pc' = [pc EXCEPT ![p] = "user"])
    BY <1>2, <1>4 DEF OpenChip, Return
  <2> QED BY <1>1, <1>2, <2>1 DEF Operating, OpenLabels
<1>5. CASE Opening(p)
  <2>1. pc[p] \in OpenLabels /\ UNCHANGED mode
    BY <1>5 DEF Opening, OpenTx, OpenRxCount, OpenRxIndex, OpenLabels, chip
  <2> QED BY <1>1, <1>3, <2>1 DEF Operating
<1>6. CASE Release(p)
  <2>1. opened' = 0 /\ UNCHANGED pc /\ pc[p] = "user"
    BY <1>2, <1>6 DEF Release
  <2> QED BY <1>1, <2>1 DEF Operating, OpenLabels
<1>7. CASE Read(p) \/ Reading(p) \/ Write(p) \/ Writing(p)
  <2>1. UNCHANGED <<opened, mode>>
    BY <1>7 DEF Read, Reading, Write, Writing, ReadCopy, ReadAdvance, WriteCopy,
                WriteStatus, WriteQueue, WriteId, WriteData, WriteCommand, chip
  <2>2. pc'[p] \notin OpenLabels
    BY <1>2, <1>7
    DEF Read, Reading, Write, Writing, ReadCopy, ReadAdvance, WriteCopy, WriteStatus,
        WriteQueue, WriteId, WriteData, WriteCommand, Goto, GotoCopy, Return, OpenLabels
  <2> QED BY <1>1, <1>3, <2>1, <2>2 DEF Operating
<1> QED BY <1>4, <1>5, <1>6, <1>7

(* Nobody holds a frame after a step that leaves no writer at work.        *)
LEMMA NobodyHolds ==
  ASSUME NEW p \in Procs, \A q \in Procs \ {p} : pc'[q] = "user",
         pc'[p] \notin WriteLabels
  PROVE  WriterHolds'
BY DEF WriterHolds, WriteLabels

(* The calls that do not write.                                            *)
LEMMA TxOtherStep ==
  ASSUME Undisturbed, TxIInv, NEW p \in Procs,
         OpenChip(p) \/ Opening(p) \/ Release(p) \/ Read(p) \/ Reading(p)
  PROVE  (Distinct /\ Kept /\ WriterHolds)'
<1>1. /\ \A q \in Procs \ {p} : pc'[q] = "user"
      /\ pc \in [Procs -> Labels] /\ nTx \in Nat
  BY TxAlone, TxFacts
<1>2. pc'[p] \notin WriteLabels
  BY <1>1
  DEF OpenChip, Opening, Release, Read, Reading, OpenTx, OpenRxCount, OpenRxIndex,
      ReadCopy, ReadAdvance, Goto, GotoCopy, Return, WriteLabels
<1>3. WriterHolds'
  BY <1>1, <1>2, NobodyHolds
<1>4. CASE OpenChip(p) \/ Release(p)
  <2>1. /\ EnterReset /\ flushed' = flushed \cup InFlight
        /\ UNCHANGED <<txring, wire, nTx, accepted>>
    BY <1>4 DEF OpenChip, Release
  <2> QED BY <1>3, <2>1, ResetFlushes
<1>5. CASE OpenTx(p)
  <2>1. /\ tx_count' = 0 /\ flushed' = flushed \cup Queued
        /\ UNCHANGED <<tbs, txreg, wire, nTx, accepted>>
    BY <1>5 DEF OpenTx, chip
  <2>2. {Nth(tx_out', j) : j \in 0 .. 0 - 1} = {}
    OBVIOUS
  <2>3. Queued' = {} /\ InFlight' = InFlight /\ OnBus' = OnBus
    BY <2>1, <2>2 DEF Queued, InFlight, OnBus
  <2>4. Kept'
    BY <2>1, <2>3 DEF TxIInv, Kept, Somewhere
  <2>5. Distinct'
    BY <2>1, <2>3 DEF TxIInv, Distinct, Somewhere
  <2> QED BY <1>3, <2>4, <2>5
<1>6. CASE OpenRxCount(p) \/ OpenRxIndex(p) \/ Read(p) \/ Reading(p)
  <2>1. UNCHANGED <<tx_buf, tx_count, tx_out, tbs, txreg, wire, nTx, accepted, flushed>>
    BY <1>6 DEF OpenRxCount, OpenRxIndex, Read, Reading, ReadCopy, ReadAdvance,
                txring, chip, hist
  <2>2. Distinct' /\ Somewhere' = Somewhere
    BY <1>1, <2>1, PlacesSame DEF TxIInv
  <2>3. Kept'
    BY <2>1, <2>2 DEF TxIInv, Kept
  <2> QED BY <1>3, <2>2, <2>3
<1> QED BY <1>4, <1>5, <1>6 DEF Opening

(* device_write.                                                           *)
LEMMA TxWriteStep ==
  ASSUME Undisturbed, TxIInv, NEW p \in Procs, Write(p) \/ Writing(p)
  PROVE  (Distinct /\ Kept /\ WriterHolds)'
<1>1. /\ \A q \in Procs \ {p} : pc[q] = "user" /\ pc'[q] = "user"
      /\ pc \in [Procs -> Labels] /\ arg \in [Procs -> Nat]
      /\ slot \in [Procs -> Slots] /\ tx_buf \in [Slots -> TxFrame]
      /\ nTx \in Nat /\ tx_in \in Slots /\ tx_out \in Slots
      /\ tx_count \in 0 .. BUFFERSIZE /\ tx_in = Nth(tx_out, tx_count)
      /\ BUFFERSIZE \in Nat \ {0} /\ SizeMax \in Nat /\ SizeMax > BUFFERSIZE
      /\ tbs \in BOOLEAN /\ txreg \in TxFrame \X TxFrame
  BY TxAlone, TxFacts
<1>2. pc[p] \in WriteLabels =>
        /\ arg[p] = nTx /\ nTx > 0 /\ nTx \notin Somewhere \cup accepted
        /\ slot[p] = tx_in
        /\ pc[p] # "w_copy" => tx_buf[tx_in] = nTx
        /\ pc[p] \in {"w_data", "w_command"} => txreg[1] = nTx
        /\ pc[p] = "w_command" => txreg[2] = nTx
        /\ tx_count < BUFFERSIZE /\ mode = "operation"
  <2>1. pc[p] \in WriteLabels => tx_count < BUFFERSIZE /\ opened > 0
    BY DEF TxIInv, RingIInv, CallInv, WriteHasRoom, CallsOnOpenFile
  <2> QED BY <2>1 DEF TxIInv, WriterHolds, Operating
<1>3. pc[p] \in SendLabels => tbs
  BY DEF TxIInv, SendInv
<1>4. ASSUME pc'[p] \in WriteLabels =>
               /\ arg'[p] = nTx' /\ nTx' > 0 /\ nTx' \notin Somewhere' \cup accepted'
               /\ slot'[p] = tx_in'
               /\ pc'[p] # "w_copy" => tx_buf'[tx_in'] = nTx'
               /\ pc'[p] \in {"w_data", "w_command"} => txreg'[1] = nTx'
               /\ pc'[p] = "w_command" => txreg'[2] = nTx'
      PROVE  WriterHolds'
  BY <1>1, <1>4 DEF WriterHolds, WriteLabels
<1>5. CASE Write(p)
  <2>1. /\ UNCHANGED <<tx_buf, tx_in, tx_count, tx_out, tbs, txreg, wire, accepted, flushed>>
        /\ nTx' = nTx + 1 /\ arg'[p] = nTx + 1 /\ slot'[p] = tx_in /\ pc'[p] = "w_copy"
    BY <1>1, <1>5 DEF Write, GotoCopy, txring, chip
  <2>2. Distinct' /\ Somewhere' = Somewhere
    BY <1>1, <2>1, PlacesSame DEF TxIInv
  <2>3. 1 .. nTx \subseteq 1 .. nTx' /\ nTx + 1 \notin 1 .. nTx /\ nTx + 1 > 0
    BY <1>1, <2>1
  <2>4. Kept'
    BY <2>1, <2>2, <2>3 DEF TxIInv, Kept
  <2>5. nTx + 1 \notin Somewhere \cup accepted
    BY <2>3 DEF TxIInv, Kept, Distinct
  <2>6. WriterHolds'
    BY <1>4, <2>1, <2>2, <2>3, <2>5
  <2> QED BY <2>2, <2>4, <2>6
<1>6. CASE WriteCopy(p)
  <2>1. /\ UNCHANGED <<tx_in, tx_count, tx_out, tbs, txreg, wire, nTx, accepted, flushed,
                       arg, slot>>
        /\ tx_buf' = [tx_buf EXCEPT ![tx_in] = nTx]
        /\ pc[p] = "w_copy" /\ pc'[p] = "w_status"
    BY <1>1, <1>2, <1>6 DEF WriteCopy, Goto, Undisturbed, chip, hist, WriteLabels
  <2>2. \A j \in 0 .. tx_count - 1 : Frame(j)' = Frame(j)
    <3> TAKE j \in 0 .. tx_count - 1
    <3>1. tx_count \in 0 .. BUFFERSIZE - 1
      BY <1>1, <1>2, <2>1 DEF WriteLabels
    <3>2. j \in 0 .. BUFFERSIZE - 1 /\ j # tx_count
      BY <1>1
    <3>3. Nth(tx_out, j) # tx_in /\ Nth(tx_out, j) \in Slots
      BY <1>1, <3>1, <3>2, NthSlots
    <3> QED BY <1>1, <2>1, <3>3 DEF Frame
  <2>3. Queued' = Queued
    <3>1. (tx_out \in Slots /\ tx_count \in 0 .. BUFFERSIZE)'
      BY <1>1, <2>1
    <3>2. Queued = {Frame(j) : j \in 0 .. tx_count - 1}
      BY <1>1, QueuedFrames
    <3>3. Queued' = {Frame(j)' : j \in 0 .. tx_count - 1}
      <4>1. \A j \in 0 .. tx_count - 1 : Nth(tx_out, j) \in Slots
        <5>1. \A j \in 0 .. tx_count - 1 : j \in 0 .. BUFFERSIZE - 1
          BY <1>1
        <5> QED BY <1>1, <5>1, NthSlots
      <4>2. {Nth(tx_out, j) : j \in 0 .. tx_count - 1} \cap Slots
              = {Nth(tx_out, j) : j \in 0 .. tx_count - 1}
        BY <4>1
      <4> QED BY <2>1, <4>2 DEF Queued, Frame
    <3> QED BY <2>2, <3>2, <3>3
  <2>4. InFlight' = InFlight /\ OnBus' = OnBus /\ Somewhere' = Somewhere
    BY <2>1, <2>3 DEF InFlight, OnBus, Somewhere
  <2>5. Distinct'
    BY <2>1, <2>2, <2>3, <2>4 DEF TxIInv, Distinct
  <2>6. Kept'
    BY <2>1, <2>4 DEF TxIInv, Kept
  <2>7. WriterHolds'
    BY <1>1, <1>2, <1>4, <2>1, <2>4 DEF WriteLabels
  <2> QED BY <2>5, <2>6, <2>7
<1>7. CASE WriteStatus(p)
  <2>1. /\ UNCHANGED <<tx_buf, tx_in, tx_count, tx_out, tbs, txreg, wire, nTx, accepted,
                       flushed, arg>>
        /\ slot'[p] = tx_in /\ pc[p] = "w_status" /\ pc'[p] \in {"w_id", "w_queue"}
    BY <1>1, <1>7 DEF WriteStatus, Goto, txring, chip, hist
  <2>2. Distinct' /\ Somewhere' = Somewhere
    BY <1>1, <2>1, PlacesSame DEF TxIInv
  <2>3. Kept'
    BY <2>1, <2>2 DEF TxIInv, Kept
  <2>4. WriterHolds'
    BY <1>2, <1>4, <2>1, <2>2 DEF WriteLabels
  <2> QED BY <2>2, <2>3, <2>4
<1>8. CASE WriteQueue(p)
  <2>1. /\ UNCHANGED <<tx_buf, tx_out, tbs, txreg, wire, nTx, flushed>>
        /\ tx_count' = Inc(tx_count) /\ accepted' = accepted \cup {arg[p]}
        /\ pc[p] = "w_queue" /\ pc'[p] = "user"
    BY <1>1, <1>8 DEF WriteQueue, Return, chip
  <2>2. /\ arg[p] = nTx /\ nTx > 0 /\ nTx \notin Somewhere /\ tx_buf[tx_in] = nTx
        /\ tx_count \in 0 .. BUFFERSIZE - 1 /\ tx_count' = tx_count + 1
    BY <1>1, <1>2, <2>1 DEF WriteLabels, Inc
  <2>3. \A j \in 0 .. tx_count' - 1 :
           /\ Frame(j)' = Frame(j)
           /\ j \in 0 .. tx_count - 1 \/ j = tx_count
           /\ Nth(tx_out, j) \in Slots
    <3>1. \A j \in 0 .. tx_count' - 1 : /\ j \in 0 .. BUFFERSIZE - 1
                                        /\ j \in 0 .. tx_count - 1 \/ j = tx_count
      BY <1>1, <2>2
    <3>2. \A j \in 0 .. tx_count' - 1 : Frame(j)' = Frame(j)
      BY <2>1 DEF Frame
    <3> QED BY <1>1, <3>1, <3>2, NthSlots
  <2>4. Frame(tx_count) = nTx
    BY <1>1, <2>2 DEF Frame
  <2>5. Queued = {Frame(j) : j \in 0 .. tx_count - 1}
    BY <1>1, QueuedFrames
  <2>6. Queued' = {Frame(j) : j \in 0 .. tx_count' - 1}
    <3>1. {Nth(tx_out, j) : j \in 0 .. tx_count' - 1} \cap Slots
            = {Nth(tx_out, j) : j \in 0 .. tx_count' - 1}
      BY <2>3
    <3> QED BY <2>1, <3>1 DEF Queued, Frame
  <2>7. Queued' = Queued \cup {nTx}
    <3>1. 0 .. tx_count' - 1 = (0 .. tx_count - 1) \cup {tx_count}
      BY <2>2
    <3> QED BY <2>4, <2>5, <2>6, <3>1
  <2>8. /\ InFlight' = InFlight /\ OnBus' = OnBus /\ Somewhere' = Somewhere \cup {nTx}
        /\ nTx \in 1 .. nTx
    BY <1>1, <2>1, <2>2, <2>7 DEF InFlight, OnBus, Somewhere
  <2>9. Distinct'
    <3>1. \A j \in 0 .. tx_count - 1 : Frame(j) # nTx
      BY <2>2, <2>5 DEF Somewhere
    <3>2. \A i, j \in 0 .. tx_count' - 1 : Frame(i)' = Frame(j)' => i = j
      BY <2>3, <2>4, <3>1 DEF TxIInv, Distinct
    <3>3. nTx \notin InFlight /\ nTx \notin OnBus
      BY <2>2 DEF Somewhere
    <3>4. /\ Somewhere' \subseteq 1 .. nTx'
          /\ Queued' \cap InFlight' = {} /\ Queued' \cap OnBus' = {}
          /\ InFlight' \cap OnBus' = {}
      BY ZenonT(40), <2>1, <2>7, <2>8, <3>3 DEF TxIInv, Distinct
    <3> QED BY <2>1, <3>2, <3>4 DEF TxIInv, Distinct
  <2>10. Kept'
    BY <2>1, <2>2, <2>8 DEF TxIInv, Kept
  <2>11. WriterHolds'
    BY <1>4, <2>1 DEF WriteLabels
  <2> QED BY <2>9, <2>10, <2>11
<1>9. CASE WriteId(p) \/ WriteData(p)
  <2>1. /\ UNCHANGED <<tx_buf, tx_in, tx_count, tx_out, tbs, wire, nTx, accepted, flushed,
                       arg, slot>>
        /\ pc[p] \in {"w_id", "w_data"}
    BY <1>9 DEF WriteId, WriteData, txring, hist
  <2>2. /\ tbs /\ Writable /\ arg[p] = nTx /\ nTx > 0 /\ nTx \notin Somewhere \cup accepted
        /\ slot[p] = tx_in /\ tx_buf[tx_in] = nTx
        /\ pc[p] = "w_data" => txreg[1] = nTx
    BY <1>2, <1>3, <2>1 DEF WriteLabels, SendLabels, Writable
  <2>3. \/ pc'[p] = "w_data" /\ txreg' = <<nTx, txreg[2]>>
        \/ pc'[p] = "w_command" /\ pc[p] = "w_data" /\ txreg' = <<txreg[1], nTx>>
    BY <1>1, <1>9, <2>2 DEF WriteId, WriteData, Goto
  <2>4. Queued' = Queued /\ InFlight = {} /\ InFlight' = {} /\ OnBus' = OnBus
    BY <2>1, <2>2 DEF Queued, InFlight, OnBus
  <2>5. Somewhere' = Somewhere
    BY <2>4 DEF Somewhere
  <2>6. Distinct'
    BY <2>1, <2>2, <2>4, <2>5 DEF TxIInv, Distinct, Frame
  <2>7. Kept'
    BY <2>1, <2>5 DEF TxIInv, Kept
  <2>8. WriterHolds'
    BY <1>4, <2>1, <2>2, <2>3, <2>5
  <2> QED BY <2>6, <2>7, <2>8
<1>10. CASE WriteCommand(p)
  <2>1. /\ UNCHANGED <<tx_buf, tx_in, tx_count, tx_out, txreg, wire, nTx, flushed>>
        /\ pc[p] = "w_command" /\ pc'[p] = "user"
        /\ accepted' = accepted \cup {arg[p]}
    BY <1>1, <1>10 DEF WriteCommand, Return, txring, TxIInv
  <2>2. /\ tbs /\ Writable /\ arg[p] = nTx /\ nTx > 0 /\ nTx \notin Somewhere
        /\ txreg[1] = nTx /\ txreg[2] = nTx
    BY <1>2, <1>3, <2>1 DEF WriteLabels, SendLabels, Writable
  <2>3. tbs' = FALSE
    BY <1>10, <2>2 DEF WriteCommand
  <2>4. Queued' = Queued /\ InFlight = {} /\ InFlight' = {nTx} /\ OnBus' = OnBus
    BY <2>1, <2>2, <2>3 DEF Queued, InFlight, OnBus
  <2>5. Somewhere' = Somewhere \cup {nTx} /\ nTx \in 1 .. nTx
    BY <1>1, <2>2, <2>4 DEF Somewhere
  <2>6. Distinct'
    <3>1. nTx \notin Queued /\ nTx \notin OnBus
      BY <2>2 DEF Somewhere
    <3> QED BY ZenonT(40), <2>1, <2>2, <2>4, <2>5, <3>1 DEF TxIInv, Distinct, Frame
  <2>7. Kept'
    BY <2>1, <2>2, <2>5 DEF TxIInv, Kept
  <2>8. WriterHolds'
    BY <1>4, <2>1 DEF WriteLabels
  <2> QED BY <2>6, <2>7, <2>8
<1> QED BY <1>5, <1>6, <1>7, <1>8, <1>9, <1>10 DEF Writing

(* Every step keeps the transmit invariant.                                *)
LEMMA TxStep ==
  ASSUME Undisturbed
  PROVE  TxIInv /\ [Next]_vars => TxIInv'
<1> SUFFICES ASSUME TxIInv, [Next]_vars PROVE TxIInv'
  OBVIOUS
<1>1. RingIInv'
  BY RingStep DEF TxIInv, Undisturbed
<1>2. TypeOK /\ KernelOwner /\ SendInv /\ PromptIrq
  BY DEF TxIInv, RingIInv, CallInv, Undisturbed
<1>3. CASE Arrive \/ TransmitDone \/ Irq
  BY <1>1, <1>2, <1>3, SendChipStep, TxChipStep DEF TxIInv
<1>4. ASSUME NEW p \in Procs,
             \/ OpenChip(p) \/ Opening(p) \/ Release(p) \/ Read(p)
             \/ Reading(p) \/ Write(p) \/ Writing(p)
      PROVE  TxIInv'
  <2>1. SendInv' /\ Operating' /\ \A q \in Procs : ~fault'[q]
    BY <1>2, <1>4, SendProcStep, OperatingStep, TxAlone
  <2>2. (Distinct /\ Kept /\ WriterHolds)'
    BY <1>4, TxOtherStep, TxWriteStep
  <2> QED BY <1>1, <2>1, <2>2 DEF TxIInv
<1>5. CASE UNCHANGED vars
  <2>1. UNCHANGED <<txring, tbs, txreg, ir, mode, pc, slot, arg, fault, opened, ipc, temp,
                    wire, nTx, accepted, flushed>>
    BY <1>5 DEF vars, chip, proc, irq, hist
  <2>2. Distinct' /\ Somewhere' = Somewhere
    BY <2>1, TxFacts, PlacesSame DEF TxIInv, txring
  <2>3. SendInv' /\ Operating' /\ Kept' /\ WriterHolds'
    BY <2>1, <2>2 DEF TxIInv, SendInv, TxDue, Operating, Kept, WriterHolds, txring
  <2> QED BY <1>1, <2>1, <2>2, <2>3 DEF TxIInv
<1> QED BY <1>3, <1>4, <1>5 DEF Next, Procs

(* Every frame device_write accepted, and no reset flushed, is in the ring, *)
(* in the controller or on the bus, exactly once, and no frame goes out in  *)
(* halves: for every ring, with any number of processes that open the       *)
(* device once at a time, if interrupts are taken at once and copies        *)
(* neither sleep nor fail.                                                  *)
THEOREM TxCorrect == ASSUME Undisturbed PROVE Spec => []TxSound
<1>1. Init => TxIInv
  <2> SUFFICES ASSUME Init PROVE TxIInv
    OBVIOUS
  <2>1. RingIInv
    BY RingInit
  <2>2. SendInv /\ Operating /\ WriterHolds /\ \A p \in Procs : ~fault[p]
    BY DEF Init, SendInv, TxDue, SendLabels, Operating, OpenLabels, WriterHolds, WriteLabels
  <2>3. Queued = {} /\ InFlight = {} /\ OnBus = {}
    BY DEF Init, Queued, InFlight, OnBus
  <2>4. Distinct /\ Kept
    BY <2>3 DEF Init, Distinct, Kept, Somewhere
  <2> QED BY <2>1, <2>2, <2>4 DEF TxIInv
<1>2. TxIInv => TxSound
  <2> SUFFICES ASSUME TxIInv PROVE TxSound
    OBVIOUS
  <2>1. TxAccounted
    BY OnePlace DEF TxAccounted, TxIInv, Kept
  <2>2. WireIntact
    BY DEF WireIntact, TxIInv, Distinct
  <2> QED BY <2>1, <2>2 DEF TxSound
<1> QED BY <1>1, <1>2, TxStep, PTL DEF Spec

-----------------------------------------------------------------------------
(* The receive side.                                                       *)

(* A queue kept in two parts, the frames of s before those of t.           *)
LEMMA ConcatAppend ==
  ASSUME NEW S, NEW s \in Seq(S), NEW t \in Seq(S), NEW x \in S
  PROVE  s \o Append(t, x) = Append(s \o t, x)
<1> DEFINE u == s \o Append(t, x)
           v == Append(s \o t, x)
<1>1. u \in Seq(S) /\ v \in Seq(S) /\ Len(u) = Len(v)
  OBVIOUS
<1>2. \A i \in 1 .. Len(u) : u[i] = v[i]
  OBVIOUS
<1> QED BY <1>1, <1>2, SeqEqual

(* The head and the tail of a concatenation are those of its first part.   *)
LEMMA ConcatTail ==
  ASSUME NEW S, NEW s \in Seq(S), NEW t \in Seq(S), s # <<>>
  PROVE  Head(s \o t) = Head(s) /\ Tail(s \o t) = Tail(s) \o t
<1> DEFINE u == Tail(s \o t)
           v == Tail(s) \o t
<1>0. s \o t # <<>> /\ Len(s) > 0 /\ Len(t) \in Nat /\ s \o t \in Seq(S) /\ Len(s \o t) = Len(s) + Len(t)
  OBVIOUS
<1>1. u \in Seq(S) /\ v \in Seq(S) /\ Len(u) = Len(v)
  BY <1>0
<1>2. \A i \in 1 .. Len(u) : u[i] = v[i]
  BY <1>0
<1>3. Head(s \o t) = Head(s)
  BY <1>0
<1> QED BY <1>1, <1>2, <1>3, SeqEqual

(* The front of a concatenation is its first part.                         *)
LEMMA ConcatFront ==
  ASSUME NEW S, NEW s \in Seq(S), NEW t \in Seq(S)
  PROVE  SubSeq(s \o t, 1, Len(s)) = s
<1> DEFINE u == SubSeq(s \o t, 1, Len(s))
<1>0. s \o t \in Seq(S) /\ Len(s \o t) = Len(s) + Len(t) /\ Len(s) \in Nat /\ Len(t) \in Nat
      /\ \A i \in 1 .. Len(s) : (s \o t)[i] = s[i] /\ s[i] \in S
  OBVIOUS
<1>1. u \in Seq(S) /\ Len(u) = Len(s) /\ \A i \in 1 .. Len(s) : u[i] = s[i]
  BY <1>0, SubSeqProperties
<1> QED BY <1>1, SeqEqual

(* Moving the first frame of the queue to the end of the ring keeps both.  *)
LEMMA ConcatMove ==
  ASSUME NEW S, NEW s \in Seq(S), NEW t \in Seq(S), t # <<>>
  PROVE  Append(s, Head(t)) \o Tail(t) = s \o t
<1> DEFINE u == Append(s, Head(t)) \o Tail(t)
           v == s \o t
<1>1. u \in Seq(S) /\ v \in Seq(S) /\ Len(u) = Len(v)
  OBVIOUS
<1>2. \A i \in 1 .. Len(u) : u[i] = v[i]
  OBVIOUS
<1> QED BY <1>1, <1>2, SeqEqual

(* Dropping the first frame of the queue keeps the rest.                   *)
LEMMA ConcatDrop ==
  ASSUME NEW S, NEW s \in Seq(S), NEW t \in Seq(S), t # <<>>
  PROVE  SubSeq(s \o t, 1, Len(s)) \o SubSeq(s \o t, Len(s) + 2, Len(s \o t)) = s \o Tail(t)
<1> DEFINE w == SubSeq(s \o t, Len(s) + 2, Len(s \o t))
<1>0. s \o t \in Seq(S) /\ Len(s \o t) = Len(s) + Len(t) /\ Len(s) \in Nat /\ Len(t) \in Nat /\ Len(t) > 0
      /\ \A i \in 1 .. Len(t) : (s \o t)[Len(s) + i] = t[i] /\ t[i] \in S
  OBVIOUS
<1>1. \A i \in Len(s) + 2 .. Len(s \o t) : (s \o t)[i] \in S
  BY <1>0
<1>2. w \in Seq(S) /\ Len(w) = Len(t) - 1 /\ \A i \in 1 .. Len(t) - 1 : w[i] = (s \o t)[Len(s) + i + 1]
  <2>1. \A u \in Seq(S), m, n \in Int :
          (\A i \in m .. n : u[i] \in S) =>
            /\ SubSeq(u, m, n) \in Seq(S)
            /\ Len(SubSeq(u, m, n)) = IF m <= n THEN n - m + 1 ELSE 0
            /\ \A i \in 1 .. n - m + 1 : SubSeq(u, m, n)[i] = u[m + i - 1]
    BY SubSeqProperties
  <2>2. /\ w \in Seq(S) 
        /\ Len(w) = IF Len(s) + 2 <= Len(s \o t) THEN Len(s \o t) - (Len(s) + 2) + 1 ELSE 0
        /\ \A i \in 1 .. Len(s \o t) - (Len(s) + 2) + 1 : w[i] = (s \o t)[Len(s) + 2 + i - 1]
    BY <1>0, <1>1, <2>1
  <2> HIDE DEF w
  <2>3. Len(w) = Len(t) - 1
    <3> DEFINE ls == Len(s)
               lt == Len(t)
               ld == Len(s \o t)
    <3>1. ls \in Nat /\ lt \in Nat /\ lt > 0 /\ ld = ls + lt
      BY <1>0
    <3>2. Len(w) = IF ls + 2 <= ld THEN ld - (ls + 2) + 1 ELSE 0
      BY <2>2
    <3> HIDE DEF ls, lt, ld
    <3>3. Len(w) = lt - 1
      BY <3>1, <3>2
    <3> QED BY <3>3 DEF lt
  <2>4. ASSUME NEW i \in 1 .. Len(t) - 1 PROVE w[i] = (s \o t)[Len(s) + i + 1]
    <3>1. i \in 1 .. Len(s \o t) - (Len(s) + 2) + 1 /\ Len(s) + 2 + i - 1 = Len(s) + i + 1
      BY <1>0
    <3> QED BY <2>2, <3>1
  <2> QED BY <2>2, <2>3, <2>4
<1>3. Tail(t) \in Seq(S) /\ Len(Tail(t)) = Len(t) - 1 /\ \A i \in 1 .. Len(t) - 1 : Tail(t)[i] = t[i + 1]
  BY HeadTailProperties
<1>4. \A i \in 1 .. Len(t) - 1 : w[i] = Tail(t)[i]
  BY <1>0, <1>2, <1>3
<1>5. w = Tail(t)
  BY <1>2, <1>3, <1>4, SeqEqual
<1> QED BY <1>5, ConcatFront

-----------------------------------------------------------------------------
(* The frames of a receive ring, in the order in which they are read.      *)
FramesOf(buf, out, n) == [i \in 1 .. n |-> buf[Nth(out, i - 1)]]

(* The frames of a ring are a sequence of its count.                       *)
LEMMA FramesSeq ==
  ASSUME NEW buf \in [Slots -> RxFrame], NEW out \in Slots, NEW n \in 0 .. BUFFERSIZE
  PROVE  /\ FramesOf(buf, out, n) \in Seq(RxFrame)
         /\ Len(FramesOf(buf, out, n)) = n
<1>1. \A i \in 1 .. n : Nth(out, i - 1) \in Slots
  <2> TAKE i \in 1 .. n
  <2>1. i - 1 \in 0 .. BUFFERSIZE - 1
    BY SizesAssumption
  <2> QED BY <2>1, NthSlots
<1> QED BY <1>1, SizesAssumption DEF FramesOf

(* A frame stored after the last of them comes last.                       *)
LEMMA FramesPut ==
  ASSUME NEW buf \in [Slots -> RxFrame], NEW out \in Slots,
         NEW n \in 0 .. BUFFERSIZE - 1, NEW f \in RxFrame
  PROVE  FramesOf([buf EXCEPT ![Nth(out, n)] = f], out, n + 1)
           = Append(FramesOf(buf, out, n), f)
<1> DEFINE b == [buf EXCEPT ![Nth(out, n)] = f]
           u == FramesOf(b, out, n + 1)
           v == FramesOf(buf, out, n)
<1>1. BUFFERSIZE \in Nat \ {0}
  BY SizesAssumption
<1>2. Nth(out, n) \in Slots /\ b \in [Slots -> RxFrame]
  BY NthSlots
<1>3. \A i \in 1 .. n : b[Nth(out, i - 1)] = buf[Nth(out, i - 1)]
  <2> TAKE i \in 1 .. n
  <2>1. i - 1 \in 0 .. BUFFERSIZE - 1 /\ i - 1 # n
    BY <1>1
  <2>2. Nth(out, i - 1) \in Slots /\ Nth(out, i - 1) # Nth(out, n)
    BY <2>1, NthSlots
  <2> QED BY <2>2
<1>4. b[Nth(out, n)] = f
  BY <1>2
<1>5. /\ u \in Seq(RxFrame) /\ Len(u) = n + 1
      /\ v \in Seq(RxFrame) /\ Len(v) = n
  <2>1. n + 1 \in 0 .. BUFFERSIZE /\ n \in 0 .. BUFFERSIZE
    BY <1>1
  <2> QED BY <1>2, <2>1, FramesSeq
<1>6. \A i \in 1 .. n + 1 : u[i] = Append(v, f)[i]
  <2> SUFFICES ASSUME NEW i \in 1 .. n + 1 PROVE u[i] = Append(v, f)[i]
    OBVIOUS
  <2>1. u[i] = b[Nth(out, i - 1)]
    BY DEF FramesOf
  <2>2. CASE i = n + 1
    <3>1. u[i] = f
      BY <1>4, <2>1, <2>2
    <3>2. Append(v, f)[n + 1] = f
      BY <1>5, AppendProperties
    <3> QED BY <2>2, <3>1, <3>2
  <2>3. CASE i \in 1 .. n
    <3>1. v[i] = buf[Nth(out, i - 1)]
      BY <2>3 DEF FramesOf
    <3>2. Append(v, f)[i] = v[i]
      BY <1>5, <2>3, AppendProperties
    <3> QED BY <1>3, <2>1, <2>3, <3>1, <3>2
  <2>4. i = n + 1 \/ i \in 1 .. n
    BY <1>1
  <2> QED BY <2>2, <2>3, <2>4
<1>7. Append(v, f) \in Seq(RxFrame) /\ Len(Append(v, f)) = n + 1
  BY <1>5, AppendProperties
<1> HIDE DEF u, v
<1>8. u = Append(v, f)
  BY <1>5, <1>6, <1>7, SeqEqual
<1> QED BY <1>8 DEF u, v

(* Taking the first one out leaves the others.                             *)
LEMMA FramesTaken ==
  ASSUME NEW buf \in [Slots -> RxFrame], NEW out \in Slots, NEW n \in 1 .. BUFFERSIZE
  PROVE  /\ FramesOf(buf, out, n) # <<>>
         /\ Head(FramesOf(buf, out, n)) = buf[out]
         /\ FramesOf(buf, Advance(out), n - 1) = Tail(FramesOf(buf, out, n))
<1> DEFINE u == FramesOf(buf, Advance(out), n - 1)
           v == FramesOf(buf, out, n)
<1>1. BUFFERSIZE \in Nat \ {0} /\ n \in Nat /\ n > 0
  BY SizesAssumption
<1>2. n \in 0 .. BUFFERSIZE /\ n - 1 \in 0 .. BUFFERSIZE
  BY <1>1
<1>3. /\ u \in Seq(RxFrame) /\ Len(u) = n - 1
      /\ v \in Seq(RxFrame) /\ Len(v) = n
  BY <1>2, FramesSeq, AdvanceInRing
<1>4. v # <<>> /\ Head(v) = v[1]
  BY <1>1, <1>3
<1>5. v[1] = buf[out]
  <2>1. v[1] = buf[Nth(out, 1 - 1)]
    BY <1>1 DEF FramesOf
  <2> QED BY <2>1, NthSlots
<1>6. /\ Tail(v) \in Seq(RxFrame) /\ Len(Tail(v)) = n - 1
      /\ \A i \in 1 .. n - 1 : Tail(v)[i] = v[i + 1]
  BY <1>3, <1>4, HeadTailProperties
<1>7. \A i \in 1 .. n - 1 : u[i] = Tail(v)[i]
  <2> TAKE i \in 1 .. n - 1
  <2>1. u[i] = buf[Nth(Advance(out), i - 1)]
    BY DEF FramesOf
  <2>2. i \in 1 .. BUFFERSIZE /\ i + 1 \in 1 .. n /\ (i + 1) - 1 = i
    BY <1>1
  <2>3. v[i + 1] = buf[Nth(out, i)]
    <3>1. v[i + 1] = buf[Nth(out, (i + 1) - 1)]
      BY <2>2 DEF FramesOf
    <3> QED BY <2>2, <3>1
  <2>4. Nth(Advance(out), i - 1) = Nth(out, i)
    BY <2>2, NthTaken
  <2> QED BY <1>6, <2>1, <2>3, <2>4
<1> HIDE DEF u, v
<1>8. u = Tail(v)
  BY <1>3, <1>6, <1>7, SeqEqual
<1> QED BY <1>4, <1>5, <1>8 DEF u, v

-----------------------------------------------------------------------------
(* A read in progress is about the oldest frame of the ring: the slot it   *)
(* copies from and the frame it copied stay the ones at rx_out.            *)
ReadRight ==
  \A p \in Procs :
    /\ pc[p] = "r_copy" => slot[p] = rx_out
    /\ pc[p] = "r_advance" => arg[p] = rx_buf[rx_out]

RxIInv == RingIInv /\ ReadRight

(* What the steps below need of it.                                        *)
LEMMA RxFacts ==
  ASSUME RingIInv
  PROVE  /\ rx_count \in 0 .. BUFFERSIZE /\ rx_in \in Slots /\ rx_out \in Slots
         /\ rx_buf \in [Slots -> RxFrame] /\ rxfifo \in Seq(RxFrame)
         /\ BUFFERSIZE \in Nat \ {0} /\ SizeMax \in Nat /\ SizeMax > BUFFERSIZE
         /\ nRx \in 0 .. MaxRx /\ MaxRx \in Nat
         /\ pc \in [Procs -> Labels] /\ slot \in [Procs -> Slots] /\ arg \in [Procs -> Nat]
         /\ ipc # "idle" => /\ \A p \in Procs : pc[p] \notin OpenLabels
                            /\ rx_in = Nth(rx_out, rx_count)
<1>1. ipc # "idle" => \A p \in Procs : pc[p] \notin OpenLabels
  BY DEF RingIInv, OpenQuiet
<1>2. ipc # "idle" => rx_in = Nth(rx_out, rx_count)
  BY <1>1 DEF RingIInv, RingInv, OpenLabels
<1> QED
  BY <1>1, <1>2, Counters, SizesAssumption
  DEF RingIInv, CallInv, TypeOK, RxTypes, ChipTypes, ProcTypes, HistTypes

(* Arrivals and the handler leave the slot alone a reader copies from.     *)
LEMMA ReadChipStep ==
  ASSUME RxIInv, Arrive \/ TransmitDone \/ Irq
  PROVE  ReadRight'
<1>1. UNCHANGED <<pc, slot, arg, rx_out>>
  BY DEF Arrive, TransmitDone, Irq, IrqEnter, IrqTx, IrqRx, IrqDoi, RxFull, RxStore,
         proc, rxring
<1>2. CASE UNCHANGED rx_buf
  BY <1>1, <1>2 DEF RxIInv, ReadRight
<1>3. CASE IrqRx /\ RxStore
  <2>1. /\ rx_buf' = [rx_buf EXCEPT ![rx_in] = Head(rxfifo)]
        /\ ipc # "idle" /\ rx_count # BUFFERSIZE
    BY <1>3, RxFacts DEF IrqRx, RxStore, RingIsFull, RxIInv
  <2>2. \A p \in Procs : pc[p] \in ReadLabels => rx_count > 0
    BY DEF RxIInv, RingIInv, ReadHasFrame
  <2>3. rx_count > 0 => rx_in # rx_out
    <3>1. rx_count \in 0 .. BUFFERSIZE - 1 /\ 0 \in 0 .. BUFFERSIZE - 1 /\ rx_out \in Slots
          /\ rx_in = Nth(rx_out, rx_count)
      BY <2>1, RxFacts DEF RxIInv
    <3> QED BY <3>1, NthSlots
  <2>4. rx_count > 0 => rx_buf'[rx_out] = rx_buf[rx_out]
    BY <2>1, <2>3, RxFacts DEF RxIInv
  <2> QED BY <1>1, <2>2, <2>4 DEF RxIInv, ReadRight, ReadLabels
<1> QED
  BY <1>2, <1>3
  DEF Arrive, TransmitDone, Irq, IrqEnter, IrqTx, IrqRx, IrqDoi, RxFull, rxring

(* The calls: the frame a reader copies is the one at rx_out.              *)
LEMMA ReadProcStep ==
  ASSUME Discipline, RxIInv, NEW p \in Procs,
         \/ OpenChip(p) \/ Opening(p) \/ Release(p) \/ Read(p)
         \/ Reading(p) \/ Write(p) \/ Writing(p)
  PROVE  ReadRight'
<1>1. Running(p)
  BY DEF OpenChip, Opening, Release, Read, Reading, Write, Writing, OpenTx,
         OpenRxCount, OpenRxIndex, ReadCopy, ReadAdvance, WriteCopy,
         WriteStatus, WriteQueue, WriteId, WriteData, WriteCommand
<1>2. /\ pc \in [Procs -> Labels] /\ slot \in [Procs -> Slots] /\ arg \in [Procs -> Nat]
      /\ rx_buf \in [Slots -> RxFrame]
  BY RxFacts DEF RxIInv
<1>3. \A q \in Procs \ {p} :
        pc'[q] = pc[q] /\ slot'[q] = slot[q] /\ arg'[q] = arg[q]
  BY <1>2
  DEF OpenChip, Opening, Release, Read, Reading, Write, Writing, OpenTx,
      OpenRxCount, OpenRxIndex, ReadCopy, ReadAdvance, WriteCopy, WriteStatus,
      WriteQueue, WriteId, WriteData, WriteCommand, Goto, GotoCopy, Return
<1>4. UNCHANGED <<rx_buf, rx_out>> \/ pc[p] \in OpenLabels \cup ReadLabels
  BY DEF OpenChip, Opening, Release, Read, Reading, Write, Writing, OpenTx,
      OpenRxCount, OpenRxIndex, ReadCopy, ReadAdvance, WriteCopy, WriteStatus,
      WriteQueue, WriteId, WriteData, WriteCommand, rxring, OpenLabels, ReadLabels
<1>5. \A q \in Procs \ {p} : pc[q] \in ReadLabels => UNCHANGED <<rx_buf, rx_out>>
  BY <1>1, <1>4, Sole DEF RxIInv
<1>6. \A q \in Procs \ {p} :
        /\ pc'[q] = "r_copy" => slot'[q] = rx_out'
        /\ pc'[q] = "r_advance" => arg'[q] = rx_buf'[rx_out']
  BY <1>3, <1>5 DEF RxIInv, ReadRight, ReadLabels
<1>7. /\ pc'[p] = "r_copy" => slot'[p] = rx_out'
      /\ pc'[p] = "r_advance" => arg'[p] = rx_buf'[rx_out']
  <2>1. CASE Read(p)
    BY <1>2, <2>1 DEF Read, GotoCopy, rxring
  <2>2. CASE ReadCopy(p)
    <3>1. slot[p] = rx_out /\ UNCHANGED <<rx_buf, rx_out>>
      BY <2>2 DEF ReadCopy, rxring, RxIInv, ReadRight
    <3> QED BY <1>2, <2>2, <3>1 DEF ReadCopy, Goto, Return
  <2>3. CASE Release(p)
    BY <2>3 DEF Release
  <2>4. CASE OpenChip(p) \/ Opening(p) \/ ReadAdvance(p) \/ Write(p) \/ Writing(p)
    <3>1. pc'[p] \notin ReadLabels
      BY <1>2, <2>4
      DEF OpenChip, Opening, Write, Writing, OpenTx, OpenRxCount, OpenRxIndex,
          ReadAdvance, WriteCopy, WriteStatus, WriteQueue, WriteId, WriteData,
          WriteCommand, Goto, GotoCopy, Return, ReadLabels
    <3> QED BY <3>1 DEF ReadLabels
  <2> QED BY <2>1, <2>2, <2>3, <2>4 DEF Reading
<1> QED BY <1>6, <1>7 DEF ReadRight

(* Every step keeps the receive invariant.                                 *)
LEMMA RxStep ==
  ASSUME Discipline
  PROVE  RxIInv /\ [Next]_vars => RxIInv'
<1> SUFFICES ASSUME RxIInv, [Next]_vars PROVE RxIInv'
  OBVIOUS
<1>1. RingIInv'
  BY RingStep DEF RxIInv
<1>2. CASE UNCHANGED vars
  BY <1>1, <1>2 DEF RxIInv, ReadRight, vars, rxring, proc
<1>3. CASE Arrive \/ TransmitDone \/ Irq
  BY <1>1, <1>3, ReadChipStep DEF RxIInv
<1>4. ASSUME NEW p \in Procs,
             \/ OpenChip(p) \/ Opening(p) \/ Release(p) \/ Read(p)
             \/ Reading(p) \/ Write(p) \/ Writing(p)
      PROVE  RxIInv'
  BY <1>1, <1>4, ReadProcStep DEF RxIInv
<1> QED BY <1>2, <1>3, <1>4 DEF Next, Procs

-----------------------------------------------------------------------------
(* The refinement, step by step.                                           *)
Pend == RxRing \o rxfifo

AbsStep == [RxAbs!AbsNext]_(RxAbs!avars)

(* What is pending: the ring and then the queue of the chip, both of frames.*)
LEMMA PendFacts ==
  ASSUME RingIInv
  PROVE  /\ RxRing = FramesOf(rx_buf, rx_out, rx_count)
         /\ RxRing \in Seq(RxFrame) /\ Len(RxRing) = rx_count
         /\ rxfifo \in Seq(RxFrame)
         /\ Pend \in Seq(RxFrame) /\ Len(Pend) = rx_count + Len(rxfifo)
<1>1. RxRing = FramesOf(rx_buf, rx_out, rx_count)
  BY DEF RxRing, FramesOf
<1>2. RxRing \in Seq(RxFrame) /\ Len(RxRing) = rx_count /\ rxfifo \in Seq(RxFrame)
  BY <1>1, FramesSeq, RxFacts
<1>3. Pend \in Seq(RxFrame) /\ Len(Pend) = rx_count + Len(rxfifo)
  <2> HIDE DEF RxRing
  <2> QED BY <1>2, ConcatProperties DEF Pend
<1> QED BY <1>1, <1>2, <1>3

(* What an unchanged queue, a new frame, a delivery, a drop and a reset    *)
(* are to the abstract system.                                             *)
LEMMA AbsSame ==
  ASSUME UNCHANGED <<RxRing, rxfifo, got, nRx, RxUp>>
  PROVE  AbsStep
BY DEF AbsStep, RxAbs!avars

(* A reset drops the queue of the chip and keeps the ring.                 *)
LEMMA AbsDown ==
  ASSUME RingIInv, UNCHANGED <<rxring, got, nRx>>, rxfifo' = <<>>, ~RxUp'
  PROVE  AbsStep
<1>1. RxRing' = RxRing
  BY DEF RxRing, rxring
<1>2. Pend' = SubSeq(Pend, 1, rx_count) /\ rx_count \in 0 .. Len(Pend)
  <2>1. Pend' = RxRing
    BY <1>1, PendFacts, ConcatEmptySeq DEF Pend
  <2>2. SubSeq(Pend, 1, rx_count) = RxRing
    BY PendFacts, ConcatFront DEF Pend
  <2> QED BY <2>1, <2>2, PendFacts, RxFacts, LenProperties
<1>3. RxAbs!Down
  BY <1>2 DEF RxAbs!Down, Pend, RxUp
<1> QED BY <1>3 DEF AbsStep, RxAbs!AbsNext

(* A frame that arrives is received, or lost where the chip has no room.   *)
LEMMA AbsArrive == ASSUME RingIInv, Discipline, Arrive PROVE AbsStep
<1>1. RxUp /\ RxUp' /\ nRx' = nRx + 1 /\ UNCHANGED <<RxRing, got>>
  <2>1. \A p \in Procs : pc[p] \notin OpenLabels
    BY DEF Arrive, Discipline
  <2>2. UNCHANGED <<pc, mode, got>> /\ nRx' = nRx + 1 /\ mode = "operation"
    BY DEF Arrive, proc
  <2> QED BY <2>1, <2>2 DEF Arrive, RxUp, RxRing, rxring, OpenLabels
<1>2. Pend' = Append(Pend, nRx') \/ Pend' = Pend
  <2>1. CASE rxfifo' = Append(rxfifo, nRx + 1)
    <3>1. nRx + 1 \in RxFrame
      BY RxFacts DEF Arrive, RxFrame
    <3> QED BY SMTT(20), <1>1, <2>1, <3>1, PendFacts, ConcatAppend DEF Pend
  <2>2. CASE UNCHANGED rxfifo
    BY <1>1, <2>2 DEF Pend
  <2> QED BY <2>1, <2>2 DEF Arrive
<1>3. RxAbs!Receive
  BY <1>1, <1>2 DEF RxAbs!Receive, Pend
<1> QED BY <1>3 DEF AbsStep, RxAbs!AbsNext

(* The handler moves a frame from the chip to the ring, or drops it.       *)
LEMMA AbsIrqRx == ASSUME RingIInv, IrqRx PROVE AbsStep
<1>1. UNCHANGED <<got, nRx, RxUp>> /\ rx_in = Nth(rx_out, rx_count)
  BY RxFacts DEF IrqRx, proc, hist, RxUp
<1>2. CASE UNCHANGED <<rxring, rxfifo>>
  <2>1. UNCHANGED RxRing
    BY <1>2 DEF RxRing, rxring
  <2> QED BY <1>1, <1>2, <2>1, AbsSame
<1>3. CASE "RI" \in temp /\ RxFull
  <2>1. CASE Peli
    BY <1>2, <1>3, <2>1 DEF RxFull
  <2>2. CASE ~Peli
    <3>1. rx_count = BUFFERSIZE /\ rxfifo' = Tail(rxfifo) /\ UNCHANGED rxring
      BY <1>3, <2>2, RxFacts DEF RxFull, RingIsFull, ReleaseBuffer
    <3>2. rxfifo # <<>> /\ Len(rxfifo) > 0
      BY <1>3, PendFacts DEF IrqRx, RingIInv, CallInv, TypeOK, IrqTypes
    <3>3. Pend' = RxRing \o Tail(rxfifo)
      BY <3>1 DEF Pend, RxRing, rxring
    <3>4. SubSeq(Pend, 1, BUFFERSIZE) \o SubSeq(Pend, BUFFERSIZE + 2, Len(Pend))
            = RxRing \o Tail(rxfifo)
      BY <3>1, <3>2, PendFacts, ConcatDrop DEF Pend
    <3>5. Len(Pend) > BUFFERSIZE
      BY <3>1, <3>2, PendFacts, RxFacts
    <3>6. RxAbs!RemoveAt(Pend, BUFFERSIZE + 1) = Pend'
      <4>1. (BUFFERSIZE + 1) - 1 = BUFFERSIZE /\ (BUFFERSIZE + 1) + 1 = BUFFERSIZE + 2
        BY RxFacts
      <4> QED BY <3>3, <3>4, <4>1 DEF RxAbs!RemoveAt
    <3>7. RxAbs!Drop
      BY <1>1, <2>2, <3>5, <3>6 DEF RxAbs!Drop, Pend
    <3> QED BY <3>7 DEF AbsStep, RxAbs!AbsNext
  <2> QED BY <2>1, <2>2
<1>4. CASE "RI" \in temp /\ RxStore
  <2>1. rxfifo # <<>> /\ Head(rxfifo) \in RxFrame /\ rxfifo' = Tail(rxfifo)
    BY <1>4, PendFacts DEF IrqRx, RxStore, ReleaseBuffer, RingIInv, CallInv, TypeOK, IrqTypes
  <2>2. rx_count \in 0 .. BUFFERSIZE - 1 /\ rx_count' = rx_count + 1
    BY <1>4, RxFacts DEF RxStore, RingIsFull, Inc
  <2>3. RxRing' = Append(RxRing, Head(rxfifo))
    <3>1. RxRing' = FramesOf([rx_buf EXCEPT ![rx_in] = Head(rxfifo)], rx_out, rx_count + 1)
      BY <1>4, <2>2 DEF RxStore, RxRing, FramesOf
    <3>2. rx_buf \in [Slots -> RxFrame] /\ rx_out \in Slots
      BY RxFacts
    <3>3. FramesOf([rx_buf EXCEPT ![Nth(rx_out, rx_count)] = Head(rxfifo)],
                   rx_out, rx_count + 1)
            = Append(FramesOf(rx_buf, rx_out, rx_count), Head(rxfifo))
      BY <2>1, <2>2, <3>2, FramesPut
    <3> QED BY <1>1, <3>1, <3>3, PendFacts
  <2>4. Pend' = Pend
    BY <2>1, <2>3, PendFacts, ConcatMove DEF Pend
  <2> QED BY <1>1, <2>4 DEF AbsStep, RxAbs!avars, Pend
<1> QED BY <1>2, <1>3, <1>4 DEF IrqRx

(* device_read delivers the oldest frame.                                  *)
LEMMA AbsDeliver ==
  ASSUME RxIInv, NEW p \in Procs, ReadAdvance(p)
  PROVE  AbsStep
<1>1. /\ rx_out' = Advance(rx_out) /\ rx_count' = Dec(rx_count)
      /\ got' = Append(got, arg[p]) /\ UNCHANGED <<rx_buf, rxfifo, nRx, mode>>
      /\ pc[p] = "r_advance" /\ pc' = [pc EXCEPT ![p] = "user"]
  BY DEF ReadAdvance, Return, chip
<1>2. rx_count \in 1 .. BUFFERSIZE /\ rx_count' = rx_count - 1
  <2>1. rx_count > 0
    BY <1>1 DEF RxIInv, RingIInv, ReadHasFrame, ReadLabels
  <2> QED BY <1>1, <2>1, RxFacts DEF RxIInv, Dec
<1>3. RxRing # <<>> /\ Head(RxRing) = arg[p] /\ RxRing' = Tail(RxRing)
  <2>1. RxRing' = FramesOf(rx_buf, Advance(rx_out), rx_count - 1)
    BY <1>1, <1>2 DEF RxRing, FramesOf
  <2>2. arg[p] = rx_buf[rx_out]
    BY <1>1 DEF RxIInv, ReadRight
  <2>3. rx_buf \in [Slots -> RxFrame] /\ rx_out \in Slots
    BY RxFacts DEF RxIInv
  <2>4. RxRing = FramesOf(rx_buf, rx_out, rx_count)
    BY PendFacts DEF RxIInv
  <2>5. /\ RxRing # <<>> /\ Head(RxRing) = rx_buf[rx_out]
        /\ FramesOf(rx_buf, Advance(rx_out), rx_count - 1) = Tail(RxRing)
    BY <1>2, <2>3, <2>4, FramesTaken
  <2> QED BY <2>1, <2>2, <2>5
<1>4. Head(Pend) = arg[p] /\ Pend' = Tail(Pend) /\ Pend # <<>>
  <2>1. Head(Pend) = arg[p] /\ Pend' = Tail(Pend)
    BY <1>1, <1>3, PendFacts, ConcatTail DEF Pend, RxIInv
  <2>2. Pend # <<>>
    <3>1. Len(Pend) > 0
      BY <1>2, PendFacts, RxFacts, LenProperties DEF RxIInv
    <3> QED BY <3>1
  <2> QED BY <2>1, <2>2
<1>5. UNCHANGED RxUp
  BY <1>1, RxFacts DEF RxUp, RxIInv
<1>6. RxAbs!Deliver
  BY <1>1, <1>4, <1>5 DEF RxAbs!Deliver, Pend
<1> QED BY <1>6 DEF AbsStep, RxAbs!AbsNext

(* device_open empties the queue when it sets rx_count.                    *)
LEMMA AbsOpen ==
  ASSUME Discipline, RingIInv, NEW p \in Procs, Opening(p)
  PROVE  AbsStep
<1>1. Running(p) /\ pc[p] \in OpenLabels /\ UNCHANGED <<rxfifo, mode, got, nRx>>
  BY DEF Opening, OpenTx, OpenRxCount, OpenRxIndex, OpenLabels, chip, hist
<1>2. rxfifo = <<>>
  BY <1>1 DEF RingIInv, OpenQuiet
<1>3. \A q \in Procs \ {p} : pc[q] \notin OpenLabels
  BY <1>1, Sole
<1>4. pc \in [Procs -> Labels]
  BY RxFacts
<1>5. CASE OpenTx(p)
  <2>1. pc[p] = "o_tx" /\ pc'[p] = "o_rxcount" /\ UNCHANGED rxring
    BY <1>4, <1>5 DEF OpenTx, Goto
  <2>2. RxUp = FALSE /\ RxUp' = FALSE
    BY <2>1 DEF RxUp
  <2>3. UNCHANGED RxRing
    BY <2>1 DEF RxRing, rxring
  <2> QED BY <1>1, <2>2, <2>3, AbsSame
<1>6. CASE OpenRxCount(p)
  <2>1. rx_count' = 0
    BY <1>6 DEF OpenRxCount
  <2>2. RxRing' = <<>>
    <3>1. RxRing' = [i \in 1 .. 0 |-> rx_buf'[Nth(rx_out', i - 1)]]
      BY <2>1 DEF RxRing
    <3> QED BY <3>1
  <2>3. Pend' = <<>>
    <3>1. rxfifo' = <<>>
      BY <1>1, <1>2
    <3> QED BY <2>2, <3>1 DEF Pend
  <2>4. CASE mode = "operation"
    <3>1. RxUp' = TRUE
      BY <1>1, <1>3, <1>4, <1>6, <2>4 DEF OpenRxCount, Goto, RxUp, OpenLabels
    <3>2. RxAbs!Up
      BY <1>1, <2>3, <3>1 DEF RxAbs!Up, Pend
    <3> QED BY <3>2 DEF AbsStep, RxAbs!AbsNext
  <2>5. CASE mode # "operation"
    <3>1. RxUp' = FALSE
      BY <1>1, <2>5 DEF RxUp
    <3>2. Pend' = SubSeq(Pend, 1, 0) /\ 0 \in 0 .. Len(Pend)
      <4>1. SubSeq(Pend, 1, 0) = <<>>
        BY SubSeqEmpty
      <4>2. Len(Pend) \in Nat
        BY PendFacts, LenProperties
      <4> QED BY <2>3, <4>1, <4>2
    <3>3. RxAbs!Down
      BY <1>1, <3>1, <3>2 DEF RxAbs!Down, Pend
    <3> QED BY <3>3 DEF AbsStep, RxAbs!AbsNext
  <2> QED BY <2>4, <2>5
<1>7. CASE OpenRxIndex(p)
  <2>1. pc[p] = "o_rxindex" /\ pc' = [pc EXCEPT ![p] = "user"] /\ UNCHANGED rx_count
    BY <1>7 DEF OpenRxIndex, Return
  <2>2. rx_count = 0
    BY <2>1 DEF RingIInv, OpenCleared
  <2>3. UNCHANGED RxRing
    BY <2>1, <2>2 DEF RxRing
  <2>4. UNCHANGED RxUp
    BY <1>1, <1>4, <2>1 DEF RxUp
  <2> QED BY <1>1, <2>3, <2>4, AbsSame
<1> QED BY <1>5, <1>6, <1>7 DEF Opening

(* The other steps of the calls do not show.                               *)
LEMMA AbsOther ==
  ASSUME RingIInv, NEW p \in Procs,
         Read(p) \/ ReadCopy(p) \/ Write(p) \/ Writing(p)
  PROVE  AbsStep
<1>1. /\ UNCHANGED <<rxring, rxfifo, got, nRx, mode>>
      /\ pc[p] \notin OpenLabels
      /\ \E l \in Labels \ OpenLabels : pc' = [pc EXCEPT ![p] = l]
  BY DEF Read, ReadCopy, Write, Writing, WriteCopy, WriteStatus, WriteQueue,
         WriteId, WriteData, WriteCommand, Goto, GotoCopy, Return, chip, hist,
         Labels, OpenLabels, ReadLabels, WriteLabels
<1>2. PICK l \in Labels \ OpenLabels : pc' = [pc EXCEPT ![p] = l]
  BY <1>1
<1>3. UNCHANGED RxUp
  BY <1>1, <1>2, RxFacts DEF RxUp, OpenLabels
<1>4. UNCHANGED RxRing
  BY <1>1 DEF RxRing, rxring
<1> QED BY <1>1, <1>3, <1>4, AbsSame

(* Every step of the driver is a step of the queue or does not show.       *)
LEMMA RxSimulates ==
  ASSUME Discipline
  PROVE  RxIInv /\ [Next]_vars => AbsStep
<1> SUFFICES ASSUME RxIInv, [Next]_vars PROVE AbsStep
  OBVIOUS
<1>1. RingIInv
  BY DEF RxIInv
<1>2. CASE UNCHANGED vars \/ TransmitDone \/ IrqEnter \/ IrqTx \/ IrqDoi
  <2>1. UNCHANGED <<rxring, rxfifo, got, nRx, mode, pc>>
    BY <1>2 DEF vars, chip, proc, hist, TransmitDone, IrqEnter, IrqTx, IrqDoi
  <2>2. UNCHANGED <<RxRing, RxUp>>
    BY <2>1 DEF RxRing, RxUp, rxring
  <2> QED BY <2>1, <2>2, AbsSame
<1>3. ASSUME NEW p \in Procs, OpenChip(p) \/ Release(p) PROVE AbsStep
  <2>1. UNCHANGED <<rxring, got, nRx>> /\ rxfifo' = <<>>
    BY <1>3 DEF OpenChip, Release, EnterReset
  <2>2. ~RxUp'
    <3>1. mode' = "reset" \/ pc'[p] = "o_tx"
      BY <1>1, <1>3, RxFacts DEF OpenChip, Release, Goto
    <3> QED BY <3>1 DEF RxUp
  <2> QED BY <1>1, <2>1, <2>2, AbsDown
<1>4. ASSUME NEW p \in Procs, \/ Opening(p) \/ Read(p) \/ Reading(p)
                              \/ Write(p) \/ Writing(p)
      PROVE  AbsStep
  BY <1>1, <1>4, AbsOpen, AbsOther, AbsDeliver DEF Reading
<1> QED BY <1>1, <1>2, <1>3, <1>4, AbsArrive, AbsIrqRx DEF Next, Irq, Procs

(* The receive path implements CanRxAbs, for rings and a FIFO of every     *)
(* size, in both modes: a reader gets the frames in the order in which the *)
(* controller took them, each at most once, and a frame goes missing only  *)
(* in a reset or, in BasicCAN mode, when a ring full of older ones waits.  *)
THEOREM RxCorrect == ASSUME Discipline PROVE Spec => RxImplements
<1>1. Init => RxIInv
  BY RingInit DEF Init, RxIInv, ReadRight
<1>2. Init => RxAbs!AbsInit
  <2> SUFFICES ASSUME Init PROVE RxAbs!AbsInit
    OBVIOUS
  <2>1. rx_count = 0 /\ rxfifo = <<>> /\ got = <<>> /\ nRx = 0 /\ mode = "reset"
    BY DEF Init
  <2>2. RxRing \o rxfifo = <<>> /\ RxUp = FALSE
    BY <2>1 DEF RxRing, RxUp
  <2> QED BY <2>1, <2>2 DEF RxAbs!AbsInit
<1>3. RxIInv /\ [Next]_vars => [RxAbs!AbsNext]_(RxAbs!avars)
  BY RxSimulates DEF AbsStep
<1> QED BY <1>1, <1>2, <1>3, RxStep, PTL DEF Spec, RxImplements, RxAbs!AbsSpec

-----------------------------------------------------------------------------
(* Layouts.                                                                *)

(* Four bytes hold a 29-bit identifier.                                    *)
LEMMA ExtIdBack ==
  ASSUME NEW id \in Nat, id <= MaxExtId
  PROVE  ExtId((id \div 2097152) % 256, (id \div 8192) % 256, (id \div 32) % 256,
               (id % 32) * 8) = id
<1>1. PICK x \in Nat : x = id \div 32 /\ id = x * 32 + (id % 32)
  BY SMT
<1>2. PICK y \in Nat : y = x \div 256 /\ x = y * 256 + (x % 256)
  BY SMT
<1>3. PICK z \in Nat : z = y \div 256 /\ y = z * 256 + (y % 256)
  BY SMT
<1>4. id \div 8192 = y /\ id \div 2097152 = z
  BY <1>1, <1>2, <1>3, SMT
<1>5. z % 256 = z
  BY <1>1, <1>2, <1>3, SMT DEF MaxExtId
<1>6. ((id % 32) * 8) \div 8 = id % 32
  BY SMT
<1> QED BY <1>1, <1>2, <1>3, <1>4, <1>5, <1>6, SMT DEF ExtId

(* The second descriptor byte of BasicCAN mode gives back its fields, and  *)
(* with the first one an 11-bit identifier.                                *)
LEMMA DescriptorBack ==
  ASSUME NEW id \in Nat, NEW rtr \in {0, 1}, NEW n \in Nat, n <= 8
  PROVE  /\ id <= MaxStdId => StdId((id \div 8) % 256, Descriptor2(id, rtr, n)) = id
         /\ Descriptor2(id, rtr, n) % 16 = n
         /\ (Descriptor2(id, rtr, n) \div 16) % 2 = rtr
<1> DEFINE b == Descriptor2(id, rtr, n)
<1>1. b = (id % 8) * 32 + rtr * 16 + n
  BY SMTT(30) DEF Descriptor2
<1>2. PICK k \in 0 .. 7 : k = id % 8
  BY SMTT(30)
<1> HIDE DEF b
<1>3. b % 16 = n /\ (b \div 16) % 2 = rtr /\ b \div 32 = k
  BY <1>1, <1>2, SMTT(30)
<1>4. id <= MaxStdId => StdId((id \div 8) % 256, b) = id
  BY <1>2, <1>3, SMTT(30) DEF StdId, MaxStdId
<1> QED BY <1>3, <1>4, SMT DEF b

(* The data of a frame are at most eight bytes.                            *)
LEMMA DataLength ==
  ASSUME NEW d \in Datas
  PROVE  d \in Seq(Byte) /\ Len(d) \in Nat /\ Len(d) <= 8 /\ Len(d) \in 0 .. 8
<1>1. d \in Seq(Byte) /\ Len(d) \in Nat /\ Len(d) <= 8
  BY FrameAssumption
<1>2. \A n \in Nat : n <= 8 => n \in 0 .. 8
  OBVIOUS
<1> QED BY <1>1, <1>2, Zenon

(* What lies between two places of a function, as a sequence.              *)
LEMMA Cut ==
  ASSUME NEW r, NEW a \in Int, NEW b \in Int, NEW n \in Nat, b - a + 1 = n,
         \A i \in a .. b : r[i] \in Int
  PROVE  /\ SubSeq(r, a, b) \in Seq(Int)
         /\ Len(SubSeq(r, a, b)) = n
         /\ \A i \in 1 .. n : SubSeq(r, a, b)[i] = r[a + i - 1]
<1>1. \A S : (\A i \in a .. b : r[i] \in S) =>
        /\ Len(SubSeq(r, a, b)) = IF a <= b THEN b - a + 1 ELSE 0
        /\ \A i \in 1 .. b - a + 1 : SubSeq(r, a, b)[i] = r[a + i - 1]
  BY SubSeqProperties
<1>2. SubSeq(r, a, b) \in Seq(Int)
  BY SubSeqProperties
<1> QED BY <1>1, <1>2

(* A block of registers that begins with h and then d holds d behind h.    *)
LEMMA Behind ==
  ASSUME NEW h \in Seq(Int), NEW d \in Seq(Byte),
         NEW r, \A i \in 1 .. Len(h) + Len(d) : r[i] = (h \o d)[i]
  PROVE  /\ SubSeq(r, Len(h) + 1, Len(h) + Len(d)) = d
         /\ \A i \in 1 .. Len(h) : r[i] = h[i]
<1> DEFINE m == Len(h)
           n == Len(d)
           s == h \o d
<1>1. d \in Seq(Int) /\ m \in Nat /\ n \in Nat
  <2>1. Byte \subseteq Int
    BY DEF Byte
  <2>2. d \in Seq(Int)
    BY <2>1, SeqMonotonic, Zenon
  <2> QED BY <2>2, LenProperties, Zenon
<1>2. /\ Len(s) = m + n
      /\ \A i \in 1 .. m + n : s[i] = IF i <= m THEN h[i] ELSE d[i - m]
  BY <1>1, ConcatProperties, Zenon
<1>r. \A i \in 1 .. m + n : r[i] = s[i]
  OBVIOUS
<1> HIDE DEF m, n, s
<1>3. /\ \A i \in 1 .. m : r[i] = h[i]
      /\ \A i \in 1 .. n : r[i + m] = d[i] /\ r[i + m] \in Int
  <2>2. \A i \in 1 .. n : i + m \in 1 .. m + n /\ ~(i + m <= m) /\ i + m - m = i
    BY <1>1
  <2>3. \A i \in 1 .. m : i \in 1 .. m + n /\ i <= m
    BY <1>1
  <2>4. \A i \in 1 .. n : d[i] \in Int
    BY <1>1, ElementOfSeq DEF n
  <2>5. \A i \in 1 .. m : r[i] = h[i]
    BY <1>2, <1>r, <2>3, Zenon
  <2>6. \A i \in 1 .. n : r[i + m] = d[i]
    <3> SUFFICES ASSUME NEW i \in 1 .. n PROVE r[i + m] = d[i]
      OBVIOUS
    <3> DEFINE j == i + m
    <3>0. j \in 1 .. m + n /\ ~(j <= m) /\ j - m = i
      BY <1>1
    <3> HIDE DEF j
    <3>1. s[j] = d[i] /\ r[j] = s[j]
      BY <1>2, <1>r, <3>0
    <3> QED BY <3>1, Zenon DEF j
  <2> QED BY <2>4, <2>5, <2>6, Zenon
<1> DEFINE a == m + 1
           b == m + n
<1>m. /\ a \in Int /\ b \in Int /\ a <= b + 1 /\ b - a + 1 = n
      /\ \A i \in 1 .. n : a + i - 1 = i + m
      /\ \A i \in a .. b : i - m \in 1 .. n /\ i - m + m = i
  BY <1>1
<1> HIDE DEF a, b
<1>x. \A i \in a .. b : r[i] \in Int
  <2> SUFFICES ASSUME NEW i \in a .. b PROVE r[i] \in Int
    OBVIOUS
  <2>1. i - m \in 1 .. n /\ i - m + m = i
    BY <1>m
  <2> QED BY <1>3, <2>1
<1> DEFINE u == SubSeq(r, a, b)
<1>4. u \in Seq(Int) /\ Len(u) = n /\ \A i \in 1 .. n : u[i] = d[i]
  <2>1. /\ u \in Seq(Int) /\ Len(u) = n
        /\ \A i \in 1 .. n : u[i] = r[a + i - 1]
    BY <1>1, <1>m, <1>x, Cut
  <2> HIDE DEF u
  <2>2. \A i \in 1 .. n : u[i] = d[i]
    BY <1>3, <1>m, <2>1, Zenon
  <2> QED BY <1>m, <2>1, <2>2
<1> HIDE DEF u
<1>5. u = d
  BY <1>1, <1>4, SeqEqual DEF n
<1> QED BY <1>3, <1>5 DEF u, a, b, m, n

(* The frame information byte gives back its three fields.                 *)
LEMMA InfoBack ==
  ASSUME NEW f \in StdFrames \cup ExtFrames,
         NEW b, b = Len(f.data) + f.rtr * 64 + f.eff * 128
  PROVE  b % 16 = Len(f.data) /\ (b \div 64) % 2 = f.rtr /\ b \div 128 = f.eff
<1>1. f.eff \in {0, 1} /\ f.rtr \in {0, 1} /\ f.data \in Datas
  BY DEF StdFrames, ExtFrames
<1>2. Len(f.data) \in 0 .. 8
  BY <1>1, DataLength, Zenon
<1>3. PICK n \in 0 .. 8, rtr \in {0, 1}, eff \in {0, 1} :
        n = Len(f.data) /\ rtr = f.rtr /\ eff = f.eff
  BY <1>1, <1>2, Zenon
<1>4. b = n + rtr * 64 + eff * 128
  BY <1>3, Zenon
<1>5. b % 16 = n /\ (b \div 64) % 2 = rtr /\ b \div 128 = eff
  BY <1>4, SMTT(30)
<1> QED BY <1>3, <1>5, Zenon

(* Registers that begin with the bytes of a frame give back its frame      *)
(* information, its data and, of an extended frame, its identifier.        *)
LEMMA Layout ==
  ASSUME NEW f \in StdFrames \cup ExtFrames,
         NEW r, \A i \in 1 .. Len(PeliSend(f)) : r[i] = PeliSend(f)[i]
  PROVE  /\ r[1] % 16 = Len(f.data) /\ (r[1] \div 64) % 2 = f.rtr
         /\ r[1] \div 128 = f.eff
         /\ LET n == IF f.eff = 1 THEN 5 ELSE 3
            IN  SubSeq(r, n + 1, n + Len(f.data)) = f.data
         /\ f.eff = 1 => ExtId(r[2], r[3], r[4], r[5]) = f.id
<1> DEFINE info == Len(f.data) + f.rtr * 64 + f.eff * 128
           h == <<info>> \o (IF f.eff = 1 THEN ExtIdBytes(f.id) ELSE StdIdBytes(f.id))
           n == IF f.eff = 1 THEN 5 ELSE 3
<1>1. f.eff \in {0, 1} /\ f.rtr \in {0, 1} /\ f.id \in Ids /\ f.data \in Datas
  BY DEF StdFrames, ExtFrames
<1>2. /\ f.id \in Nat /\ f.id <= MaxExtId
      /\ f.data \in Seq(Byte) /\ Len(f.data) \in Nat /\ Len(f.data) <= 8
  BY <1>1, DataLength, FrameAssumption
<1>3. PeliSend(f) = h \o f.data
  BY DEF PeliSend
<1>4. info \in Int
  BY <1>1, <1>2
<1>5. /\ h \in Seq(Int) /\ Len(h) = n /\ h[1] = info
  <2> HIDE DEF info
  <2>1. CASE f.eff = 1
    <3> DEFINE p == <<info>>
               q == ExtIdBytes(f.id)
    <3>1. h = p \o q /\ n = 5
      BY <2>1
    <3>2. p \in Seq(Int) /\ Len(p) = 1 /\ p[1] = info
      BY <1>4
    <3>3. q \in Seq(Int) /\ Len(q) = 4
      <4> DEFINE a == (f.id \div 2097152) % 256
                 b == (f.id \div 8192) % 256
                 c == (f.id \div 32) % 256
                 e == (f.id % 32) * 8
      <4>1. a \in Int /\ b \in Int /\ c \in Int /\ e \in Int
        BY <1>2, SMTT(30)
      <4>2. q = <<a, b, c, e>>
        BY ONLY DEF ExtIdBytes
      <4> HIDE DEF a, b, c, e, q
      <4> QED BY <4>1, <4>2, SMTT(30)
    <3> HIDE DEF p, q, h, n
    <3>4. p \o q \in Seq(Int) /\ Len(p \o q) = 1 + 4 /\ (p \o q)[1] = p[1]
      <4>1. /\ p \o q \in Seq(Int) /\ Len(p \o q) = Len(p) + Len(q)
            /\ \A i \in 1 .. Len(p) + Len(q) :
                 (p \o q)[i] = IF i <= Len(p) THEN p[i] ELSE q[i - Len(p)]
        BY <3>2, <3>3, ConcatProperties
      <4>2. 1 \in 1 .. Len(p) + Len(q) /\ 1 <= Len(p)
        BY <3>2, <3>3
      <4> QED BY <3>2, <3>3, <4>1, <4>2
    <3> QED BY <3>1, <3>2, <3>4
  <2>2. CASE f.eff # 1
    BY <1>2, <1>4, <2>2, SMT DEF StdIdBytes
  <2> QED BY <2>1, <2>2
<1>i. f.eff = 1 => /\ h[2] = (f.id \div 2097152) % 256 /\ h[3] = (f.id \div 8192) % 256
                   /\ h[4] = (f.id \div 32) % 256 /\ h[5] = (f.id % 32) * 8
  <2> HIDE DEF info
  <2> QED BY <1>2, <1>4, SMT DEF ExtIdBytes
<1>j. info = Len(f.data) + f.rtr * 64 + f.eff * 128
  OBVIOUS
<1> HIDE DEF h, info
<1>h. h \in Seq(Int)
  BY <1>5
<1>6. Len(PeliSend(f)) = Len(h) + Len(f.data)
  <2>1. f.data \in Seq(Int)
    <3>1. Byte \subseteq Int
      BY DEF Byte
    <3> QED BY <1>2, <3>1, SeqMonotonic, Zenon
  <2>2. Len(h \o f.data) = Len(h) + Len(f.data)
    BY <1>h, <2>1, ConcatProperties, Zenon
  <2> QED BY <1>3, <2>2, Zenon
<1>7. \A i \in 1 .. Len(h) + Len(f.data) : r[i] = (h \o f.data)[i]
  BY <1>3, <1>6, Zenon
<1>8. SubSeq(r, Len(h) + 1, Len(h) + Len(f.data)) = f.data /\ \A i \in 1 .. Len(h) : r[i] = h[i]
  BY <1>2, <1>h, <1>7, Behind, Zenon
<1>9. r[1] = info
  BY <1>5, <1>8
<1>10. f.eff = 1 => ExtId(r[2], r[3], r[4], r[5]) = f.id
  <2> SUFFICES ASSUME f.eff = 1 PROVE ExtId(r[2], r[3], r[4], r[5]) = f.id
    OBVIOUS
  <2>1. /\ r[2] = (f.id \div 2097152) % 256 /\ r[3] = (f.id \div 8192) % 256
        /\ r[4] = (f.id \div 32) % 256 /\ r[5] = (f.id % 32) * 8
    BY <1>5, <1>8, <1>i, SMT
  <2> QED BY <1>2, <2>1, ExtIdBack, SMT
<1>11. r[1] % 16 = Len(f.data) /\ (r[1] \div 64) % 2 = f.rtr /\ r[1] \div 128 = f.eff
  <2>1. r[1] = Len(f.data) + f.rtr * 64 + f.eff * 128
    BY <1>9, <1>j, Zenon
  <2> QED BY <2>1, InfoBack, Zenon
<1> QED BY <1>5, <1>8, <1>10, <1>11, Zenon

(* PeliCAN mode loses nothing of an extended frame, and no data.           *)
LEMMA PeliBack ==
  ASSUME NEW f \in StdFrames \cup ExtFrames
  PROVE  /\ PeliReceive(PeliSend(f)).data = f.data
         /\ f.eff = 1 => PeliReceive(PeliSend(f)) = f
<1> DEFINE r == PeliSend(f)
           n == IF f.eff = 1 THEN 5 ELSE 3
<1>1. f = [eff |-> f.eff, rtr |-> f.rtr, id |-> f.id, data |-> f.data] /\ f.eff \in {0, 1}
  BY DEF StdFrames, ExtFrames
<1> HIDE DEF r
<1>2. /\ r[1] % 16 = Len(f.data) /\ (r[1] \div 64) % 2 = f.rtr /\ r[1] \div 128 = f.eff
      /\ SubSeq(r, n + 1, n + Len(f.data)) = f.data
      /\ f.eff = 1 => ExtId(r[2], r[3], r[4], r[5]) = f.id
  BY Layout, Zenon DEF r
<1>3. PeliReceive(r) = [eff |-> f.eff, rtr |-> f.rtr,
                        id |-> IF f.eff = 1 THEN ExtId(r[2], r[3], r[4], r[5])
                                            ELSE StdId(r[2], r[3]),
                        data |-> f.data]
  BY <1>2, Zenon DEF PeliReceive
<1>4. PeliReceive(r).data = f.data
  BY <1>3
<1>5. f.eff = 1 => PeliReceive(r) = f
  BY <1>1, <1>2, <1>3, Zenon
<1> QED BY <1>4, <1>5 DEF r

(* BasicCAN mode loses nothing of a standard frame, and no data.           *)
LEMMA BasicBack ==
  ASSUME NEW f \in StdFrames \cup ExtFrames
  PROVE  /\ BasicReceive(BasicSend(f)).data = f.data
         /\ f.eff = 0 => BasicReceive(BasicSend(f)) = f
<1> DEFINE b == Descriptor2(f.id, f.rtr, Len(f.data))
           r == BasicSend(f)
<1>1. /\ f = [eff |-> f.eff, rtr |-> f.rtr, id |-> f.id, data |-> f.data]
      /\ f.rtr \in {0, 1} /\ f.id \in Ids /\ f.data \in Datas
      /\ f.eff = 0 => f.id <= MaxStdId
  BY DEF StdFrames, ExtFrames
<1>2. f.id \in Nat /\ f.data \in Seq(Byte) /\ Len(f.data) \in Nat /\ Len(f.data) <= 8
  BY <1>1, DataLength, FrameAssumption
<1>3. /\ f.id <= MaxStdId => StdId((f.id \div 8) % 256, b) = f.id
      /\ b % 16 = Len(f.data) /\ (b \div 16) % 2 = f.rtr
  BY <1>1, <1>2, DescriptorBack
<1>4. r = <<(f.id \div 8) % 256, b>> \o f.data
  BY DEF BasicSend
<1>5. r[1] = (f.id \div 8) % 256 /\ r[2] = b /\ SubSeq(r, 3, 2 + Len(f.data)) = f.data
  <2> HIDE DEF b, r
  <2> QED BY <1>2, <1>4
<1> HIDE DEF b, r
<1>6. BasicReceive(r) = [eff |-> 0, rtr |-> f.rtr, id |-> StdId((f.id \div 8) % 256, b),
                         data |-> f.data]
  BY <1>3, <1>5 DEF BasicReceive
<1>7. BasicReceive(r).data = f.data
  BY <1>6
<1>8. f.eff = 0 => BasicReceive(r) = f
  BY <1>1, <1>3, <1>6, Zenon
<1> QED BY <1>7, <1>8 DEF r

(* The emulated card keeps the data whatever its registers held before; it *)
(* loses nothing of an extended frame that is remote, or whose can_id      *)
(* starts from zero.                                                       *)
LEMMA CardBack ==
  ASSUME NEW f \in StdFrames \cup ExtFrames, NEW trx, NEW unset \in BOOLEAN
  PROVE  /\ Buff2Frame(CardStore(f, trx), unset).data = f.data
         /\ f.eff = 1 /\ (f.rtr = 1 \/ ~unset) => Buff2Frame(CardStore(f, trx), unset) = f
<1> DEFINE s == PeliSend(f)
           r == CardStore(f, trx)
           n == IF f.eff = 1 THEN 5 ELSE 3
           set == unset /\ f.rtr = 0
<1>1. /\ f = [eff |-> f.eff, rtr |-> f.rtr, id |-> f.id, data |-> f.data]
      /\ f.eff \in {0, 1} /\ f.rtr \in {0, 1} /\ f.data \in Datas
  BY DEF StdFrames, ExtFrames
<1>2. \A i \in 1 .. Len(s) : r[i] = s[i]
  <2>1. Len(s) \in Nat /\ Len(s) <= 13
    BY <1>1, DataLength DEF PeliSend, ExtIdBytes, StdIdBytes
  <2>2. r = [i \in 1 .. 13 |-> IF i <= Len(s) THEN s[i] ELSE trx[i]]
    BY DEF CardStore
  <2> HIDE DEF s, r
  <2> QED BY <2>1, <2>2
<1> HIDE DEF r
<1>3. /\ r[1] % 16 = Len(f.data) /\ (r[1] \div 64) % 2 = f.rtr /\ r[1] \div 128 = f.eff
      /\ SubSeq(r, n + 1, n + Len(f.data)) = f.data
      /\ f.eff = 1 => ExtId(r[2], r[3], r[4], r[5]) = f.id
  BY <1>2, Layout, Zenon
<1> DEFINE id == IF set THEN MaxExtId
                 ELSE IF f.eff = 1 THEN ExtId(r[2], r[3], r[4], r[5]) ELSE StdId(r[2], r[3])
<1>4. Buff2Frame(r, unset) = [eff |-> IF set THEN 1 ELSE f.eff,
                              rtr |-> IF set THEN 1 ELSE f.rtr, id |-> id,
                              data |-> f.data]
  BY <1>3, ZenonT(30) DEF Buff2Frame
<1>5. Buff2Frame(r, unset).data = f.data
  <2> HIDE DEF id, set
  <2> QED BY <1>4
<1>6. f.eff = 1 /\ (f.rtr = 1 \/ ~unset) => Buff2Frame(r, unset) = f
  <2> SUFFICES ASSUME f.eff = 1, f.rtr = 1 \/ ~unset PROVE Buff2Frame(r, unset) = f
    OBVIOUS
  <2>1. ~set /\ id = f.id
    BY <1>1, <1>3
  <2> HIDE DEF id
  <2> QED BY <1>1, <1>3, <1>4, <2>1
<1> QED BY <1>5, <1>6 DEF r

-----------------------------------------------------------------------------
(* The registers hold the frame that was sent, on the emulated card over   *)
(* what they held before; the receiver's frame is read from them.          *)
CodecInv ==
  /\ path \in Paths /\ dirty \in BOOLEAN
  /\ sent \in StdFrames \cup ExtFrames \cup {NoFrame}
  /\ sent # NoFrame =>
       /\ path = "pelican" => regs = PeliSend(sent)
       /\ path = "basiccan" => regs = BasicSend(sent)
       /\ path = "emulated" => \E trx : regs = CardStore(sent, trx)
  /\ rcvd # NoFrame =>
       /\ sent # NoFrame
       /\ path = "pelican" => rcvd = PeliReceive(regs)
       /\ path = "basiccan" => rcvd = BasicReceive(regs)
       /\ path = "emulated" => rcvd = Buff2Frame(regs, dirty)

(* What a path has received is its reading of the registers.               *)
LEMMA CodecInvariant == CodecSpec => []CodecInv
<1>1. CodecInit => CodecInv
  BY DEF CodecInit, CodecInv, Paths
<1>2. CodecInv /\ [CodecNext]_cvars => CodecInv'
  <2> SUFFICES ASSUME CodecInv, [CodecNext]_cvars PROVE CodecInv'
    OBVIOUS
  <2>1. CASE Send
    <3>1. PICK f \in StdFrames \cup ExtFrames : sent' = f /\ regs' = Stored(f)
      BY <2>1 DEF Send
    <3>2. /\ path' = path /\ dirty' = dirty /\ rcvd' = rcvd /\ sent = NoFrame
      BY <2>1 DEF Send
    <3>3. /\ path' = "pelican" => regs' = PeliSend(sent')
          /\ path' = "basiccan" => regs' = BasicSend(sent')
          /\ path' = "emulated" => regs' = CardStore(sent', regs)
      BY <3>1, <3>2 DEF Stored
    <3>4. rcvd' = NoFrame
      BY <3>2 DEF CodecInv
    <3> QED BY <3>1, <3>2, <3>3, <3>4 DEF CodecInv
  <2>2. CASE Receive
    <3>1. /\ path' = path /\ sent' = sent /\ regs' = regs /\ sent # NoFrame /\ rcvd = NoFrame
      BY <2>2 DEF Receive
    <3>2. /\ dirty' \in BOOLEAN
          /\ path = "pelican" => rcvd' = PeliReceive(regs)
          /\ path = "basiccan" => rcvd' = BasicReceive(regs)
          /\ path = "emulated" => rcvd' = Buff2Frame(regs, dirty')
      BY <2>2 DEF Receive, CodecInv
    <3> QED BY <3>1, <3>2 DEF CodecInv
  <2>3. CASE ReleaseBuffers
    BY <2>3 DEF ReleaseBuffers, CodecInv
  <2>4. CASE UNCHANGED cvars
    BY <2>4 DEF cvars, CodecInv
  <2> QED BY <2>1, <2>2, <2>3, <2>4 DEF CodecNext
<1> QED BY <1>1, <1>2, PTL DEF CodecSpec

(* On each path the frames it has room for arrive as they were sent, and   *)
(* the data of every frame arrive.                                         *)
LEMMA ArrivesWhole == CodecInv => Faithful /\ DataKept
<1> SUFFICES ASSUME CodecInv, rcvd # NoFrame
             PROVE  /\ rcvd.data = sent.data
                    /\ path = "pelican" /\ sent.eff = 1 => rcvd = sent
                    /\ path = "basiccan" /\ sent.eff = 0 => rcvd = sent
                    /\ path = "emulated" /\ sent.eff = 1 /\ (sent.rtr = 1 \/ ~dirty) => rcvd = sent
  BY DEF Faithful, DataKept
<1>1. sent \in StdFrames \cup ExtFrames /\ dirty \in BOOLEAN /\ path \in Paths
  BY DEF CodecInv
<1>2. CASE path = "pelican"
  <2>1. rcvd = PeliReceive(PeliSend(sent))
    BY <1>2 DEF CodecInv
  <2> QED BY <1>1, <1>2, <2>1, PeliBack, Zenon
<1>3. CASE path = "basiccan"
  <2>1. rcvd = BasicReceive(BasicSend(sent))
    BY <1>3 DEF CodecInv
  <2> QED BY <1>1, <1>3, <2>1, BasicBack, Zenon
<1>4. CASE path = "emulated"
  <2>1. PICK trx : rcvd = Buff2Frame(CardStore(sent, trx), dirty)
    BY <1>4 DEF CodecInv
  <2> QED BY <1>1, <1>4, <2>1, CardBack, Zenon
<1> QED BY <1>1, <1>2, <1>3, <1>4 DEF Paths

(* Every extended frame in PeliCAN mode, every standard frame in BasicCAN  *)
(* mode, and every extended frame through the emulated card whose can_id   *)
(* is computed from zero, arrives as it was sent.                          *)
THEOREM CodecFaithful == CodecSpec => []Faithful
BY CodecInvariant, ArrivesWhole, PTL

(* On every path the data of a frame arrive, whatever the registers held   *)
(* before it.                                                              *)
THEOREM CodecKeepsData == CodecSpec => []DataKept
BY CodecInvariant, ArrivesWhole, PTL

-----------------------------------------------------------------------------
(* Life cycle.                                                             *)

OneCard == \E c \in Cards : Cards = {c}
Unwound == MayFail \cap {"revision", "iomap", "cdev"} = {}

(* The steps whose items are held at each label.                           *)
T1 == {"kmalloc"}
T2 == T1 \cup {"enable"}
T3 == T2 \cup {"regions"}
T4 == T3 \cup {"iomap"}
T5 == T4 \cup {"irq"}
T6 == T5 \cup {"chrdev"}
T7 == T6 \cup {"cdev"}

Taken ==
  [absent |-> {}, offered |-> {}, refused |-> {},
   revision |-> T1, enable |-> T1, regions |-> T2, iomap |-> T3, irq |-> T4,
   chrdev |-> T5, cdev |-> T6, bound |-> T7,
   u_cdev |-> T7, u_chrdev |-> T6, u_irq |-> T5, u_iomap |-> T4,
   u_regions |-> T3, u_enable |-> T2, u_kmalloc |-> T1]

ProbeLabels == DOMAIN Taken
Taking == {"revision", "enable", "regions", "iomap", "irq", "chrdev", "cdev"}
Giving == {"u_cdev", "u_chrdev", "u_irq", "u_iomap", "u_regions", "u_enable",
           "u_kmalloc"}

(* What is acquired is exactly what the label says, for the one block the  *)
(* global pointer names.                                                   *)
Exact == \A c \in Cards : owned = {Item(c, s) : s \in Taken[step[c]]}

(* Where in a module's life each label can be.                             *)
Stage ==
  \A c \in Cards :
    /\ step[c] \in Taking \cup {"offered"} => module = "loading"
    /\ step[c] \in {"u_cdev", "u_chrdev"} => module = "unloading"
    /\ step[c] \in Giving /\ module # "unloading" => module = "loading" /\ ~ret[c]
    /\ module = "absent" => step[c] = "absent"
    /\ files # {} => step[c] = "bound" /\ module \in {"loading", "live"}

ProbeTypes ==
  /\ step \in [Cards -> ProbeLabels] /\ ret \in [Cards -> BOOLEAN]
  /\ module \in {"absent", "loading", "live", "unloading"}
  /\ probes \in Nat /\ device \in 0 .. probes
  /\ files \subseteq {device}

ProbeInv == ProbeTypes /\ Exact /\ Stage

(* The four properties follow from the invariant.                          *)
LEMMA ProbeInvSafe ==
  ASSUME OneCard, ProbeInv
  PROVE  HandlerSafe /\ FilesSafe /\ NoLeak /\ BoundComplete
<1> USE DEF ProbeInv, ProbeTypes, Exact, Stage, ProbeLabels, Taking, Giving
<1> USE DEF T1, T2, T3, T4, T5, T6, T7
<1>1. HandlerSafe
  <2> SUFFICES ASSUME NEW c \in Cards, <<"irq", c>> \in owned
               PROVE  /\ <<"kmalloc", device>> \in owned /\ <<"iomap", device>> \in owned
                      /\ module # "absent"
    BY DEF HandlerSafe
  <2>1. PICK s \in Taken[step[c]] : <<"irq", c>> = Item(c, s)
    OBVIOUS
  <2>2. "irq" \in Taken[step[c]]
    BY <2>1 DEF Item, Taken
  <2>3. "kmalloc" \in Taken[step[c]] /\ "iomap" \in Taken[step[c]] /\ step[c] # "absent"
    BY <2>2 DEF Taken
  <2> QED BY <2>3 DEF Item
<1>2. FilesSafe
  <2> PICK c \in Cards : TRUE
    BY DEF OneCard
  <2>1. ASSUME NEW b \in files PROVE <<"kmalloc", b>> \in owned /\ <<"iomap", b>> \in owned
    <3>1. b = device /\ step[c] = "bound"
      OBVIOUS
    <3>2. Taken[step[c]] = T7
      BY <3>1 DEF Taken
    <3> QED BY <3>1, <3>2 DEF Item
  <2>2. ASSUME NEW b \in 1 .. probes, <<"cdev", b>> \in owned
        PROVE  <<"kmalloc", b>> \in owned /\ <<"iomap", b>> \in owned
    <3>1. PICK s \in Taken[step[c]] : <<"cdev", b>> = Item(c, s)
      BY <2>2
    <3>2. b = device /\ "cdev" \in Taken[step[c]]
      BY <3>1 DEF Item, Taken
    <3>3. "kmalloc" \in Taken[step[c]] /\ "iomap" \in Taken[step[c]]
      BY <3>2 DEF Taken
    <3> QED BY <3>2, <3>3 DEF Item
  <2> QED BY <2>1, <2>2 DEF FilesSafe
<1>3. NoLeak
  BY DEF NoLeak, Taken, OneCard
<1>4. BoundComplete
  BY DEF BoundComplete, Taken, Steps
<1> QED BY <1>1, <1>2, <1>3, <1>4

(* Before the module is loaded nothing is held.                            *)
LEMMA ProbeInitInv == ProbeInit => ProbeInv
<1> SUFFICES ASSUME ProbeInit PROVE ProbeInv
  OBVIOUS
<1> USE DEF ProbeInit, ProbeLabels, Taking, Giving
<1>1. ProbeTypes
  BY DEF ProbeTypes, Taken
<1>2. Exact
  BY DEF Exact, Taken
<1>3. Stage
  BY DEF Stage
<1> QED BY <1>1, <1>2, <1>3 DEF ProbeInv

(* Every step keeps it.                                                    *)
LEMMA ProbeStep ==
  ASSUME OneCard, Unwound, ProbeInv, [ProbeNext]_probeVars
  PROVE  ProbeInv'
<1> PICK c \in Cards : Cards = {c}
  BY DEF OneCard
<1> USE DEF ProbeInv, ProbeTypes, Exact, Stage, ProbeLabels
<1>1. CASE Load
  BY <1>1 DEF Load, Taken, Taking, Giving
<1>2. CASE Loaded
  BY <1>2 DEF Loaded, Taken, Taking, Giving, Item
<1>3. CASE Unload
  BY <1>3 DEF Unload, Taken, Taking, Giving, Item
<1>4. CASE Unloaded
  BY <1>4 DEF Unloaded, Taken, Taking, Giving, Item
<1>5. CASE OpenFile
  <2>1. PICK b \in 1 .. probes : <<"cdev", b>> \in owned
    BY <1>5 DEF OpenFile
  <2>2. PICK s \in Taken[step[c]] : <<"cdev", b>> = Item(c, s)
    BY <2>1
  <2>3. "cdev" \in Taken[step[c]]
    BY <2>2 DEF Item, Taken
  <2>4. step[c] \in {"bound", "u_cdev"}
    BY <2>3 DEF Taken, T1, T2, T3, T4, T5, T6
  <2> QED BY <1>5, <2>4 DEF OpenFile, Item
<1>6. CASE CloseFile
  BY <1>6 DEF CloseFile, Taken, Taking, Giving, Item
<1>7. CASE Probe(c)
  BY <1>7, ProbeAssumption DEF Probe, Taken, Taking, Giving, Item, T1
<1>8. CASE Revision(c)
  BY <1>8 DEF Revision, After, Taken, Taking, Giving, Item, Unwound
<1>9. CASE Acquire(c)
  <2> DEFINE l == step[c]
  <2>1. l \in {"enable", "regions", "iomap", "irq", "chrdev", "cdev"}
    BY <1>9 DEF Acquire, Unwind
  <2>2. step' = [step EXCEPT ![c] = After[l]] /\ owned' = owned \cup {Item(c, l)}
    BY <1>9 DEF Acquire
  <2>3. Taken[After[l]] = Taken[l] \cup {l} /\ After[l] \in ProbeLabels
    BY <2>1 DEF After, Taken, T1, T2, T3, T4, T5, T6, T7
  <2>4. Exact'
    <3>1. \A s : Item(c, s)' = Item(c, s)
      BY <1>9 DEF Acquire, Item
    <3>2. owned' = {Item(c, s) : s \in Taken[After[l]]} /\ step'[c] = After[l]
      BY <2>2, <2>3
    <3> QED BY <3>1, <3>2
  <2>5. ProbeTypes'
    BY <1>9, <2>2, <2>3 DEF Acquire
  <2>6. Stage'
    BY <1>9, <2>1, <2>2 DEF Acquire, After, Taking, Giving
  <2> QED BY <2>4, <2>5, <2>6
<1>10. CASE Fail(c)
  <2> DEFINE l == step[c]
  <2>1. l \in {"enable", "regions", "iomap", "irq", "chrdev", "cdev"}
    BY <1>10 DEF Fail, Unwind
  <2>2. Item(c, l) \notin owned
    <3>1. l \notin Taken[l]
      BY <2>1 DEF Taken, T1, T2, T3, T4, T5, T6
    <3>2. \A s, t : Item(c, s) = Item(c, t) => s = t
      BY DEF Item
    <3> QED BY <3>1, <3>2
  <2>3. l \in {"enable", "regions", "irq", "chrdev"}
    BY <1>10, <2>1, <2>2 DEF Fail, Unwound
  <2>4. Taken[Unwind[l]] = Taken[l] /\ Unwind[l] \in Giving /\ Unwind[l] \in ProbeLabels
    <3>1. l = "enable" => Unwind[l] = "u_kmalloc" /\ Taken[l] = T1
      BY DEF Unwind, Taken
    <3>2. l = "regions" => Unwind[l] = "u_enable" /\ Taken[l] = T2
      BY DEF Unwind, Taken
    <3>3. l = "irq" => Unwind[l] = "u_iomap" /\ Taken[l] = T4
      BY DEF Unwind, Taken
    <3>4. l = "chrdev" => Unwind[l] = "u_irq" /\ Taken[l] = T5
      BY DEF Unwind, Taken
    <3>5. /\ Taken["u_kmalloc"] = T1 /\ Taken["u_enable"] = T2
          /\ Taken["u_iomap"] = T4 /\ Taken["u_irq"] = T5
          /\ Giving \subseteq ProbeLabels
      BY DEF Taken, Giving
    <3> HIDE DEF l
    <3> QED BY <2>3, <3>1, <3>2, <3>3, <3>4, <3>5 DEF Giving
  <2>5. Unwind[l] \notin Taking \cup {"u_cdev", "u_chrdev", "offered"}
    BY <2>3 DEF Unwind, Taking
  <2>6. step' = [step EXCEPT ![c] = Unwind[l]] /\ ret' = [ret EXCEPT ![c] = FALSE]
    BY <1>10, <2>3 DEF Fail
  <2>7. module = "loading" /\ files = {}
    BY <2>3 DEF Taking
  <2> QED BY <1>10, <2>4, <2>5, <2>6, <2>7 DEF Fail, Item
<1>11. CASE GiveBack(c)
  <2> DEFINE l == step[c]
             r == Down[l][1]
             n == step'[c]
  <2>1. l \in Giving
    BY <1>11 DEF GiveBack, Down, Taken, Giving
  <2>2. step' = [step EXCEPT ![c] = n] /\ owned' = owned \ {Item(c, r)}
    BY <1>11 DEF GiveBack
  <2>3. n = CASE l = "u_cdev"    -> "u_chrdev"  [] l = "u_chrdev" -> "u_irq"
              [] l = "u_irq"     -> "u_iomap"   [] l = "u_iomap"  -> "u_regions"
              [] l = "u_regions" -> "u_enable"  [] l = "u_enable" -> "u_kmalloc"
              [] OTHER -> IF module = "unloading" THEN "absent" ELSE "refused"
    BY <1>11, <2>1 DEF GiveBack, Down, Giving
  <2>4. Taken[n] = Taken[l] \ {r} /\ n \in ProbeLabels
    BY <2>1, <2>3 DEF Down, Taken, Giving, T1, T2, T3, T4, T5, T6, T7
  <2>5. Exact'
    <3>1. \A s : Item(c, s)' = Item(c, s)
      BY <1>11 DEF GiveBack, Item
    <3>2. \A s, t : Item(c, s) = Item(c, t) => s = t
      BY DEF Item
    <3>3. owned' = {Item(c, s) : s \in Taken[n]}
      BY <2>2, <2>4, <3>2
    <3> QED BY <3>1, <3>3
  <2>6. ProbeTypes'
    BY <1>11, <2>2, <2>4 DEF GiveBack
  <2>7. Stage'
    BY <1>11, <2>1, <2>2, <2>3 DEF GiveBack, Taking, Giving
  <2> QED BY <2>5, <2>6, <2>7
<1>12. CASE Remove(c)
  BY <1>12 DEF Remove, Taken, Taking, Giving, Item
<1>13. CASE UNCHANGED probeVars
  BY <1>13 DEF probeVars, Item
<1> QED BY <1>1, <1>2, <1>3, <1>4, <1>5, <1>6, <1>7, <1>8, <1>9, <1>10, <1>11,
           <1>12, <1>13 DEF ProbeNext

(* With one card and failures that are unwound, irq_handler and the open   *)
(* files always find an allocated, mapped device; a probe that fails and   *)
(* rmmod give everything back; a bound card is complete.                   *)
THEOREM ProbeSafe ==
  ASSUME OneCard, Unwound
  PROVE  ProbeSpec => [](HandlerSafe /\ FilesSafe /\ NoLeak /\ BoundComplete)
<1>1. ProbeInit => ProbeInv
  BY ProbeInitInv
<1>2. ProbeInv /\ [ProbeNext]_probeVars => ProbeInv'
  BY ProbeStep
<1>3. ProbeInv => HandlerSafe /\ FilesSafe /\ NoLeak /\ BoundComplete
  BY ProbeInvSafe
<1> QED BY <1>1, <1>2, <1>3, PTL DEF ProbeSpec

(* A probe that failed at any step, and rmmod after one that did not, have *)
(* given back everything.                                                  *)
COROLLARY ProbeLeaksNothing == ASSUME OneCard, Unwound PROVE ProbeSpec => []NoLeak
BY ProbeSafe, PTL

(* pcisimple_probe returns 0 only with every resource acquired, and they   *)
(* stay so until pcisimple_remove.                                         *)
COROLLARY BoundIsComplete == ASSUME OneCard, Unwound PROVE ProbeSpec => []BoundComplete
BY ProbeSafe, PTL
=============================================================================
