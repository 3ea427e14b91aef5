---------------------------- MODULE Uart16550 -----------------------------
(***************************************************************************)
(* The registers of the 16550A UART of backup/qemu_linux0/QEMU/serial.c.   *)
(*                                                                         *)
(* The device is one record, and a handler of the source an operator from  *)
(* the record to the next one, so that the register sequences of a driver  *)
(* are compositions of the device's own handlers.  A register is the set   *)
(* of the bits that are set in it.  The divisor and the timing of          *)
(* characters are left out: a timer that is armed may expire at any time.  *)
(***************************************************************************)
EXTENDS Integers, Sequences, FiniteSets

CONSTANTS
    FIFOLEN,    \* UART_FIFO_LENGTH
    Levels,     \* the trigger levels a guest can select
    Chars       \* the characters

ASSUME FifoAssumption ==
    /\ FIFOLEN \in Nat \ {0}
    /\ Levels \subseteq 1..FIFOLEN /\ Levels # {}
    /\ 0 \in Chars

NUL == 0
Lines  == {"CTS", "DSR", "DCD", "RI"}
Delta  == [CTS |-> "DCTS", DSR |-> "DDSR", DCD |-> "DDCD", RI |-> "TERI"]
Deltas == {Delta[l] : l \in Lines}
Causes == {"RLSI", "CTI", "RDI", "THRI", "MSI", "NONE"}
None   == [fe |-> FALSE, level |-> CHOOSE n \in Levels : \A m \in Levels : n <= m]

\* The state serial_reset leaves on a device that was just created.  real: the back end
\* is a serial port with modem lines; out: what it was given.
Fresh ==
    [rbr |-> NUL, thr |-> NUL, tsr |-> NUL,
     ier |-> {}, iir |-> "NONE", fifoBits |-> FALSE, lcr |-> {},
     mcr |-> {"OUT2"}, lsr |-> {"THRE", "TEMT"}, msr |-> {"DCD", "DSR", "CTS"},
     fcr |-> None, itl |-> 0, recv |-> <<>>, xmit |-> <<>>,
     thrPending |-> FALSE, toPending |-> FALSE, retry |-> 0, poll |-> 0,
     xmitTimer |-> FALSE, fifoTimer |-> FALSE, mslTimer |-> FALSE,
     real |-> FALSE, irq |-> FALSE, out |-> <<>>]

-----------------------------------------------------------------------------
(* The FIFOs. *)

\* A full receive FIFO keeps its contents; a full transmit FIFO overwrites a slot.
PutRecv(s, c) ==
    IF Len(s.recv) < FIFOLEN
    THEN [s EXCEPT !.recv = Append(@, c)]
    ELSE [s EXCEPT !.lsr = @ \union {"OE"}]

PutXmit(s, c) ==
    IF Len(s.xmit) < FIFOLEN
    THEN [s EXCEPT !.xmit = Append(@, c)]
    ELSE [s EXCEPT !.xmit[1] = c]

First(f) == IF f = <<>> THEN NUL ELSE Head(f)
Rest(f)  == IF f = <<>> THEN f ELSE Tail(f)

-----------------------------------------------------------------------------
(* Interrupts. *)

\* A defect: the trigger level has to be passed.
AboveLevel(s) == Len(s.recv) > s.itl
AtLevel(s) == Len(s.recv) >= s.itl

\* What asks for an interrupt, most urgent first.
Cause(s) ==
    IF "RLSI" \in s.ier /\ {"BI", "OE"} \intersect s.lsr # {} THEN "RLSI"
    ELSE IF "RDI" \in s.ier /\ s.toPending THEN "CTI"
    ELSE IF "RDI" \in s.ier /\ "DR" \in s.lsr /\ (s.fcr.fe => AtLevel(s)) THEN "RDI"
    ELSE IF "THRI" \in s.ier /\ s.thrPending THEN "THRI"
    ELSE IF "MSI" \in s.ier /\ Deltas \intersect s.msr # {} THEN "MSI" ELSE "NONE"

\* serial_update_irq: the identification register and the line follow the cause.
Signal(s, cause) == [s EXCEPT !.iir = cause, !.irq = (cause # "NONE")]
UpdateIrq(s) == Signal(s, Cause(s))

-----------------------------------------------------------------------------
(* Receiving. *)

\* A character comes from the back end or, in loopback mode, from the transmitter.
Receive1(s, c) ==
    UpdateIrq(
        IF s.fcr.fe
        THEN [PutRecv(s, c) EXCEPT !.lsr = @ \union {"DR"}, !.fifoTimer = TRUE]
        ELSE [s EXCEPT !.rbr = c,
                       !.lsr = @ \union {"DR"} \union (IF "DR" \in @ THEN {"OE"} ELSE {})])

ReceiveBreak(s) ==
    UpdateIrq([PutRecv([s EXCEPT !.rbr = NUL], NUL) EXCEPT !.lsr = @ \union {"BI", "DR"}])

\* How many characters the back end may deliver.
CanReceive(s) ==
    IF ~s.fcr.fe THEN IF "DR" \in s.lsr THEN 0 ELSE 1
    ELSE IF Len(s.recv) >= FIFOLEN THEN 0
    ELSE IF Len(s.recv) <= s.itl THEN s.itl - Len(s.recv) ELSE 1

\* Four character times without a read, and something to read.
TimeoutInt(s) ==
    LET t == [s EXCEPT !.fifoTimer = FALSE]
    IN  IF s.recv = <<>> THEN t ELSE UpdateIrq([t EXCEPT !.toPending = TRUE])

-----------------------------------------------------------------------------
(* Transmitting. *)

MAX_XMIT_RETRY == 4

Retrying(s) == s.retry > 0

\* What serial_xmit puts into the shift register.
TsrLoad(s) ==
    IF Retrying(s) THEN s
    ELSE IF s.fcr.fe
    THEN [s EXCEPT !.tsr = First(s.xmit), !.xmit = Rest(s.xmit),
                   !.lsr = @ \union (IF Rest(s.xmit) = <<>> THEN {"THRE"} ELSE {})]
    ELSE [s EXCEPT !.tsr = s.thr, !.lsr = (@ \union {"THRE"}) \ {"TEMT"}]

\* Where the character goes: back to the receiver, to the back end, or nowhere.
TsrSend(s, ok) ==
    IF "LOOP" \in s.mcr THEN Receive1(s, s.tsr)
    ELSE IF ok THEN [s EXCEPT !.retry = 0, !.out = Append(@, s.tsr)]
    ELSE [s EXCEPT !.retry = IF s.poll < 0 THEN -1 ELSE @]

TsrDone(s) ==
    IF "THRE" \in s.lsr
    THEN UpdateIrq([s EXCEPT !.lsr = @ \union {"TEMT"}, !.thrPending = TRUE])
    ELSE [s EXCEPT !.xmitTimer = TRUE]

\* serial_xmit.  ok: the back end accepts the character.
Xmit(s, ok) ==
    IF "LOOP" \notin s.mcr /\ ~ok /\ Retrying(s) /\ s.retry <= MAX_XMIT_RETRY
    THEN [TsrLoad(s) EXCEPT !.retry = @ + 1, !.xmitTimer = TRUE]
    ELSE TsrDone(TsrSend(TsrLoad(s), ok))

-----------------------------------------------------------------------------
(* Modem lines.  flags: the lines the back end reports, if it has any. *)

UpdateMsl(s, flags) ==
    LET lines  == {l \in Lines : l \in flags}
        old    == s.msr
        new    == (old \ Lines) \union lines
        flips  == {Delta[l] : l \in {x \in Lines : (x \in new) # (x \in old)}}
        dirty  == new \union flips
        s1     == [s EXCEPT !.mslTimer = FALSE]
        s2     == IF new = old THEN s1
                  ELSE UpdateIrq([s1 EXCEPT !.msr =
                           IF "RI" \notin old THEN dirty \ {"TERI"} ELSE dirty])
    IN  IF ~s.real THEN [s1 EXCEPT !.poll = -1]
        ELSE [s2 EXCEPT !.mslTimer = (s.poll # 0)]

-----------------------------------------------------------------------------
(* Register writes. *)

\* A defect: a write to THR goes to the FIFO, enabled or not.
WriteThrFifoOnly(s, c, ok) ==
    Xmit(UpdateIrq(PutXmit([s EXCEPT !.thrPending = FALSE, !.lsr = @ \ {"THRE"}], c)), ok)

WriteThr(s, c, ok) ==
    LET s1 == [s EXCEPT !.thr = c, !.thrPending = FALSE]
        s2 == IF s.fcr.fe
              THEN [PutXmit(s1, c) EXCEPT !.lsr = @ \ {"TEMT", "THRE"}]
              ELSE [s1 EXCEPT !.lsr = @ \ {"THRE"}]
    IN  Xmit(UpdateIrq(s2), ok)

WriteIer(s, bits, flags) ==
    LET s1 == [s EXCEPT !.ier = bits]
        s2 == IF s.poll < 0 THEN s1
              ELSE IF "MSI" \in bits THEN UpdateMsl([s1 EXCEPT !.poll = 1], flags)
              ELSE [s1 EXCEPT !.mslTimer = FALSE, !.poll = 0]
    IN  IF "THRE" \in s.lsr THEN UpdateIrq([s2 EXCEPT !.thrPending = TRUE]) ELSE s2

\* The bits that stick are the enable bit and the level; clearing is a command.
WriteFcr(s, fe, level, clearR, clearX) ==
    LET flush == fe # s.fcr.fe
        s1 == IF clearR \/ flush
              THEN [s EXCEPT !.fifoTimer = FALSE, !.toPending = FALSE, !.recv = <<>>] ELSE s
        s2 == IF clearX \/ flush THEN [s1 EXCEPT !.xmit = <<>>] ELSE s1
    IN  IF s.fcr = [fe |-> fe, level |-> level] /\ ~clearR /\ ~clearX THEN s
        ELSE UpdateIrq([s2 EXCEPT !.fifoBits = fe, !.itl = IF fe THEN level ELSE @,
                                  !.fcr = [fe |-> fe, level |-> level]])

WriteLcr(s, bits) == [s EXCEPT !.lcr = bits]

WriteMcr(s, bits) ==
    [s EXCEPT !.mcr = bits,
              !.mslTimer = @ \/ ("LOOP" \notin bits /\ s.poll >= 0 /\ s.mcr # bits)]

-----------------------------------------------------------------------------
(* Register reads: the value, and the device after it. *)

\* A defect: a read of RBR always clears the data-ready bit.
ReadRbrClearsReady(s) ==
    [val |-> First(s.recv),
     dev |-> UpdateIrq([s EXCEPT !.recv = Rest(@), !.toPending = FALSE,
                                 !.lsr = @ \ {"DR", "BI"}, !.fifoTimer = TRUE])]
ReadRbr(s) ==
    LET rest == Rest(s.recv)
        s1 == IF s.fcr.fe
              THEN [s EXCEPT !.recv = rest, !.toPending = FALSE,
                             !.lsr = IF rest = <<>> THEN @ \ {"DR", "BI"} ELSE @,
                             !.fifoTimer = @ \/ rest # <<>>]
              ELSE [s EXCEPT !.lsr = @ \ {"DR", "BI"}]
    IN  [val |-> IF s.fcr.fe THEN First(s.recv) ELSE s.rbr, dev |-> UpdateIrq(s1)]

ReadIir(s) ==
    [val |-> s.iir,
     dev |-> IF s.iir = "THRI" THEN UpdateIrq([s EXCEPT !.thrPending = FALSE]) ELSE s]

\* A defect: a read of LSR does not update the interrupt.
ReadLsrNoUpdate(s) == [val |-> s.lsr, dev |-> [s EXCEPT !.lsr = @ \ {"BI", "OE"}]]

ReadLsr(s) ==
    [val |-> s.lsr,
     dev |-> IF {"BI", "OE"} \intersect s.lsr = {} THEN s
             ELSE UpdateIrq([s EXCEPT !.lsr = @ \ {"BI", "OE"}])]

ReadMsr(s, flags) ==
    LET s1 == IF s.poll >= 0 THEN UpdateMsl(s, flags) ELSE s
        looped == {l \in Lines : \/ l = "DCD" /\ "OUT2" \in s.mcr
                                 \/ l = "RI"  /\ "OUT1" \in s.mcr
                                 \/ l = "CTS" /\ "RTS" \in s.mcr
                                 \/ l = "DSR" /\ "DTR" \in s.mcr}
    IN  IF "LOOP" \in s.mcr THEN [val |-> looped, dev |-> s]
        ELSE [val |-> s1.msr,
              dev |-> IF Deltas \intersect s1.msr = {} THEN s1
                      ELSE UpdateIrq([s1 EXCEPT !.msr = @ \ Deltas])]

-----------------------------------------------------------------------------
(* Reset, and a move to another machine. *)

\* What serial_reset assigns; it leaves fcr, the timers and the pending timeout alone.
Reset(s) ==
    [Fresh EXCEPT !.fcr = s.fcr, !.itl = s.itl, !.toPending = s.toPending,
                  !.thr = s.thr, !.tsr = s.tsr, !.out = s.out, !.real = s.real,
                  !.xmitTimer = s.xmitTimer, !.fifoTimer = s.fifoTimer,
                  !.mslTimer = s.mslTimer]

\* vmstate_serial and serial_post_load: the fields that are sent, on a fresh device, with
\* fcr written through its register.
Load(s) ==
    WriteFcr([Fresh EXCEPT !.rbr = s.rbr, !.ier = s.ier, !.iir = s.iir, !.irq = s.irq,
                           !.fifoBits = s.fifoBits, !.lcr = s.lcr, !.mcr = s.mcr,
                           !.lsr = s.lsr, !.msr = s.msr, !.out = s.out, !.real = s.real],
             s.fcr.fe, s.fcr.level, FALSE, FALSE)

=============================================================================
