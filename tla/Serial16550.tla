---------------------------- MODULE Serial16550 ----------------------------
(***************************************************************************)
(* The 16550A UART of backup/qemu_linux0/QEMU/serial.c between a guest     *)
(* that makes any access at any time and a character device that delivers  *)
(* what the UART says it can take.  The handlers are in Uart16550.         *)
(***************************************************************************)
EXTENDS Uart16550

CONSTANTS
    IerSets,    \* the interrupt-enable masks the guest writes
    LineSets,   \* the states of the modem lines that occur
    MaxChars    \* bound: characters and breaks, in both directions together

ASSUME GuestAssumption ==
    /\ IerSets \subseteq SUBSET {"RDI", "THRI", "RLSI", "MSI"} /\ IerSets # {}
    /\ LineSets \subseteq SUBSET Lines /\ LineSets # {}
    /\ MaxChars \in Nat
    /\ {1, 2} \subseteq Chars

VARIABLES
    d,          \* the device
    unread,     \* history: what arrived and was neither read nor cleared
    sent,       \* history: the characters the guest wrote
    arrived,    \* history: how many characters and breaks have arrived
    dropped,    \* history: how many characters the device gave up on
    phantom,    \* history: the FIFO was emptied with DR set, and DR not read since
    loaded      \* history: the state came from another machine

uartVars == <<d, unread, sent, arrived, dropped, phantom, loaded>>

-----------------------------------------------------------------------------
(* The guest, with DLAB clear: the divisor behind it is left out.           *)

UNCHANGEDHist == UNCHANGED <<unread, sent, arrived, dropped, phantom, loaded>>

\* Two characters that alternate show a loss, a repetition and a swap.
Char(n) == (n % 2) + 1
Room == arrived + Len(sent) + dropped < MaxChars

\* What the reader will find next: the FIFO keeps what fits, the register the last.
Arrive(s, c) ==
    /\ Room /\ arrived' = arrived + 1
    /\ unread' = IF ~s.fcr.fe THEN <<c>>
                 ELSE IF Len(unread) < FIFOLEN THEN Append(unread, c) ELSE unread

GuestWriteThr ==
    \E ok \in BOOLEAN :
        LET loop == "LOOP" \in d.mcr
            c    == IF loop THEN 1 ELSE Char(Len(sent) + dropped)
        IN
        /\ d' = WriteThr(d, c, ok)
        /\ IF loop
           THEN Arrive(d, c) /\ UNCHANGED <<sent, dropped>>
           ELSE /\ Room
                /\ sent' = IF ok THEN Append(sent, c) ELSE sent
                /\ dropped' = IF ok \/ d'.xmitTimer THEN dropped ELSE dropped + 1
                /\ UNCHANGED <<unread, arrived>>
        /\ UNCHANGED <<phantom, loaded>>

GuestWriteIer ==
    \E bits \in IerSets, flags \in LineSets :
        /\ d' = WriteIer(d, bits, flags)
        /\ UNCHANGEDHist

GuestWriteFcr ==
    \E fe, clear \in BOOLEAN, level \in Levels :
        /\ d' = WriteFcr(d, fe, level, clear, clear)
        /\ LET emptied == clear \/ fe # d.fcr.fe
           IN  /\ unread' = IF emptied THEN <<>> ELSE unread
               /\ phantom' = (phantom \/ (emptied /\ "DR" \in d.lsr))
        /\ UNCHANGED <<sent, arrived, dropped, loaded>>

GuestWriteMcr ==
    /\ \E bits \in {{"OUT2"}, {"LOOP", "OUT2"}} : d' = WriteMcr(d, bits)
    /\ UNCHANGEDHist

GuestReadRbr ==
    /\ d' = ReadRbr(d).dev
    /\ unread' = Rest(unread)
    /\ phantom' = (phantom /\ "DR" \in d'.lsr)
    /\ UNCHANGED <<sent, arrived, dropped, loaded>>

GuestReadIir == d' = ReadIir(d).dev /\ UNCHANGEDHist
GuestReadLsr == d' = ReadLsr(d).dev /\ UNCHANGEDHist
GuestReadMsr == (\E flags \in LineSets : d' = ReadMsr(d, flags).dev) /\ UNCHANGEDHist

(* The back end, the timers, the machine. *)

BackEndReceive ==
    /\ CanReceive(d) > 0
    /\ d' = Receive1(d, Char(arrived))
    /\ Arrive(d, Char(arrived))
    /\ UNCHANGED <<sent, dropped, phantom, loaded>>

BackEndBreak ==
    /\ d' = ReceiveBreak(d)
    /\ Arrive(d, NUL)
    /\ UNCHANGED <<sent, dropped, phantom, loaded>>

FifoTimeout == d.fifoTimer /\ d' = TimeoutInt(d) /\ UNCHANGEDHist

ModemPoll ==
    /\ d.mslTimer
    /\ \E flags \in LineSets : d' = UpdateMsl(d, flags)
    /\ UNCHANGEDHist

MachineReset ==
    /\ d' = Reset(d)
    /\ unread' = <<>> /\ phantom' = FALSE
    /\ UNCHANGED <<sent, arrived, dropped, loaded>>

\* In FIFO mode the contents of the receive FIFO stay behind, the data-ready bit moves.
Migrate ==
    /\ d' = Load(d)
    /\ unread' = IF d.fcr.fe THEN <<>> ELSE unread
    /\ phantom' = (phantom \/ (d.fcr.fe /\ "DR" \in d.lsr))
    /\ loaded' = TRUE
    /\ UNCHANGED <<sent, arrived, dropped>>

Init ==
    /\ d \in {[Fresh EXCEPT !.real = r] : r \in BOOLEAN}
    /\ unread = <<>> /\ sent = <<>> /\ arrived = 0 /\ dropped = 0
    /\ phantom = FALSE /\ loaded = FALSE

Next ==
    \/ GuestWriteThr \/ GuestWriteIer \/ GuestWriteFcr \/ GuestWriteMcr
    \/ GuestReadRbr \/ GuestReadIir \/ GuestReadLsr \/ GuestReadMsr
    \/ BackEndReceive \/ BackEndBreak \/ FifoTimeout \/ ModemPoll
    \/ MachineReset \/ Migrate

Spec == Init /\ [][Next]_uartVars

-----------------------------------------------------------------------------
(* Properties. *)

TypeOK ==
    /\ d.rbr \in Chars /\ d.thr \in Chars /\ d.tsr \in Chars
    /\ d.ier \subseteq {"RDI", "THRI", "RLSI", "MSI"} /\ d.iir \in Causes
    /\ d.lsr \subseteq {"DR", "OE", "BI", "THRE", "TEMT"}
    /\ d.msr \subseteq Lines \union Deltas
    /\ d.recv \in Seq(Chars) /\ Len(d.recv) <= FIFOLEN
    /\ d.xmit \in Seq(Chars) /\ Len(d.xmit) <= FIFOLEN
    /\ d.fcr.level \in Levels /\ d.itl \in Levels \union {0}
    /\ d.retry \in -1..MAX_XMIT_RETRY + 1 /\ d.poll \in -1..1
    /\ d.irq \in BOOLEAN /\ unread \in Seq(Chars)

\* Every handler that changes what asks for an interrupt also updates the line: the line is
\* up exactly when a cause stands, and the identification register names the most urgent.
\* (A migrated device has lost the pending bits that are not in vmstate_serial.)
IrqLevel == ~loaded => d.iir = Cause(d) /\ d.irq = (Cause(d) # "NONE")

\* Between two accesses nothing waits in the transmitter: its FIFO is empty, the status says
\* so and no transmit timer runs, whatever the back end refused (serial_xmit).
XmitIdle == d.xmit = <<>> /\ {"THRE", "TEMT"} \subseteq d.lsr /\ ~d.xmitTimer

\* What the back end accepted is what the guest wrote, in order and once, through every
\* change of mode, loopback, reset and FIFO clear.
TxInOrder == d.out = sent

\* Transmission is over when the register access that started it returns: nothing lost,
\* repeated or overtaken, and nothing left for a timer to do.
TxDone == XmitIdle /\ TxInOrder

\* The data-ready bit and the receive FIFO agree with what arrived and was not read, unless
\* the FIFO was emptied under a data-ready bit that stays (serial_ioport_write, case 2).
ReceiveQueue ==
    ~phantom =>
        /\ ("DR" \in d.lsr) = (unread # <<>>)
        /\ IF d.fcr.fe THEN d.recv = unread ELSE unread # <<>> => unread = <<d.rbr>>

\* The FIFOs keep within their bounds, and the receive FIFO holds what was not read.
FifosRight == TypeOK /\ ReceiveQueue

\* When the device refuses more characters it asks the guest to read those it has
\* (serial_can_receive against serial_update_irq): neither side waits for the other.
ThrottledMeansSignalled == CanReceive(d) = 0 /\ "RDI" \in d.ier => d.irq

\* Characters below the trigger level are announced all the same: with receive interrupts
\* on and the line down, the FIFO timer runs as long as a character is in the FIFO.  (A break
\* arms no timer: alone in the FIFO, it waits for the level or for a line-status interrupt.)
DataWillSignal ==
    d.fcr.fe /\ "RDI" \in d.ier /\ ~d.irq => d.fifoTimer \/ \A i \in 1..Len(d.recv) : d.recv[i] = NUL

\* Nobody waits for ever between the back end and the guest: what is in the FIFO has been
\* announced or will be, at the level where the device refuses more as below it.
Signalled == ThrottledMeansSignalled /\ DataWillSignal

\* The comment of serial_xmit: a write is dropped at once only after MAX_XMIT_RETRY retries
\* failed.  The retry counter never leaves 0, so the first failure drops the character.
RetryBeforeDrop ==
    [][dropped' > dropped => d.retry > MAX_XMIT_RETRY \/ d.retry = -1]_uartVars

\* The comment of fifo_timeout_int: a pending timeout means there is data in the FIFO.
\* serial_reset empties the FIFO and keeps the pending timeout.
TimeoutHasData == d.toPending => d.recv # <<>>

=============================================================================
