----------------------------- MODULE Port8250 ------------------------------
(***************************************************************************)
(* One port of the 8250 driver (backup/qemu_linux0/8250/8250.c, with the   *)
(* transmit half of serial_core.c) on the 16550A that QEMU emulates.       *)
(*                                                                         *)
(* Every register access of the driver is an access to the device of       *)
(* Uart16550.  An operation that holds port->lock for one uninterrupted    *)
(* sequence of accesses is one action; the interrupt handler and the       *)
(* console writer are a step per access, since characters, breaks and      *)
(* modem-line changes arrive in between, and since the handler gives the   *)
(* lock up half way.  Steps that the code takes without the lock are       *)
(* actions without a guard on it.                                          *)
(***************************************************************************)
EXTENDS Uart16550, SequencesExt

CONSTANTS
    Trig,       \* the trigger level of uart_config[PORT_16550A].fcr
    LoadSize,   \* uart_config[PORT_16550A].tx_loadsz
    XMIT_SIZE,  \* how many characters the transmit ring holds
    Modes,      \* how the port is served: "irq", "backup" or "polled"
    CtsFlow,    \* termios has CRTSCTS
    MaxEvents   \* bound: requests, arrivals and line changes together

CON   == MaxEvents + 1      \* a console character
STOP  == MaxEvents + 2      \* STOP_CHAR and START_CHAR
START == MaxEvents + 3
IsUser(c) == c < CON

\* UART_FIFO_LENGTH is 16; at 64 the driver takes the device for a 16750.  A character has
\* the number of the event that brought it, or of its place in the test of the FIFO's size.
ASSUME PortAssumption ==
    /\ FIFOLEN > 1 /\ FIFOLEN # 64
    /\ 0..FIFOLEN + 1 \subseteq Chars /\ 0..MaxEvents \subseteq Chars
    /\ {CON, STOP, START} \subseteq Chars
    /\ Trig \in Levels
    /\ LoadSize \in 1..FIFOLEN
    /\ XMIT_SIZE \in Nat \ {0}
    /\ Modes \subseteq {"irq", "backup", "polled"} /\ Modes # {}
    /\ CtsFlow \in BOOLEAN
    /\ MaxEvents \in Nat

VARIABLES
    d,          \* the device
    lines,      \* the modem lines at the back end
    mode,       \* irq # 0; irq # 0 with UPF_BUG_THRE; irq = 0
    phase,      \* how far probe, open and close have come
    up,         \* the driver's shadow of the port
    tty,        \* what the tty layer asked for
    xmit,       \* the transmit ring
    lock,       \* who holds port->lock between two steps
    h,          \* the interrupt handler
    con,        \* the console writer
    wr,         \* the tty writer, "start": the ring is filled, start_tx to come
    th,         \* the flow-control request
    hist        \* history

vars == <<d, lines, mode, phase, up, tty, xmit, lock, h, con, wr, th, hist>>

LsrSave == {"BI", "OE"}     \* LSR_SAVE_FLAGS that this device ever sets
All == {"RDI", "THRI", "RLSI", "MSI"}

\* What uart_write sent of the characters q.
UserChars(q) ==
    LET f[i \in 0..Len(q)] == IF i = 0 THEN <<>>
                              ELSE IF IsUser(q[i]) THEN Append(f[i - 1], q[i]) ELSE f[i - 1]
    IN  f[Len(q)]

-----------------------------------------------------------------------------
(* Register sequences. *)

\* The first n characters of q are written one after the other.
WriteAll(s, q, n) ==
    LET dev[i \in 0..n] == IF i = 0 THEN s ELSE WriteThr(dev[i - 1], q[i], TRUE)
    IN  dev[n]

\* Enabling, clearing and disabling: three writes of the FIFO control register.
ClearFifos(s) ==
    LET fcr(t, fe, clear) == WriteFcr(t, fe, None.level, clear, clear)
    IN  fcr(fcr(fcr(s, TRUE, FALSE), TRUE, TRUE), FALSE, FALSE)

\* Reads that clear what is pending.
ClearInterrupts(s) == ReadMsr(ReadIir(ReadRbr(ReadLsr(s).dev).dev).dev, lines).dev

MaxLevel == CHOOSE n \in Levels : \A m \in Levels : n >= m

\* As many reads as there is data: the device afterwards, and how many.
ReadOne(p) ==
    LET q == ReadLsr(p.dev)
    IN  IF "DR" \in q.val THEN [dev |-> ReadRbr(q.dev).dev, n |-> p.n + 1]
        ELSE [p EXCEPT !.dev = q.dev]
ReadAll(s) ==
    LET drain[i \in 0..FIFOLEN + 1] ==
            IF i = 0 THEN [dev |-> s, n |-> 0] ELSE ReadOne(drain[i - 1])
    IN  drain[FIFOLEN + 1]

\* 256 characters looped back, and read again.
SizeFifo(s) ==
    LET on     == WriteMcr(WriteFcr(ReadIir(s).dev, TRUE, None.level, TRUE, TRUE), {"LOOP"})
        end    == ReadAll(WriteAll(on, [i \in 1..FIFOLEN + 1 |-> i], FIFOLEN + 1))
        old    == ReadIir(s)    \* what reads back at the address of the FCR
    IN  [dev |-> WriteMcr(WriteFcr(end.dev, old.val = "NONE", MaxLevel, FALSE, FALSE), s.mcr),
         size |-> end.n]

\* No enhanced feature register, no bank switch, no 64-byte mode, no UUE bit: the tests
\* that this device fails leave its registers as they were, but for the reads of IIR.
Sized(f) == [dev |-> f.dev, type |-> IF f.size = 64 THEN "U6_16550A" ELSE "16550A"]
Autoconfig16550a(s) ==
    LET bank == WriteMcr(WriteMcr(ReadIir(s).dev, s.mcr \union {"LOOP"}), s.mcr)
    IN  Sized(SizeFifo(WriteIer(bank, s.ier, lines)))

\* A defect: the FCR test comes without the EFR test before it.
IdentifyWithoutEfr(s) == WriteFcr(s, TRUE, None.level, FALSE, FALSE)
\* The extended feature register is cleared at the address of the FIFO control register.
Identify(s) ==
    WriteFcr(WriteFcr(s, FALSE, None.level, FALSE, FALSE), TRUE, None.level, FALSE, FALSE)

\* The type, and the registers as its test leaves them.
Typed(s) == IF s.fifoBits THEN Autoconfig16550a(s) ELSE [dev |-> s, type |-> "16450"]

\* The port is reset to the registers s it was found with.
Settled(s, found) ==
    LET reset == WriteMcr(WriteLcr(found.dev, s.lcr), s.mcr)
        clear == IF found.type = "16450" THEN reset ELSE ClearFifos(reset)
    IN  [dev |-> WriteIer(ReadRbr(clear).dev, {}, lines), type |-> found.type]

\* Two values written to the IER, and a loopback, find out whether there is a UART.
Autoconfig(s) ==
    LET ier0  == WriteIer(s, {}, lines)
        ier1  == WriteIer(ier0, All, lines)
        back  == WriteIer(ier1, s.ier, lines)
        loop  == ReadMsr(WriteMcr(back, {"LOOP", "OUT2", "RTS"}), lines)
    IN  IF ier0.ier # {} \/ ier1.ier # All \/ loop.val # {"DCD", "CTS"}
        THEN [dev |-> WriteMcr(loop.dev, s.mcr), type |-> "unknown"]
        ELSE Settled(s, Typed(ReadIir(Identify(WriteMcr(loop.dev, s.mcr))).dev))

-----------------------------------------------------------------------------
(* Operations under port->lock, on [d, up, xmit, tty]. *)

Here == [d |-> d, up |-> up, xmit |-> xmit, tty |-> tty]

SetIer(p, ier) == [p EXCEPT !.up.ier = ier, !.d = WriteIer(p.d, ier, lines)]

Stopped(p) == p.tty.stopped \/ p.tty.hwStopped

\* A defect: stop_tx clears the shadow and not the register.
StopTxShadowOnly(p) == [p EXCEPT !.up.ier = @ \ {"THRI"}]
StopTx(p) == IF "THRI" \in p.up.ier THEN SetIer(p, p.up.ier \ {"THRI"}) ELSE p

\* A defect: the tail of the ring moves one character late.
TxCharsTailLate(p) ==
    IF Stopped(p) \/ p.xmit = <<>> THEN StopTx(p)
    ELSE [p EXCEPT !.d = WriteThr(@, p.xmit[1], TRUE), !.xmit = SubSeq(@, 1, Len(@) - 1)]

\* serial8250_tx_chars after the high-priority character.
Loaded(p, n) ==
    [p EXCEPT !.d = WriteAll(@, p.xmit, n), !.xmit = SubSeq(@, n + 1, Len(@))]
StopWhenEmpty(p) == IF p.xmit = <<>> THEN StopTx(p) ELSE p
TxChars(p) ==
    IF Stopped(p) \/ p.xmit = <<>> THEN StopTx(p)
    ELSE StopWhenEmpty(Loaded(p, IF Len(p.xmit) < LoadSize THEN Len(p.xmit) ELSE LoadSize))

\* A defect: tx_empty drops the flags it reads.
TxEmptyForgets(p) == [p EXCEPT !.d = ReadLsr(p.d).dev]
\* serial8250_tx_empty: the status read clears flags that the receiver will need, and they
\* are saved for it.  So do the other readers of the line status.
TxEmpty(p) ==
    LET q == ReadLsr(p.d)
    IN  [p EXCEPT !.d = q.dev, !.up.saved = @ \union (q.val \intersect LsrSave)]

\* serial8250_tx_chars with the high-priority character, in one hold of the lock.
TxCharsHigh(p) ==
    IF p.tty.xchar # NUL
    THEN [p EXCEPT !.d = WriteThr(@, p.tty.xchar, TRUE), !.tty.xchar = NUL]
    ELSE TxChars(p)

\* A defect: start_tx sets the shadow and not the register.
StartTxShadowOnly(p) == [p EXCEPT !.up.ier = @ \union {"THRI"}]
\* UART_BUG_TXEN: no interrupt comes for an idle transmitter.
TxKick(p) ==
    IF "TXEN" \notin p.up.bugs THEN p
    ELSE IF "TEMT" \in ReadLsr(p.d).val THEN TxCharsHigh(TxEmpty(p)) ELSE TxEmpty(p)
StartTx(p) ==
    IF "THRI" \in p.up.ier THEN p ELSE TxKick(SetIer(p, p.up.ier \union {"THRI"}))

UartStart(p) == IF p.xmit # <<>> /\ ~Stopped(p) THEN StartTx(p) ELSE p

\* uart_handle_cts_change
CtsChange(p, cts) ==
    IF ~CtsFlow THEN p
    ELSE IF p.tty.hwStopped
    THEN IF cts THEN StartTx([p EXCEPT !.tty.hwStopped = FALSE]) ELSE p
    ELSE IF cts THEN p ELSE StopTx([p EXCEPT !.tty.hwStopped = TRUE])

\* serial8250_modem_status as far as the register read and the delta it finds.
ModemRead(p) ==
    LET q == ReadMsr(p.d, lines)
    IN  [p |-> [p EXCEPT !.d = q.dev],
         cts |-> "CTS" \in q.val,
         handle |-> "DCTS" \in q.val /\ "MSI" \in p.up.ier]

ModemHandle(m) == IF m.handle THEN CtsChange(m.p, m.cts) ELSE m.p
ModemStatus(p) == ModemHandle(ModemRead(p))

\* serial8250_startup: the tests of the transmit interrupt.
Thri(s) == ReadIir(WriteIer(s, {"THRI"}, lines))
\* Enabled a second time: a device that does not report it again needs the backup timer.
ThreTest(s) ==
    LET one == Thri(ReadLsr(s).dev)
        two == Thri(WriteIer(one.dev, {}, lines))
    IN  [dev |-> WriteIer(two.dev, {}, lines), bad |-> one.val # "NONE" /\ two.val = "NONE"]
\* The interrupt enabled, and what was enabled asked for and disabled.
TxenOn(s) ==
    WriteIer(WriteMcr(WriteLcr(s, {}), IF mode = "polled" THEN {} ELSE {"OUT2"}), {"THRI"}, lines)
TxenOff(s) ==
    LET lsr == ReadLsr(s)
        iir == ReadIir(lsr.dev)
    IN  [dev |-> WriteIer(iir.dev, {}, lines), silent |-> "TEMT" \in lsr.val /\ iir.val = "NONE"]

\* A defect: set_termios clears the FIFOs too.
SetTermiosClears(p) ==
    [p EXCEPT !.d = WriteFcr(WriteFcr(@, FALSE, Trig, FALSE, FALSE), TRUE, Trig, FALSE, FALSE)]

\* serial8250_do_set_termios, with CLOCAL: the trigger level is set in two writes.
SetTermios(p) ==
    LET q == SetIer(p, (p.up.ier \ {"MSI"}) \union (IF CtsFlow THEN {"MSI"} ELSE {}))
        s == WriteFcr(WriteFcr(q.d, TRUE, None.level, FALSE, FALSE), TRUE, Trig, FALSE, FALSE)
    IN  [q EXCEPT !.d = WriteMcr(s, s.mcr)]

\* serial8250_backup_timeout: the mask is saved, cleared, and restored as it was saved.
BackupSend(p, iir, lsr) ==
    LET kick == /\ "THRI" \in p.up.ier /\ "THRE" \in lsr
                /\ p.xmit # <<>> \/ p.tty.xchar # NUL
    IN  IF iir = "NONE" /\ ~kick THEN p
        ELSE TxCharsHigh(p)
BackupKick(p) ==
    LET iir  == ReadIir(WriteIer(p.d, {}, lines))
        sent == BackupSend(TxEmpty([p EXCEPT !.d = iir.dev]), iir.val, ReadLsr(iir.dev).val)
    IN  [sent EXCEPT !.d = WriteIer(@, p.d.ier, lines)]

-----------------------------------------------------------------------------
(* Probe, open and close. *)

Put(p) == d' = p.d /\ up' = p.up /\ xmit' = p.xmit /\ tty' = p.tty
Free == lock = "none"
Open == phase \in {"speed", "ready"}            \* the FIFO is enabled
\* The port is on its irq chain, or its timer is armed.
Linked == phase \in {"linked", "txen", "tested", "drained", "startup", "speed", "ready",
                     "closing", "closing2", "unlink"}

Threads == <<h, con, wr, th>>

Request == hist.events < MaxEvents
Spent == [hist EXCEPT !.events = @ + 1]

Found(a) ==
    /\ d' = a.dev
    /\ up' = [up EXCEPT !.type = a.type]
    /\ phase' = IF a.type = "unknown" THEN "unknown" ELSE "closed"
Probe ==
    /\ phase = "unknown" /\ Free
    /\ Found(Autoconfig(d))
    /\ UNCHANGED <<lines, mode, tty, xmit, lock, hist>> /\ UNCHANGED Threads

\* uart_port_startup, and serial8250_startup up to the first test.  No lock is taken.
OpenClear ==
    /\ phase = "closed" /\ Request
    /\ tty' = [tty EXCEPT !.stopped = FALSE, !.hwStopped = FALSE, !.throttled = FALSE]
    /\ d' = ClearInterrupts(ClearFifos(d))
    /\ phase' = "cleared"
    /\ hist' = [Spent EXCEPT !.queued = UserChars(d.out)]
    /\ UNCHANGED <<lines, mode, up, xmit, lock>> /\ UNCHANGED Threads

\* The test made before the port is linked, of a port with an irq.  Linking it, or arming its
\* timer, adds nothing but the handler's steps.
Tested(t) ==
    /\ d' = t.dev
    /\ up' = [up EXCEPT !.bugs = @ \union (IF t.bad \/ mode = "backup" THEN {"THRE"} ELSE {})]
OpenLink ==
    /\ phase = "cleared"
    /\ IF mode = "polled" THEN UNCHANGED <<d, up>> ELSE Free /\ Tested(ThreTest(d))
    /\ phase' = "linked"
    /\ UNCHANGED <<lines, mode, tty, xmit, lock, hist>> /\ UNCHANGED Threads

\* The second test is made with the port linked.  It holds the lock, but the handler reads
\* the identification without it.
OpenTxen ==
    /\ phase = "linked" /\ Free
    /\ d' = TxenOn(d)
    /\ phase' = "txen" /\ lock' = "open"
    /\ hist' = [hist EXCEPT !.taken = FALSE]
    /\ UNCHANGED <<lines, mode, up, tty, xmit>> /\ UNCHANGED Threads

OpenTxenEnd ==
    /\ phase = "txen"
    /\ LET t == TxenOff(d)
       IN  /\ d' = t.dev
           /\ up' = [up EXCEPT !.bugs = IF t.silent THEN @ \union {"TXEN"} ELSE @ \ {"TXEN"}]
    /\ phase' = "tested" /\ lock' = "none"
    /\ UNCHANGED <<lines, mode, tty, xmit, hist>> /\ UNCHANGED Threads

\* The rest of serial8250_startup takes no lock.
OpenDrain ==
    /\ phase = "tested"
    /\ d' = ClearInterrupts(d)
    /\ up' = [up EXCEPT !.saved = {}]
    /\ phase' = "drained"
    /\ UNCHANGED <<lines, mode, tty, xmit, lock, hist>> /\ UNCHANGED Threads

OpenEnable ==
    /\ phase = "drained"
    /\ Put(SetIer(Here, {"RLSI", "RDI"}))
    /\ phase' = "startup"
    /\ UNCHANGED <<lines, mode, lock, hist>> /\ UNCHANGED Threads

\* Enabling the FIFO empties it, but leaves the data-ready bit of a waiting character.
OpenTermios ==
    /\ phase = "startup" /\ Free
    /\ Put(SetTermios(Here))
    /\ phase' = "speed"
    /\ hist' = [hist EXCEPT !.got = <<>>, !.accepted = <<>>, !.owed = FALSE,
                            !.flips = @ + IF "DR" \in d.lsr THEN 1 ELSE 0]
    /\ UNCHANGED <<lines, mode, lock>> /\ UNCHANGED Threads

\* serial8250_get_mctrl: whoever asks for the lines clears their changes.
GetMctrl(p) == ModemStatus(p)
StoppedByCts(p) ==
    IF CtsFlow /\ "CTS" \notin p.d.msr THEN [p EXCEPT !.tty.hwStopped = TRUE] ELSE p
\* uart_port_startup looks at CTS once the interrupt that reports its changes is on.
OpenCts ==
    /\ phase = "speed" /\ Free
    /\ Put(StoppedByCts(GetMctrl(Here)))
    /\ phase' = "ready"
    /\ UNCHANGED <<lines, mode, lock, hist>> /\ UNCHANGED Threads

\* serial8250_shutdown clears its mask without the lock.
Close ==
    /\ phase = "ready" /\ wr = "idle" /\ th = "idle"
    /\ Put(SetIer(Here, {}))
    /\ phase' = "closing"
    /\ UNCHANGED <<lines, mode, lock, hist>> /\ UNCHANGED Threads

CloseModem ==
    /\ phase = "closing" /\ Free
    /\ d' = WriteMcr(d, {})
    /\ phase' = "closing2"
    /\ UNCHANGED <<lines, mode, up, tty, xmit, lock, hist>> /\ UNCHANGED Threads

CloseFifos ==
    /\ phase = "closing2"
    /\ d' = ReadRbr(ClearFifos(d)).dev
    /\ phase' = "unlink"
    /\ UNCHANGED <<lines, mode, up, tty, xmit, lock, hist>> /\ UNCHANGED Threads

\* serial_do_unlink takes the lock that the handler holds for its whole pass.
CloseUnlink ==
    /\ phase = "unlink" /\ h.pc = "idle"
    /\ phase' = "closed" /\ xmit' = <<>>
    /\ UNCHANGED <<d, lines, mode, up, tty, lock, hist>> /\ UNCHANGED Threads

-----------------------------------------------------------------------------
(* The interrupt handler: serial8250_interrupt on a chain of one port, and  *)
(* serial8250_handle_irq.  Only the identification is read without the lock. *)

Idle(pc) == [pc |-> pc, status |-> {}, cts |-> FALSE]
Goto(pc) == h' = [h EXCEPT !.pc = pc]

\* The line is up, or the poll timer expires.
Enter ==
    /\ h.pc = "idle" /\ Linked
    /\ d.irq \/ mode = "polled"
    /\ h' = Idle("iir")
    /\ UNCHANGED <<d, lines, mode, phase, up, tty, xmit, lock, con, wr, th, hist>>

Identification ==
    /\ h.pc = "iir"
    /\ d' = ReadIir(d).dev
    /\ Goto(IF d.iir = "NONE" THEN "idle" ELSE "lsr")
    /\ hist' = [hist EXCEPT !.taken = @ \/ (phase = "txen" /\ d.iir = "THRI")]
    /\ UNCHANGED <<lines, mode, phase, up, tty, xmit, lock, con, wr, th>>

\* The line status decides what is done next; it is what the receive loop repeats on.
LineStatus ==
    /\ (h.pc = "lsr" /\ Free) \/ h.pc = "rxlsr"
    /\ LET q == ReadLsr(d)
           more == {"DR", "BI"} \intersect q.val # {}
       IN  /\ d' = q.dev
           /\ h' = [h EXCEPT !.status = q.val,
                             !.pc = IF more THEN "rx" ELSE IF h.pc = "lsr" THEN "msr" ELSE "push"]
           /\ lock' = IF ~more /\ h.pc = "rxlsr" THEN "none" ELSE "irq"
    /\ UNCHANGED <<lines, mode, phase, up, tty, xmit, con, wr, th, hist>>

\* One turn of serial8250_rx_chars.
RxChar ==
    /\ h.pc = "rx"
    /\ LET seen  == h.status \union up.saved
           there == "DR" \in h.status
           q     == ReadRbr(d)
           ghost == there /\ d.fcr.fe /\ d.recv = <<>>
       IN  /\ d' = IF there THEN q.dev ELSE d
           /\ hist' = [hist EXCEPT !.owed = @ /\ "BI" \notin seen,
                                   !.ghosts = @ + IF ghost THEN 1 ELSE 0,
                                   !.got = IF there /\ Open /\ ~ghost THEN Append(@, q.val) ELSE @]
    /\ up' = [up EXCEPT !.saved = {}]
    /\ Goto("rxlsr")
    /\ UNCHANGED <<lines, mode, phase, tty, xmit, lock, con, wr, th>>

\* The lock was given up to push the characters to the tty; the status is kept.
Relock ==
    /\ h.pc = "push" /\ Free
    /\ lock' = "irq" /\ Goto("msr")
    /\ UNCHANGED <<d, lines, mode, phase, up, tty, xmit, con, wr, th, hist>>

ModemSeen(m) ==
    /\ d' = m.p.d
    /\ h' = [h EXCEPT !.cts = m.cts, !.pc = IF m.handle THEN "cts" ELSE "tx"]
Modem ==
    /\ h.pc = "msr"
    /\ ModemSeen(ModemRead(Here))
    /\ UNCHANGED <<lines, mode, phase, up, tty, xmit, lock, con, wr, th, hist>>

ModemChange ==
    /\ h.pc = "cts"
    /\ Put(CtsChange(Here, h.cts))
    /\ Goto("tx")
    /\ UNCHANGED <<lines, mode, phase, lock, con, wr, th, hist>>

\* With an irq the chain is walked again until no port reports anything.
HandlerDone == lock' = "none" /\ h' = Idle(IF mode = "polled" THEN "idle" ELSE "iir")

TxCharsStep ==
    /\ h.pc = "tx"
    /\ IF "THRE" \in h.status /\ tty.xchar # NUL
       THEN /\ d' = WriteThr(d, tty.xchar, TRUE)
            /\ Goto("xclear")
            /\ UNCHANGED <<up, tty, xmit, lock>>
       ELSE /\ IF "THRE" \in h.status THEN Put(TxChars(Here)) ELSE UNCHANGED <<d, up, tty, xmit>>
            /\ HandlerDone
    /\ UNCHANGED <<lines, mode, phase, con, wr, th, hist>>

XcharClear ==
    /\ h.pc = "xclear"
    /\ tty' = [tty EXCEPT !.xchar = NUL]
    /\ HandlerDone
    /\ UNCHANGED <<d, lines, mode, phase, up, xmit, con, wr, th, hist>>

BackupTimeout ==
    /\ mode = "backup" /\ Linked /\ Free
    /\ Put(BackupKick(Here))
    /\ UNCHANGED <<lines, mode, phase, lock, hist>> /\ UNCHANGED Threads

-----------------------------------------------------------------------------
(* The console, which writes whether or not the port is open. *)

ConsoleBegin ==
    /\ con.pc = "idle" /\ phase # "unknown" /\ Free /\ Request
    /\ con' = [pc |-> "put", ier |-> d.ier]
    /\ d' = WriteIer(d, {}, lines)
    /\ lock' = "con"
    /\ hist' = Spent
    /\ UNCHANGED <<lines, mode, phase, up, tty, xmit, h, wr, th>>

ConsolePut ==
    /\ con.pc = "put"
    /\ LET p == TxEmpty(Here) IN d' = WriteThr(p.d, CON, TRUE) /\ up' = p.up
    /\ con' = [con EXCEPT !.pc = "end"]
    /\ UNCHANGED <<lines, mode, phase, tty, xmit, lock, h, wr, th, hist>>

ConsoleEnd ==
    /\ con.pc = "end"
    /\ LET p == TxEmpty(Here) IN d' = WriteIer(p.d, con.ier, lines) /\ up' = p.up
    /\ con' = [pc |-> "idle", ier |-> {}]
    /\ lock' = "none"
    /\ UNCHANGED <<lines, mode, phase, tty, xmit, h, wr, th, hist>>

-----------------------------------------------------------------------------
(* Requests of the tty layer on an open port. *)

Elsewhere == UNCHANGED <<lines, mode, phase, lock, h, con>>
Tty(p) == Put(p) /\ hist' = Spent /\ Elsewhere

HasRoom == Len(xmit) < XMIT_SIZE

\* uart_write fills the ring, drops the lock, and asks for the transmit interrupt.
TtyWrite ==
    /\ phase = "ready" /\ wr = "idle" /\ Free /\ Request
    /\ HasRoom
    /\ LET c == hist.written + 1
       IN  /\ xmit' = Append(xmit, c)
           /\ hist' = [Spent EXCEPT !.written = c, !.queued = Append(@, c)]
    /\ wr' = "start"
    /\ UNCHANGED <<d, up, tty, th>> /\ Elsewhere

TtyWriteStart ==
    /\ wr = "start" /\ Free
    /\ Put(UartStart(Here))
    /\ wr' = "idle"
    /\ UNCHANGED <<th, hist>> /\ Elsewhere

TtyFlush ==
    /\ phase = "ready" /\ Free /\ Request
    /\ xmit' = <<>>
    /\ hist' = [Spent EXCEPT !.queued = UserChars(d.out)]
    /\ UNCHANGED <<d, up, tty, wr, th>> /\ Elsewhere

TtyStop ==
    /\ phase = "ready" /\ Free /\ Request /\ ~tty.stopped
    /\ Tty(StopTx([Here EXCEPT !.tty.stopped = TRUE]))
    /\ UNCHANGED <<wr, th>>

TtyStart ==
    /\ phase = "ready" /\ Free /\ tty.stopped
    /\ Put(UartStart([Here EXCEPT !.tty.stopped = FALSE]))
    /\ UNCHANGED <<wr, th, hist>> /\ Elsewhere

\* Neither the test nor the store of x_char is under the lock.
TtyThrottle ==
    /\ phase = "ready" /\ th = "idle" /\ Request
    /\ IF ~tty.throttled
       THEN tty' = [tty EXCEPT !.throttled = TRUE, !.xchar = STOP] /\ th' = "start"
       ELSE IF tty.xchar # NUL
       THEN tty' = [tty EXCEPT !.throttled = FALSE] /\ th' = "clear"
       ELSE tty' = [tty EXCEPT !.throttled = FALSE, !.xchar = START] /\ th' = "start"
    /\ hist' = Spent
    /\ UNCHANGED <<d, up, xmit, wr>> /\ Elsewhere

TtyThrottleEnd ==
    /\ \/ th = "clear" /\ Put([Here EXCEPT !.tty.xchar = NUL])
       \/ th = "start" /\ Free /\ Put(StartTx(Here))
    /\ th' = "idle"
    /\ UNCHANGED <<wr, hist>> /\ Elsewhere

TtyTxEmpty == phase = "ready" /\ Free /\ Request /\ Tty(TxEmpty(Here)) /\ UNCHANGED <<wr, th>>

TtyGetMctrl ==
    phase = "ready" /\ Free /\ Request /\ Tty(GetMctrl(Here)) /\ UNCHANGED <<wr, th>>

TtySetTermios ==
    phase = "ready" /\ Free /\ Request /\ Tty(SetTermios(Here)) /\ UNCHANGED <<wr, th>>

-----------------------------------------------------------------------------
(* The other end of the line, and the timers of the device. *)

Device(dev) ==
    /\ d' = dev
    /\ UNCHANGED <<mode, phase, up, tty, xmit, lock>> /\ UNCHANGED Threads

Character ==
    /\ CanReceive(d) > 0 /\ Request
    /\ LET c == hist.events + 1
       IN  /\ Device(Receive1(d, c))
           /\ hist' = [Spent EXCEPT !.accepted = IF Open THEN Append(@, c) ELSE @]
    /\ UNCHANGED lines

Break ==
    /\ Request
    /\ Device(ReceiveBreak(d))
    /\ hist' = [Spent EXCEPT !.owed = @ \/ Open,
                             !.accepted = IF Open /\ Len(d.recv) < FIFOLEN
                                          THEN Append(@, NUL) ELSE @]
    /\ UNCHANGED lines

LineChange ==
    /\ Request
    /\ lines' = IF "CTS" \in lines THEN lines \ {"CTS"} ELSE lines \union {"CTS"}
    /\ hist' = Spent
    /\ Device(d)

FifoTimeout == d.fifoTimer /\ Device(TimeoutInt(d)) /\ UNCHANGED <<lines, hist>>
ModemPoll == d.mslTimer /\ Device(UpdateMsl(d, lines)) /\ UNCHANGED <<lines, hist>>

-----------------------------------------------------------------------------

\* A new device; one that firmware used and left; one that was used and reset.
Used == Receive1(WriteIer(WriteFcr(Fresh, TRUE, None.level, FALSE, FALSE), All, {}), 1)

Init ==
    /\ d \in {[s EXCEPT !.real = TRUE] : s \in {Fresh, Used, Reset(TimeoutInt(Used))}}
    /\ lines = {"CTS", "DSR", "DCD"}
    /\ mode \in Modes
    /\ phase = "unknown"
    /\ up = [type |-> "unknown", ier |-> {}, saved |-> {}, bugs |-> {}]
    /\ tty = [stopped |-> FALSE, hwStopped |-> FALSE, throttled |-> FALSE, xchar |-> NUL]
    /\ xmit = <<>> /\ lock = "none"
    /\ h = Idle("idle") /\ con = [pc |-> "idle", ier |-> {}] /\ wr = "idle" /\ th = "idle"
    /\ hist = [events |-> 0, written |-> 0, queued |-> <<>>, got |-> <<>>, accepted |-> <<>>,
               owed |-> FALSE, ghosts |-> 0, flips |-> 0, taken |-> FALSE]

Handler ==
    \/ Enter \/ Identification \/ LineStatus \/ RxChar \/ Relock
    \/ Modem \/ ModemChange \/ TxCharsStep \/ XcharClear

Next ==
    \/ Probe
    \/ OpenClear \/ OpenLink \/ OpenTxen \/ OpenTxenEnd \/ OpenDrain \/ OpenEnable
    \/ OpenTermios \/ OpenCts
    \/ Close \/ CloseModem \/ CloseFifos \/ CloseUnlink
    \/ Handler \/ BackupTimeout
    \/ ConsoleBegin \/ ConsolePut \/ ConsoleEnd
    \/ TtyWrite \/ TtyWriteStart \/ TtyFlush \/ TtyStop \/ TtyStart
    \/ TtyThrottle \/ TtyThrottleEnd \/ TtyTxEmpty \/ TtyGetMctrl \/ TtySetTermios
    \/ Character \/ Break \/ LineChange \/ FifoTimeout \/ ModemPoll

Spec == Init /\ [][Next]_vars

-----------------------------------------------------------------------------
(* Properties. *)

TypeOK ==
    /\ d.ier \subseteq All /\ d.irq \in BOOLEAN /\ d.iir \in Causes
    /\ Len(d.recv) <= FIFOLEN /\ Len(xmit) <= XMIT_SIZE
    /\ up.ier \subseteq All /\ up.saved \subseteq LsrSave /\ up.bugs \subseteq {"THRE", "TXEN"}
    /\ lock \in {"none", "irq", "con", "open"}
    /\ (lock = "open") = (phase = "txen")
    /\ (lock = "irq") = (h.pc \in {"rx", "rxlsr", "msr", "cts", "tx", "xclear"})
    /\ (lock = "con") = (con.pc # "idle")

AllIdle == h.pc = "idle" /\ con.pc = "idle" /\ wr = "idle" /\ th = "idle"

\* Whatever state the device was left in, the probe finds a 16550A.  The backup timer is
\* used only where the port asks for it, whatever arrives during the first test.  The second
\* test takes the device for one that needs UART_BUG_TXEN, which it never does, only when
\* the handler, linked by then, read the identification before the test did.
ProbedRight ==
    /\ phase # "unknown" => up.type = "16550A"
    /\ "THRE" \in up.bugs => mode = "backup"
    /\ "TXEN" \in up.bugs /\ phase # "txen" => hist.taken

\* The characters of uart_write reach the line once and in order, with those still in the
\* ring behind them, through console output, flow control and every gap in the lock.
TxOrder == phase \in {"speed", "ready"} => UserChars(d.out) \o xmit = hist.queued

\* When nobody is in the driver and the ring may be sent, the transmit interrupt is pending:
\* the shadow of the interrupt mask, the device and the console never lose it between them.
Owed == xmit # <<>> /\ ~tty.stopped /\ ~tty.hwStopped
TxNoStall == phase = "ready" /\ AllIdle /\ Owed => d.irq

\* Every character the device took since the FIFO was enabled is delivered once and in order;
\* a read of an empty FIFO happens at most once per enabling under a waiting character.
RxOrder ==
    /\ Open => hist.got \o d.recv = hist.accepted
    /\ hist.ghosts <= hist.flips

\* A break that some other reader of the line status cleared is still accounted for
\* (lsr_saved_flags).  A FIFO enabled under a waiting character is left out: the read of the
\* character that is gone clears the flag of a break that came meanwhile.
BreakNotLost ==
    Open /\ hist.owed /\ hist.flips = 0 =>
        "BI" \in d.lsr \union up.saved \union (IF h.pc = "rx" THEN h.status ELSE {})

\* Between operations the device's interrupt mask is the driver's, except that the backup
\* timer restores the transmit bit that serial8250_tx_chars has just cleared.
IerShadow ==
    Open /\ Free => d.ier = up.ier \/ (mode = "backup" /\ d.ier = up.ier \union {"THRI"})

\* The driver's picture of the port has the shape its code expects and agrees with the device.
ShadowRight == TypeOK /\ IerShadow

\* Whoever reads the modem status handles the change it clears: with no change pending in the
\* device the transmitter is stopped exactly while CTS is down.
CtsFollowed ==
    CtsFlow /\ phase = "ready" /\ h.pc # "cts" /\ "DCTS" \notin d.msr
        => tty.hwStopped = ("CTS" \notin d.msr)

\* Registers that forget what they report: the status bits one part of the driver clears by
\* reading reach the part they are for.
StatusNotLost == BreakNotLost /\ CtsFollowed

\* The comment of serial8250_shutdown: it disables interrupts from this port.
QuietAfterClose == phase = "closed" => d.ier = {}

\* The comment of uart_send_xchar: it sends the character to the device.  An unthrottled port
\* with nothing pending has told its peer to go on.
XonSent ==
    phase = "ready" /\ AllIdle /\ ~tty.throttled /\ tty.xchar = NUL =>
        LET flow == SelectSeq(d.out, LAMBDA c : c > CON)
        IN  flow # <<>> => Last(flow) = START
=============================================================================
