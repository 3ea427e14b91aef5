------------------------------ MODULE CharMux ------------------------------
(***************************************************************************)
(* Input of the character layer of backup/qemu_linux4/qemu-char.c: a back  *)
(* end (telnet server, pseudo terminal, UDP socket or plain descriptor)    *)
(* read by QEMU's main loop, and either a UART directly behind it or the   *)
(* multiplexer between a monitor and that UART.                            *)
(*                                                                         *)
(* The main loop is single-threaded and releases the global lock only      *)
(* while it waits: it asks each back end how much it may read, waits,      *)
(* calls the handlers of the descriptors that are ready, runs the timers.  *)
(* The guest acts while it waits, so a size asked for before the wait is   *)
(* used after it.                                                          *)
(***************************************************************************)
EXTENDS Integers, Sequences, SequencesExt

CONSTANTS
    Kinds,              \* the back ends of an instance
    MUX_BUFFER_SIZE,
    FIFOLEN, Level,     \* depth and trigger level of the UART's FIFO, see Uart16550
    Backlogs,           \* whether the guest has left something unread at the start
    Letters,            \* bound: what the peers of each kind send of the alphabet
    MaxKeys,            \* bound: bytes the peer sends
    MaxGuest            \* bound: how often the guest writes to its UART

ASSUME CharAssumption ==
    /\ Kinds \subseteq {"telnet", "pty", "udp", "fd"} /\ Kinds # {}
    /\ MUX_BUFFER_SIZE \in Nat \ {0}
    /\ FIFOLEN \in Nat \ {0} /\ Level \in 1..FIFOLEN
    /\ Backlogs \subseteq BOOLEAN
    /\ MaxKeys \in Nat /\ MaxGuest \in Nat

VARIABLES
    kind, muxed,    \* the configuration: never change
    base,           \* the back end's CharDriverState and opaque record
    mux,            \* MuxDriver
    uart,           \* receive FIFO of the UART, and whether it is on
    loopback,       \* UART_MCR_LOOP
    loop,           \* where the main loop is, and the descriptors it waits for
    peer,           \* the other end of the descriptor, and the bytes in flight
    hist            \* history

charVars == <<kind, muxed, base, mux, uart, loopback, loop, peer, hist>>

MONITOR == 0    \* registered first, by qemu_chr_new
UART    == 1    \* registered last: has the focus, and hears the breaks of Ctrl-A b
FrontEnds == {MONITOR, UART}

\* What a byte is to the code that looks at it.  Keys carry a number to tell them apart.
Alphabet == {"key"} \union (IF kind = "telnet" THEN {"IAC", "IAC_BREAK"} ELSE {})
                    \union (IF muxed THEN {"escape", "c", "b"} ELSE {})
BREAK == <<"break", 0>>

least(a, b) == IF a < b THEN a ELSE b

-----------------------------------------------------------------------------
(* The front ends and the multiplexer.  `s' is a record [mux, uart, hist].  *)

\* serial_can_receive: up to the trigger level, above it one at a time.
UartCanReceive(u) ==
    LET n == Len(u.fifo)
    IN  IF ~u.fe THEN 1 - n
        ELSE IF n <= Level THEN Level - n
        ELSE IF n < FIFOLEN THEN 1 ELSE 0
FrontEndCanRead(s, f) == IF f = UART THEN UartCanReceive(s.uart) ELSE 1

\* What does not fit is an overrun: lost, or in place of the one before.
Depth(u) == IF u.fe THEN FIFOLEN ELSE 1
UartPut(u, b) ==
    IF Len(u.fifo) < Depth(u) THEN [u EXCEPT !.fifo = Append(@, b)]
    ELSE IF u.fe THEN u ELSE [u EXCEPT !.fifo = <<b>>]
\* A byte that finds no place, because of what the guest did or not.
Lose(h) == [h EXCEPT !.lost = IF h.shrunk /\ @ # "self" THEN "guest" ELSE "self"]
ToUart(s, b) ==
    [s EXCEPT !.uart = UartPut(@, b),
              !.hist = IF Len(s.uart.fifo) < Depth(s.uart) THEN @ ELSE Lose(@)]
\* qemu_chr_be_event(chr, CHR_EVENT_BREAK); the monitor does not listen for breaks.
\* Nobody asks the UART for room, and one byte above the trigger level it takes input again.
BeBreak(s) == [s EXCEPT !.uart = UartPut(@, BREAK), !.hist.stale[UART] = TRUE]
FrontEndRead(s, f, b) ==
    LET t == [s EXCEPT !.hist.got[f] = Append(@, b)]
    IN  IF f = UART THEN ToUart(t, b) ELSE t

\* prod++ & MUX_BUFFER_MASK: past a full ring the byte lands on the oldest one as well.
RingPut(r, b) ==
    [i \in 1..Len(r) + 1 |-> IF (Len(r) + 1 - i) % MUX_BUFFER_SIZE = 0 THEN b ELSE r[i]]
Buffer(s, m, b) ==
    [s EXCEPT !.mux.ring[m] = RingPut(@, b),
              !.hist = IF Len(s.mux.ring[m]) < MUX_BUFFER_SIZE THEN @ ELSE Lose(@)]

\* The loop ends at the first byte that the front end does not take.
Deliver(s, b) ==
    LET m == s.mux.focus
    IN  IF s.mux.ring[m] = <<>> \/ FrontEndCanRead(s, m) = 0 THEN s
        ELSE [FrontEndRead(s, m, b) EXCEPT !.mux.ring[m] = Tail(@)]
MuxAcceptInput(s) ==
    LET m == s.mux.focus
    IN  [FoldLeft(Deliver, s, s.mux.ring[m]) EXCEPT !.hist.stale[m] = FALSE]

\* One byte more than the ring has room for.
MuxCanReadOneMore(s) ==
    IF Len(s.mux.ring[s.mux.focus]) <= MUX_BUFFER_SIZE THEN 1
    ELSE FrontEndCanRead(s, s.mux.focus)
MuxCanRead(s) ==
    IF Len(s.mux.ring[s.mux.focus]) < MUX_BUFFER_SIZE THEN 1
    ELSE FrontEndCanRead(s, s.mux.focus)

SwitchFocus(s) ==
    [s EXCEPT !.mux.focus = (@ + 1) % 2, !.hist.stale[s.mux.focus] = TRUE]
MuxCommand(s, ch) ==
    LET t == [s EXCEPT !.mux.escaped = FALSE]
    IN  CASE ch = "c" -> SwitchFocus(t)
          [] ch = "b" -> BeBreak(t)
          [] OTHER    -> t
\* A second escape taken for a command.
ForFrontEndNoDouble(s, ch) == ~s.mux.escaped /\ ch # "escape"
\* The byte is for a front end unless it is the escape or follows it.
ForFrontEnd(s, ch) == s.mux.escaped = (ch = "escape")

MuxByte(s, m, b) ==
    IF ForFrontEnd(s, b[1])
    THEN LET t == [s EXCEPT !.mux.escaped = FALSE]
         IN  IF t.mux.ring[m] = <<>> /\ FrontEndCanRead(t, m) > 0
             THEN FrontEndRead(t, m, b)
             ELSE Buffer(t, m, b)
    ELSE IF s.mux.escaped THEN MuxCommand(s, b[1])
    ELSE [s EXCEPT !.mux.escaped = TRUE]

\* `m' is read once: bytes behind a switch in the same call go where the first one went.
MuxRead(s, buf) ==
    LET m == s.mux.focus
    IN  FoldLeft(LAMBDA a, b : MuxByte(a, m, b), MuxAcceptInput(s), buf)

BeCanWrite(s) == IF muxed THEN MuxCanRead(s) ELSE FrontEndCanRead(s, UART)
BeWrite(s, buf) ==
    LET tagged == [i \in 1..Len(buf) |-> <<buf[i], i = 1>>]
        t == [s EXCEPT !.hist.passed = @ \o tagged]
    IN  IF muxed THEN MuxRead(t, buf)
        ELSE FoldLeft(LAMBDA a, b : FrontEndRead(a, UART, b), t, buf)

State == [mux |-> mux, uart |-> uart, hist |-> hist]
Become(s) == mux' = s.mux /\ uart' = s.uart /\ hist' = s.hist

-----------------------------------------------------------------------------
(* The back ends.                                                          *)

\* An IAC BREAK counted as a set of three bytes.
IacByteBreakOfThree(a, b) ==
    IF a.opt > 1
    THEN IF b[1] = "IAC" /\ a.opt = 2 THEN [a EXCEPT !.out = Append(@, b), !.opt = 1]
         ELSE [a EXCEPT !.opt = IF a.opt + 1 >= 4 THEN 1 ELSE a.opt + 1]
    ELSE IF b[1] = "IAC" THEN [a EXCEPT !.opt = 2]
    ELSE [a EXCEPT !.out = Append(@, b)]
\* tcp_chr_process_IAC_bytes, one byte: a = [opt, out, breaks].
IacByte(a, b) ==
    IF a.opt > 1
    THEN IF b[1] = "IAC" /\ a.opt = 2 THEN [a EXCEPT !.out = Append(@, b), !.opt = 1]
         ELSE LET brk  == b[1] = "IAC_BREAK" /\ a.opt = 2
                  next == a.opt + (IF brk THEN 2 ELSE 1)
              IN  [a EXCEPT !.opt = IF next >= 4 THEN 1 ELSE next,
                            !.breaks = @ + (IF brk THEN 1 ELSE 0)]
    ELSE IF b[1] = "IAC" THEN [a EXCEPT !.opt = 2]
    ELSE [a EXCEPT !.out = Append(@, b)]

ProcessIac(opt, buf) == FoldLeft(IacByte, [opt |-> opt, out |-> <<>>, breaks |-> 0], buf)

\* qemu_chr_be_event sets `opened'; a generic open goes through a timer that is due at once.
GenericOpen(d) == [d EXCEPT !.openTimer = TRUE]
\* No CLOSED event.
ClosedSilently(d) == d
Closed(d) == [d EXCEPT !.opened = FALSE]

TcpDisconnect(d) == Closed([d EXCEPT !.connected = FALSE, !.handler = FALSE])
TcpConnect(d)    == GenericOpen([d EXCEPT !.connected = TRUE, !.handler = TRUE])

PtyUpdateReadHandler(d) == [d EXCEPT !.handler = TRUE, !.polling = TRUE, !.timer = "short"]
\* "Polling being cleared due read returning -EIO" left out.
PtyStateKeepsPolling(d, connected) ==
    IF connected
    THEN [(IF d.connected THEN d ELSE GenericOpen(d)) EXCEPT !.connected = TRUE]
    ELSE [d EXCEPT !.handler = FALSE, !.connected = FALSE, !.timer = "long"]
PtyState(d, connected) ==
    IF connected
    THEN [(IF d.connected THEN d ELSE GenericOpen(d)) EXCEPT !.connected = TRUE]
    ELSE [d EXCEPT !.handler = FALSE, !.connected = FALSE, !.polling = FALSE, !.timer = "long"]
PtyTimer(d) ==
    LET t == [d EXCEPT !.timer = "off"]
    IN  IF d.connected THEN t
        ELSE IF d.polling THEN PtyState(t, TRUE) ELSE PtyUpdateReadHandler(t)

\* Stray characters of the last datagram go first, one at a time.
StrayByte(a, b) ==
    IF a.buf = <<>> \/ BeCanWrite(a.s) = 0 THEN a
    ELSE [s |-> BeWrite(a.s, <<b>>), buf |-> Tail(a.buf)]
Stray(s, buf) == FoldLeft(StrayByte, [s |-> s, buf |-> buf], buf)

\* Without the loop.
UdpPollNoStray(s, buf) == [s |-> s, buf |-> buf]
UdpPoll(s, buf) == Stray(s, buf)

-----------------------------------------------------------------------------
(* The main loop.                                                          *)

\* qemu_iohandler_fill: a handler whose read_poll answers 0 is not waited for.
Asked(d) == d.handler /\ (kind = "telnet" => d.connected)
WaitFor(d, s, n) ==
    /\ loop' = [at |-> "wait", fd |-> Asked(d) /\ n > 0]
    /\ base' = [d EXCEPT !.size = IF Asked(d) THEN n ELSE @]
    /\ Become([s EXCEPT !.hist.shrunk = @ /\ s.mux.ring[UART] # <<>>])
PollWith(d, p) == WaitFor([d EXCEPT !.buf = p.buf], p.s, BeCanWrite(p.s))
Poll(d) ==
    PollWith(d, IF kind = "udp" THEN UdpPoll(State, d.buf) ELSE [s |-> State, buf |-> d.buf])

Handled == loop' = [loop EXCEPT !.at = "timers"]
Readable == loop.fd /\ (peer.pipe # <<>> \/ ~peer.up)

\* The kernel hands out what is there, a datagram whole.
Chunk == IF kind = "udp" THEN Head(peer.pipe)
         ELSE [i \in 1..least(base.size, Len(peer.pipe)) |-> peer.pipe[i][1]]
Rest  == IF kind = "udp" THEN Tail(peer.pipe)
         ELSE SubSeq(peer.pipe, Len(Chunk) + 1, Len(peer.pipe))

Heard == [State EXCEPT !.hist.raw = @ \o Chunk]

Breaks(s, n) == FoldLeft(LAMBDA a, i : BeBreak(a), s, [i \in 1..n |-> i])
Process(r) ==
    /\ base' = [base EXCEPT !.telnetopt = r.opt]
    /\ Become(IF r.out = <<>> THEN Breaks(Heard, r.breaks)
              ELSE BeWrite(Breaks(Heard, r.breaks), r.out))
ReadTelnet ==
    /\ kind = "telnet" /\ peer.pipe # <<>>
    /\ Process(ProcessIac(base.telnetopt, Chunk))
EofTelnet ==
    /\ kind = "telnet" /\ peer.pipe = <<>>
    /\ base' = TcpDisconnect(base)
    /\ UNCHANGED <<mux, uart, hist>>

ReadPty ==
    /\ kind = "pty" /\ peer.pipe # <<>>
    /\ base' = PtyState(base, TRUE)
    /\ Become(BeWrite(Heard, Chunk))
EofPty ==
    /\ kind = "pty" /\ peer.pipe = <<>>
    /\ base' = PtyState(base, FALSE)
    /\ UNCHANGED <<mux, uart, hist>>

\* The loop of udp_chr_read starts from the size that was asked for before the wait.
Kept(p) == base' = [base EXCEPT !.buf = p.buf] /\ Become(p.s)
ReadUdp ==
    /\ kind = "udp" /\ peer.pipe # <<>>
    /\ Kept(Stray(BeWrite(Heard, <<Head(Chunk)>>), Tail(Chunk)))

ReadFd ==
    /\ kind = "fd" /\ peer.pipe # <<>>
    /\ Become(BeWrite(Heard, Chunk))
    /\ UNCHANGED base
EofFd ==
    /\ kind = "fd" /\ peer.pipe = <<>>
    /\ base' = Closed([base EXCEPT !.handler = FALSE])
    /\ UNCHANGED <<mux, uart, hist>>

Dispatch ==
    /\ loop.at = "wait" /\ Readable
    /\ ReadTelnet \/ EofTelnet \/ ReadPty \/ EofPty \/ ReadUdp \/ ReadFd \/ EofFd
    /\ peer' = IF peer.pipe = <<>> THEN peer ELSE [peer EXCEPT !.pipe = Rest]
    /\ Handled
    /\ UNCHANGED <<kind, muxed, loopback>>

\* Waited for while nobody is connected; tcp_chr_add_client stops listening.
Knocking == kind = "telnet" /\ ~base.connected /\ peer.knocks
Accept ==
    /\ loop.at = "wait" /\ Knocking
    /\ base' = TcpConnect(base)
    /\ peer' = [peer EXCEPT !.knocks = FALSE]
    /\ hist' = [hist EXCEPT !.raw = <<>>, !.first = Len(hist.passed),
                            !.clean = (base.telnetopt = 1)]
    /\ Handled
    /\ UNCHANGED <<kind, muxed, mux, uart, loopback>>

\* The wait ends because a timer is due.
Nothing ==
    /\ loop.at = "wait" /\ ~Readable /\ ~Knocking
    /\ Handled
    /\ UNCHANGED <<kind, muxed, base, mux, uart, loopback, peer, hist>>

FireOpen(d) == IF d.openTimer THEN [d EXCEPT !.opened = TRUE, !.openTimer = FALSE] ELSE d

\* The timers run and the next round polls: the lock is held from one to the other.
TimersExpire ==
    /\ loop.at = "timers" /\ base.timer # "off"
    /\ Poll(FireOpen(PtyTimer(base)))
    /\ UNCHANGED <<kind, muxed, loopback, peer>>
Timers ==
    /\ loop.at = "timers"
    /\ Poll(FireOpen(base))
    /\ UNCHANGED <<kind, muxed, loopback, peer>>

-----------------------------------------------------------------------------
(* The guest and the peer, while the main loop waits.                       *)

\* A UART that does not call qemu_chr_accept_input.
GuestReadRbrQuiet ==
    /\ loop.at = "wait" /\ uart.fifo # <<>>
    /\ Become([State EXCEPT !.uart.fifo = Tail(@)])
    /\ UNCHANGED <<kind, muxed, base, loopback, loop, peer>>
\* In loopback nobody hears of the room.  Down to the trigger level, the UART takes no more
\* at all, whatever it said above it.
Unheard(s) == [s EXCEPT !.hist.stale[UART] = TRUE, !.hist.shrunk = TRUE]
GuestReadRbr ==
    /\ loop.at = "wait" /\ uart.fifo # <<>>
    /\ LET s == [State EXCEPT !.uart.fifo = Tail(@)]
       IN  Become(IF ~muxed THEN s ELSE IF loopback THEN Unheard(s) ELSE MuxAcceptInput(s))
    /\ UNCHANGED <<kind, muxed, base, loopback, loop, peer>>

GuestWriteMcr ==
    /\ loop.at = "wait" /\ hist.guest < MaxGuest
    /\ loopback' = ~loopback
    /\ hist' = [hist EXCEPT !.guest = @ + 1]
    /\ UNCHANGED <<kind, muxed, base, mux, uart, loop, peer>>

\* A reset of the FIFO, or a change of FCR_FE, empties it and calls nobody.  A character
\* looped back fills it, and nobody was asked for room.
GuestSetsFifo(u) ==
    /\ loop.at = "wait" /\ hist.guest < MaxGuest
    /\ uart' = u
    /\ hist' = [hist EXCEPT !.guest = @ + 1, !.shrunk = TRUE, !.stale[UART] = TRUE]
    /\ UNCHANGED <<kind, muxed, base, mux, loopback, loop, peer>>
GuestWriteFcr == \E fe \in BOOLEAN : GuestSetsFifo([fe |-> fe, fifo |-> <<>>])
GuestLoopsBack == loopback /\ GuestSetsFifo(UartPut(uart, BREAK))

\* Only the pseudo terminal looks at a write: it checks for a new connection.
GuestWriteThr ==
    /\ loop.at = "wait" /\ ~loopback
    /\ kind = "pty" /\ ~base.connected /\ hist.guest < MaxGuest
    /\ base' = PtyUpdateReadHandler(base)
    /\ hist' = [hist EXCEPT !.guest = @ + 1]
    /\ UNCHANGED <<kind, muxed, mux, uart, loopback, loop, peer>>

\* A datagram of two bytes does not fit one call of the multiplexer.
Chunks(n) ==
    IF kind = "udp" THEN {<<<<"key", n + 1>>, <<c, n + 2>>>> : c \in Alphabet \intersect Letters[kind]}
    ELSE {<<<<c, n + 1>>>> : c \in Alphabet \intersect Letters[kind]}
PeerSends ==
    /\ loop.at = "wait" /\ peer.up
    /\ \E chunk \in Chunks(peer.sent) :
        /\ peer.sent + Len(chunk) <= MaxKeys
        /\ peer' = [peer EXCEPT !.pipe = Append(@, chunk), !.sent = @ + Len(chunk)]
    /\ UNCHANGED <<kind, muxed, base, mux, uart, loopback, loop, hist>>

\* One client at a time: the next one comes when the last one's bytes are read.
PeerOpens ==
    /\ loop.at = "wait" /\ kind \in {"telnet", "pty"} /\ ~peer.up
    /\ kind = "telnet" => ~base.connected /\ ~peer.knocks
    /\ peer' = [peer EXCEPT !.up = TRUE, !.knocks = (kind = "telnet")]
    /\ UNCHANGED <<kind, muxed, base, mux, uart, loopback, loop, hist>>
PeerCloses ==
    /\ loop.at = "wait" /\ kind # "udp" /\ peer.up
    /\ peer' = [peer EXCEPT !.up = FALSE]
    /\ UNCHANGED <<kind, muxed, base, mux, uart, loopback, loop, hist>>

-----------------------------------------------------------------------------
Pristine == [connected |-> FALSE, handler |-> FALSE, telnetopt |-> 0, size |-> 0,
             polling |-> FALSE, timer |-> "off", buf |-> <<>>,
             opened |-> FALSE, openTimer |-> FALSE]
\* After qemu_chr_open_* and the front end's qemu_chr_add_handlers.
Opened(k) ==
    CASE k = "telnet" -> [Pristine EXCEPT !.telnetopt = 1]
      [] k = "pty"    -> PtyUpdateReadHandler(Pristine)
      [] k = "udp"    -> [Pristine EXCEPT !.handler = TRUE]
      [] k = "fd"     -> GenericOpen([Pristine EXCEPT !.handler = TRUE])

\* The first round waits.  A UART nobody has used, or one whose guest has left breaks unread,
\* behind a full ring, and perhaps set loopback.
Init ==
    \E k \in Kinds, m \in BOOLEAN, backlog \in Backlogs :
    LET first == IF m /\ backlog THEN [i \in 1..MUX_BUFFER_SIZE |-> <<"key", -i>>] ELSE <<>>
    IN
    /\ kind = k /\ muxed = m
    /\ mux = [focus |-> UART, escaped |-> FALSE,
              ring |-> [f \in FrontEnds |-> IF f = UART THEN first ELSE <<>>]]
    /\ uart = [fe |-> TRUE, fifo |-> IF backlog THEN [i \in 1..Level |-> BREAK] ELSE <<>>]
    /\ loopback \in {FALSE, backlog}
    /\ peer = [up |-> kind \in {"udp", "fd"}, knocks |-> FALSE, pipe |-> <<>>, sent |-> 0]
    /\ hist = [raw |-> first, passed |-> [i \in 1..Len(first) |-> <<first[i], TRUE>>],
               first |-> 0, clean |-> TRUE,
               got |-> [f \in FrontEnds |-> <<>>], stale |-> [f \in FrontEnds |-> FALSE],
               shrunk |-> FALSE, lost |-> "no", guest |-> 0]
    /\ base = [Opened(k) EXCEPT !.size = BeCanWrite(State)]
    /\ loop = [at |-> "wait", fd |-> Asked(base) /\ base.size > 0]

Next ==
    \/ Dispatch \/ Accept \/ Nothing \/ Timers \/ TimersExpire
    \/ GuestReadRbr \/ GuestWriteMcr \/ GuestWriteFcr \/ GuestLoopsBack \/ GuestWriteThr
    \/ PeerSends \/ PeerOpens \/ PeerCloses

Spec == Init /\ [][Next]_charVars

\* The main loop keeps coming round, a timer that is armed expires, the guest reads what it has.
FairSpec ==
    /\ Spec
    /\ []<>(loop.at = "wait") /\ []<>(loop.at = "timers")
    /\ SF_charVars(TimersExpire) /\ SF_charVars(GuestReadRbr)

-----------------------------------------------------------------------------
(* Properties.                                                              *)

Bytes == (Alphabet \X (-MUX_BUFFER_SIZE..MaxKeys)) \union {BREAK}

TypeOK ==
    /\ base.size \in 0..FIFOLEN /\ base.telnetopt \in 0..3
    /\ base.timer \in {"off", "short", "long"}
    /\ base.buf \in Seq(Bytes) /\ base.polling = (kind = "pty" /\ base.handler)
    /\ base.connected => base.handler
    /\ mux.focus \in FrontEnds /\ mux.escaped \in BOOLEAN
    /\ \A f \in FrontEnds : mux.ring[f] \in Seq(Bytes)
    /\ uart.fifo \in Seq(Bytes) /\ Len(uart.fifo) <= Depth(uart) /\ loopback \in BOOLEAN
    /\ loop.at \in {"wait", "timers"} /\ loop.fd \in BOOLEAN

\* What the back end asks for before it waits still fits when it has read it: no byte runs
\* over the UART's FIFO or over the ring, commands, breaks and switches included, unless the
\* guest changed or filled its FIFO, or read it in loopback, since the last poll or since the
\* ring was last empty.
AskedForFits ==
    /\ hist.lost # "self"
    /\ \A f \in FrontEnds : Len(mux.ring[f]) <= MUX_BUFFER_SIZE \/ hist.shrunk

\* The buffers keep within their bounds, because every read asks for room first.
Fits == TypeOK /\ AskedForFits

Bare(passed) == [i \in 1..Len(passed) |-> passed[i][1]]

\* Telnet, read whole: IAC IAC is an IAC, IAC BREAK two bytes, any other command three.
Decode(s) ==
    LET from[i \in 1..Len(s) + 3] ==
            IF i > Len(s) THEN <<>>
            ELSE IF s[i][1] # "IAC" THEN <<s[i]>> \o from[i + 1]
            ELSE IF i = Len(s) THEN <<>>
            ELSE CASE s[i + 1][1] = "IAC"       -> <<s[i + 1]>> \o from[i + 2]
                   [] s[i + 1][1] = "IAC_BREAK" -> from[i + 2]
                   [] OTHER                     -> from[i + 3]
    IN  from[1]

\* Wherever the reads cut the stream, the front end is given what the connection says, in
\* order and once; a datagram of which only a part fits goes on later.  (A connection that
\* begins in the middle of the last one's command is excepted: do_telnetopt survives.)
Decoded ==
    LET given == SubSeq(Bare(hist.passed), hist.first + 1, Len(hist.passed))
    IN  IF kind = "telnet" THEN hist.clean => given = Decode(hist.raw)
        ELSE hist.raw = given \o base.buf

\* The multiplexer without buffers: a byte that is no command goes to the front end that
\* had the focus when the call that carries it began.
RouteByte(a, p) ==
    LET b == p[1]
        m == IF p[2] THEN a.focus ELSE a.m
        n == [a EXCEPT !.m = m, !.escaped = FALSE]
    IN  IF a.escaped = (b[1] = "escape") THEN [n EXCEPT !.to[m] = Append(@, b)]
        ELSE IF ~a.escaped THEN [n EXCEPT !.escaped = TRUE]
        ELSE IF b[1] = "c" THEN [n EXCEPT !.focus = 1 - @] ELSE n
Unrouted == [focus |-> UART, m |-> UART, escaped |-> FALSE, to |-> [f \in FrontEnds |-> <<>>]]
Routing(passed) == FoldLeft(RouteByte, Unrouted, passed)
Route(passed) == Routing(passed).to

\* Whatever the front ends accept and when, each gets, or has waiting, its bytes in order.
Routed ==
    hist.lost = "no" =>
        IF muxed THEN \A f \in FrontEnds : hist.got[f] \o mux.ring[f] = Route(hist.passed)[f]
        ELSE hist.got[UART] = Bare(hist.passed)

\* When the main loop waits, the front end in focus has no byte waiting that it would take,
\* unless the focus has been away, the guest changed its FIFO, looped back or read in loopback,
\* or a break came since the last delivery.  (A break into a FIFO filled to its trigger level
\* makes the UART take one more.)
NoStall ==
    muxed /\ loop.at = "wait" =>
        LET m == mux.focus
        IN  mux.ring[m] = <<>> \/ FrontEndCanRead(State, m) = 0 \/ hist.stale[m]

\* The telnet server's front end knows whether somebody is connected each time round the
\* loop: OPENED goes through a timer and CLOSED does not, and neither is left standing.
OpenedTruth ==
    kind = "telnet" /\ loop.at = "wait" => (base.opened <=> base.connected) /\ ~base.openTimer

\* "If we arrive here without polling being cleared due read returning -EIO, then we are
\* (re-)connected": so it is when the descriptor was waited for in this round.
ConnectedIsReal ==
    [][TimersExpire /\ base'.connected /\ ~base.connected /\ loop.fd => peer.up]_charVars

\* Somebody who stays at the pseudo terminal is noticed, and when he has left, that too: the
\* back end's view and the truth never differ for ever.
PtyNotices == []<>(kind = "pty" => (peer.up <=> base.connected))

\* The timer's guess about the pseudo terminal is never wrong for long, and never made up.
PtyTruth == ConnectedIsReal /\ PtyNotices

\* What the peer sends is read and handed on, whatever room there is at the time.
InputDrains == []<>(peer.pipe = <<>> /\ base.buf = <<>>)

(* Claims of the source that the code does not keep. *)

\* qemu-char.c:504, "Switch to the next registered device".
SwitchIsImmediate ==
    muxed /\ hist.lost = "no" =>
        LET one == [i \in 1..Len(hist.passed) |-> <<hist.passed[i][1], TRUE>>]
        IN  \A f \in FrontEnds : hist.got[f] \o mux.ring[f] = Route(one)[f]
\* qemu-char.c:1100, without the proviso of ConnectedIsReal.
ConnectedMeansSomebody ==
    [][TimersExpire /\ base'.connected /\ ~base.connected => peer.up]_charVars
\* qemu-char.c:2334, "All IAC options will be removed from the buf".
OptionsRemoved ==
    kind = "telnet" =>
        SubSeq(Bare(hist.passed), hist.first + 1, Len(hist.passed)) = Decode(hist.raw)
=============================================================================
