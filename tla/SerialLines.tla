---------------------------- MODULE SerialLines ----------------------------
(***************************************************************************)
(* The table of serial lines in backup/qemu_linux0/8250/8250.c and the     *)
(* boards that share it: PCI cards (8250_pci.c), PnP devices (8250_pnp.c), *)
(* platform devices and the legacy ports.  Boards come and go, sleep and   *)
(* fail while others register; each registration and each removal of one   *)
(* line holds serial_mutex and is one step, a board's probe is many.       *)
(*                                                                         *)
(* A line remembers the address it last had and is handed to whoever asks, *)
(* so that a board's notes about its lines and the table can disagree.     *)
(***************************************************************************)
EXTENDS PciBoards

CONSTANTS
    Boards,         \* names of boards
    Systems,        \* the machines of an instance: [nr, legacy, silent, card]
    OpenWhileDown,  \* may users open a line between a board's error and its recovery?
    MaxOpen,        \* bound: lines open at a time
    MaxEnable       \* bound: how far a PCI enable count moves from zero

ASSUME LinesAssumption ==
    /\ OpenWhileDown \in BOOLEAN
    /\ MaxOpen \in Nat /\ MaxEnable \in Nat \ {0}
    /\ \A m \in Systems : m.nr \in Nat \ {0} /\ DOMAIN m.card = Boards

VARIABLES
    sys,        \* the machine: never changes
    loaded,     \* is 8250.ko loaded? (serial8250_isa_devs # NULL)
    line,       \* serial8250_ports and what the serial core holds about each
    claimed,    \* the resource tree: <<address, line>>
    board       \* what each board's driver keeps: struct serial_private, drvdata

vars == <<sys, loaded, line, claimed, board>>

None  == <<>>       \* no address, no mapping
Lines == 0..sys.nr - 1
Card(b) == sys.card[b]
Pci(b) == Card(b).bus = "pci"
Plat(b) == Card(b).bus = "plat"

-----------------------------------------------------------------------------
(* The ports of a board.                                                   *)

NumPorts(b) ==
    IF Pci(b) THEN Card(b).n ELSE Len(Card(b).at)

\* 8250_pnp.c drives the devices of its table; a device that a wildcard entry (PNPCXXX, PNPDXXX)
\* brought is guessed at: a modem by its name, that can be configured at a COM address.
serial_pnp_guess_board(c) == c.modemName /\ c.comPossible
PnpAccepts(c) == (c.listed \/ serial_pnp_guess_board(c)) /\ c.at # <<>>

\* setup_port: the address and, for memory, the mapping of the whole register.
SetupPort(b, place) ==
    LET at  == <<b, place[1], place[2]>>
        mem == Card(b).bars[place[1]].kind = "mem"
    IN  [iotype |-> IF mem THEN "mem" ELSE "port", remap |-> FALSE,
         iobase |-> IF mem THEN None ELSE at, mapbase |-> IF mem THEN at ELSE None,
         map |-> IF mem THEN <<b, place[1]>> ELSE None]
\* serial_pnp_probe, serial8250_probe: an address; memory is mapped when it is claimed.
GivenPort(a) ==
    [iotype |-> a[1], remap |-> a[1] = "mem", map |-> None,
     iobase |-> IF a[1] = "port" THEN a ELSE None, mapbase |-> IF a[1] = "mem" THEN a ELSE None]
Port(b, i) ==
    IF Pci(b) THEN SetupPort(b, PciPlace(Card(b), i)) ELSE GivenPort(Card(b).at[i + 1])
Fits(b, i) == Pci(b) => PciPlace(Card(b), i)[1] \in 0..NUM_BARS - 1

-----------------------------------------------------------------------------
(* The table.  `s' is a record [line, claimed].                            *)

Address(l) == IF l.iotype = "port" THEN l.iobase ELSE l.mapbase
Busy(s, a) == \E c \in s.claimed : c[1] = a

\* serial8250_release_std_resource: the region goes by its address, whoever has it.
Release(s, i) ==
    [s EXCEPT !.claimed = {c \in @ : c[1] # Address(s.line[i])},
              !.line[i].map = IF s.line[i].remap THEN None ELSE @]

\* uart_remove_one_port: users are hung up, the region is given back.
RemoveOne(s, i) ==
    [(IF s.line[i].known THEN Release(s, i) ELSE s)
        EXCEPT !.line[i].known = FALSE, !.line[i].attached = FALSE, !.line[i].use = "closed"]

\* config_port: the region is claimed for the probe, and kept if a UART answers.
Configure(s, i) ==
    LET a == Address(s.line[i])
    IN  IF a = None \/ ~s.line[i].boot THEN s
        ELSE IF Busy(s, a) \/ a \in sys.silent THEN [s EXCEPT !.line[i].known = FALSE]
        ELSE [s EXCEPT !.line[i].known = TRUE, !.claimed = @ \union {<<a, i>>},
                       !.line[i].map = IF s.line[i].remap THEN <<"own">> ELSE @]

AddOne(s, i) ==
    IF s.line[i].attached THEN s ELSE Configure([s EXCEPT !.line[i].attached = TRUE], i)

Match(l, p) == l.iotype = p.iotype /\ Address(l) = Address(p)

\* A defect: "hasn't been previously used (indicated by zero iobase)" taken as enough.
ChosenByBase(s, p) ==
    LET same   == {i \in Lines : Match(s.line[i], p)}
        unused == {i \in Lines : s.line[i].iobase = None}
        free   == {i \in Lines : ~s.line[i].known}
    IN  IF same # {} THEN same ELSE IF unused # {} THEN unused ELSE free
\* serial8250_find_match_or_unused takes the first of these.
Chosen(s, p) ==
    LET same   == {i \in Lines : Match(s.line[i], p)}
        free   == {i \in Lines : ~s.line[i].known}
        unused == {i \in free : s.line[i].iobase = None}
    IN  IF same # {} THEN same ELSE IF unused # {} THEN unused ELSE free

Register(s, p, b, i) ==
    AddOne([RemoveOne(s, i) EXCEPT
              !.line[i] = [@ EXCEPT !.iotype = p.iotype, !.iobase = p.iobase, !.map = p.map,
                                    !.mapbase = p.mapbase, !.remap = p.remap,
                                    !.boot = TRUE, !.dev = b]], i)

\* The line goes back to the legacy device, without being probed again.
Unregister(s, i) ==
    AddOne([RemoveOne(s, i) EXCEPT !.line[i].boot = FALSE, !.line[i].dev = "isa"], i)

Table == [line |-> line, claimed |-> claimed]
Become(s) == line' = s.line /\ claimed' = s.claimed

\* uart_suspend_port and uart_resume_port, as far as they start and stop the port.
Stopped(s, ports) ==
    [s EXCEPT !.line = [i \in Lines |->
        IF i \in ports /\ @[i].use = "running" THEN [@[i] EXCEPT !.use = "asleep"] ELSE @[i]]]
Restarted(s, ports, ok) ==
    [s EXCEPT !.line = [i \in Lines |->
        IF i \in ports /\ @[i].use = "asleep"
        THEN [@[i] EXCEPT !.use = IF ok THEN "running" ELSE "closed"] ELSE @[i]]]

\* The lines a driver believes to be its board's.
Noted(b) == {board[b].lines[k] : k \in DOMAIN board[b].lines}
\* A defect: the walk over the lines ends one early.
PortsButLast(b) ==
    IF Plat(b) THEN {i \in Lines : line[i].known /\ line[i].dev = b}
    ELSE {board[b].lines[k] : k \in 1..Len(board[b].lines) - 1}
Ports(b) ==
    IF Plat(b) THEN {i \in Lines : line[i].known /\ line[i].dev = b} ELSE Noted(b)

-----------------------------------------------------------------------------
(* Probe and removal.                                                      *)

\* pci_enable_device and pci_disable_device: the device is switched at the ends of the count.
Enabled(d)  == [d EXCEPT !.cnt = @ + 1, !.on = TRUE]
Disabled(d) == [d EXCEPT !.cnt = @ - 1, !.on = (@ /\ d.cnt # 1)]

Goto(b, st) == board' = [board EXCEPT ![b].st = st]
\* The system sleeps: user processes are frozen, and no driver is bound or unbound.
Frozen == \E b \in Boards : board[b].st = "asleep"

Bind(b) ==
    /\ loaded /\ ~Frozen /\ board[b].st = "unbound" /\ NumPorts(b) # Nodev
    /\ Card(b).bus = "pnp" => PnpAccepts(Card(b))
    /\ board' = [board EXCEPT ![b] = [(IF Pci(b) THEN Enabled(@) ELSE @)
                                         EXCEPT !.st = "probing", !.next = 0]]
    /\ UNCHANGED <<sys, loaded, line, claimed>>

\* The board's init function fails, it is not to be guessed, or there is no memory.
BindFails(b) ==
    /\ loaded /\ ~Frozen /\ board[b].st = "unbound" /\ Pci(b)
    /\ board' = [board EXCEPT ![b] = Disabled(Enabled(@))]
    /\ UNCHANGED <<sys, loaded, line, claimed>>

\* PCI: the first port that cannot be had ends the probe, with the ports there are.  PnP: no
\* port, no driver.  Platform: the next one is tried.
NoPort(b, maps) ==
    LET d == board[b]
    IN  board' = [board EXCEPT ![b] =
            CASE Pci(b)  -> [d EXCEPT !.st = "bound", !.maps = d.maps \union maps]
              [] Plat(b) -> [d EXCEPT !.next = d.next + 1]
              [] OTHER   -> [d EXCEPT !.st = "unbound"]]

\* A port that does not exist, or whose registers cannot be mapped.
SetupFails(b) ==
    /\ board[b].st = "probing" /\ board[b].next < NumPorts(b) /\ Pci(b)
    /\ Fits(b, board[b].next) => /\ Port(b, board[b].next).iotype = "mem"
                                 /\ Port(b, board[b].next).map \notin board[b].maps
    /\ NoPort(b, {})
    /\ UNCHANGED <<sys, loaded, line, claimed>>

RegisterAt(b, p, i) ==
    /\ Become(Register(Table, p, b, i))
    /\ board' = [board EXCEPT ![b].next = @ + 1,
                              ![b].lines = IF Plat(b) THEN @ ELSE Append(@, i),
                              ![b].maps = IF Pci(b) THEN @ \union {p.map} ELSE @]
RegisterPort(b, p) ==
    \/ Chosen(Table, p) # {} /\ RegisterAt(b, p, Min(Chosen(Table, p)))
    \/ /\ Chosen(Table, p) = {} /\ NoPort(b, {p.map})
       /\ UNCHANGED <<line, claimed>>
RegisterNext(b) ==
    /\ board[b].st = "probing" /\ board[b].next < NumPorts(b) /\ Fits(b, board[b].next)
    /\ RegisterPort(b, Port(b, board[b].next))
    /\ UNCHANGED <<sys, loaded>>

Bound(b) ==
    /\ board[b].st = "probing" /\ board[b].next = NumPorts(b)
    /\ Goto(b, "bound")
    /\ UNCHANGED <<sys, loaded, line, claimed>>

\* An unplugged card, rmmod of its driver, or unbind; a board in trouble is no exception.
Unbind(b) ==
    /\ ~Frozen /\ board[b].st \in {"bound", "error", "reset", "dead"}
    /\ board' = [board EXCEPT ![b].st = "removing", ![b].next = 0]
    /\ UNCHANGED <<sys, loaded, line, claimed>>

\* The lines noted at probe; or every line of the table that names the platform device.
ToUnregister(b) ==
    IF Plat(b) THEN {i \in Lines : line[i].dev = b}
    ELSE IF board[b].next < Len(board[b].lines) THEN {board[b].lines[board[b].next + 1]} ELSE {}
UnregisterNext(b) ==
    /\ board[b].st = "removing" /\ ToUnregister(b) # {}
    /\ Become(Unregister(Table, Min(ToUnregister(b))))
    /\ board' = [board EXCEPT ![b].next = @ + 1]
    /\ UNCHANGED <<sys, loaded>>
Unbound(b) ==
    /\ board[b].st = "removing" /\ ToUnregister(b) = {}
    /\ board' = [board EXCEPT ![b] = [(IF Pci(b) THEN Disabled(@) ELSE @)
                                         EXCEPT !.st = "unbound", !.lines = <<>>, !.maps = {}]]
    /\ UNCHANGED <<sys, loaded, line, claimed>>

-----------------------------------------------------------------------------
(* Sleep, and recovery from bus errors.                                     *)

Settled == \A b \in Boards : board[b].st \in {"unbound", "bound", "asleep"}

Suspend(b) ==
    /\ Settled /\ board[b].st = "bound" /\ board[b].cnt < MaxEnable
    /\ Become(Stopped(Table, Ports(b)))
    /\ Goto(b, "asleep")
    /\ UNCHANGED <<sys, loaded>>
\* A PCI device is enabled once more: nothing was disabled.
Resume(b) ==
    /\ board[b].st = "asleep"
    /\ \E ok \in BOOLEAN : Become(Restarted(Table, Ports(b), ok))
    /\ board' = [board EXCEPT ![b] = [(IF Pci(b) THEN Enabled(@) ELSE @) EXCEPT !.st = "bound"]]
    /\ UNCHANGED <<sys, loaded>>

ErrorDetected(b) ==
    /\ ~Frozen /\ board[b].st = "bound" /\ Pci(b) /\ board[b].cnt > -MaxEnable
    /\ Become(Stopped(Table, Ports(b)))
    /\ board' = [board EXCEPT ![b] = [Disabled(@) EXCEPT !.st = "error"]]
    /\ UNCHANGED <<sys, loaded>>
\* The link comes back, or the device cannot be enabled and is given up.
SlotReset(b) ==
    /\ ~Frozen /\ board[b].st = "error"
    /\ \/ board' = [board EXCEPT ![b] = [Enabled(@) EXCEPT !.st = "reset"]]
       \/ Goto(b, "dead")
    /\ UNCHANGED <<sys, loaded, line, claimed>>
ErrorResume(b) ==
    /\ ~Frozen /\ board[b].st = "reset"
    /\ \E ok \in BOOLEAN : Become(Restarted(Table, Ports(b), ok))
    /\ Goto(b, "bound")
    /\ UNCHANGED <<sys, loaded>>

-----------------------------------------------------------------------------
(* Users, and the module itself.                                            *)

InUse == {i \in Lines : line[i].use # "closed"}
\* Nothing in uart_open asks whether the board of the line is there.
Down(i) == line[i].dev \in Boards /\ board[line[i].dev].st \in {"error", "reset", "dead"}

Open(i) ==
    /\ ~Frozen /\ line[i].attached /\ line[i].known /\ line[i].use = "closed"
    /\ Cardinality(InUse) < MaxOpen
    /\ OpenWhileDown \/ ~Down(i)
    /\ line' = [line EXCEPT ![i].use = "running"]
    /\ UNCHANGED <<sys, loaded, claimed, board>>
Close(i) ==
    /\ ~Frozen /\ line[i].use # "closed"
    /\ line' = [line EXCEPT ![i].use = "closed"]
    /\ UNCHANGED <<sys, loaded, claimed, board>>

\* serial8250_isa_init_ports: a table nobody has used, with the legacy addresses.
Fresh(a) ==
    [iotype |-> "port", iobase |-> a, mapbase |-> None, map |-> None, remap |-> FALSE,
     boot |-> a # None, known |-> FALSE, dev |-> "isa", attached |-> FALSE, use |-> "closed"]
FreshLines(m) ==
    [i \in 0..m.nr - 1 |-> Fresh(IF i < Len(m.legacy) THEN m.legacy[i + 1] ELSE None)]
AllAdded(s) ==
    LET after[i \in 0..sys.nr] == IF i = 0 THEN s ELSE AddOne(after[i - 1], i - 1)
    IN  after[sys.nr]
Load ==
    /\ ~loaded
    /\ loaded' = TRUE
    /\ Become(AllAdded([line |-> FreshLines(sys), claimed |-> claimed]))
    /\ UNCHANGED <<sys, board>>

\* serial8250_exit: 8250_pci and 8250_pnp use its symbols and are gone; no line is open.  The
\* lines of the platform devices and the legacy ones are removed for good.
Unload ==
    /\ loaded /\ ~Frozen /\ InUse = {}
    /\ \A b \in Boards : board[b].st = "unbound" \/ (Plat(b) /\ board[b].st = "bound")
    /\ loaded' = FALSE
    /\ board' = [b \in Boards |-> [board[b] EXCEPT !.st = "unbound"]]
    /\ LET mine == {i \in Lines : line[i].dev = "isa" \/ line[i].dev \in Boards}
           after[i \in 0..sys.nr] ==
               IF i = 0 THEN Table
               ELSE IF i - 1 \in mine
               THEN [RemoveOne(after[i - 1], i - 1) EXCEPT !.line[i - 1].dev = "none"]
               ELSE after[i - 1]
       IN  Become(after[sys.nr])
    /\ UNCHANGED sys

Init ==
    /\ sys \in Systems
    /\ loaded = FALSE
    /\ line = [i \in Lines |-> [Fresh(None) EXCEPT !.dev = "none"]]
    /\ claimed = {}
    /\ board = [b \in Boards |-> [st |-> "unbound", next |-> 0, lines |-> <<>>, maps |-> {},
                                  cnt |-> 0, on |-> FALSE]]

Next ==
    \/ Load \/ Unload
    \/ \E b \in Boards :
        \/ Bind(b) \/ BindFails(b) \/ SetupFails(b) \/ RegisterNext(b) \/ Bound(b)
        \/ Unbind(b) \/ UnregisterNext(b) \/ Unbound(b)
        \/ Suspend(b) \/ Resume(b) \/ ErrorDetected(b) \/ SlotReset(b) \/ ErrorResume(b)
    \/ \E i \in Lines : Open(i) \/ Close(i)

Spec == Init /\ [][Next]_vars

-----------------------------------------------------------------------------
(* Properties.                                                              *)

TypeOK ==
    /\ \A i \in Lines :
        /\ line[i].iotype \in {"port", "mem"} /\ line[i].use \in {"closed", "running", "asleep"}
        /\ line[i].dev \in Boards \union {"isa", "none"}
        /\ line[i].use # "closed" => line[i].attached /\ line[i].known
    /\ \A b \in Boards : board[b].next \in 0..sys.nr + NumPorts(b)

\* The lines of a board whose removal has not come to them yet.
Kept(b) == {k \in DOMAIN board[b].lines : board[b].st = "removing" => k > board[b].next}

\* What a board's driver notes about its lines is what the table says of them, and nobody
\* else's line names the board, however registrations and removals interleave.
OneOwner ==
    \A b \in Boards :
        /\ \A k \in Kept(b) : LET l == line[board[b].lines[k]]
                              IN  l.attached /\ l.dev = b /\ Address(l) = Address(Port(b, k - 1))
        /\ \A j, k \in Kept(b) : board[b].lines[j] = board[b].lines[k] => j = k
        /\ ~Plat(b) => {i \in Lines : line[i].dev = b} = {board[b].lines[k] : k \in Kept(b)}

\* Every port lies within an address register that the board has.
Abs(x) == IF x < 0 THEN -x ELSE x
Width(c, bar) == IF c.bars[bar].kind = "mem" THEN 8 * 2^c.board.shift ELSE 8
PortsInside ==
    \A b \in Boards : Pci(b) => \A k \in DOMAIN board[b].lines :
        LET place == PciPlace(Card(b), k - 1)
            bar   == Card(b).bars[place[1]]
        IN  bar.kind # "none" /\ place[2] + Width(Card(b), place[1]) <= bar.len

\* A region is claimed for each detected port, for it alone, and for nothing else; an
\* unloaded driver leaves nothing behind.
RegionsExact ==
    /\ claimed = {<<Address(line[i]), i>> : i \in {j \in Lines : line[j].known}}
    /\ \A c, d \in claimed : c[1] = d[1] => c = d
    /\ ~loaded => claimed = {} /\ \A i \in Lines : ~line[i].attached

\* The table, the boards' notes and the resource tree agree.
LinesOwned == TypeOK /\ OneOwner /\ PortsInside /\ RegionsExact

\* A detected port is mapped, and a port that runs belongs to a board that is switched on
\* and awake: nothing touches registers that are not there.
Reachable ==
    \A i \in Lines :
        /\ line[i].known /\ line[i].iotype = "mem" =>
            \/ line[i].map = <<"own">>
            \/ \E b \in Boards : line[i].map \in board[b].maps
        /\ line[i].use = "running" /\ line[i].dev \in Boards =>
            LET b == board[line[i].dev]
            IN  b.st \in {"probing", "bound", "removing"} /\ (Pci(line[i].dev) /\ b.st # "removing" => b.on)

\* The three tables of 8250_pci.c agree: each port that a board is said to have lies in one
\* of its address registers, apart from the others.  Only a board that says "as many as fit"
\* may promise more.
PortsPlaced ==
    \A b \in Boards : Pci(b) =>
        LET c == Card(b)
        IN  \A i \in 0..NumPorts(b) - 1 :
                LET p == PciPlace(c, i)
                IN  IF p = Refused THEN c.board.cap
                    ELSE /\ p[1] \in 0..NUM_BARS - 1
                         /\ \A j \in 0..i - 1 : LET q == PciPlace(c, j)
                                               IN  q[1] = p[1] => Abs(q[2] - p[2]) >= Width(c, p[1])

(* What the code does not keep. *)

\* A board that is gone is switched off: pciserial_resume_one enables without a disable, and
\* a board given up by its reset is disabled twice.
OffWhenGone == \A b \in Boards : board[b].st = "unbound" => ~board[b].on /\ board[b].cnt = 0
=============================================================================
