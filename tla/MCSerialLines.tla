--------------------------- MODULE MCSerialLines ---------------------------
(***************************************************************************)
(* Instances of SerialLines: a two-port card with memory registers beside  *)
(* a PnP device at a legacy address or a platform device with two ports,   *)
(* in tables of two to four lines; one card of each layout alone, with     *)
(* registers of the exact size; and every board of 8250_pci.c, each layout *)
(* once, with room to spare.                                               *)
(***************************************************************************)
EXTENDS SerialLines, TLC

MCBoards == {"A", "B"}

Com(k)  == <<"port", k>>
Bars(f) == [i \in 0..NUM_BARS - 1 |-> IF i \in DOMAIN f THEN f[i] ELSE [kind |-> "none", len |-> 0]]
Region(set, kind, len) == Bars([i \in set |-> [kind |-> kind, len |-> len]])
Io(set, len) == Region(set, "port", len)
Mem(len)     == Region({0}, "mem", len)

PciCard(dev, bars) == [bus |-> "pci"] @@ Identify(dev, bars)
Others(bus, at) == [bus |-> bus, at |-> at, listed |-> TRUE, modemName |-> FALSE,
                    comPossible |-> FALSE]
\* A device of no known id at a COM address.
Guessed(at, name) == [Others("pnp", at) EXCEPT !.listed = FALSE, !.modemName = name,
                                                !.comPossible = TRUE]

Dev(v, d) == [v |-> v, d |-> d, sv |-> "other", sd |-> <<"other">>, class |-> "serial", pi |-> 2,
              chip |-> 0]
Sub(dev, sv, sd) == [dev EXCEPT !.sv = sv, !.sd = sd]
Timedia(id) == Sub(Dev("TIMEDIA", "1889"), "TIMEDIA", <<"id", id>>)
Unknown == Dev("other", "other")

\* Two drivers at once.
Pair(nr, a, b) == [nr |-> nr, legacy |-> <<Com(1), Com(2)>>, silent |-> {Com(2)},
                   card |-> [A |-> a, B |-> b]]
MemCard == PciCard(Dev("TITAN", "200"), Mem(16))
IoCard  == PciCard(Dev("QUATECH", "DSC100"), Io({1}, 16))
Modem   == Guessed(<<Com(1)>>, TRUE)
OwnMem  == Others("pnp", <<<<"mem", 5>>>>)
Soc     == Others("plat", <<<<"mem", 3>>, Com(2)>>)
Pairs == {Pair(3, MemCard, IoCard), Pair(2, MemCard, Soc), Pair(3, MemCard, Modem),
          Pair(3, IoCard, OwnMem), Pair(4, MemCard, Soc)}

\* One card alone, in registers just large enough.
Alone(nr, c) == [nr |-> nr, legacy |-> <<>>, silent |-> {},
                 card |-> [A |-> c, B |-> Guessed(<<Com(2)>>, FALSE)]]
Layouts == {
    Alone(8, PciCard(Dev("ADDIDATA_OLD", "ADDIDATA_APCI7800"), Io(1..4, 16))),
    Alone(6, PciCard(Dev("AFAVLAB", "P030"), Io(0..4, 32))),
    Alone(8, PciCard(Sub(Dev("SBSMODULARIO", "OCTPRO"), "SBSMODULARIO", <<"OCTPRO422">>), Mem(4992))),
    Alone(8, PciCard(Dev("SIIG", "8S_20x_650"), Io(0..4, 32))),
    Alone(8, PciCard(Timedia(\hA167), Io(0..5, 16))),
    Alone(4, PciCard(Dev("TITAN", "400L"), Io({1, 2, 4}, 16))),
    Alone(5, PciCard(Dev("HP", "DIVA"), Io({0}, 64))),
    Alone(5, PciCard(Sub(Dev("HP", "DIVA"), "HP", <<"HP_DIVA_MAESTRO">>), Io({0}, 64))),
    Alone(5, PciCard(Sub(Dev("HP", "DIVA"), "HP", <<"HP_DIVA_EVEREST">>), Io({0}, 64))),
    Alone(2, PciCard([Sub(Dev("NETMOS", "9900"), "A000", <<"id", \h3002>>) EXCEPT !.pi = 0],
                     Io({0, 3}, 8))),
    Alone(4, PciCard(Dev("PLX", "CRONYX_OMEGA"), Io({2}, 64))),
    Alone(4, PciCard(Dev("OXSEMI", "16PCI95N"), Io({0}, 24))),
    Alone(2, PciCard([Dev("ITE", "8872") EXCEPT !.chip = 2], Io(1..2, 8))),
    Alone(4, PciCard(Unknown, Io({1}, 32))),
    Alone(4, PciCard(Unknown, Io(1..3, 8))),
    Alone(4, PciCard(Unknown, Bars([i \in {0, 1, 3, 4} |->
                                       [kind |-> "port", len |-> IF i = 0 THEN 16 ELSE 8]]))),
    Alone(4, PciCard(Unknown, Io({0, 2}, 16)))}

\* Every device of the table, with the subsystem ids its functions look at.
SubIds(row) ==
    CASE row.sd # AnyId                   -> row.sd
      [] row.v = "TIMEDIA"              -> Hex({1, \h4025, \h9079, \h4036, \h5056, \hA168})
      [] row.v = "HP" /\ "DIVA" \in row.d ->
             Named({"HP_DIVA_TOSCA1", "HP_DIVA_TOSCA2", "HP_DIVA_MAESTRO", "HP_DIVA_EVEREST",
                    "HP_DIVA_POWERBAR", "other"})
      [] row.v = "INTEL"                -> Hex({\h1000, 0})
      [] OTHER                          -> {<<"other">>}
DevicesOf(row) ==
    [v : {row.v}, d : row.d, sv : IF row.sv = AnyId THEN {"other"} ELSE row.sv, sd : SubIds(row),
     class : {"serial"}, pi : {0, 2}, chip : {0, row.board.n}]
\* The four ports of this one are placed in registers 0, 3, 6 and 9.
Misplaced(dev) == dev.v = "NETMOS" /\ dev.d = "9865" /\ dev.sd = <<"id", \h3004>>
Roomy(dev) ==
    LET shift == BoardOf(dev, Io({}, 0)).shift
    IN  Region(0..NUM_BARS - 1, IF shift = 0 THEN "port" ELSE "mem", \h40000)
Boardset ==
    {PciCard(dev, Roomy(dev)) : dev \in
        {d \in UNION {DevicesOf(serial_pci_tbl[i]) : i \in DOMAIN serial_pci_tbl} : ~Misplaced(d)}}

MCSystems == Pairs \union Layouts \union {Alone(2, c) : c \in Boardset}
=============================================================================
