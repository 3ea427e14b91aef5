----------------------------- MODULE PciBoards -----------------------------
(***************************************************************************)
(* What 8250_pci.c (backup/qemu_linux0/8250) knows of PCI serial boards:   *)
(* the table of device ids, the board each entry names, the quirks that    *)
(* count the ports of a device and place them in its base address          *)
(* registers, and the guess at a board in no table.                        *)
(*                                                                         *)
(* Three tables written apart have to agree on every board:               *)
(* `serial_pci_tbl' says which board, `pci_boards' how many ports and how  *)
(* far apart, `pci_serial_quirks' where they are.  Entries that differ     *)
(* only in what is not modelled (the baud base) share a row.               *)
(***************************************************************************)
EXTENDS Integers, Sequences, FiniteSetsExt

\* A subsystem device id is a number where a driver reads its digits, else a name.
Hex(S)   == {<<"id", n>> : n \in S}
Named(S) == {<<n>> : n \in S}
IdNumber(dev) == dev.sd[2]

AnyId == {}   \* PCI_ANY_ID

-----------------------------------------------------------------------------
(* pci_boards: the base address register, the ports, their distance, and   *)
(* how far apart registers are (2^shift).  byBar: one register a port.     *)

pbn_default == [base |-> 0, n |-> 1, first |-> 0, step |-> 8, shift |-> 0,
                byBar |-> FALSE, cap |-> FALSE]
Plain(b, count) == [pbn_default EXCEPT !.base = b, !.n = count]
ByBar(b, count) == [Plain(b, count) EXCEPT !.byBar = TRUE]

pbn_b0(n)     == Plain(0, n)
pbn_b0_200(n) == [Plain(0, n) EXCEPT !.step = \h200]
pbn_b0_bt(n)  == ByBar(0, n)
pbn_b1(n)     == Plain(1, n)
pbn_b1_bt(n)  == ByBar(1, n)
pbn_b2(n)     == Plain(2, n)
pbn_b2_bt(n)  == ByBar(2, n)
pbn_b3(n)     == Plain(3, n)
\* Named "bt", yet all its ports are in one register.
pbn_b4_bt(n)  == Plain(4, n)

pbn_panacom  == [Plain(2, 2) EXCEPT !.step = \h400, !.shift = 7]
pbn_panacom2 == [pbn_panacom EXCEPT !.byBar = TRUE]
pbn_panacom4 == [pbn_panacom2 EXCEPT !.n = 4]
pbn_exsys_4055  == Plain(2, 4)
pbn_plx_romulus == [Plain(2, 4) EXCEPT !.first = 3, !.step = \h20, !.shift = 2]
\* As many as fit: FL_REGION_SZ_CAP.
pbn_oxsemi      == [Plain(0, 32) EXCEPT !.cap = TRUE]
pbn_oxsemi_n(n) == [pbn_b0_200(n) EXCEPT !.first = \h1000]
pbn_intel_i960  == [Plain(0, 32) EXCEPT !.first = \h10000, !.step = \h20, !.shift = 2]
pbn_sgi_ioc3    == [Plain(0, 1) EXCEPT !.first = \h20178]
pbn_computone_n(n)    == [Plain(0, n) EXCEPT !.first = \h200, !.step = \h40, !.shift = 2]
pbn_sbsxrsio          == [Plain(0, 8) EXCEPT !.step = \h100, !.shift = 4]
pbn_exar_XR17C15x(n)  == pbn_b0_200(n)
pbn_exar_ibm_saturn   == pbn_b0_200(1)
pbn_pasemi_1682M      == [Plain(0, 1) EXCEPT !.step = 0]
pbn_ni8430_n(n)       == [Plain(0, n) EXCEPT !.first = \h800, !.step = \h10]
pbn_ADDIDATA_PCIe_n(n) == pbn_oxsemi_n(n)
pbn_ce4100        == [Plain(0, 1) EXCEPT !.step = 0, !.shift = 2]
pbn_omegapci      == pbn_b0_200(8)
pbn_NETMOS9900_2s == [Plain(0, 2) EXCEPT !.step = 0]

-----------------------------------------------------------------------------
(* serial_pci_tbl, in its order.                                           *)

Row(v, d, sv, sd, board) == [v |-> v, d |-> d, sv |-> {sv}, sd |-> sd, board |-> board]
Whole(v, d, board) == [v |-> v, d |-> d, sv |-> AnyId, sd |-> AnyId, board |-> board]

IdsConnectTech == <<
    Row("ADVANTECH", {"PCI3620"}, "ADVANTECH_PCI3620", Hex({\h1}), pbn_b2(8)),
    Row("V3", {"V960", "V351"}, "CONNECT_TECH", Named({"CONNECT_TECH_BH8_232"}), pbn_b1(8)),
    Row("V3", {"V960", "V351"}, "CONNECT_TECH", Named({"CONNECT_TECH_BH4_232"}), pbn_b1(4)),
    Row("V3", {"V960", "V351"}, "CONNECT_TECH", Named({"CONNECT_TECH_BH2_232"}), pbn_b1(2)),
    Row("V3", {"V351"}, "CONNECT_TECH", Named({"CONNECT_TECH_BH8_485",
        "CONNECT_TECH_BH8_485_4_4", "CONNECT_TECH_BH8_485_2_6", "CONNECT_TECH_BH081101V1"}),
        pbn_b1(8)),
    Row("V3", {"V351"}, "CONNECT_TECH", Named({"CONNECT_TECH_BH4_485",
        "CONNECT_TECH_BH4_485_2_2", "CONNECT_TECH_BH041101V1"}), pbn_b1(4)),
    Row("V3", {"V351"}, "CONNECT_TECH", Named({"CONNECT_TECH_BH2_485",
        "CONNECT_TECH_BH2_20MHZ"}), pbn_b1(2)),
    Row("OXSEMI", {"16PCI954"}, "CONNECT_TECH", Named({"CONNECT_TECH_TITAN_2"}), pbn_b0(2)),
    Row("OXSEMI", {"16PCI954"}, "CONNECT_TECH", Named({"CONNECT_TECH_TITAN_4"}), pbn_b0(4)),
    Row("OXSEMI", {"16PCI954"}, "AFAVLAB", Named({"AFAVLAB_P061"}), pbn_b0(4)),
    Row("EXAR", {"XR17C152"}, "CONNECT_TECH", Named({"CONNECT_TECH_PCI_UART_2_232",
        "CONNECT_TECH_PCI_UART_1_1", "CONNECT_TECH_PCI_UART_2", "CONNECT_TECH_PCI_UART_2_485"}),
        pbn_b0_200(2)),
    Row("EXAR", {"XR17C154"}, "CONNECT_TECH", Named({"CONNECT_TECH_PCI_UART_4_232",
        "CONNECT_TECH_PCI_UART_2_2", "CONNECT_TECH_PCI_UART_4", "CONNECT_TECH_PCI_UART_4_485"}),
        pbn_b0_200(4)),
    Row("EXAR", {"XR17C158"}, "CONNECT_TECH", Named({"CONNECT_TECH_PCI_UART_8_232",
        "CONNECT_TECH_PCI_UART_4_4", "CONNECT_TECH_PCI_UART_8", "CONNECT_TECH_PCI_UART_8_485"}),
        pbn_b0_200(8)),
    Row("EXAR", {"XR17C152"}, "IBM", Named({"IBM_SATURN_SERIAL_ONE_PORT"}),
        pbn_exar_ibm_saturn)>>

IdsSealevelPlx == <<
    Whole("SEALEVEL", {"U530"}, pbn_b2_bt(1)),
    Whole("SEALEVEL", {"UCOMM2", "UCOMM232"}, pbn_b2_bt(2)),
    Whole("SEALEVEL", {"UCOMM422", "COMM4"}, pbn_b2_bt(4)),
    Whole("SEALEVEL", {"COMM8", "7803", "UCOMM8"}, pbn_b2(8)),
    Whole("PLX", {"GTEK_SERIAL2", "SPCOM200"}, pbn_b2_bt(2)),
    Whole("PLX", {"SPCOM800"}, pbn_b2(8)),
    Whole("PLX", {"1077"}, pbn_b2(4)),
    Row("PLX", {"9050"}, "PLX", Named({"UNKNOWN_0x1584"}), pbn_b0(4)),
    Row("PLX", {"9050"}, "KEYSPAN", Named({"KEYSPAN_SX2"}), pbn_panacom),
    Whole("PANACOM", {"QUADMODEM"}, pbn_panacom4),
    Whole("PANACOM", {"DUALMODEM"}, pbn_panacom2),
    Row("PLX", {"9030"}, "ESDGMBH", Named({"ESDGMBH_CPCIASIO4"}), pbn_b2(4)),
    Row("PLX", {"9050"}, "CHASE_PCIFAST", Named({"CHASE_PCIFAST4"}), pbn_b2(4)),
    Row("PLX", {"9050"}, "CHASE_PCIFAST", Named({"CHASE_PCIFAST8"}), pbn_b2(8)),
    Row("PLX", {"9050"}, "CHASE_PCIFAST", Named({"CHASE_PCIFAST16", "CHASE_PCIFAST16FMC"}),
        pbn_b2(16)),
    Row("PLX", {"9050"}, "CHASE_PCIRAS", Named({"CHASE_PCIRAS4"}), pbn_b2(4)),
    Row("PLX", {"9050"}, "CHASE_PCIRAS", Named({"CHASE_PCIRAS8"}), pbn_b2(8)),
    Row("PLX", {"9050"}, "EXSYS", Named({"EXSYS_4055"}), pbn_exsys_4055),
    Row("PLX", {"ROMULUS"}, "PLX", Named({"PLX_ROMULUS"}), pbn_plx_romulus),
    Whole("QUATECH", {"QSC100"}, pbn_b1(4)),
    Whole("QUATECH", {"DSC100"}, pbn_b1(2)),
    Whole("QUATECH", {"ESC100D", "ESC100M"}, pbn_b1(8))>>

IdsOxford == <<
    Row("SPECIALIX", {"OXSEMI_16PCI954"}, "SPECIALIX", Named({"SPECIALIX_SPEED4"}), pbn_b0(4)),
    Row("OXSEMI", {"16PCI954"}, "SIIG", Named({"SIIG_QUARTET_SERIAL"}), pbn_b0(4)),
    Whole("OXSEMI", {"9505", "16PCI952"}, pbn_b0_bt(2)),
    Row("OXSEMI", {"950A"}, "SIIG", Named({"SIIG_DUAL_00", "SIIG_DUAL_30"}), pbn_b0(2)),
    Whole("OXSEMI", {"950A"}, pbn_b0(2)),
    Row("OXSEMI", {"C950"}, "OXSEMI", Named({"OXSEMI_C950"}), pbn_b0(1)),
    Whole("OXSEMI", {"16PCI954"}, pbn_b0(4)),
    Whole("OXSEMI", {"16PCI958"}, pbn_b2(8))>>

IdsTornado == <<
    Whole("OXSEMI", {"C101", "C105", "C120", "C124", "C140", "C141", "C144", "C145"},
        pbn_b0(1)),
    Whole("OXSEMI", {"C11B", "C11F", "C138", "C13D", "C40B", "C40F", "C41B", "C41F", "C42B",
        "C42F", "C43B", "C43F", "C44B", "C44F", "C45B", "C45F", "C46B", "C46F", "C47B", "C47F",
        "C48B", "C48F", "C49B", "C49F", "C4AB", "C4AF", "C4BB", "C4BF", "C4CB", "C4CF"},
        pbn_oxsemi_n(1)),
    Whole("OXSEMI", {"C158", "C15D"}, pbn_oxsemi_n(2)),
    Whole("OXSEMI", {"C208", "C20D"}, pbn_oxsemi_n(4)),
    Whole("OXSEMI", {"C308", "C30D"}, pbn_oxsemi_n(8))>>

IdsTornadoUsers == <<
    Row("MAINPINE", {"4000"}, "MAINPINE", Hex({\h4001}), pbn_oxsemi_n(1)),
    Row("MAINPINE", {"4000"}, "MAINPINE", Hex({\h4002}), pbn_oxsemi_n(2)),
    Row("MAINPINE", {"4000"}, "MAINPINE", Hex({\h4004}), pbn_oxsemi_n(4)),
    Row("MAINPINE", {"4000"}, "MAINPINE", Hex({\h4008}), pbn_oxsemi_n(8)),
    Row("DIGI", {"NEO_2_OX_IBM"}, "IBM", AnyId, pbn_oxsemi_n(2)),
    Row("SBSMODULARIO", {"OCTPRO"}, "SBSMODULARIO", Named({"OCTPRO232", "OCTPRO422",
        "POCTAL232", "POCTAL422"}), pbn_sbsxrsio)>>

IdsTitanSiig == <<
    Whole("ATT", {"VENUS_MODEM"}, pbn_b1(1)),
    Whole("TITAN", {"100"}, pbn_b0(1)),
    Whole("TITAN", {"200"}, pbn_b0(2)),
    Whole("TITAN", {"400", "800B", "400EH", "800EH", "800EHB", "400V3", "410V3", "800V3",
        "800V3B"}, pbn_b0(4)),
    Whole("TITAN", {"100L"}, pbn_b1(1)),
    Whole("TITAN", {"200L"}, pbn_b1_bt(2)),
    Whole("TITAN", {"400L"}, pbn_b0_bt(4)),
    Whole("TITAN", {"800L"}, pbn_b0_bt(8)),
    Whole("TITAN", {"200I"}, pbn_b4_bt(2)),
    Whole("TITAN", {"400I"}, pbn_b4_bt(4)),
    Whole("TITAN", {"800I"}, pbn_b4_bt(8)),
    Whole("TITAN", {"100E"}, pbn_oxsemi_n(1)),
    Whole("TITAN", {"200E", "200EI", "200EISI"}, pbn_oxsemi_n(2)),
    Whole("TITAN", {"400E"}, pbn_oxsemi_n(4)),
    Whole("TITAN", {"800E"}, pbn_oxsemi_n(8)),
    Whole("SIIG", {"1S_10x_550", "1S_10x_650", "1S_10x_850"}, pbn_b2(1)),
    Whole("SIIG", {"2S_10x_550", "2S_10x_650", "2S_10x_850"}, pbn_b2_bt(2)),
    Whole("SIIG", {"4S_10x_550", "4S_10x_650", "4S_10x_850"}, pbn_b2_bt(4)),
    Whole("SIIG", {"1S_20x_550", "1S_20x_650", "1S_20x_850"}, pbn_b0(1)),
    Whole("SIIG", {"2S_20x_550", "2S_20x_650", "2S_20x_850"}, pbn_b0_bt(2)),
    Whole("SIIG", {"4S_20x_550", "4S_20x_650", "4S_20x_850"}, pbn_b0_bt(4)),
    Whole("SIIG", {"8S_20x_550", "8S_20x_650", "8S_20x_850"}, pbn_b0_bt(8))>>

IdsComputone == <<
    Row("COMPUTONE", {"PG"}, "COMPUTONE", Named({"COMPUTONE_PG4"}), pbn_computone_n(4)),
    Row("COMPUTONE", {"PG"}, "COMPUTONE", Named({"COMPUTONE_PG8"}), pbn_computone_n(8)),
    Row("COMPUTONE", {"PG"}, "COMPUTONE", Named({"COMPUTONE_PG6"}), pbn_computone_n(6)),
    Whole("OXSEMI", {"16PCI95N"}, pbn_oxsemi),
    Row("TIMEDIA", {"1889"}, "TIMEDIA", AnyId, pbn_b0_bt(1)),
    Whole("AFAVLAB", {"P028", "P030"}, pbn_b0_bt(8)),
    Whole("LAVA", {"DSERIAL", "QUATRO_A", "QUATRO_B", "QUATTRO_A", "QUATTRO_B", "PORT_PLUS",
        "QUAD_A", "QUAD_B"}, pbn_b0_bt(2)),
    Whole("LAVA", {"OCTO_A", "OCTO_B"}, pbn_b0_bt(4)),
    Whole("LAVA", {"SSERIAL", "PORT_650"}, pbn_b0_bt(1)),
    Row("KORENIX", {"JETCARDF0", "JETCARDF2"}, "1204", Hex({\h4}), pbn_b0(4)),
    Row("KORENIX", {"JETCARDF0", "JETCARDF1", "JETCARDF2", "JETCARDF3"}, "1208", Hex({\h4}),
        pbn_b0(4))>>

IdsDellToIntashield == <<
    Whole("DELL", {"RAC4", "RACIII"}, pbn_b1(1)),
    Whole("MORETON", {"RASTEL_2PORT"}, pbn_b2_bt(2)),
    Row("INTEL", {"80960_RP"}, "E4BF", AnyId, pbn_intel_i960),
    Whole("XIRCOM", {"X3201_MDM", "RBM56G"}, pbn_b0(1)),
    Row("ROCKWELL", {"1004"}, "1048", Hex({\h1500}), pbn_b1(1)),
    Row("SGI", {"IOC3"}, "FF00", Hex({\h0}), pbn_sgi_ioc3),
    Row("HP", {"DIVA"}, "HP", Named({"HP_DIVA_RMP3"}), pbn_b1(1)),
    Whole("HP", {"DIVA"}, pbn_b0(5)),
    Whole("HP", {"DIVA_AUX"}, pbn_b2(1)),
    Whole("DCI", {"PCCOM2"}, pbn_b3(2)),
    Whole("DCI", {"PCCOM4"}, pbn_b3(4)),
    Whole("DCI", {"PCCOM8"}, pbn_b3(8)),
    Whole("EXAR", {"XR17C152"}, pbn_exar_XR17C15x(2)),
    Whole("EXAR", {"XR17C154"}, pbn_exar_XR17C15x(4)),
    Whole("EXAR", {"XR17C158"}, pbn_exar_XR17C15x(8)),
    Whole("TOPIC", {"TP560"}, pbn_b0(1)),
    Whole("ITE", {"8872"}, pbn_b1_bt(1)),
    Whole("INTASHIELD", {"IS200"}, pbn_b2(2)),
    Whole("INTASHIELD", {"IS400"}, pbn_b2(4))>>

IdsMainpine == <<
    Row("PLX", {"9030"}, "PERLE", Named({"PCI_RAS4"}), pbn_b2(4)),
    Row("PLX", {"9030"}, "PERLE", Named({"PCI_RAS8"}), pbn_b2(8)),
    Row("MAINPINE", {"PBRIDGE"}, "MAINPINE", Hex({\h200, \h400, \h600, \hC00, \h2200, \h2300,
        \h3200, \h3300}), pbn_b0(2)),
    Row("MAINPINE", {"PBRIDGE"}, "MAINPINE", Hex({\h300, \h500, \h700, \hD00, \h2400, \h2500,
        \h3400, \h3500}), pbn_b0(4)),
    Row("MAINPINE", {"PBRIDGE"}, "MAINPINE", Hex({\h800, \h1D00, \h2600, \h2700, \h3C00,
        \h3D00}), pbn_b0(8)),
    Row("MAINPINE", {"PBRIDGE"}, "MAINPINE", Hex({\h2000, \h2100, \h3000, \h3100}), pbn_b0(1))>>

IdsNationalInstruments == <<
    Whole("PASEMI", {"A004"}, pbn_pasemi_1682M),
    Whole("NI", {"PCI23216", "PXI8420_23216"}, pbn_b1(16)),
    Whole("NI", {"PCI2328", "PXI8420_2328"}, pbn_b1(8)),
    Whole("NI", {"PCI2324", "PCI2324I", "PXI8420_2324", "PXI8422_2324"}, pbn_b1_bt(4)),
    Whole("NI", {"PCI2322", "PCI2322I", "PXI8420_2322", "PXI8422_2322"}, pbn_b1_bt(2)),
    Whole("NI", {"PXI8430_2322", "PCI8430_2322", "PXI8432_2322", "PCI8432_2322"},
        pbn_ni8430_n(2)),
    Whole("NI", {"PXI8430_2324", "PCI8430_2324", "PXI8432_2324", "PCI8432_2324"},
        pbn_ni8430_n(4)),
    Whole("NI", {"PXI8430_2328", "PCI8430_2328"}, pbn_ni8430_n(8)),
    Whole("NI", {"PXI8430_23216", "PCI8430_23216"}, pbn_ni8430_n(16))>>

IdsAddidata == <<
    Whole("ADDIDATA", {"APCI7500", "APCI7500_2", "APCI7500_3"}, pbn_b0(4)),
    Whole("ADDIDATA", {"APCI7420", "APCI7420_2", "APCI7420_3"}, pbn_b0(2)),
    Whole("ADDIDATA", {"APCI7300", "APCI7300_2", "APCI7300_3"}, pbn_b0(1)),
    Whole("ADDIDATA_OLD", {"ADDIDATA_APCI7800"}, pbn_b1(8)),
    Whole("ADDIDATA", {"APCI7800_3"}, pbn_b0(8)),
    Whole("ADDIDATA", {"APCIe7500"}, pbn_ADDIDATA_PCIe_n(4)),
    Whole("ADDIDATA", {"APCIe7420"}, pbn_ADDIDATA_PCIe_n(2)),
    Whole("ADDIDATA", {"APCIe7300"}, pbn_ADDIDATA_PCIe_n(1)),
    Whole("ADDIDATA", {"APCIe7800"}, pbn_ADDIDATA_PCIe_n(8))>>

IdsNetmos == <<
    Row("NETMOS", {"9835"}, "IBM", Hex({\h299}), pbn_b0_bt(2)),
    Row("NETMOS", {"9835"}, "1000", Hex({\h12}), pbn_b0_bt(2)),
    Row("NETMOS", {"9901", "9912", "9922", "9904", "9900", "9865"}, "A000", Hex({\h1000}),
        pbn_b0(1)),
    Row("NETMOS", {"9900"}, "A000", Hex({\h3002}), pbn_NETMOS9900_2s),
    Row("NETMOS", {"9865"}, "A000", Hex({\h3002}), pbn_b0_bt(2)),
    Row("NETMOS", {"9865"}, "A000", Hex({\h3004}), pbn_b0_bt(4)),
    Whole("INTEL", {"CE4100_UART"}, pbn_ce4100),
    Whole("PLX", {"CRONYX_OMEGA"}, pbn_omegapci)>>

serial_pci_tbl ==
    IdsConnectTech \o IdsSealevelPlx \o IdsOxford \o IdsTornado \o IdsTornadoUsers
    \o IdsTitanSiig \o IdsComputone \o IdsDellToIntashield \o IdsMainpine
    \o IdsNationalInstruments \o IdsAddidata \o IdsNetmos

\* quirk_id_matches, four times; the PCI core compares the same way.
Matches(row, dev) ==
    /\ row.v \in {"any", dev.v}
    /\ row.d = AnyId \/ dev.d \in row.d
    /\ row.sv = AnyId \/ dev.sv \in row.sv
    /\ row.sd = AnyId \/ dev.sd \in row.sd
Hits(tbl, dev) == {i \in DOMAIN tbl : Matches(tbl[i], dev)}

-----------------------------------------------------------------------------
(* pci_serial_quirks.                                                      *)

Quirk(v, d, sv, sd, init, setup) ==
    [v |-> v, d |-> d, sv |-> sv, sd |-> sd, init |-> init, setup |-> setup]
QuirkFor(v, d, init, setup) == Quirk(v, d, AnyId, AnyId, init, setup)

QuirksToIte == <<
    QuirkFor("ADDIDATA_OLD", {"ADDIDATA_APCI7800"}, "none", "addidata"),
    QuirkFor("AFAVLAB", AnyId, "none", "afavlab"),
    QuirkFor("HP", {"DIVA"}, "hp_diva", "hp_diva"),
    Quirk("INTEL", {"80960_RP"}, {"E4BF"}, AnyId, "i960ni", "default"),
    QuirkFor("INTEL", {"8257X_SOL", "82573L_SOL", "82573E_SOL"}, "none", "default"),
    QuirkFor("INTEL", {"CE4100_UART"}, "none", "ce4100"),
    QuirkFor("INTEL", {"PATSBURG_KT"}, "none", "default"),
    QuirkFor("ITE", {"8872"}, "ite887x", "default")>>

QuirksNi == <<
    QuirkFor("NI", {"PCI23216", "PCI2328", "PCI2324", "PCI2322", "PCI2324I", "PCI2322I",
        "PXI8420_23216", "PXI8420_2328", "PXI8420_2324", "PXI8420_2322", "PXI8422_2324",
        "PXI8422_2322"}, "registers", "default"),
    QuirkFor("NI", AnyId, "registers", "ni8430")>>

QuirksPanacomToSiig == <<
    QuirkFor("PANACOM", {"QUADMODEM", "DUALMODEM"}, "registers", "default"),
    Quirk("PLX", {"9030"}, {"PERLE"}, AnyId, "none", "default"),
    Quirk("PLX", {"9050"}, {"EXSYS"}, Named({"EXSYS_4055"}), "registers", "default"),
    Quirk("PLX", {"9050"}, {"KEYSPAN"}, Named({"KEYSPAN_SX2"}), "registers", "default"),
    Quirk("PLX", {"9050"}, {"PLX"}, Named({"UNKNOWN_0x1584"}), "registers", "default"),
    Quirk("PLX", {"ROMULUS"}, {"PLX"}, Named({"PLX_ROMULUS"}), "registers", "default"),
    Quirk("SBSMODULARIO", {"OCTPRO"}, {"SBSMODULARIO"},
        Named({"OCTPRO232", "OCTPRO422", "POCTAL232", "POCTAL422"}), "registers", "sbs"),
    QuirkFor("SIIG", AnyId, "siig", "siig")>>

QuirksTitanToNetmos == <<
    QuirkFor("TITAN", {"400L", "800L"}, "none", "titan"),
    Quirk("TIMEDIA", {"1889"}, {"TIMEDIA"}, AnyId, "timedia", "timedia"),
    QuirkFor("TIMEDIA", AnyId, "none", "timedia"),
    QuirkFor("EXAR", {"XR17C152", "XR17C154", "XR17C158"}, "none", "default"),
    QuirkFor("XIRCOM", {"X3201_MDM"}, "registers", "default"),
    QuirkFor("NETMOS", AnyId, "netmos", "netmos_9900")>>

QuirksOxfordToEnd == <<
    QuirkFor("OXSEMI", AnyId, "tornado", "default"),
    QuirkFor("MAINPINE", AnyId, "tornado", "default"),
    Quirk("DIGI", {"NEO_2_OX_IBM"}, {"IBM"}, AnyId, "tornado", "default"),
    QuirkFor("INTEL", {"8811", "8812", "8813", "8814"}, "registers", "default"),
    QuirkFor("10DB", {"8027", "8028", "8029", "800C", "800D"}, "registers", "default"),
    QuirkFor("PLX", {"CRONYX_OMEGA"}, "none", "omegapci"),
    QuirkFor("any", AnyId, "none", "default")>>

pci_serial_quirks ==
    QuirksToIte \o QuirksNi \o QuirksPanacomToSiig \o QuirksTitanToNetmos \o QuirksOxfordToEnd

\* A defect: the entry that matches everything is reached first.
FindLast(dev)   == pci_serial_quirks[Max(Hits(pci_serial_quirks, dev))]
find_quirk(dev) == pci_serial_quirks[Min(Hits(pci_serial_quirks, dev))]

-----------------------------------------------------------------------------
(* The init functions, as far as they count ports: 0 leaves the board's    *)
(* number, Nodev is -ENODEV.  `dev.pi' is the programming interface and    *)
(* `dev.chip' the number of UARTs that the chip itself reports.            *)

Nodev == -1

timedia_single_port == {\h4025, \h4027, \h4028, \h5025, \h5027}
timedia_dual_port == {
    \h0002, \h4036, \h4037, \h4038, \h4078, \h4079, \h4085, \h4088, \h4089, \h5037, \h5078,
    \h5079, \h5085, \h6079, \h7079, \h8079, \h8137, \h8138, \h8237, \h8238, \h9079, \h9137,
    \h9138, \h9237, \h9238, \hA079, \hB079, \hC079, \hD079}
timedia_quad_port == {
    \h4055, \h4056, \h4095, \h4096, \h5056, \h8156, \h8157, \h8256, \h8257, \h9056, \h9156,
    \h9157, \h9158, \h9159, \h9256, \h9257, \hA056, \hA157, \hA158, \hA159, \hB056, \hB157}
timedia_eight_port == {
    \h4065, \h4066, \h5065, \h5066, \h8166, \h9066, \h9166, \h9167, \h9168, \hA066, \hA167,
    \hA168}

\* Boards with a parallel port are left to parport_serial.
pci_timedia_probe(dev) == (IdNumber(dev) \div 16) % 16 < 7
pci_timedia_init(dev) ==
    CASE ~pci_timedia_probe(dev)               -> Nodev
      [] IdNumber(dev) \in timedia_single_port -> 1
      [] IdNumber(dev) \in timedia_dual_port   -> 2
      [] IdNumber(dev) \in timedia_quad_port   -> 4
      [] IdNumber(dev) \in timedia_eight_port  -> 8
      [] OTHER                                 -> 0

pci_hp_diva_init(dev) ==
    LET is(models) == dev.sd \in Named(models)
    IN  CASE is({"HP_DIVA_TOSCA1", "HP_DIVA_HALFDOME", "HP_DIVA_KEYSTONE", "HP_DIVA_EVEREST"}) -> 3
          [] is({"HP_DIVA_TOSCA2"})                       -> 2
          [] is({"HP_DIVA_MAESTRO"})                      -> 4
          [] is({"HP_DIVA_POWERBAR", "HP_DIVA_HURRICANE"}) -> 1
          [] OTHER                                        -> 0

pci_inteli960ni_init(dev) == IF (IdNumber(dev) \div \h1000) % 2 = 1 THEN 0 ELSE Nodev
\* The 10x and 20x families are told by the device id; nothing else is a SIIG board.
pci_siig_init(dev) == IF dev.d = "other" THEN Nodev ELSE 0
pci_ite887x_init(dev) == dev.chip
\* Only the Tornado chips of Oxford Semiconductor, 0xCxxx, can be asked.
pci_oxsemi_tornado_init(dev) ==
    IF dev.v = "OXSEMI" /\ dev.d \in {"9505", "950A", "C950", "16PCI952", "16PCI954",
                                      "16PCI958", "16PCI95N"}
    THEN 0 ELSE dev.chip

pci_netmos_9900_numports(dev) ==
    CASE dev.pi = 2                     -> 1
      [] dev.pi = 0 /\ dev.d = "9900"   -> IdNumber(dev) % 16
      [] OTHER                          -> 0
pci_netmos_init(dev) ==
    LET serial == IF dev.d \in {"9904", "9912", "9922", "9900"} THEN pci_netmos_9900_numports(dev)
                  ELSE IdNumber(dev) % 16
    IN  IF dev.d \in {"9901", "9865"} \/ (dev.sv = "IBM" /\ IdNumber(dev) = \h299) THEN 0
        ELSE IF serial = 0 THEN Nodev ELSE serial

InitPorts(init, dev) ==
    CASE init = "hp_diva" -> pci_hp_diva_init(dev)
      [] init = "i960ni"  -> pci_inteli960ni_init(dev)
      [] init = "ite887x" -> pci_ite887x_init(dev)
      [] init = "siig"    -> pci_siig_init(dev)
      [] init = "timedia" -> pci_timedia_init(dev)
      [] init = "netmos"  -> pci_netmos_init(dev)
      [] init = "tornado" -> pci_oxsemi_tornado_init(dev)
      [] OTHER            -> 0

-----------------------------------------------------------------------------
(* A device without an entry: one I/O region cut in eights, or one region  *)
(* of eight a port.                                                        *)

softmodem_blacklist == {<<"AL", "5457">>, <<"MOTOROLA", "3052">>, <<"1543", "3052">>}

serial_pci_guess_board(dev, bars) ==
    LET io   == {i \in DOMAIN bars : bars[i].kind = "port"}
        mem  == {i \in DOMAIN bars : bars[i].kind = "mem"}
        unit == {i \in io : bars[i].len = 8}
        run  == {i \in unit : \A j \in Min(unit)..i : j \in unit}
    IN  IF dev.class \notin {"serial", "modem"} \/ dev.pi > 6
           \/ <<dev.v, dev.d>> \in softmodem_blacklist                     THEN Plain(0, Nodev)
        ELSE IF Cardinality(io) = 1 /\ Cardinality(mem) <= 1
             THEN Plain(Min(io), bars[Min(io)].len \div 8)
        ELSE IF unit # {} /\ Cardinality(run) > 1 THEN ByBar(Min(run), Cardinality(run))
        ELSE Plain(0, Nodev)

BoardOf(dev, bars) ==
    LET hits == Hits(serial_pci_tbl, dev)
    IN  IF hits = {} THEN serial_pci_guess_board(dev, bars) ELSE serial_pci_tbl[Min(hits)].board

\* What the driver makes of a device: its board, the number of ports (Nodev: the probe fails),
\* and the setup function with what it reads of the subsystem id.
Identify(dev, bars) ==
    LET board == BoardOf(dev, bars)
        quirk == find_quirk(dev)
        count == InitPorts(quirk.init, dev)
    IN  [board |-> board, bars |-> bars, setup |-> quirk.setup,
         n   |-> IF board.n = Nodev \/ count = 0 THEN board.n ELSE count,
         sub |-> IF quirk.setup \in {"hp_diva", "netmos_9900"} THEN dev.sd ELSE <<>>]

-----------------------------------------------------------------------------
(* The setup functions: <<base address register, offset>> of port i.       *)

NUM_BARS == 6
Refused  == <<-1, 0>>

DefaultSetup(b, i) ==
    IF b.byBar THEN <<b.base + i, b.first>> ELSE <<b.base, b.first + i * b.step>>
\* No more ports than the region has room for.
pci_default_setup(c, i) ==
    IF c.board.cap /\ i >= (c.bars[c.board.base].len - c.board.first) \div (8 * 2^c.board.shift)
    THEN Refused ELSE DefaultSetup(c.board, i)

addidata_apci7800_setup(b, i) ==
    LET pair == Min({i \div 2, 3}) IN <<b.base + pair, b.first + (i - 2 * pair) * b.step>>
afavlab_setup(b, i) ==
    IF i < 4 THEN <<b.base + i, b.first>> ELSE <<4, b.first + (i - 4) * b.step>>
\* Diva chips hide some ports, and put the fourth and fifth further out.
pci_hp_diva_setup(b, model, i) ==
    LET j == CASE model = <<"HP_DIVA_MAESTRO">> /\ i = 3 -> 4
               [] model = <<"HP_DIVA_EVEREST">> /\ i > 0 -> IF i + 1 > 2 THEN i + 2 ELSE i + 1
               [] OTHER -> i
    IN  <<b.base, (IF j > 2 THEN \h18 ELSE b.first) + j * b.step>>
sbs_setup(b, i) ==
    IF i < 4 THEN <<0, b.first + i * b.step>>
    ELSE IF i < 8 THEN <<0, b.first + i * b.step + \hC00>> ELSE Refused
pci_siig_setup(b, i) == IF i > 3 THEN <<4, (i - 4) * 8>> ELSE <<b.base + i, 0>>
pci_timedia_setup(b, i) ==
    IF i < 4 THEN <<i \div 2, IF i % 2 = 1 THEN b.step ELSE b.first>> ELSE <<i - 2, b.first>>
titan_400l_800l_setup(b, i) ==
    IF i < 2 THEN <<i + 1, b.first>> ELSE <<4, (i - 2) * b.step>>
pci_ni8430_setup(b, i) == IF i >= b.n THEN Refused ELSE <<b.base, b.first + i * b.step>>
\* NetMos lays ports out as in its data sheet if the subdevice is 0x30PS.
pci_netmos_9900_setup(c, i) ==
    IF c.sub[2] \div 256 = \h30 THEN <<3 * i, 0>> ELSE pci_default_setup(c, i)
pci_omegapci_setup(i) == <<2, i * 8>>
ce4100_serial_setup   == <<0, 0>>

PciPlace(c, i) ==
    CASE c.setup = "default"     -> pci_default_setup(c, i)
      [] c.setup = "addidata"    -> addidata_apci7800_setup(c.board, i)
      [] c.setup = "afavlab"     -> afavlab_setup(c.board, i)
      [] c.setup = "hp_diva"     -> pci_hp_diva_setup(c.board, c.sub, i)
      [] c.setup = "sbs"         -> sbs_setup(c.board, i)
      [] c.setup = "siig"        -> pci_siig_setup(c.board, i)
      [] c.setup = "timedia"     -> pci_timedia_setup(c.board, i)
      [] c.setup = "titan"       -> titan_400l_800l_setup(c.board, i)
      [] c.setup = "ni8430"      -> pci_ni8430_setup(c.board, i)
      [] c.setup = "netmos_9900" -> pci_netmos_9900_setup(c, i)
      [] c.setup = "omegapci"    -> pci_omegapci_setup(i)
      [] c.setup = "ce4100"      -> ce4100_serial_setup
=============================================================================
