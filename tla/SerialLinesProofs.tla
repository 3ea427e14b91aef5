------------------------- MODULE SerialLinesProofs -------------------------
(***************************************************************************)
(* LinesOwned and Reachable of SerialLines, for any number of lines and    *)
(* boards, on machines that are put together as WellBuilt says.            *)
(*                                                                         *)
(* The invariant is written over values (a table `ln', the boards `bd')    *)
(* and not over the variables, so that one lemma speaks of the table       *)
(* before, between and after the changes that an action makes to it.       *)
(***************************************************************************)
EXTENDS SerialLines, FiniteSetTheorems, SequenceTheorems, WellFoundedInduction, TLAPS

-----------------------------------------------------------------------------
(* Machines.                                                               *)

(* The ports that a board can have, and their addresses.                   *)
HasPort(b, i) == i \in 0 .. NumPorts(b) - 1 /\ Fits(b, i)
Where(b, i) == Address(Port(b, i))

CardOk(b) ==
  /\ Card(b).bus \in {"pci", "pnp", "plat"}
  /\ Pci(b) => Card(b).n \in Nat \cup {Nodev}
  /\ ~Pci(b) => Card(b).at \in Seq({"port", "mem"} \X Nat)
  /\ Card(b).bus = "pnp" => Len(Card(b).at) <= 1

(* The ports of a PCI card lie in its registers, apart from each other.    *)
Placed(b) ==
  Pci(b) => \A i \in Nat : HasPort(b, i) =>
    LET p == PciPlace(Card(b), i)
    IN  /\ Card(b).bars[p[1]].kind # "none"
        /\ p[2] + Width(Card(b), p[1]) <= Card(b).bars[p[1]].len
        /\ \A j \in 0 .. i - 1 : HasPort(b, j) =>
             LET q == PciPlace(Card(b), j) IN q[1] # p[1] \/ q[2] # p[2]

(* Nobody else is where a PnP device is, and a UART answers at the ports   *)
(* of PCI and PnP devices; what a board file says may be wrong.            *)
NoConflict ==
  /\ \A b, c \in Boards : b # c /\ Card(b).bus = "pnp" /\ ~Pci(c) =>
       \A i \in DOMAIN Card(b).at, j \in DOMAIN Card(c).at : Card(b).at[i] # Card(c).at[j]
  /\ \A b \in Boards : ~Plat(b) => \A i \in Nat : HasPort(b, i) => Where(b, i) \notin sys.silent

(* The legacy addresses are I/O ports, each given once.                    *)
LegacyOk ==
  /\ sys.legacy \in Seq({"port"} \X Nat)
  /\ \A i, j \in DOMAIN sys.legacy : sys.legacy[i] = sys.legacy[j] => i = j

WellBuilt ==
  /\ "isa" \notin Boards /\ "none" \notin Boards
  /\ \A b \in Boards : CardOk(b) /\ Placed(b)
  /\ NoConflict /\ LegacyOk

-----------------------------------------------------------------------------
(* The invariant: the table.                                               *)

LineForm(l) ==
  /\ l = [iotype |-> l.iotype, iobase |-> l.iobase, mapbase |-> l.mapbase, map |-> l.map,
          remap |-> l.remap, boot |-> l.boot, known |-> l.known, dev |-> l.dev,
          attached |-> l.attached, use |-> l.use]
  /\ l.iotype \in {"port", "mem"} /\ l.use \in {"closed", "running", "asleep"}
  /\ l.remap \in BOOLEAN /\ l.boot \in BOOLEAN /\ l.known \in BOOLEAN /\ l.attached \in BOOLEAN
  /\ l.dev \in Boards \cup {"isa", "none"}

(* What an address is of: memory or I/O.                                   *)
KindOf(a) ==
  IF Len(a) = 2 THEN a[1] ELSE IF Card(a[1]).bars[a[2]].kind = "mem" THEN "mem" ELSE "port"

LineOk(l) ==
  /\ Address(l) # None => l.iotype = KindOf(Address(l))
  /\ l.known => l.attached /\ Address(l) # None
  /\ l.use # "closed" => l.known
  /\ l.known /\ l.iotype = "mem" /\ l.remap => l.map = <<"own">>

Apart(ln) ==
  \A i, j \in Lines : i # j /\ Address(ln[i]) # None => Address(ln[i]) # Address(ln[j])
Sane(ln) ==
  /\ ln = [i \in Lines |-> ln[i]]
  /\ \A i \in Lines : LineForm(ln[i]) /\ LineOk(ln[i])
  /\ Apart(ln)
(* The regions that the detected lines hold.                               *)
Held(ln) == {<<Address(ln[i]), i>> : i \in {j \in Lines : ln[j].known}}
Tab(s) == s = [line |-> s.line, claimed |-> s.claimed] /\ Sane(s.line) /\ s.claimed = Held(s.line)

(* The lines that name a board.                                            *)
Of(ln, b) == {i \in Lines : ln[i].dev = b}

-----------------------------------------------------------------------------
(* The invariant: the boards.                                              *)

BoardForm(r) ==
  /\ r = [st |-> r.st, next |-> r.next, lines |-> r.lines, maps |-> r.maps, cnt |-> r.cnt,
          on |-> r.on]
  /\ r.st \in {"unbound", "probing", "bound", "removing", "asleep", "error", "reset", "dead"}
  /\ r.next \in Nat /\ r.lines \in Seq(Lines)

(* The notes of a board that its driver still goes by.                     *)
KeptIn(r) == {k \in DOMAIN r.lines : r.st = "removing" => k > r.next}

(* A board's notes are the lines that name it, each with its own port.     *)
Noting(ln, r, b) ==
  /\ r.st = "unbound" => r.lines = <<>> /\ Of(ln, b) = {}
  /\ Plat(b) => r.lines = <<>>
  /\ ~Plat(b) =>
      /\ r.st = "probing" => r.next = Len(r.lines)
      /\ \A k \in DOMAIN r.lines : HasPort(b, k - 1)
      /\ \A k \in KeptIn(r) : LET l == ln[r.lines[k]]
                              IN  l.known /\ l.dev = b /\ Address(l) = Where(b, k - 1)
      /\ \A i \in Of(ln, b) : \E k \in KeptIn(r) : r.lines[k] = i

(* How far the walk over a board's ports or lines has come.                *)
Counting(ln, r, b) ==
  /\ r.next <= sys.nr + NumPorts(b)
  /\ r.st # "unbound" => NumPorts(b) # Nodev
  /\ r.st = "probing" => r.next <= NumPorts(b)
  /\ r.st = "removing" => r.next + Cardinality(Of(ln, b)) <= sys.nr

(* No line of a board that sleeps or is in trouble runs.                   *)
Awake(ln, r, b) ==
  /\ r.st \in {"asleep", "error", "reset", "dead"} => \A i \in Of(ln, b) : ln[i].use # "running"
  /\ Pci(b) /\ r.st \in {"probing", "bound", "asleep", "reset"} => r.on

OfBoard(ln, r, b) ==
  BoardForm(r) /\ Noting(ln, r, b) /\ Counting(ln, r, b) /\ (~OpenWhileDown => Awake(ln, r, b))

(* Memory that a board's driver mapped is in its list of mappings.         *)
Mapped(ln, bd) ==
  \A i \in Lines : ln[i].known /\ ln[i].iotype = "mem" /\ ~ln[i].remap =>
    ln[i].dev \in Boards /\ ln[i].map \in bd[ln[i].dev].maps

Present(ln, bd, ld) ==
  /\ ld => \A i \in Lines : ln[i].dev # "none"
  /\ ~ld => /\ \A i \in Lines : ~ln[i].attached /\ ln[i].dev = "none"
            /\ \A b \in Boards : bd[b].st = "unbound"

BoardsOk(ln, bd, ld) ==
  /\ ld \in BOOLEAN /\ Present(ln, bd, ld) /\ Mapped(ln, bd)
  /\ bd = [b \in Boards |-> bd[b]]
  /\ \A b \in Boards : OfBoard(ln, bd[b], b)

LinesInv == sys \in Systems /\ WellBuilt /\ Tab(Table) /\ BoardsOk(line, board, loaded)

-----------------------------------------------------------------------------
(* Machines and ports.                                                     *)

(* A machine has at least one line.                                        *)
LEMMA SysFacts ==
  ASSUME sys \in Systems
  PROVE  sys.nr \in Nat \ {0} /\ Lines = 0 .. sys.nr - 1 /\ Lines \subseteq Nat
BY LinesAssumption DEF LinesAssumption, Lines

(* What PciPlace gives a PCI card.                                         *)
LEMMA PciPort ==
  ASSUME NEW b, NEW i, Pci(b)
  PROVE  LET q == PciPlace(Card(b), i)
             mem == Card(b).bars[q[1]].kind = "mem"
             p == Port(b, i)
         IN  /\ p = [iotype |-> IF mem THEN "mem" ELSE "port", remap |-> FALSE,
                     iobase |-> p.iobase, mapbase |-> p.mapbase, map |-> p.map]
             /\ Address(p) = <<b, q[1], q[2]>>
<1> DEFINE q == PciPlace(Card(b), i)
           at == <<b, q[1], q[2]>>
           mem == Card(b).bars[q[1]].kind = "mem"
           own == <<b, q[1]>>
           p == Port(b, i)
<1>1. p = [iotype |-> IF mem THEN "mem" ELSE "port", remap |-> FALSE,
           iobase |-> IF mem THEN None ELSE at, mapbase |-> IF mem THEN at ELSE None,
           map |-> IF mem THEN own ELSE None]
  BY DEF Port, SetupPort
<1> HIDE DEF at, mem, own, p
<1>2. CASE mem
  BY <1>1, <1>2 DEF Address, at, mem, p
<1>3. CASE ~mem
  BY <1>1, <1>3 DEF Address, at, mem, p
<1> QED BY <1>2, <1>3

(* What the other boards have been given.                                  *)
LEMMA GivenFacts ==
  ASSUME WellBuilt, NEW b \in Boards, NEW i \in Nat, ~Pci(b), HasPort(b, i)
  PROVE  LET a == Card(b).at[i + 1]
             p == Port(b, i)
         IN  /\ p = [iotype |-> a[1], remap |-> a[1] = "mem", map |-> None,
                     iobase |-> p.iobase, mapbase |-> p.mapbase]
             /\ Address(p) = a
             /\ i + 1 \in DOMAIN Card(b).at /\ Len(a) = 2 /\ a[1] \in {"port", "mem"}
<1> DEFINE a == Card(b).at[i + 1]
           p == Port(b, i)
<1>1. p = [iotype |-> a[1], remap |-> a[1] = "mem", map |-> None,
           iobase |-> IF a[1] = "port" THEN a ELSE None,
           mapbase |-> IF a[1] = "mem" THEN a ELSE None]
  BY DEF Port, GivenPort
<1>2. Card(b).at \in Seq({"port", "mem"} \X Nat) /\ i + 1 \in 1 .. Len(Card(b).at)
  BY DEF WellBuilt, CardOk, HasPort, NumPorts
<1>3. a \in {"port", "mem"} \X Nat /\ i + 1 \in DOMAIN Card(b).at
  BY <1>2
<1>4. Len(a) = 2 /\ a[1] \in {"port", "mem"}
  BY <1>3
<1> HIDE DEF a, p
<1>5. Address(p) = a
  BY <1>1, <1>4 DEF Address
<1> QED BY <1>1, <1>3, <1>4, <1>5 DEF a, p

(* A port is an address of its kind, and only memory that no driver mapped *)
(* is mapped when it is claimed.                                           *)
LEMMA PortFacts ==
  ASSUME WellBuilt, NEW b \in Boards, NEW i \in Nat, HasPort(b, i), NEW p, p = Port(b, i)
  PROVE  /\ p = [iotype |-> p.iotype, remap |-> p.remap, iobase |-> p.iobase,
                 mapbase |-> p.mapbase, map |-> p.map]
         /\ p.iotype \in {"port", "mem"} /\ p.remap \in BOOLEAN
         /\ Address(p) # None /\ p.iotype = KindOf(Address(p))
         /\ p.iotype = "mem" => p.remap = ~Pci(b)
<1>1. CASE Pci(b)
  <2> DEFINE q == PciPlace(Card(b), i)
             mem == Card(b).bars[q[1]].kind = "mem"
             at == <<b, q[1], q[2]>>
  <2>1. p = [iotype |-> IF mem THEN "mem" ELSE "port", remap |-> FALSE,
             iobase |-> p.iobase, mapbase |-> p.mapbase, map |-> p.map] /\ Address(p) = at
    BY <1>1, PciPort
  <2>2. at # None /\ KindOf(at) = IF mem THEN "mem" ELSE "port"
    BY DEF None, KindOf
  <2> HIDE DEF at, mem
  <2>3. p.iotype = (IF mem THEN "mem" ELSE "port") /\ p.remap = FALSE
    BY <2>1
  <2> QED BY <1>1, <2>1, <2>2, <2>3
<1>2. CASE ~Pci(b)
  <2> DEFINE a == Card(b).at[i + 1]
  <2>1. /\ p = [iotype |-> a[1], remap |-> a[1] = "mem", map |-> None,
                iobase |-> p.iobase, mapbase |-> p.mapbase]
        /\ Address(p) = a /\ Len(a) = 2 /\ a[1] \in {"port", "mem"}
    BY <1>2, GivenFacts
  <2> HIDE DEF a
  <2>2. a # None /\ KindOf(a) = a[1]
    BY <2>1 DEF None, KindOf
  <2>3. p.iotype = a[1] /\ p.remap = (a[1] = "mem")
    BY <2>1
  <2> QED BY <1>2, <2>1, <2>2, <2>3
<1> QED BY <1>1, <1>2

(* A port of a PCI or PnP board is nobody else's, nor the board's twice.   *)
LEMMA PortsDiffer ==
  ASSUME WellBuilt, NEW b \in Boards, NEW c \in Boards, NEW i \in Nat, NEW j \in Nat,
         HasPort(b, i), HasPort(c, j), ~Plat(c), Where(b, i) = Where(c, j)
  PROVE  b = c /\ i = j
<1>1. CASE Pci(c)
  <2>1. Where(c, j) = <<c, PciPlace(Card(c), j)[1], PciPlace(Card(c), j)[2]>>
    BY <1>1, PciPort DEF Where
  <2>2. Pci(b)
    <3> SUFFICES ASSUME ~Pci(b) PROVE FALSE
      OBVIOUS
    <3>1. Len(Where(b, i)) = 2
      BY GivenFacts DEF Where
    <3> QED BY <2>1, <3>1
  <2>3. Where(b, i) = <<b, PciPlace(Card(b), i)[1], PciPlace(Card(b), i)[2]>>
    BY <2>2, PciPort DEF Where
  <2>4. b = c
    BY <2>1, <2>3
  <2>5. /\ PciPlace(Card(b), i)[1] = PciPlace(Card(c), j)[1]
        /\ PciPlace(Card(b), i)[2] = PciPlace(Card(c), j)[2]
    BY <2>1, <2>3
  <2>6. Placed(c)
    BY DEF WellBuilt
  <2>7. ~(j \in 0 .. i - 1) /\ ~(i \in 0 .. j - 1)
    BY <1>1, <2>4, <2>5, <2>6 DEF Placed
  <2> QED BY <2>4, <2>7
<1>2. CASE ~Pci(c)
  <2>1. Card(c).bus = "pnp" /\ CardOk(c)
    BY <1>2 DEF WellBuilt, CardOk, Pci, Plat
  <2>2. Where(c, j) = Card(c).at[j + 1] /\ j + 1 \in DOMAIN Card(c).at /\ Len(Where(c, j)) = 2
    BY <1>2, GivenFacts DEF Where
  <2>3. ~Pci(b)
    <3> SUFFICES ASSUME Pci(b) PROVE FALSE
      OBVIOUS
    <3>1. Where(b, i) = <<b, PciPlace(Card(b), i)[1], PciPlace(Card(b), i)[2]>>
      BY PciPort DEF Where
    <3> QED BY <2>2, <3>1
  <2>4. Where(b, i) = Card(b).at[i + 1] /\ i + 1 \in DOMAIN Card(b).at
    BY <2>3, GivenFacts DEF Where
  <2>5. b = c
    BY <2>1, <2>2, <2>3, <2>4 DEF WellBuilt, NoConflict
  <2>6. i + 1 \in 1 .. Len(Card(c).at) /\ j + 1 \in 1 .. Len(Card(c).at) /\ Len(Card(c).at) <= 1
    BY <1>2, <2>1, <2>2, <2>4, <2>5 DEF CardOk
  <2>7. Len(Card(c).at) \in Nat
    BY <1>2, <2>1 DEF CardOk
  <2> QED BY <2>5, <2>6, <2>7
<1> QED BY <1>1, <1>2

-----------------------------------------------------------------------------
(* One line of the table changes.                                          *)

Removed(l) ==
  [l EXCEPT !.known = FALSE, !.attached = FALSE, !.use = "closed",
            !.map = IF l.known /\ l.remap THEN None ELSE @]
Without(cl, i) == {c \in cl : c[2] # i}
Region(l, i) == IF l.known THEN {<<Address(l), i>>} ELSE {}
With(s, i, l) ==
  [line |-> [s.line EXCEPT ![i] = l], claimed |-> Without(s.claimed, i) \cup Region(l, i)]

(* Parts of the helpers of the table.                                      *)
Unmapped(l) == [l EXCEPT !.map = IF l.remap THEN None ELSE @]
Closed(l) == [l EXCEPT !.known = FALSE, !.attached = FALSE, !.use = "closed"]
Closing(t, i) ==
  [t EXCEPT !.line[i].known = FALSE, !.line[i].attached = FALSE, !.line[i].use = "closed"]

(* They are changes of one line.                                           *)
LEMMA ClosingForm ==
  ASSUME NEW ln, NEW cl, NEW i, i \in DOMAIN ln, NEW t, t = [line |-> ln, claimed |-> cl],
         LineForm(ln[i])
  PROVE  Closing(t, i) = [line |-> [ln EXCEPT ![i] = Closed(ln[i])], claimed |-> cl]
<1> DEFINE m1 == [ln EXCEPT ![i].known = FALSE]
           m2 == [m1 EXCEPT ![i].attached = FALSE]
           m3 == [m2 EXCEPT ![i].use = "closed"]
           t1 == [t EXCEPT !.line[i].known = FALSE]
           t2 == [t1 EXCEPT !.line[i].attached = FALSE]
           t3 == [t2 EXCEPT !.line[i].use = "closed"]
<1>0. Closing(t, i) = t3
  BY Zenon DEF Closing
<1>1. ASSUME NEW x, NEW y, x = [line |-> y, claimed |-> cl]
      PROVE  /\ [x EXCEPT !.line[i].known = FALSE]
                = [line |-> [y EXCEPT ![i].known = FALSE], claimed |-> cl]
             /\ [x EXCEPT !.line[i].attached = FALSE]
                = [line |-> [y EXCEPT ![i].attached = FALSE], claimed |-> cl]
             /\ [x EXCEPT !.line[i].use = "closed"]
                = [line |-> [y EXCEPT ![i].use = "closed"], claimed |-> cl]
  <2>1. x.line = y
    BY <1>1
  <2>2. ASSUME NEW z PROVE [x EXCEPT !.line = z] = [line |-> z, claimed |-> cl]
    BY <1>1
  <2> QED BY <2>1, <2>2, Zenon
<1>2. t1 = [line |-> m1, claimed |-> cl]
  BY <1>1, Zenon
<1> HIDE DEF t1, m1
<1>3. t2 = [line |-> m2, claimed |-> cl]
  BY <1>1, <1>2, Zenon
<1> HIDE DEF t2, m2
<1>5. t3 = [line |-> m3, claimed |-> cl]
  BY <1>1, <1>3, Zenon
<1>4. m3 = [ln EXCEPT ![i] = Closed(ln[i])]
  BY DEF m1, m2, Closed, LineForm
<1> HIDE DEF m3, t3
<1> QED BY <1>0, <1>4, <1>5, Zenon

(* A line gives back its region and its own mapping.                       *)
LEMMA ReleaseForm ==
  ASSUME NEW ln, NEW cl, NEW i, i \in DOMAIN ln, NEW s, s = [line |-> ln, claimed |-> cl]
  PROVE  Release(s, i) = [line |-> [ln EXCEPT ![i] = Unmapped(ln[i])],
                          claimed |-> {c \in cl : c[1] # Address(ln[i])}]
<1>1. s.line = ln /\ s.claimed = cl
  OBVIOUS
<1> DEFINE m == [ln EXCEPT ![i].map = IF ln[i].remap THEN None ELSE @]
           k == {c \in cl : c[1] # Address(ln[i])}
           t == [s EXCEPT !.claimed = k]
<1>2. t.line = ln
  BY <1>1
<1>3. Release(s, i) = [t EXCEPT !.line = m]
  BY <1>1, <1>2, Zenon DEF Release
<1>4. m = [ln EXCEPT ![i] = Unmapped(ln[i])]
  BY DEF Unmapped
<1> HIDE DEF m, k
<1>5. t = [line |-> ln, claimed |-> k]
  BY <1>1
<1> HIDE DEF t
<1>6. [t EXCEPT !.line = m] = [line |-> m, claimed |-> k]
  BY <1>5
<1> QED BY <1>3, <1>4, <1>6 DEF k

(* Removing a line takes back the region that it holds, and no other.      *)
LEMMA RemoveFacts ==
  ASSUME NEW s, Tab(s), NEW i \in Lines
  PROVE  RemoveOne(s, i) = [line |-> [s.line EXCEPT ![i] = Removed(s.line[i])],
                            claimed |-> Without(s.claimed, i)]
<1> DEFINE ln == s.line
           cl == s.claimed
           l == ln[i]
           u == IF s.line[i].known THEN Release(s, i) ELSE s
<1>0. RemoveOne(s, i) = Closing(u, i)
  BY Zenon DEF RemoveOne, Closing
<1>1. s = [line |-> ln, claimed |-> cl] /\ Sane(ln) /\ cl = Held(ln)
  BY DEF Tab
<1>2. u = IF l.known THEN Release(s, i) ELSE s
  OBVIOUS
<1> HIDE DEF u, ln, cl
<1>3. ln = [j \in Lines |-> ln[j]] /\ LineForm(l) /\ LineOk(l) /\ DOMAIN ln = Lines
  BY <1>1 DEF Sane
<1>4. CASE l.known
  <2>1. {c \in cl : c[1] # Address(l)} = Without(cl, i)
    <3>1. Apart(ln) /\ Address(l) # None
      BY <1>1, <1>3, <1>4 DEF Sane, LineOk
    <3>2. ASSUME NEW j \in Lines, ln[j].known PROVE (Address(ln[j]) # Address(l)) <=> (j # i)
      BY <3>1, <3>2 DEF Apart
    <3> QED BY <1>1, <3>2 DEF Held, Without
  <2> DEFINE m == [ln EXCEPT ![i] = Unmapped(l)]
  <2>2. u = [line |-> m, claimed |-> Without(cl, i)]
    <3>1. Release(s, i) = [line |-> m, claimed |-> {c \in cl : c[1] # Address(l)}]
      <4>1. i \in DOMAIN ln /\ s = [line |-> ln, claimed |-> cl]
        BY <1>1, <1>3
      <4> QED BY <4>1, ReleaseForm, Zenon
    <3> QED BY <1>2, <1>4, <2>1, <3>1
  <2>3. i \in DOMAIN m /\ m[i] = Unmapped(l) /\ LineForm(m[i])
    BY <1>3 DEF Unmapped, LineForm
  <2>4. [m EXCEPT ![i] = Closed(m[i])] = [ln EXCEPT ![i] = Removed(l)]
    <3>1. Closed(Unmapped(l)) = Removed(l)
      BY <1>3, <1>4 DEF Closed, Unmapped, Removed, LineForm
    <3> QED BY <1>3, <2>3, <3>1
  <2> HIDE DEF m
  <2>5. Closing(u, i) = [line |-> [m EXCEPT ![i] = Closed(m[i])], claimed |-> Without(cl, i)]
    BY <2>2, <2>3, ClosingForm
  <2> QED BY <1>0, <2>4, <2>5 DEF ln, cl
<1>5. CASE ~l.known
  <2>1. Without(cl, i) = cl
    BY <1>1, <1>5 DEF Held, Without
  <2>2. Closed(l) = Removed(l)
    BY <1>3, <1>5 DEF Removed, Closed, LineForm
  <2>3. Closing(u, i) = [line |-> [ln EXCEPT ![i] = Closed(l)], claimed |-> cl]
    BY <1>1, <1>2, <1>3, <1>5, ClosingForm
  <2> QED BY <1>0, <2>1, <2>2, <2>3 DEF ln, cl
<1> QED BY <1>3, <1>4, <1>5 DEF LineForm

(* A line may be replaced by a sane one whose address is its own.          *)
LEMMA Replace ==
  ASSUME NEW s, Tab(s), NEW i \in Lines, NEW l, LineForm(l), LineOk(l),
         \A j \in Lines : j # i /\ Address(l) # None => Address(s.line[j]) # Address(l)
  PROVE  Tab(With(s, i, l))
<1> DEFINE ln == s.line
           m == [ln EXCEPT ![i] = l]
<1>1. Sane(ln) /\ s.claimed = Held(ln)
  BY DEF Tab
<1>2. ln = [j \in Lines |-> ln[j]]
  BY <1>1 DEF Sane
<1>3. m = [j \in Lines |-> m[j]] /\ m[i] = l /\ \A j \in Lines : j # i => m[j] = ln[j]
  BY <1>2
<1> HIDE DEF m
<1>4. \A j \in Lines : LineForm(m[j]) /\ LineOk(m[j])
  BY <1>1, <1>3 DEF Sane
<1>5. Apart(m)
  BY <1>1, <1>3 DEF Sane, Apart
<1>6. Without(s.claimed, i) \cup Region(l, i) = Held(m)
  <2>1. ASSUME NEW c PROVE c \in Held(m) <=> c \in Without(s.claimed, i) \cup Region(l, i)
    <3>1. CASE c \in Region(l, i)
      BY <1>3, <3>1 DEF Held, Region
    <3>2. CASE c \notin Region(l, i)
      BY <1>1, <1>3, <3>2 DEF Held, Region, Without
    <3> QED BY <3>1, <3>2
  <2> QED BY <2>1
<1> QED BY <1>3, <1>4, <1>5, <1>6 DEF Tab, Sane, With, m

(* Does a UART answer at the address of a line that is to be probed?       *)
Answers(l) == Address(l) # None /\ l.boot /\ Address(l) \notin sys.silent
Added(l, kn) ==
  [l EXCEPT !.attached = TRUE, !.known = kn, !.map = IF kn /\ l.remap THEN <<"own">> ELSE @]

(* Adding a line claims its region if nobody is there and a UART is.       *)
LEMMA AddFacts ==
  ASSUME NEW ln, NEW cl, NEW i, i \in DOMAIN ln, LineForm(ln[i]), ~ln[i].attached,
         ~ln[i].known, Address(ln[i]) # None => ~ \E c \in cl : c[1] = Address(ln[i])
  PROVE  AddOne([line |-> ln, claimed |-> cl], i)
         = [line |-> [ln EXCEPT ![i] = Added(ln[i], Answers(ln[i]))],
            claimed |-> cl \cup Region(Added(ln[i], Answers(ln[i])), i)]
<1> SUFFICES ASSUME NEW s, s = [line |-> ln, claimed |-> cl], NEW l, l = ln[i]
             PROVE  AddOne(s, i) = [line |-> [ln EXCEPT ![i] = Added(l, Answers(l))],
                                    claimed |-> cl \cup Region(Added(l, Answers(l)), i)]
  OBVIOUS
<1> DEFINE t == [s EXCEPT !.line[i].attached = TRUE]
           A == [l EXCEPT !.attached = TRUE]
           m == [ln EXCEPT ![i] = A]
           a == Address(A)
<1>0. s.line = ln
  OBVIOUS
<1>1. AddOne(s, i) = Configure(t, i)
  BY <1>0, Zenon DEF AddOne
<1>3. t = [line |-> m, claimed |-> cl] /\ m[i] = A /\ i \in DOMAIN m
  <2>1. \A z : [s EXCEPT !.line = z] = [line |-> z, claimed |-> cl]
    OBVIOUS
  <2>2. t = [s EXCEPT !.line = m]
    BY <1>0, Zenon
  <2> QED BY <2>1, <2>2
<1>c. A = [l EXCEPT !.attached = TRUE]
  OBVIOUS
<1> HIDE DEF A
<1>a. /\ A = [l EXCEPT !.attached = TRUE]
      /\ A = [iotype |-> l.iotype, iobase |-> l.iobase, mapbase |-> l.mapbase, map |-> l.map,
              remap |-> l.remap, boot |-> l.boot, known |-> l.known, dev |-> l.dev,
              attached |-> TRUE, use |-> l.use]
  BY <1>c DEF LineForm
<1>b. l.known = FALSE /\ A.known = FALSE
  <2>1. l.known \in BOOLEAN /\ A.known = l.known
    BY <1>a DEF LineForm
  <2> QED BY <2>1, Zenon
<1> HIDE DEF t, A
<1>2. /\ LineForm(A) /\ a = Address(l) /\ A.attached
      /\ ~A.known /\ A.boot = l.boot /\ A.remap = l.remap
  BY <1>a, <1>b DEF LineForm, Address
<1>4. \A kn : Added(l, kn) = [A EXCEPT !.known = kn, !.map = IF kn /\ l.remap THEN <<"own">> ELSE @]
  BY <1>a DEF Added, LineForm
<1>5. [ln EXCEPT ![i] = Added(l, Answers(l))] = [m EXCEPT ![i] = Added(l, Answers(l))]
  OBVIOUS
<1>6. t.line = m /\ t.claimed = cl /\ t.line[i] = A
  BY <1>3
<1> HIDE DEF m, a
<1>7. CASE ~Answers(l)
  <2>1. Added(l, Answers(l)) = A
    <3>1. [A EXCEPT !.known = A.known, !.map = A.map] = A
      BY <1>a
    <3>2. Answers(l) = FALSE
      BY <1>7 DEF Answers
    <3>3. Added(l, FALSE) = [A EXCEPT !.known = FALSE, !.map = A.map]
      BY <1>a, <1>4
    <3> QED BY <1>b, <3>1, <3>2, <3>3
  <2>2. Region(A, i) = {}
    BY <1>2 DEF Region
  <2>3. [t EXCEPT !.line[i].known = FALSE] = [line |-> [m EXCEPT ![i] = A], claimed |-> cl]
    <3>1. \A z : [t EXCEPT !.line = z] = [line |-> z, claimed |-> cl]
      BY <1>3
    <3>2. [m EXCEPT ![i].known = FALSE] = [m EXCEPT ![i] = A]
      <4>1. [A EXCEPT !.known = A.known] = A
        BY <1>a
      <4> QED BY <1>3, <1>b, <4>1
    <3> QED BY <1>6, <3>1, <3>2, Zenon
  <2>4. [line |-> [m EXCEPT ![i] = A], claimed |-> cl] = t
    BY <1>3, [m EXCEPT ![i] = A] = m DEF m
  <2>5. Configure(t, i) = t
    <3>1. CASE a = None \/ ~l.boot
      BY <1>2, <1>6, <3>1, Zenon DEF Configure, a
    <3>2. CASE ~(a = None \/ ~l.boot)
      <4>1. a \in sys.silent
        BY <1>2, <1>7, <3>2 DEF Answers
      <4>2. Configure(t, i) = [t EXCEPT !.line[i].known = FALSE]
        BY <1>2, <1>6, <3>2, <4>1, Zenon DEF Configure, a
      <4> QED BY <2>3, <2>4, <4>2, Zenon
    <3> QED BY <3>1, <3>2
  <2> QED BY <1>1, <1>5, <2>1, <2>2, <2>4, <2>5
<1>8. CASE Answers(l)
  <2> DEFINE B == [A EXCEPT !.known = TRUE]
             C == Added(l, Answers(l))
             R == {<<a, i>>}
             t1 == [t EXCEPT !.line[i].known = TRUE]
             t2 == [t1 EXCEPT !.claimed = @ \cup R]
             t3 == [t2 EXCEPT !.line[i].map = IF A.remap THEN <<"own">> ELSE @]
  <2>1. Configure(t, i) = t3
    <3>1. ~Busy(t, a) /\ a \notin sys.silent /\ a # None
      BY <1>2, <1>6, <1>8 DEF Busy, Answers
    <3>2. a = Address(t.line[i]) /\ t.line[i].boot
      BY <1>2, <1>6, <1>8 DEF a, Answers
    <3> QED BY <1>6, <3>1, <3>2, Zenon DEF Configure, a
  <2>2. t1 = [line |-> [m EXCEPT ![i] = B], claimed |-> cl]
    <3>1. \A z : [t EXCEPT !.line = z] = [line |-> z, claimed |-> cl]
      BY <1>3
    <3>2. [m EXCEPT ![i].known = TRUE] = [m EXCEPT ![i] = B]
      BY <1>2, <1>3 DEF LineForm
    <3> QED BY <1>6, <3>1, <3>2, Zenon
  <2> HIDE DEF t1, R
  <2> DEFINE n == [m EXCEPT ![i] = B]
  <2>3. t2 = [line |-> n, claimed |-> cl \cup R]
    <3> HIDE DEF n
    <3>1. t1.claimed = cl /\ t1 = [line |-> n, claimed |-> cl]
      BY <2>2 DEF n
    <3> QED BY <3>1
  <2>4. C = [B EXCEPT !.map = IF A.remap THEN <<"own">> ELSE @]
    <3>1. Answers(l) = TRUE
      BY <1>8 DEF Answers
    <3>2. Added(l, TRUE) = [A EXCEPT !.known = TRUE, !.map = IF l.remap THEN <<"own">> ELSE @]
      BY <1>4
    <3> QED BY <1>a, <1>2, <3>1, <3>2
  <2> HIDE DEF t2, C, B, n
  <2>5. t3 = [line |-> [m EXCEPT ![i] = C], claimed |-> cl \cup R]
    <3>1. \A z : [t2 EXCEPT !.line = z] = [line |-> z, claimed |-> cl \cup R]
      BY <2>3
    <3>2. t2.line = n
      BY <2>3
    <3>3. [n EXCEPT ![i].map = IF A.remap THEN <<"own">> ELSE @] = [m EXCEPT ![i] = C]
      BY <1>3, <2>4 DEF n
    <3> QED BY <3>1, <3>2, <3>3, Zenon
  <2>6. Region(C, i) = R
    <3>1. C.known /\ Address(C) = a
      <4>1. B.known /\ B.iotype = A.iotype /\ B.iobase = A.iobase /\ B.mapbase = A.mapbase
        BY <1>a DEF B
      <4>2. C.known /\ C.iotype = A.iotype /\ C.iobase = A.iobase /\ C.mapbase = A.mapbase
        BY <2>4, <4>1
      <4> QED BY <4>2 DEF Address, a
    <3> QED BY <3>1 DEF Region, R
  <2> HIDE DEF t3
  <2> QED BY <1>1, <1>5, <2>1, <2>5, <2>6 DEF C
<1> QED BY <1>7, <1>8

(* Lines with some of their fields changed, written out.                   *)
LEMMA RemovedForm ==
  ASSUME NEW l, LineForm(l), NEW x, NEW d,
         d = [l EXCEPT !.known = FALSE, !.attached = FALSE, !.use = "closed", !.map = x]
  PROVE  d = [iotype |-> l.iotype, iobase |-> l.iobase, mapbase |-> l.mapbase, map |-> x,
              remap |-> l.remap, boot |-> l.boot, known |-> FALSE, dev |-> l.dev,
              attached |-> FALSE, use |-> "closed"]
BY DEF LineForm

(* A removed line is closed and holds nothing; its address stays.          *)
LEMMA RemovedFacts ==
  ASSUME NEW l, LineForm(l)
  PROVE  LET d == Removed(l)
         IN  /\ LineForm(d) /\ d.known = FALSE /\ d.attached = FALSE /\ d.use = "closed"
             /\ d.iotype = l.iotype /\ d.remap = l.remap /\ d.dev = l.dev
             /\ Address(d) = Address(l)
<1> DEFINE d == Removed(l)
<1>1. PICK x : d = [l EXCEPT !.known = FALSE, !.attached = FALSE, !.use = "closed", !.map = x]
  BY Zenon DEF Removed
<1> HIDE DEF d
<1>2. d = [iotype |-> l.iotype, iobase |-> l.iobase, mapbase |-> l.mapbase, map |-> x,
           remap |-> l.remap, boot |-> l.boot, known |-> FALSE, dev |-> l.dev,
           attached |-> FALSE, use |-> "closed"]
  BY <1>1, RemovedForm
<1>3. /\ d.iotype = l.iotype /\ d.iobase = l.iobase /\ d.mapbase = l.mapbase /\ d.map = x
      /\ d.remap = l.remap /\ d.boot = l.boot /\ d.known = FALSE /\ d.dev = l.dev
      /\ d.attached = FALSE /\ d.use = "closed"
  BY <1>2
<1> QED BY <1>2, <1>3 DEF LineForm, Address, d

(* A line that was added, written out.                                     *)
LEMMA AddedForm ==
  ASSUME NEW l, LineForm(l), NEW x, NEW kn, NEW a,
         a = [l EXCEPT !.attached = TRUE, !.known = kn, !.map = x]
  PROVE  a = [iotype |-> l.iotype, iobase |-> l.iobase, mapbase |-> l.mapbase, map |-> x,
              remap |-> l.remap, boot |-> l.boot, known |-> kn, dev |-> l.dev,
              attached |-> TRUE, use |-> l.use]
BY DEF LineForm

(* A port that is registered gets a line of its own, detected if a UART    *)
(* answers: its region is never taken by another line.                     *)
LEMMA RegisterFacts ==
  ASSUME WellBuilt, NEW s, Tab(s), NEW b \in Boards, NEW k \in Nat, HasPort(b, k),
         NEW p, p = Port(b, k), NEW i \in Lines,
         Match(s.line[i], p) \/ \A j \in Lines : ~Match(s.line[j], p)
  PROVE  \E l : /\ Register(s, p, b, i) = With(s, i, l) /\ Tab(With(s, i, l))
                /\ l.dev = b /\ l.attached /\ l.use = "closed" /\ Address(l) = Address(p)
                /\ l.known = (Address(p) \notin sys.silent)
                /\ l.iotype = "mem" /\ ~l.remap => Pci(b) /\ l.map = p.map
<1> DEFINE ln == s.line
           cl == s.claimed
           W == Without(cl, i)
           D == Removed(ln[i])
           q == [RemoveOne(s, i) EXCEPT
                   !.line[i] = [@ EXCEPT !.iotype = p.iotype, !.iobase = p.iobase, !.map = p.map,
                                         !.mapbase = p.mapbase, !.remap = p.remap,
                                         !.boot = TRUE, !.dev = b]]
           N == [D EXCEPT !.iotype = p.iotype, !.iobase = p.iobase, !.map = p.map,
                          !.mapbase = p.mapbase, !.remap = p.remap, !.boot = TRUE, !.dev = b]
           m == [ln EXCEPT ![i] = N]
<1>1. s = [line |-> ln, claimed |-> cl] /\ Sane(ln) /\ cl = Held(ln)
  BY DEF Tab
<1>2. /\ p = [iotype |-> p.iotype, remap |-> p.remap, iobase |-> p.iobase,
              mapbase |-> p.mapbase, map |-> p.map]
      /\ p.iotype \in {"port", "mem"} /\ p.remap \in BOOLEAN
      /\ Address(p) # None /\ p.iotype = KindOf(Address(p))
      /\ p.iotype = "mem" => p.remap = ~Pci(b)
  BY PortFacts
<1>3. \A j \in Lines : j # i => Address(ln[j]) # Address(p)
  <2> SUFFICES ASSUME NEW j \in Lines, j # i, Address(ln[j]) = Address(p) PROVE FALSE
    OBVIOUS
  <2>1. Match(ln[j], p)
    BY <1>1, <1>2 DEF Match, Sane, LineOk
  <2>2. Address(ln[i]) = Address(ln[j])
    BY <2>1 DEF Match
  <2> QED BY <1>1, <1>2, <2>2 DEF Sane, Apart
<1>4. Register(s, p, b, i) = AddOne(q, i)
  BY Zenon DEF Register
<1>5. q = [line |-> m, claimed |-> W]
  <2> DEFINE r == RemoveOne(s, i)
             e == [ln EXCEPT ![i] = D]
  <2>1. r = [line |-> e, claimed |-> W]
    BY RemoveFacts
  <2> HIDE DEF r, D
  <2>2. r.line = e /\ \A z : [r EXCEPT !.line = z] = [line |-> z, claimed |-> W]
    BY <2>1
  <2>3. e[i] = D /\ \A z : [e EXCEPT ![i] = z] = [ln EXCEPT ![i] = z]
    BY <1>1 DEF Sane
  <2>4. q = [r EXCEPT !.line = [e EXCEPT ![i] = N]]
    <3> HIDE DEF e
    <3> QED BY <2>2, <2>3, Zenon DEF r
  <2> QED BY <2>2, <2>3, <2>4
<1>6. LineForm(ln[i]) /\ DOMAIN ln = Lines
  BY <1>1 DEF Sane
<1> HIDE DEF q, ln, cl, W
<1>7. LineForm(D) /\ D.known = FALSE /\ D.attached = FALSE /\ D.use = "closed"
  BY <1>6, RemovedFacts
<1> HIDE DEF D
<1>8. N = [iotype |-> p.iotype, iobase |-> p.iobase, mapbase |-> p.mapbase,
           map |-> p.map, remap |-> p.remap, boot |-> TRUE, known |-> FALSE,
           dev |-> b, attached |-> FALSE, use |-> "closed"]
  <2>1. N = [D EXCEPT !.iotype = p.iotype, !.iobase = p.iobase, !.map = p.map,
                      !.mapbase = p.mapbase, !.remap = p.remap, !.boot = TRUE, !.dev = b]
    OBVIOUS
  <2> HIDE DEF N
  <2>2. N = [iotype |-> p.iotype, iobase |-> p.iobase, mapbase |-> p.mapbase,
             map |-> p.map, remap |-> p.remap, boot |-> TRUE, known |-> D.known,
             dev |-> b, attached |-> D.attached, use |-> D.use]
    BY <1>7, <2>1 DEF LineForm
  <2> QED BY <1>7, <2>2
<1>9. LineForm(N) /\ Address(N) = Address(p) /\ ~N.attached /\ ~N.known /\ N.boot
  <2> HIDE DEF N
  <2> QED BY <1>2, <1>8 DEF LineForm, Address
<1> HIDE DEF N
<1> DEFINE kn == Answers(N)
           l == Added(N, kn)
<1>10. AddOne(q, i) = [line |-> [m EXCEPT ![i] = l], claimed |-> W \cup Region(l, i)]
  <2>1. i \in DOMAIN m /\ m[i] = N
    BY <1>6
  <2>2. ~ \E c \in W : c[1] = Address(N)
    BY <1>1, <1>3, <1>9 DEF W, Without, Held
  <2> HIDE DEF m
  <2>3. Address(N) # None => ~ \E c \in W : c[1] = Address(N)
    BY <2>2
  <2>4. AddOne([line |-> m, claimed |-> W], i)
        = [line |-> [m EXCEPT ![i] = Added(m[i], Answers(m[i]))],
           claimed |-> W \cup Region(Added(m[i], Answers(m[i])), i)]
    BY <1>9, <2>1, <2>3, AddFacts
  <2> QED BY <1>5, <2>1, <2>4 DEF l, kn
<1>11. /\ kn \in BOOLEAN /\ kn = (Address(p) \notin sys.silent)
  BY <1>2, <1>9 DEF Answers
<1> HIDE DEF kn
<1>12. l = [iotype |-> p.iotype, iobase |-> p.iobase, mapbase |-> p.mapbase,
           map |-> l.map, remap |-> p.remap, boot |-> TRUE, known |-> kn,
           dev |-> b, attached |-> TRUE, use |-> "closed"]
       /\ l.map = IF kn /\ p.remap THEN <<"own">> ELSE p.map
  <2> DEFINE x == IF kn /\ p.remap THEN <<"own">> ELSE p.map
  <2>2. N.remap = p.remap /\ N.map = p.map
    BY <1>8
  <2>3. l = [N EXCEPT !.attached = TRUE, !.known = kn, !.map = x]
    BY <2>2 DEF Added
  <2> HIDE DEF l, x
  <2>4. l = [iotype |-> N.iotype, iobase |-> N.iobase, mapbase |-> N.mapbase, map |-> x,
             remap |-> N.remap, boot |-> N.boot, known |-> kn, dev |-> N.dev,
             attached |-> TRUE, use |-> N.use]
    BY <1>9, <2>3, AddedForm
  <2>5. /\ N.iotype = p.iotype /\ N.iobase = p.iobase /\ N.mapbase = p.mapbase
        /\ N.boot = TRUE /\ N.dev = b /\ N.use = "closed"
    BY <1>8
  <2>6. l.map = x
    BY <2>4
  <2> QED BY <2>2, <2>4, <2>5, <2>6 DEF x
<1>13. LineForm(l) /\ LineOk(l) /\ Address(l) = Address(p)
  <2>1. Address(l) = Address(p) /\ l.iotype = p.iotype
    BY <1>12 DEF Address
  <2>2. LineForm(l)
    <3>1. /\ l.iotype = p.iotype /\ l.remap = p.remap /\ l.boot = TRUE /\ l.known = kn
          /\ l.dev = b /\ l.attached = TRUE /\ l.use = "closed" /\ l.iobase = p.iobase
          /\ l.mapbase = p.mapbase
      BY <1>12
    <3> QED BY <1>2, <1>11, <1>12, <3>1 DEF LineForm
  <2>3. LineOk(l)
    BY <1>2, <1>12, <2>1 DEF LineOk
  <2> QED BY <2>1, <2>2, <2>3
<1>14. Register(s, p, b, i) = With(s, i, l)
  BY <1>4, <1>10, [m EXCEPT ![i] = l] = [ln EXCEPT ![i] = l] DEF With, ln, cl, W
<1>15. Tab(With(s, i, l))
  <2>1. \A j \in Lines : j # i /\ Address(l) # None => Address(s.line[j]) # Address(l)
    BY <1>3, <1>13 DEF ln
  <2> QED BY <1>13, <2>1, Replace
<1> QED BY <1>2, <1>11, <1>12, <1>13, <1>14, <1>15

(* A line that is taken from its board is the legacy device's, with no     *)
(* region.                                                                 *)
LEMMA UnregisterFacts ==
  ASSUME NEW s, Tab(s), NEW i \in Lines
  PROVE  \E l : /\ Unregister(s, i) = With(s, i, l) /\ Tab(With(s, i, l))
                /\ l.dev = "isa" /\ ~l.known /\ l.use = "closed"
<1> DEFINE ln == s.line
           cl == s.claimed
           W == Without(cl, i)
           D == Removed(ln[i])
           q == [RemoveOne(s, i) EXCEPT !.line[i].boot = FALSE, !.line[i].dev = "isa"]
           N == [D EXCEPT !.boot = FALSE, !.dev = "isa"]
           m == [ln EXCEPT ![i] = N]
<1>1. s = [line |-> ln, claimed |-> cl] /\ Sane(ln) /\ cl = Held(ln)
  BY DEF Tab
<1>2. LineForm(ln[i]) /\ LineOk(ln[i]) /\ DOMAIN ln = Lines
  BY <1>1 DEF Sane
<1>3. Unregister(s, i) = AddOne(q, i)
  BY Zenon DEF Unregister
<1>4. q = [line |-> m, claimed |-> W]
  <2> DEFINE r == RemoveOne(s, i)
             e == [ln EXCEPT ![i] = D]
             B == [D EXCEPT !.boot = FALSE]
             r1 == [r EXCEPT !.line[i].boot = FALSE]
             r2 == [r1 EXCEPT !.line[i].dev = "isa"]
             e1 == [e EXCEPT ![i].boot = FALSE]
             e2 == [e1 EXCEPT ![i].dev = "isa"]
  <2>0. q = r2
    BY Zenon
  <2>1. r = [line |-> e, claimed |-> W]
    BY RemoveFacts
  <2>2. ASSUME NEW x, NEW y, x = [line |-> y, claimed |-> W]
        PROVE  /\ [x EXCEPT !.line[i].boot = FALSE]
                  = [line |-> [y EXCEPT ![i].boot = FALSE], claimed |-> W]
               /\ [x EXCEPT !.line[i].dev = "isa"]
                  = [line |-> [y EXCEPT ![i].dev = "isa"], claimed |-> W]
    <3>1. x.line = y
      BY <2>2
    <3>2. ASSUME NEW z PROVE [x EXCEPT !.line = z] = [line |-> z, claimed |-> W]
      BY <2>2
    <3> QED BY <3>1, <3>2, Zenon
  <2> HIDE DEF r, D
  <2>3. e1 = [ln EXCEPT ![i] = B]
    BY <1>2
  <2>4. e2 = m
    BY <1>2
  <2> HIDE DEF e
  <2>5. r1 = [line |-> e1, claimed |-> W]
    BY <2>1, <2>2, Zenon
  <2> HIDE DEF r1, e1
  <2>6. r2 = [line |-> e2, claimed |-> W]
    BY <2>2, <2>5, Zenon
  <2> HIDE DEF r2, e2
  <2> QED BY <2>0, <2>4, <2>6
<1> HIDE DEF q, ln, cl, W
<1>5. /\ LineForm(D) /\ D.known = FALSE /\ D.attached = FALSE /\ D.use = "closed"
      /\ Address(D) = Address(ln[i]) /\ D.iotype = ln[i].iotype
  BY <1>2, RemovedFacts
<1> HIDE DEF D
<1>6. N = [D EXCEPT !.boot = FALSE, !.dev = "isa"]
  OBVIOUS
<1> HIDE DEF N
<1>7. N = [iotype |-> D.iotype, iobase |-> D.iobase, mapbase |-> D.mapbase, map |-> D.map,
           remap |-> D.remap, boot |-> FALSE, known |-> D.known, dev |-> "isa",
           attached |-> D.attached, use |-> D.use]
  BY <1>5, <1>6 DEF LineForm
<1>8. /\ LineForm(N) /\ Address(N) = Address(ln[i]) /\ ~N.attached /\ ~N.known /\ ~N.boot
      /\ N.iotype = ln[i].iotype /\ N.dev = "isa" /\ N.use = "closed"
  BY <1>5, <1>7 DEF LineForm, Address
<1>9. Answers(N) = FALSE
  BY <1>8 DEF Answers
<1> DEFINE kn == Answers(N)
           l == Added(N, kn)
<1>10. AddOne(q, i) = [line |-> [m EXCEPT ![i] = l], claimed |-> W \cup Region(l, i)]
  <2>1. i \in DOMAIN m /\ m[i] = N
    BY <1>2
  <2>2. ~ \E c \in W : c[1] = Address(N) /\ Address(N) # None
    <3> SUFFICES ASSUME NEW j \in Lines, j # i, Address(ln[j]) = Address(ln[i]),
                        Address(ln[i]) # None
                 PROVE  FALSE
      BY <1>1, <1>8 DEF W, Without, Held
    <3> QED BY <1>1 DEF Sane, Apart
  <2> HIDE DEF m
  <2>3. Address(N) # None => ~ \E c \in W : c[1] = Address(N)
    BY <2>2
  <2>4. LineForm(N) /\ ~N.attached /\ ~N.known
    BY <1>8
  <2>5. AddOne([line |-> m, claimed |-> W], i)
        = [line |-> [m EXCEPT ![i] = Added(m[i], Answers(m[i]))],
           claimed |-> W \cup Region(Added(m[i], Answers(m[i])), i)]
    BY <2>1, <2>3, <2>4, AddFacts
  <2> QED BY <1>4, <2>1, <2>5 DEF l, kn
<1>11. l = [iotype |-> N.iotype, iobase |-> N.iobase, mapbase |-> N.mapbase, map |-> N.map,
            remap |-> N.remap, boot |-> N.boot, known |-> FALSE, dev |-> N.dev,
            attached |-> TRUE, use |-> N.use]
  <2>1. l = [N EXCEPT !.attached = TRUE, !.known = FALSE, !.map = N.map]
    BY <1>9 DEF Added
  <2> HIDE DEF l, kn
  <2> QED BY <1>8, <2>1, AddedForm
<1> HIDE DEF l, kn
<1>12. /\ LineForm(l) /\ Address(l) = Address(ln[i]) /\ l.iotype = ln[i].iotype
       /\ l.known = FALSE /\ l.dev = "isa" /\ l.use = "closed" /\ l.attached
  BY <1>8, <1>11 DEF LineForm, Address
<1>13. LineOk(l)
  BY <1>2, <1>12 DEF LineOk
<1>14. Unregister(s, i) = With(s, i, l)
  BY <1>3, <1>10, [m EXCEPT ![i] = l] = [ln EXCEPT ![i] = l] DEF With, ln, cl, W
<1>15. Tab(With(s, i, l))
  <2>1. \A j \in Lines : j # i /\ Address(l) # None => Address(s.line[j]) # Address(l)
    BY <1>1, <1>12 DEF ln, Sane, Apart
  <2> QED BY <1>12, <1>13, <2>1, Replace
<1> QED BY <1>12, <1>14, <1>15

-----------------------------------------------------------------------------
(* Boards that keep their notes.                                           *)

(* The lines of a board are finitely many.                                 *)
LEMMA OfFinite ==
  ASSUME sys \in Systems, NEW ln, NEW b
  PROVE  IsFiniteSet(Of(ln, b)) /\ Cardinality(Of(ln, b)) \in 0 .. sys.nr
<1>1. sys.nr \in Nat \ {0} /\ Lines = 0 .. sys.nr - 1
  BY SysFacts
<1>2. IsFiniteSet(Lines) /\ Cardinality(Lines) = sys.nr
  <2>1. 0 \in Int /\ sys.nr - 1 \in Int
    BY <1>1
  <2>2. IsFiniteSet(0 .. sys.nr - 1)
        /\ Cardinality(0 .. sys.nr - 1) = IF 0 > sys.nr - 1 THEN 0 ELSE (sys.nr - 1) - 0 + 1
    BY <2>1, FS_Interval
  <2> QED BY <1>1, <2>2
<1>3. Of(ln, b) \in SUBSET Lines
  BY DEF Of
<1>4. IsFiniteSet(Of(ln, b)) /\ Cardinality(Of(ln, b)) <= Cardinality(Lines)
  BY <1>2, <1>3, FS_Subset
<1>5. Cardinality(Of(ln, b)) \in Nat
  BY <1>4, FS_CardinalityType
<1> QED BY <1>1, <1>2, <1>4, <1>5

(* A board is not disturbed when a line changes that its driver does not   *)
(* note and that does not become its own.                                  *)
LEMMA OtherBoard ==
  ASSUME sys \in Systems, NEW ln, ln = [j \in Lines |-> ln[j]], NEW c \in Boards, NEW r,
         OfBoard(ln, r, c), NEW i \in Lines, NEW l, l.dev # c, ~Plat(c) => ln[i].dev # c
  PROVE  OfBoard([ln EXCEPT ![i] = l], r, c)
<1> DEFINE m == [ln EXCEPT ![i] = l]
<1>1. m[i] = l /\ \A j \in Lines : j # i => m[j] = ln[j]
  OBVIOUS
<1> HIDE DEF m
<1>2. Of(m, c) \in SUBSET Of(ln, c) /\ Of(m, c) \subseteq Lines /\ i \notin Of(m, c)
  BY <1>1 DEF Of
<1>3. /\ Cardinality(Of(ln, c)) \in Nat /\ Cardinality(Of(m, c)) \in Nat
      /\ Cardinality(Of(m, c)) <= Cardinality(Of(ln, c))
  BY <1>2, OfFinite, FS_Subset
<1>4. Noting(m, r, c)
  <2>1. Noting(ln, r, c) /\ BoardForm(r)
    BY DEF OfBoard
  <2>2. r.lines \in Seq(Lines) /\ KeptIn(r) \subseteq DOMAIN r.lines
    BY <2>1 DEF BoardForm, KeptIn
  <2>3. \A k \in KeptIn(r) : r.lines[k] \in Lines
    BY <2>2
  <2>4. ASSUME ~Plat(c), NEW k \in KeptIn(r) PROVE m[r.lines[k]] = ln[r.lines[k]]
    <3>1. ln[r.lines[k]].dev = c
      BY <2>1, <2>4 DEF Noting
    <3> QED BY <1>1, <2>3, <2>4, <3>1
  <2> QED BY <1>2, <2>1, <2>4 DEF Noting
<1>5. Counting(m, r, c)
  <2>1. Counting(ln, r, c) /\ r.next \in Nat /\ sys.nr \in Nat
    BY SysFacts DEF OfBoard, BoardForm
  <2> QED BY <1>3, <2>1 DEF Counting
<1>6. Awake(ln, r, c) => Awake(m, r, c)
  BY <1>1, <1>2 DEF Awake, Of
<1> QED BY <1>4, <1>5, <1>6 DEF OfBoard, m

(* The notes of one board change, and no line.                             *)
LEMMA BoardStep ==
  ASSUME NEW ln, NEW bd, NEW ld, BoardsOk(ln, bd, ld), NEW b \in Boards, NEW r,
         OfBoard(ln, r, b), ~ld => r.st = "unbound",
         \A i \in Lines : ln[i].known /\ ln[i].iotype = "mem" /\ ~ln[i].remap /\ ln[i].dev = b =>
           ln[i].map \in r.maps
  PROVE  BoardsOk(ln, [bd EXCEPT ![b] = r], ld)
<1> DEFINE d == [bd EXCEPT ![b] = r]
<1>1. d[b] = r /\ d = [c \in Boards |-> d[c]] /\ \A c \in Boards : c # b => d[c] = bd[c]
  BY DEF BoardsOk
<1> HIDE DEF d
<1>2. Present(ln, d, ld)
  BY <1>1 DEF BoardsOk, Present
<1>3. Mapped(ln, d)
  BY <1>1 DEF BoardsOk, Mapped
<1>4. \A c \in Boards : OfBoard(ln, d[c], c)
  BY <1>1 DEF BoardsOk
<1> QED BY <1>1, <1>2, <1>3, <1>4 DEF BoardsOk, d

(* Lines are opened, closed, stopped and started.                          *)
LEMMA UseStep ==
  ASSUME sys \in Systems, NEW ln, NEW cl, NEW bd, NEW ld,
         Tab([line |-> ln, claimed |-> cl]), BoardsOk(ln, bd, ld),
         NEW m, m = [i \in Lines |-> m[i]],
         \A i \in Lines : /\ m[i] = [ln[i] EXCEPT !.use = m[i].use]
                          /\ m[i].use \in {"closed", "running", "asleep"}
                          /\ m[i].use # "closed" => ln[i].known,
         ~OpenWhileDown => \A b \in Boards : bd[b].st \in {"asleep", "error", "reset", "dead"} =>
           \A i \in Of(ln, b) : m[i].use # "running"
  PROVE  Tab([line |-> m, claimed |-> cl]) /\ BoardsOk(m, bd, ld)
<1>1. Sane(ln) /\ cl = Held(ln)
  BY DEF Tab
<1>2. ASSUME NEW i \in Lines
      PROVE  /\ LineForm(m[i]) /\ Address(m[i]) = Address(ln[i]) /\ m[i].iotype = ln[i].iotype
             /\ m[i].known = ln[i].known /\ m[i].attached = ln[i].attached
             /\ m[i].dev = ln[i].dev /\ m[i].remap = ln[i].remap /\ m[i].map = ln[i].map
             /\ (m[i].use # "closed" => ln[i].known)
  <2>1. LineForm(ln[i])
    BY <1>1 DEF Sane
  <2>2. PICK u : m[i] = [ln[i] EXCEPT !.use = u] /\ u = m[i].use
    OBVIOUS
  <2>3. m[i] = [iotype |-> ln[i].iotype, iobase |-> ln[i].iobase, mapbase |-> ln[i].mapbase,
                map |-> ln[i].map, remap |-> ln[i].remap, boot |-> ln[i].boot,
                known |-> ln[i].known, dev |-> ln[i].dev, attached |-> ln[i].attached, use |-> u]
    BY <2>1, <2>2 DEF LineForm
  <2>4. /\ m[i].iotype = ln[i].iotype /\ m[i].iobase = ln[i].iobase
        /\ m[i].mapbase = ln[i].mapbase /\ m[i].map = ln[i].map /\ m[i].remap = ln[i].remap
        /\ m[i].boot = ln[i].boot /\ m[i].known = ln[i].known /\ m[i].dev = ln[i].dev
        /\ m[i].attached = ln[i].attached
    BY <2>3
  <2>5. LineForm(m[i])
    BY <2>1, <2>2, <2>3, <2>4 DEF LineForm
  <2> QED BY <2>4, <2>5 DEF Address
<1>3. Sane(m)
  <2>1. ASSUME NEW i \in Lines PROVE LineForm(m[i]) /\ LineOk(m[i])
    BY <1>1, <1>2 DEF Sane, LineOk
  <2>2. Apart(m)
    BY <1>1, <1>2 DEF Sane, Apart
  <2> QED BY <2>1, <2>2 DEF Sane
<1>4. cl = Held(m)
  BY <1>1, <1>2 DEF Held
<1>5. Present(m, bd, ld) /\ Mapped(m, bd)
  BY <1>2 DEF BoardsOk, Present, Mapped
<1>6. ASSUME NEW b \in Boards PROVE OfBoard(m, bd[b], b)
  <2>1. OfBoard(ln, bd[b], b)
    BY DEF BoardsOk
  <2>2. Of(m, b) = Of(ln, b)
    BY <1>2 DEF Of
  <2>3. bd[b].lines \in Seq(Lines) /\ KeptIn(bd[b]) \subseteq DOMAIN bd[b].lines
    BY <2>1 DEF OfBoard, BoardForm, KeptIn
  <2>4. \A k \in KeptIn(bd[b]) : bd[b].lines[k] \in Lines
    BY <2>3
  <2>5. Noting(m, bd[b], b)
    BY <1>2, <2>1, <2>2, <2>4 DEF OfBoard, Noting
  <2>6. ~OpenWhileDown => Awake(m, bd[b], b)
    BY <2>1, <2>2 DEF OfBoard, Awake
  <2> QED BY <2>1, <2>2, <2>5, <2>6 DEF OfBoard, Counting
<1> QED BY <1>3, <1>4, <1>5, <1>6 DEF Tab, BoardsOk

-----------------------------------------------------------------------------
(* The invariant at the next state.                                        *)

Good(ln, cl, bd, ld) == Tab([line |-> ln, claimed |-> cl]) /\ BoardsOk(ln, bd, ld)

(* The machine never changes: what is good of the new values is invariant. *)
LEMMA Carry ==
  ASSUME LinesInv, sys' = sys, Good(line', claimed', board', loaded')
  PROVE  LinesInv'
<1>0. ASSUME NEW b, NEW i
      PROVE  /\ Card(b)' = Card(b) /\ (Pci(b)' <=> Pci(b)) /\ (Plat(b)' <=> Plat(b))
             /\ (HasPort(b, i)' <=> HasPort(b, i)) /\ Where(b, i)' = Where(b, i)
  <2>1. Card(b)' = Card(b) /\ (Pci(b)' <=> Pci(b)) /\ (Plat(b)' <=> Plat(b))
    BY DEF Card, Pci, Plat
  <2>2. HasPort(b, i)' <=> HasPort(b, i)
    BY DEF HasPort, NumPorts, Fits, Card, Pci
  <2>3. Port(b, i)' = Port(b, i)
    BY DEF Port, SetupPort, GivenPort, Card, Pci
  <2>4. Where(b, i)' = Where(b, i)
    BY <2>3 DEF Where, Address
  <2> QED BY <2>1, <2>2, <2>4
<1>1. WellBuilt'
  <2>1. WellBuilt
    BY DEF LinesInv
  <2>2. ASSUME NEW b \in Boards PROVE CardOk(b)'
    BY <2>1 DEF WellBuilt, CardOk, Card, Pci
  <2>3. ASSUME NEW b \in Boards PROVE Placed(b)'
    <3>1. Placed(b)
      BY <2>1 DEF WellBuilt
    <3> QED BY <1>0, <3>1 DEF Placed, Width
  <2>4. NoConflict'
    <3>1. (\A b \in Boards : ~Plat(b) => \A i \in Nat : HasPort(b, i) =>
             Where(b, i) \notin sys.silent)'
      BY <1>0, <2>1 DEF WellBuilt, NoConflict
    <3>2. (\A b, c \in Boards : b # c /\ Card(b).bus = "pnp" /\ ~Pci(c) =>
             \A i \in DOMAIN Card(b).at, j \in DOMAIN Card(c).at :
               Card(b).at[i] # Card(c).at[j])'
      BY <2>1 DEF WellBuilt, NoConflict, Card, Pci
    <3> QED BY <3>1, <3>2 DEF NoConflict
  <2>5. LegacyOk'
    BY <2>1 DEF WellBuilt, LegacyOk
  <2> QED BY <2>1, <2>2, <2>3, <2>4, <2>5 DEF WellBuilt
<1>2. Tab(Table)'
  <2>1. Sane(line') /\ claimed' = Held(line')
    BY DEF Good, Tab
  <2>2. (\A i \in Lines : LineForm(line[i]))'
    BY <2>1 DEF Sane, Lines, LineForm
  <2>3. (\A i \in Lines : LineOk(line[i]))'
    BY <2>1 DEF Sane, Lines, LineOk, KindOf, Address, None, Card
  <2>4. Apart(line)' /\ (line = [i \in Lines |-> line[i]])'
    BY <2>1 DEF Sane, Lines, Apart, Address, None
  <2>5. (claimed = Held(line))'
    BY <2>1 DEF Held, Lines, Address
  <2> QED BY <2>2, <2>3, <2>4, <2>5 DEF Tab, Table, Sane
<1>3. BoardsOk(line, board, loaded)'
  <2>1. BoardsOk(line', board', loaded')
    BY DEF Good
  <2>2. /\ (loaded \in BOOLEAN /\ Present(line, board, loaded) /\ Mapped(line, board))'
        /\ (board = [b \in Boards |-> board[b]])'
    BY <2>1 DEF BoardsOk, Present, Mapped, Lines
  <2>3. ASSUME NEW b \in Boards PROVE OfBoard(line, board[b], b)'
    <3>1. OfBoard(line', board'[b], b)
      BY <2>1 DEF BoardsOk
    <3>2. Noting(line, board[b], b)'
      BY <1>0, <3>1 DEF OfBoard, Noting, KeptIn, Of, Lines, Address
    <3>3. Counting(line, board[b], b)'
      BY <3>1 DEF OfBoard, Counting, Of, Lines, NumPorts, Card, Pci
    <3>4. (BoardForm(board[b]) /\ (~OpenWhileDown => Awake(line, board[b], b)))'
      BY <3>1 DEF OfBoard, BoardForm, Awake, Of, Lines, Pci, Card
    <3> QED BY <3>2, <3>3, <3>4 DEF OfBoard
  <2> QED BY <2>2, <2>3 DEF BoardsOk
<1> QED BY <1>1, <1>2, <1>3 DEF LinesInv

(* What the invariant says of one board.                                   *)
LEMMA BoardFacts ==
  ASSUME LinesInv, NEW b \in Boards
  PROVE  /\ sys \in Systems /\ sys.nr \in Nat \ {0} /\ Lines = 0 .. sys.nr - 1
         /\ OfBoard(line, board[b], b) /\ BoardForm(board[b]) /\ board[b].next \in Nat
         /\ board[b].lines \in Seq(Lines) /\ Len(board[b].lines) \in Nat
         /\ NumPorts(b) \in Nat \cup {Nodev} /\ Nodev = -1
         /\ (loaded \/ board[b].st = "unbound")
         /\ Card(b).bus \in {"pci", "pnp", "plat"}
<1>1. BoardsOk(line, board, loaded) /\ sys \in Systems /\ WellBuilt
  BY DEF LinesInv
<1>2. CardOk(b)
  BY <1>1 DEF WellBuilt
<1>3. NumPorts(b) \in Nat \cup {Nodev}
  BY <1>2 DEF CardOk, NumPorts
<1>4. OfBoard(line, board[b], b) /\ BoardForm(board[b])
  BY <1>1 DEF BoardsOk, OfBoard
<1>5. board[b].next \in Nat /\ board[b].lines \in Seq(Lines) /\ Len(board[b].lines) \in Nat
  BY <1>4 DEF BoardForm
<1> QED BY <1>1, <1>2, <1>3, <1>4, <1>5, SysFacts DEF CardOk, BoardsOk, Present, Nodev

(* Only the notes of one board change.                                     *)
LEMMA NotesChange ==
  ASSUME LinesInv, NEW b \in Boards, NEW r, board' = [board EXCEPT ![b] = r],
         UNCHANGED <<sys, loaded, line, claimed>>, OfBoard(line, r, b),
         ~loaded => r.st = "unbound",
         board[b].maps \subseteq r.maps \/ Of(line, b) = {}
  PROVE  LinesInv'
<1>1. BoardsOk(line, board, loaded) /\ Tab(Table)
  BY DEF LinesInv
<1>2. \A i \in Lines : line[i].known /\ line[i].iotype = "mem" /\ ~line[i].remap
                       /\ line[i].dev = b => line[i].map \in r.maps
  BY <1>1 DEF BoardsOk, Mapped, Of
<1>3. BoardsOk(line, board', loaded)
  BY <1>1, <1>2, BoardStep
<1>4. Good(line', claimed', board', loaded')
  BY <1>1, <1>3 DEF Good, Table
<1> QED BY <1>4, Carry

(* A device is switched on or off: the rest of the notes are the same.     *)
Switched(e, o) ==
  e = [st |-> o.st, next |-> o.next, lines |-> o.lines, maps |-> o.maps, cnt |-> e.cnt,
       on |-> e.on]

(* Switching changes the count and the switch, and nothing else.           *)
LEMMA EnabledForm ==
  ASSUME NEW o, BoardForm(o)
  PROVE  Switched(o, o) /\ Switched(Enabled(o), o) /\ Enabled(o).on /\ Switched(Disabled(o), o)
<1>1. Switched(o, o)
  BY DEF Switched, BoardForm
<1>2. ASSUME NEW c, NEW v, NEW e, e = [o EXCEPT !.cnt = c, !.on = v]
      PROVE  Switched(e, o) /\ e.on = v
  <2>1. e = [st |-> o.st, next |-> o.next, lines |-> o.lines, maps |-> o.maps, cnt |-> c, on |-> v]
    BY <1>2 DEF BoardForm
  <2>2. e.cnt = c /\ e.on = v
    BY <2>1
  <2> QED BY <2>1, <2>2 DEF Switched
<1>3. Switched(Enabled(o), o) /\ Enabled(o).on
  BY <1>2, Zenon DEF Enabled
<1>4. Switched(Disabled(o), o)
  BY <1>2, Zenon DEF Disabled
<1> QED BY <1>1, <1>3, <1>4

(* A board that is bound has its device switched on and nothing noted.     *)
LEMMA BindInv ==
  ASSUME LinesInv, NEW b \in Boards, Bind(b)
  PROVE  LinesInv'
<1> DEFINE o == board[b]
           e == IF Pci(b) THEN Enabled(o) ELSE o
           r == [e EXCEPT !.st = "probing", !.next = 0]
<1>1. /\ board' = [board EXCEPT ![b] = r] /\ UNCHANGED <<sys, loaded, line, claimed>>
      /\ loaded /\ o.st = "unbound" /\ NumPorts(b) # Nodev
  BY DEF Bind
<1>2. OfBoard(line, o, b) /\ BoardForm(o) /\ NumPorts(b) \in Nat /\ sys.nr \in Nat
  BY <1>1, BoardFacts
<1>3. /\ r = [st |-> "probing", next |-> 0, lines |-> o.lines, maps |-> o.maps, cnt |-> r.cnt,
              on |-> r.on]
      /\ Pci(b) => r.on
  <2>1. r = [e EXCEPT !.st = "probing", !.next = 0]
    OBVIOUS
  <2>2. Switched(e, o) /\ (Pci(b) => e.on)
    BY <1>2, EnabledForm DEF OfBoard
  <2> HIDE DEF r, e
  <2>3. r = [st |-> "probing", next |-> 0, lines |-> e.lines, maps |-> e.maps, cnt |-> e.cnt,
             on |-> e.on]
    BY <2>1, <2>2 DEF Switched
  <2>4. r.cnt = e.cnt /\ r.on = e.on
    BY <2>3
  <2> QED BY <2>2, <2>3, <2>4 DEF Switched
<1> HIDE DEF r, e
<1>4. /\ r.st = "probing" /\ r.next = 0 /\ r.lines = o.lines /\ r.maps = o.maps
  BY <1>3
<1>5. o.lines = <<>> /\ Of(line, b) = {}
  BY <1>1, <1>2 DEF OfBoard, Noting
<1>6. OfBoard(line, r, b)
  <2>1. BoardForm(r)
    BY <1>2, <1>3, <1>4 DEF BoardForm
  <2>2. Noting(line, r, b)
    BY <1>4, <1>5 DEF Noting, KeptIn
  <2>3. Counting(line, r, b) /\ Awake(line, r, b)
    BY <1>2, <1>3, <1>4, <1>1 DEF Counting, Awake
  <2> QED BY <2>1, <2>2, <2>3 DEF OfBoard
<1> QED BY <1>1, <1>4, <1>6, NotesChange

(* A board whose probe fails at once is switched off again.                *)
LEMMA BindFailsInv ==
  ASSUME LinesInv, NEW b \in Boards, BindFails(b)
  PROVE  LinesInv'
<1> DEFINE o == board[b]
           e == Enabled(o)
           r == Disabled(e)
<1>1. /\ board' = [board EXCEPT ![b] = r] /\ UNCHANGED <<sys, loaded, line, claimed>>
      /\ o.st = "unbound"
  BY DEF BindFails
<1>2. OfBoard(line, o, b) /\ BoardForm(o)
  BY BoardFacts
<1>3. Switched(r, o)
  <2>1. Switched(e, o)
    BY <1>2, EnabledForm
  <2> HIDE DEF e
  <2>2. /\ e.st = o.st /\ e.next = o.next /\ e.lines = o.lines /\ e.maps = o.maps
    BY <2>1 DEF Switched
  <2>3. BoardForm(e)
    BY <1>2, <2>1, <2>2 DEF Switched, BoardForm
  <2>4. Switched(r, e)
    BY <2>3, EnabledForm
  <2> HIDE DEF r
  <2> QED BY <2>2, <2>4 DEF Switched
<1> HIDE DEF r, e
<1>4. r.st = o.st /\ r.next = o.next /\ r.lines = o.lines /\ r.maps = o.maps
  BY <1>3 DEF Switched
<1>5. OfBoard(line, r, b)
  <2>1. BoardForm(r)
    BY <1>2, <1>3, <1>4 DEF Switched, BoardForm
  <2>2. Noting(line, r, b) /\ Counting(line, r, b)
    BY <1>2, <1>4 DEF OfBoard, Noting, Counting, KeptIn
  <2>3. Awake(line, r, b)
    BY <1>1, <1>4 DEF Awake
  <2> QED BY <2>1, <2>2, <2>3 DEF OfBoard
<1> QED BY <1>1, <1>4, <1>5, NotesChange

(* A board's state changes, and maybe its position and its mappings.       *)
LEMMA StateForm ==
  ASSUME NEW o, BoardForm(o)
  PROVE  /\ \A v : LET r == [o EXCEPT !.st = v]
                   IN  r = [st |-> v, next |-> o.next, lines |-> o.lines, maps |-> o.maps,
                            cnt |-> o.cnt, on |-> o.on]
         /\ \A v, n : LET r == [o EXCEPT !.st = v, !.next = n]
                      IN  r = [st |-> v, next |-> n, lines |-> o.lines, maps |-> o.maps,
                               cnt |-> o.cnt, on |-> o.on]
         /\ \A n : LET r == [o EXCEPT !.next = n]
                   IN  r = [st |-> o.st, next |-> n, lines |-> o.lines, maps |-> o.maps,
                            cnt |-> o.cnt, on |-> o.on]
         /\ \A v, m : LET r == [o EXCEPT !.st = v, !.maps = m]
                      IN  r = [st |-> v, next |-> o.next, lines |-> o.lines, maps |-> m,
                               cnt |-> o.cnt, on |-> o.on]
<1>1. ASSUME NEW v, NEW r, r = [o EXCEPT !.st = v]
      PROVE  r = [st |-> v, next |-> o.next, lines |-> o.lines, maps |-> o.maps,
                  cnt |-> o.cnt, on |-> o.on]
  BY <1>1 DEF BoardForm
<1>2. ASSUME NEW v, NEW n, NEW r, r = [o EXCEPT !.st = v, !.next = n]
      PROVE  r = [st |-> v, next |-> n, lines |-> o.lines, maps |-> o.maps,
                  cnt |-> o.cnt, on |-> o.on]
  BY <1>2 DEF BoardForm
<1>3. ASSUME NEW n, NEW r, r = [o EXCEPT !.next = n]
      PROVE  r = [st |-> o.st, next |-> n, lines |-> o.lines, maps |-> o.maps,
                  cnt |-> o.cnt, on |-> o.on]
  BY <1>3 DEF BoardForm
<1>4. ASSUME NEW v, NEW m, NEW r, r = [o EXCEPT !.st = v, !.maps = m]
      PROVE  r = [st |-> v, next |-> o.next, lines |-> o.lines, maps |-> m,
                  cnt |-> o.cnt, on |-> o.on]
  BY <1>4 DEF BoardForm
<1> QED BY <1>1, <1>2, <1>3, <1>4, Zenon

(* The driver gives up on the rest of the ports, on this port, or wholly.  *)
LEMMA NoPortInv ==
  ASSUME LinesInv, NEW b \in Boards, NEW maps, board[b].st = "probing",
         board[b].next < NumPorts(b), NoPort(b, maps), UNCHANGED <<sys, loaded, line, claimed>>
  PROVE  LinesInv'
<1> DEFINE o == board[b]
<1>1. /\ OfBoard(line, o, b) /\ BoardForm(o) /\ NumPorts(b) \in Nat /\ sys.nr \in Nat
      /\ o.next \in Nat /\ loaded /\ Card(b).bus \in {"pci", "pnp", "plat"}
  BY BoardFacts
<1>2. CASE Pci(b)
  <2> DEFINE r == [o EXCEPT !.st = "bound", !.maps = @ \cup maps]
  <2>1. board' = [board EXCEPT ![b] = r]
    <3>1. Pci(b) /\ ~Plat(b)
      BY <1>2 DEF Pci, Plat
    <3> QED BY <3>1 DEF NoPort
  <2>2. r = [st |-> "bound", next |-> o.next, lines |-> o.lines, maps |-> o.maps \cup maps,
             cnt |-> o.cnt, on |-> o.on]
    BY <1>1, StateForm, Zenon
  <2> HIDE DEF r
  <2>3. /\ r.st = "bound" /\ r.next = o.next /\ r.lines = o.lines /\ r.maps = o.maps \cup maps
        /\ r.on = o.on
    BY <2>2
  <2>4. BoardForm(r)
    BY <1>1, <2>2, <2>3 DEF BoardForm
  <2>5. Noting(line, r, b) /\ Counting(line, r, b) /\ (~OpenWhileDown => Awake(line, r, b))
    BY <1>1, <1>2, <2>3 DEF OfBoard, Noting, Counting, Awake, KeptIn, Nodev, Pci, Plat
  <2> QED BY <1>1, <2>1, <2>3, <2>4, <2>5, NotesChange DEF OfBoard
<1>3. CASE Plat(b)
  <2> DEFINE r == [o EXCEPT !.next = @ + 1]
  <2>1. board' = [board EXCEPT ![b] = r]
    <3>1. ~Pci(b) /\ Plat(b)
      BY <1>3 DEF Pci, Plat
    <3> QED BY <3>1 DEF NoPort
  <2>2. r = [st |-> o.st, next |-> o.next + 1, lines |-> o.lines, maps |-> o.maps,
             cnt |-> o.cnt, on |-> o.on]
    BY <1>1, StateForm, Zenon
  <2> HIDE DEF r
  <2>3. /\ r.st = "probing" /\ r.next = o.next + 1 /\ r.lines = o.lines /\ r.maps = o.maps
        /\ r.on = o.on
    BY <2>2
  <2>4. BoardForm(r)
    BY <1>1, <2>2, <2>3 DEF BoardForm
  <2>5. Noting(line, r, b) /\ Counting(line, r, b) /\ (~OpenWhileDown => Awake(line, r, b))
    BY <1>1, <1>3, <2>3 DEF OfBoard, Noting, Counting, Awake, KeptIn, Nodev, Pci, Plat
  <2> QED BY <1>1, <2>1, <2>3, <2>4, <2>5, NotesChange DEF OfBoard
<1>4. CASE ~Pci(b) /\ ~Plat(b)
  <2> DEFINE r == [o EXCEPT !.st = "unbound"]
  <2>1. board' = [board EXCEPT ![b] = r]
    BY <1>4, Zenon DEF NoPort
  <2>2. r = [st |-> "unbound", next |-> o.next, lines |-> o.lines, maps |-> o.maps,
             cnt |-> o.cnt, on |-> o.on]
    BY <1>1, StateForm, Zenon
  <2> HIDE DEF r
  <2>3. /\ r.st = "unbound" /\ r.next = o.next /\ r.lines = o.lines /\ r.maps = o.maps
        /\ r.on = o.on
    BY <2>2
  <2>4. BoardForm(r)
    BY <1>1, <2>2, <2>3 DEF BoardForm
  <2>5. o.lines = <<>> /\ Of(line, b) = {}
    <3>1. CardOk(b)
      BY DEF LinesInv, WellBuilt
    <3>2. Card(b).bus = "pnp"
      BY <1>1, <1>4 DEF Pci, Plat
    <3>3. NumPorts(b) <= 1
      BY <1>4, <3>1, <3>2 DEF CardOk, NumPorts
    <3>4. o.next = 0 /\ o.next = Len(o.lines)
      BY <1>1, <1>4, <3>3 DEF OfBoard, Noting
    <3>5. o.lines = <<>>
      BY <1>1, <3>4, EmptySeq DEF BoardForm
    <3> QED BY <1>1, <1>4, <3>5 DEF OfBoard, Noting, KeptIn
  <2>6. Noting(line, r, b) /\ Counting(line, r, b) /\ (~OpenWhileDown => Awake(line, r, b))
    BY <1>1, <1>4, <2>3, <2>5 DEF OfBoard, Noting, Counting, Awake, KeptIn, Pci, Plat
  <2> QED BY <1>1, <2>1, <2>3, <2>4, <2>6, NotesChange DEF OfBoard
<1> QED BY <1>2, <1>3, <1>4

(* A port that does not exist or cannot be mapped is passed over.          *)
LEMMA SetupFailsInv ==
  ASSUME LinesInv, NEW b \in Boards, SetupFails(b)
  PROVE  LinesInv'
BY NoPortInv DEF SetupFails

(* All the ports have been tried.                                          *)
LEMMA BoundInv ==
  ASSUME LinesInv, NEW b \in Boards, Bound(b)
  PROVE  LinesInv'
<1> DEFINE o == board[b]
           r == [o EXCEPT !.st = "bound"]
<1>1. /\ board' = [board EXCEPT ![b] = r] /\ UNCHANGED <<sys, loaded, line, claimed>>
      /\ o.st = "probing"
  BY DEF Bound, Goto
<1>2. /\ OfBoard(line, o, b) /\ BoardForm(o) /\ loaded
  BY <1>1, BoardFacts
<1>3. r = [st |-> "bound", next |-> o.next, lines |-> o.lines, maps |-> o.maps, cnt |-> o.cnt,
           on |-> o.on]
  BY <1>2, StateForm, Zenon
<1> HIDE DEF r
<1>4. r.st = "bound" /\ r.next = o.next /\ r.lines = o.lines /\ r.maps = o.maps /\ r.on = o.on
  BY <1>3
<1>5. BoardForm(r)
  BY <1>2, <1>3, <1>4 DEF BoardForm
<1>6. Noting(line, r, b) /\ Counting(line, r, b) /\ (~OpenWhileDown => Awake(line, r, b))
  BY <1>1, <1>2, <1>4 DEF OfBoard, Noting, Counting, Awake, KeptIn
<1> QED BY <1>1, <1>2, <1>4, <1>5, <1>6, NotesChange DEF OfBoard

(* The driver starts to remove the board, awake or in trouble.             *)
LEMMA UnbindInv ==
  ASSUME LinesInv, NEW b \in Boards, Unbind(b)
  PROVE  LinesInv'
<1> DEFINE o == board[b]
           r == [o EXCEPT !.st = "removing", !.next = 0]
<1>1. /\ board' = [board EXCEPT ![b] = r] /\ UNCHANGED <<sys, loaded, line, claimed>>
      /\ o.st \in {"bound", "error", "reset", "dead"}
  <2>1. /\ board' = [board EXCEPT ![b].st = "removing", ![b].next = 0]
        /\ UNCHANGED <<sys, loaded, line, claimed>> /\ o.st \in {"bound", "error", "reset", "dead"}
    BY DEF Unbind
  <2>2. board = [c \in Boards |-> board[c]]
    BY DEF LinesInv, BoardsOk
  <2>3. [board EXCEPT ![b].st = "removing", ![b].next = 0] = [board EXCEPT ![b] = r]
    BY <2>2
  <2> QED BY <2>1, <2>3
<1>2. /\ OfBoard(line, o, b) /\ BoardForm(o) /\ loaded /\ NumPorts(b) \in Nat \cup {Nodev}
      /\ sys.nr \in Nat /\ sys \in Systems
  BY <1>1, BoardFacts
<1>3. r = [st |-> "removing", next |-> 0, lines |-> o.lines, maps |-> o.maps, cnt |-> o.cnt,
           on |-> o.on]
  BY <1>2, StateForm, Zenon
<1> HIDE DEF r
<1>4. r.st = "removing" /\ r.next = 0 /\ r.lines = o.lines /\ r.maps = o.maps
  BY <1>3
<1>5. BoardForm(r)
  BY <1>2, <1>3, <1>4 DEF BoardForm
<1>6. KeptIn(r) = DOMAIN o.lines /\ KeptIn(o) = DOMAIN o.lines
  <2>1. \A k \in DOMAIN o.lines : k > 0
    BY <1>2 DEF BoardForm
  <2> QED BY <1>1, <1>4, <2>1 DEF KeptIn
<1>7. Noting(line, r, b)
  BY <1>1, <1>2, <1>4, <1>6 DEF OfBoard, Noting
<1>8. Counting(line, r, b)
  <2>1. Cardinality(Of(line, b)) \in 0 .. sys.nr
    BY <1>2, OfFinite
  <2>2. NumPorts(b) \in Nat
    BY <1>1, <1>2 DEF OfBoard, Counting
  <2> QED BY <1>2, <1>4, <2>1, <2>2 DEF Counting, Nodev
<1>9. Awake(line, r, b)
  BY <1>4 DEF Awake
<1> QED BY <1>1, <1>2, <1>4, <1>5, <1>7, <1>8, <1>9, NotesChange DEF OfBoard

(* The board is gone, and no line names it.                                *)
LEMMA UnboundInv ==
  ASSUME LinesInv, NEW b \in Boards, Unbound(b)
  PROVE  LinesInv'
<1> DEFINE o == board[b]
           e == IF Pci(b) THEN Disabled(o) ELSE o
           r == [e EXCEPT !.st = "unbound", !.lines = <<>>, !.maps = {}]
<1>1. /\ board' = [board EXCEPT ![b] = r] /\ UNCHANGED <<sys, loaded, line, claimed>>
      /\ o.st = "removing" /\ ToUnregister(b) = {}
  BY DEF Unbound
<1>2. /\ OfBoard(line, o, b) /\ BoardForm(o) /\ sys.nr \in Nat /\ o.next \in Nat
      /\ o.lines \in Seq(Lines)
  BY BoardFacts
<1>3. Of(line, b) = {}
  <2>1. CASE Plat(b)
    BY <1>1, <2>1 DEF ToUnregister, Of
  <2>2. CASE ~Plat(b)
    <3>1. ~(o.next < Len(o.lines))
      BY <1>1, <2>2 DEF ToUnregister
    <3>2. KeptIn(o) = {}
      BY <1>1, <1>2, <3>1 DEF KeptIn
    <3> QED BY <1>2, <2>2, <3>2 DEF OfBoard, Noting
  <2> QED BY <2>1, <2>2
<1>4. r = [st |-> "unbound", next |-> o.next, lines |-> <<>>, maps |-> {}, cnt |-> r.cnt,
           on |-> r.on]
  <2>1. r = [e EXCEPT !.st = "unbound", !.lines = <<>>, !.maps = {}]
    OBVIOUS
  <2>2. Switched(e, o)
    BY <1>2, EnabledForm
  <2> HIDE DEF r, e
  <2>3. r = [st |-> "unbound", next |-> o.next, lines |-> <<>>, maps |-> {}, cnt |-> e.cnt,
             on |-> e.on]
    <3>1. e.next = o.next
      BY <2>2 DEF Switched
    <3>2. r = [st |-> "unbound", next |-> e.next, lines |-> <<>>, maps |-> {}, cnt |-> e.cnt,
               on |-> e.on]
      BY <2>1, <2>2 DEF Switched
    <3> QED BY <3>1, <3>2
  <2>4. r.cnt = e.cnt /\ r.on = e.on
    BY <2>3
  <2> QED BY <2>3, <2>4
<1> HIDE DEF r, e
<1>5. r.st = "unbound" /\ r.next = o.next /\ r.lines = <<>> /\ r.maps = {}
  BY <1>4
<1>6. BoardForm(r)
  <2>1. <<>> \in Seq(Lines)
    OBVIOUS
  <2> QED BY <1>2, <1>4, <1>5, <2>1 DEF BoardForm
<1>7. Noting(line, r, b)
  BY <1>3, <1>5 DEF Noting, KeptIn
<1>8. Counting(line, r, b) /\ Awake(line, r, b)
  BY <1>2, <1>5 DEF OfBoard, Counting, Awake
<1> QED BY <1>1, <1>3, <1>5, <1>6, <1>7, <1>8, NotesChange DEF OfBoard

(* The link comes back, or the device is given up.                         *)
LEMMA SlotResetInv ==
  ASSUME LinesInv, NEW b \in Boards, SlotReset(b)
  PROVE  LinesInv'
<1> DEFINE o == board[b]
           e == Enabled(o)
           r == [e EXCEPT !.st = "reset"]
           q == [o EXCEPT !.st = "dead"]
<1>1. /\ UNCHANGED <<sys, loaded, line, claimed>> /\ o.st = "error"
      /\ board' = [board EXCEPT ![b] = r] \/ board' = [board EXCEPT ![b] = q]
  BY DEF SlotReset, Goto
<1>2. OfBoard(line, o, b) /\ BoardForm(o) /\ loaded
  BY <1>1, BoardFacts
<1>3. KeptIn(o) = DOMAIN o.lines
  BY <1>1 DEF KeptIn
<1>4. CASE board' = [board EXCEPT ![b] = r]
  <2>1. r = [e EXCEPT !.st = "reset"]
    OBVIOUS
  <2>2. Switched(e, o) /\ e.on
    BY <1>2, EnabledForm
  <2> HIDE DEF r, e
  <2>3. r = [st |-> "reset", next |-> o.next, lines |-> o.lines, maps |-> o.maps, cnt |-> e.cnt,
             on |-> e.on]
    <3>1. e.next = o.next /\ e.lines = o.lines /\ e.maps = o.maps
      BY <2>2 DEF Switched
    <3>2. r = [st |-> "reset", next |-> e.next, lines |-> e.lines, maps |-> e.maps, cnt |-> e.cnt,
               on |-> e.on]
      BY <2>1, <2>2 DEF Switched
    <3> QED BY <3>1, <3>2
  <2>4. r.st = "reset" /\ r.next = o.next /\ r.lines = o.lines /\ r.maps = o.maps /\ r.on = e.on
        /\ r.cnt = e.cnt
    BY <2>3
  <2>5. BoardForm(r)
    BY <1>2, <2>3, <2>4 DEF BoardForm
  <2>6. Noting(line, r, b) /\ Counting(line, r, b) /\ (~OpenWhileDown => Awake(line, r, b))
    BY <1>1, <1>2, <2>2, <2>4 DEF OfBoard, Noting, Counting, Awake, KeptIn
  <2> QED BY <1>1, <1>2, <1>4, <2>4, <2>5, <2>6, NotesChange DEF OfBoard
<1>5. CASE board' = [board EXCEPT ![b] = q]
  <2>1. q = [st |-> "dead", next |-> o.next, lines |-> o.lines, maps |-> o.maps, cnt |-> o.cnt,
             on |-> o.on]
    BY <1>2, StateForm, Zenon
  <2> HIDE DEF q
  <2>2. q.st = "dead" /\ q.next = o.next /\ q.lines = o.lines /\ q.maps = o.maps
    BY <2>1
  <2>3. BoardForm(q)
    BY <1>2, <2>1, <2>2 DEF BoardForm
  <2>4. Noting(line, q, b) /\ Counting(line, q, b) /\ (~OpenWhileDown => Awake(line, q, b))
    BY <1>1, <1>2, <2>2 DEF OfBoard, Noting, Counting, Awake, KeptIn
  <2> QED BY <1>1, <1>2, <1>5, <2>2, <2>3, <2>4, NotesChange DEF OfBoard
<1> QED BY <1>1, <1>4, <1>5

(* The lines that a driver stops and starts are its board's, and those of  *)
(* them that run are all there.                                            *)
LEMMA PortsFacts ==
  ASSUME LinesInv, NEW b \in Boards, board[b].st # "removing"
  PROVE  /\ Ports(b) \subseteq Of(line, b)
         /\ \A i \in Of(line, b) : line[i].use # "closed" => i \in Ports(b)
<1>1. OfBoard(line, board[b], b) /\ board[b].lines \in Seq(Lines)
  BY BoardFacts
<1>2. \A i \in Lines : line[i].use # "closed" => line[i].known
  BY DEF LinesInv, Tab, Table, Sane, LineOk
<1>3. CASE Plat(b)
  BY <1>2, <1>3 DEF Ports, Of
<1>4. CASE ~Plat(b)
  <2>1. KeptIn(board[b]) = DOMAIN board[b].lines
    BY DEF KeptIn
  <2>2. Ports(b) = Noted(b)
    BY <1>4 DEF Ports
  <2>3. \A k \in DOMAIN board[b].lines : board[b].lines[k] \in Lines
    BY <1>1
  <2> QED BY <1>1, <1>4, <2>1, <2>2, <2>3 DEF OfBoard, Noting, Noted, Of
<1> QED BY <1>3, <1>4

(* Stopping and starting change what lines are used for, and no more.      *)
LEMMA StoppedFacts ==
  ASSUME LinesInv, NEW P, NEW m, m = Stopped(Table, P).line
  PROVE  /\ Stopped(Table, P).claimed = claimed
         /\ m = [i \in Lines |-> m[i]]
         /\ \A i \in Lines : /\ m[i] = [line[i] EXCEPT !.use = m[i].use]
                             /\ m[i].use \in {"closed", "running", "asleep"}
                             /\ m[i].use # "closed" => line[i].known
                             /\ m[i].use = "running" => line[i].use = "running" /\ i \notin P
<1> DEFINE n == [i \in Lines |-> IF i \in P /\ line[i].use = "running"
                                 THEN [line[i] EXCEPT !.use = "asleep"] ELSE line[i]]
<1>1. Stopped(Table, P) = [line |-> n, claimed |-> claimed]
  BY DEF Stopped, Table
<1>2. m = n /\ Stopped(Table, P).claimed = claimed
  <2> HIDE DEF n
  <2> QED BY <1>1
<1>3. ASSUME NEW i \in Lines
      PROVE  /\ m[i] = [line[i] EXCEPT !.use = m[i].use]
             /\ m[i].use \in {"closed", "running", "asleep"}
             /\ m[i].use # "closed" => line[i].known
             /\ m[i].use = "running" => line[i].use = "running" /\ i \notin P
  <2>1. LineForm(line[i]) /\ LineOk(line[i])
    BY DEF LinesInv, Tab, Table, Sane
  <2>2. /\ [line[i] EXCEPT !.use = line[i].use] = line[i]
        /\ [line[i] EXCEPT !.use = "asleep"].use = "asleep"
    BY <2>1 DEF LineForm
  <2>3. m[i] = IF i \in P /\ line[i].use = "running"
               THEN [line[i] EXCEPT !.use = "asleep"] ELSE line[i]
    BY <1>2
  <2> QED BY <2>1, <2>2, <2>3 DEF LineForm, LineOk
<1> QED BY <1>2, <1>3

(* What resuming the ports of a board does to the lines.                   *)
LEMMA RestartedFacts ==
  ASSUME LinesInv, NEW P, NEW ok \in BOOLEAN, NEW m, m = Restarted(Table, P, ok).line
  PROVE  /\ Restarted(Table, P, ok).claimed = claimed
         /\ m = [i \in Lines |-> m[i]]
         /\ \A i \in Lines : /\ m[i] = [line[i] EXCEPT !.use = m[i].use]
                             /\ m[i].use \in {"closed", "running", "asleep"}
                             /\ m[i].use # "closed" => line[i].known
                             /\ i \notin P => m[i] = line[i]
<1> DEFINE v == IF ok THEN "running" ELSE "closed"
           n == [i \in Lines |-> IF i \in P /\ line[i].use = "asleep"
                                 THEN [line[i] EXCEPT !.use = v] ELSE line[i]]
<1>1. Restarted(Table, P, ok) = [line |-> n, claimed |-> claimed]
  BY DEF Restarted, Table
<1>2. m = n /\ Restarted(Table, P, ok).claimed = claimed
  <2> HIDE DEF n
  <2> QED BY <1>1
<1>3. ASSUME NEW i \in Lines
      PROVE  /\ m[i] = [line[i] EXCEPT !.use = m[i].use]
             /\ m[i].use \in {"closed", "running", "asleep"}
             /\ m[i].use # "closed" => line[i].known
             /\ i \notin P => m[i] = line[i]
  <2>1. LineForm(line[i]) /\ LineOk(line[i])
    BY DEF LinesInv, Tab, Table, Sane
  <2>2. v \in {"closed", "running"}
    OBVIOUS
  <2> HIDE DEF v
  <2>3. [line[i] EXCEPT !.use = line[i].use] = line[i] /\ [line[i] EXCEPT !.use = v].use = v
    BY <2>1 DEF LineForm
  <2>4. m[i] = IF i \in P /\ line[i].use = "asleep" THEN [line[i] EXCEPT !.use = v] ELSE line[i]
    BY <1>2
  <2> QED BY <2>1, <2>2, <2>3, <2>4 DEF LineForm, LineOk
<1> QED BY <1>2, <1>3

(* Whose a line is, and where, does not depend on who uses it.             *)
LEMMA UseKeeps ==
  ASSUME LinesInv, NEW m, \A i \in Lines : m[i] = [line[i] EXCEPT !.use = m[i].use]
  PROVE  /\ \A i \in Lines : /\ m[i].dev = line[i].dev /\ m[i].known = line[i].known
                             /\ m[i].iotype = line[i].iotype /\ m[i].remap = line[i].remap
                             /\ m[i].map = line[i].map
         /\ \A b : Of(m, b) = Of(line, b)
<1>1. ASSUME NEW i \in Lines
      PROVE  /\ m[i].dev = line[i].dev /\ m[i].known = line[i].known
             /\ m[i].iotype = line[i].iotype /\ m[i].remap = line[i].remap
             /\ m[i].map = line[i].map
  <2>1. LineForm(line[i])
    BY DEF LinesInv, Tab, Table, Sane
  <2>2. PICK u : m[i] = [line[i] EXCEPT !.use = u]
    OBVIOUS
  <2> QED BY <2>1, <2>2 DEF LineForm
<1> QED BY <1>1 DEF Of

(* A board is put to sleep, or found in trouble, and its lines are stopped. *)
LEMMA StopInv ==
  ASSUME LinesInv, NEW b \in Boards, board[b].st = "bound", UNCHANGED <<sys, loaded>>,
         Become(Stopped(Table, Ports(b))), NEW r, board' = [board EXCEPT ![b] = r],
         BoardForm(r), r.st \in {"asleep", "error"}, r.next = board[b].next,
         r.lines = board[b].lines, r.maps = board[b].maps, r.st = "asleep" => r.on = board[b].on
  PROVE  LinesInv'
<1> DEFINE o == board[b]
           m == Stopped(Table, Ports(b)).line
<1>1. Tab(Table) /\ BoardsOk(line, board, loaded) /\ loaded /\ sys \in Systems
  BY BoardFacts DEF LinesInv
<1>2. line' = m /\ claimed' = claimed
  BY StoppedFacts DEF Become
<1>3. /\ m = [i \in Lines |-> m[i]]
      /\ \A i \in Lines : /\ m[i] = [line[i] EXCEPT !.use = m[i].use]
                          /\ m[i].use \in {"closed", "running", "asleep"}
                          /\ m[i].use # "closed" => line[i].known
                          /\ m[i].use = "running" => line[i].use = "running" /\ i \notin Ports(b)
  BY StoppedFacts
<1> HIDE DEF m
<1>4. /\ \A i \in Lines : /\ m[i].dev = line[i].dev /\ m[i].known = line[i].known
                          /\ m[i].iotype = line[i].iotype /\ m[i].remap = line[i].remap
                          /\ m[i].map = line[i].map
      /\ \A c : Of(m, c) = Of(line, c)
  <2>1. \A i \in Lines : m[i] = [line[i] EXCEPT !.use = m[i].use]
    BY <1>3
  <2> QED BY <2>1, UseKeeps, Zenon
<1>5. Tab([line |-> m, claimed |-> claimed]) /\ BoardsOk(m, board, loaded)
  <2>1. ASSUME ~OpenWhileDown, NEW c \in Boards,
               board[c].st \in {"asleep", "error", "reset", "dead"}, NEW i \in Of(line, c)
        PROVE  m[i].use # "running"
    BY <1>1, <1>3, <2>1 DEF BoardsOk, OfBoard, Awake, Of
  <2> QED BY <1>1, <1>3, <2>1, UseStep, ZenonT(60) DEF Table
<1>6. OfBoard(m, r, b)
  <2>1. OfBoard(m, o, b)
    BY <1>5 DEF BoardsOk
  <2>2. Noting(m, r, b) /\ Counting(m, r, b)
    BY <2>1 DEF OfBoard, Noting, Counting, KeptIn
  <2>3. \A i \in Of(m, b) : m[i].use # "running"
    BY <1>3, <1>4, PortsFacts DEF Of
  <2>4. ~OpenWhileDown => Awake(m, r, b)
    BY <2>1, <2>3 DEF OfBoard, Awake
  <2> QED BY <2>2, <2>4 DEF OfBoard
<1>7. \A i \in Lines : m[i].known /\ m[i].iotype = "mem" /\ ~m[i].remap /\ m[i].dev = b =>
        m[i].map \in r.maps
  BY <1>5 DEF BoardsOk, Mapped
<1>8. BoardsOk(m, board', loaded)
  BY <1>1, <1>5, <1>6, <1>7, BoardStep
<1> QED BY <1>2, <1>5, <1>8, Carry DEF Good

(* A board wakes up, or has recovered, and its lines are started.          *)
LEMMA StartInv ==
  ASSUME LinesInv, NEW b \in Boards, board[b].st \in {"asleep", "reset"},
         UNCHANGED <<sys, loaded>>,
         NEW ok \in BOOLEAN, Become(Restarted(Table, Ports(b), ok)), NEW r,
         board' = [board EXCEPT ![b] = r], BoardForm(r), r.st = "bound",
         r.next = board[b].next, r.lines = board[b].lines, r.maps = board[b].maps,
         ~OpenWhileDown /\ Pci(b) => r.on
  PROVE  LinesInv'
<1> DEFINE o == board[b]
           d == [board EXCEPT ![b] = r]
           m == Restarted(Table, Ports(b), ok).line
<1>1. Tab(Table) /\ BoardsOk(line, board, loaded) /\ loaded /\ sys \in Systems
  BY BoardFacts DEF LinesInv
<1>2. line' = m /\ claimed' = claimed
  BY RestartedFacts DEF Become
<1>3. /\ m = [i \in Lines |-> m[i]]
      /\ \A i \in Lines : /\ m[i] = [line[i] EXCEPT !.use = m[i].use]
                          /\ m[i].use \in {"closed", "running", "asleep"}
                          /\ m[i].use # "closed" => line[i].known
                          /\ i \notin Ports(b) => m[i] = line[i]
  BY RestartedFacts
<1> HIDE DEF m
<1>4. OfBoard(line, r, b)
  <2>1. OfBoard(line, o, b)
    BY <1>1 DEF BoardsOk
  <2> QED BY <2>1 DEF OfBoard, Noting, Counting, KeptIn, Awake
<1>5. BoardsOk(line, d, loaded)
  <2>1. \A i \in Lines : line[i].known /\ line[i].iotype = "mem" /\ ~line[i].remap
                         /\ line[i].dev = b => line[i].map \in r.maps
    BY <1>1 DEF BoardsOk, Mapped
  <2> QED BY <1>1, <1>4, <2>1, BoardStep
<1>6. d[b].st = "bound" /\ d = board'
  BY <1>1 DEF BoardsOk
<1> HIDE DEF d
<1>7. ASSUME ~OpenWhileDown, NEW c \in Boards,
             d[c].st \in {"asleep", "error", "reset", "dead"}, NEW i \in Of(line, c)
      PROVE  m[i].use # "running"
  <2>1. c # b
    BY <1>6, <1>7
  <2>2. i \notin Ports(b)
    BY <2>1, PortsFacts DEF Of
  <2>3. line[i].use # "running"
    BY <1>5, <1>7 DEF BoardsOk, OfBoard, Awake
  <2> QED BY <1>3, <2>2, <2>3 DEF Of
<1>8. Tab([line |-> m, claimed |-> claimed]) /\ BoardsOk(m, d, loaded)
  BY <1>1, <1>3, <1>5, <1>7, UseStep DEF Table
<1> QED BY <1>2, <1>6, <1>8, Carry DEF Good

(* A board goes to sleep.                                                  *)
LEMMA SuspendInv ==
  ASSUME LinesInv, NEW b \in Boards, Suspend(b)
  PROVE  LinesInv'
<1> DEFINE o == board[b]
           r == [o EXCEPT !.st = "asleep"]
<1>1. /\ board' = [board EXCEPT ![b] = r] /\ UNCHANGED <<sys, loaded>> /\ o.st = "bound"
      /\ Become(Stopped(Table, Ports(b)))
  BY DEF Suspend, Goto
<1>2. BoardForm(o)
  BY BoardFacts
<1>3. r = [st |-> "asleep", next |-> o.next, lines |-> o.lines, maps |-> o.maps, cnt |-> o.cnt,
           on |-> o.on]
  BY <1>2, StateForm, Zenon
<1> HIDE DEF r
<1>4. r.st = "asleep" /\ r.next = o.next /\ r.lines = o.lines /\ r.maps = o.maps /\ r.on = o.on
  BY <1>3
<1>5. BoardForm(r)
  BY <1>2, <1>3, <1>4 DEF BoardForm
<1> QED BY <1>1, <1>4, <1>5, StopInv

(* A bus error stops the lines of a card and switches it off.              *)
LEMMA ErrorDetectedInv ==
  ASSUME LinesInv, NEW b \in Boards, ErrorDetected(b)
  PROVE  LinesInv'
<1> DEFINE o == board[b]
           e == Disabled(o)
           r == [e EXCEPT !.st = "error"]
<1>1. /\ board' = [board EXCEPT ![b] = r] /\ UNCHANGED <<sys, loaded>> /\ o.st = "bound"
      /\ Become(Stopped(Table, Ports(b)))
  BY DEF ErrorDetected
<1>2. BoardForm(o)
  BY BoardFacts
<1>3. r = [e EXCEPT !.st = "error"] /\ Switched(e, o)
  BY <1>2, EnabledForm
<1> HIDE DEF r, e
<1>4. r = [st |-> "error", next |-> e.next, lines |-> e.lines, maps |-> e.maps, cnt |-> e.cnt,
           on |-> e.on] /\ e.next = o.next /\ e.lines = o.lines /\ e.maps = o.maps
  BY <1>3 DEF Switched
<1>5. r.st = "error" /\ r.next = o.next /\ r.lines = o.lines /\ r.maps = o.maps
      /\ r.cnt = e.cnt /\ r.on = e.on
  BY <1>4
<1>6. BoardForm(r)
  BY <1>2, <1>4, <1>5 DEF BoardForm
<1> QED BY <1>1, <1>5, <1>6, StopInv

(* A board wakes up, enabled once more.                                    *)
LEMMA ResumeInv ==
  ASSUME LinesInv, NEW b \in Boards, Resume(b)
  PROVE  LinesInv'
<1> DEFINE o == board[b]
           e == IF Pci(b) THEN Enabled(o) ELSE o
           r == [e EXCEPT !.st = "bound"]
<1>1. /\ board' = [board EXCEPT ![b] = r] /\ UNCHANGED <<sys, loaded>> /\ o.st = "asleep"
      /\ \E ok \in BOOLEAN : Become(Restarted(Table, Ports(b), ok))
  BY DEF Resume
<1>2. BoardForm(o)
  BY BoardFacts
<1>3. r = [e EXCEPT !.st = "bound"] /\ Switched(e, o) /\ (Pci(b) => e.on)
  BY <1>2, EnabledForm
<1> HIDE DEF r, e
<1>4. r = [st |-> "bound", next |-> e.next, lines |-> e.lines, maps |-> e.maps, cnt |-> e.cnt,
           on |-> e.on] /\ e.next = o.next /\ e.lines = o.lines /\ e.maps = o.maps
  BY <1>3 DEF Switched
<1>5. r.st = "bound" /\ r.next = o.next /\ r.lines = o.lines /\ r.maps = o.maps
      /\ r.cnt = e.cnt /\ r.on = e.on
  BY <1>4
<1>6. BoardForm(r)
  BY <1>2, <1>4, <1>5 DEF BoardForm
<1>7. Pci(b) => r.on
  BY <1>3, <1>5
<1> QED BY <1>1, <1>5, <1>6, <1>7, StartInv

(* A card has recovered from its bus error.                                *)
LEMMA ErrorResumeInv ==
  ASSUME LinesInv, NEW b \in Boards, ErrorResume(b)
  PROVE  LinesInv'
<1> DEFINE o == board[b]
           r == [o EXCEPT !.st = "bound"]
<1>1. /\ board' = [board EXCEPT ![b] = r] /\ UNCHANGED <<sys, loaded>> /\ o.st = "reset"
      /\ \E ok \in BOOLEAN : Become(Restarted(Table, Ports(b), ok))
  BY DEF ErrorResume, Goto
<1>2. BoardForm(o) /\ OfBoard(line, o, b)
  BY BoardFacts
<1>3. r = [st |-> "bound", next |-> o.next, lines |-> o.lines, maps |-> o.maps, cnt |-> o.cnt,
           on |-> o.on]
  BY <1>2, StateForm, Zenon
<1> HIDE DEF r
<1>4. r.st = "bound" /\ r.next = o.next /\ r.lines = o.lines /\ r.maps = o.maps /\ r.on = o.on
  BY <1>3
<1>5. BoardForm(r)
  BY <1>2, <1>3, <1>4 DEF BoardForm
<1>6. ~OpenWhileDown /\ Pci(b) => r.on
  BY <1>1, <1>2, <1>4 DEF OfBoard, Awake
<1> QED BY <1>1, <1>4, <1>5, <1>6, StartInv

(* Users open and close lines, but not those of boards that are down.      *)
LEMMA OpenCloseInv ==
  ASSUME LinesInv, NEW i \in Lines, Open(i) \/ Close(i)
  PROVE  LinesInv'
<1> DEFINE l == line[i]
           m == line'
<1>1. /\ UNCHANGED <<sys, loaded, claimed, board>>
      /\ ~Frozen
      /\ \E u \in {"running", "closed"} :
           /\ line' = [line EXCEPT ![i].use = u]
           /\ u = "running" => l.known /\ (OpenWhileDown \/ ~Down(i))
  BY DEF Open, Close
<1>2. PICK u \in {"running", "closed"} :
           /\ line' = [line EXCEPT ![i].use = u]
           /\ u = "running" => l.known /\ (OpenWhileDown \/ ~Down(i))
  BY <1>1
<1>3. Tab(Table) /\ Sane(line) /\ BoardsOk(line, board, loaded) /\ sys \in Systems
  BY DEF LinesInv, Tab, Table
<1>4. m = [j \in Lines |-> m[j]] /\ m[i] = [l EXCEPT !.use = u] /\ LineForm(l)
      /\ \A j \in Lines : j # i => m[j] = line[j]
  BY <1>2, <1>3 DEF Sane
<1> HIDE DEF m
<1>5. m[i].use = u
  BY <1>4 DEF LineForm
<1>6. ASSUME NEW j \in Lines
      PROVE  /\ m[j] = [line[j] EXCEPT !.use = m[j].use]
             /\ m[j].use \in {"closed", "running", "asleep"}
             /\ m[j].use # "closed" => line[j].known
  <2>1. LineForm(line[j]) /\ LineOk(line[j])
    BY <1>3 DEF Sane
  <2>2. [line[j] EXCEPT !.use = line[j].use] = line[j]
    BY <2>1 DEF LineForm
  <2>3. CASE j = i
    BY <1>2, <1>4, <1>5, <2>3
  <2>4. CASE j # i
    BY <1>4, <2>1, <2>2, <2>4 DEF LineForm, LineOk
  <2> QED BY <2>3, <2>4
<1>7. ASSUME ~OpenWhileDown, NEW b \in Boards,
             board[b].st \in {"asleep", "error", "reset", "dead"}, NEW j \in Of(line, b)
      PROVE  m[j].use # "running"
  <2>1. j \in Lines /\ line[j].dev = b
    BY DEF Of
  <2>2. line[j].use # "running"
    BY <1>3, <1>7 DEF BoardsOk, OfBoard, Awake
  <2>3. CASE j = i
    BY <1>1, <1>2, <1>5, <1>7, <2>1, <2>3 DEF Down, Frozen
  <2>4. CASE j # i
    BY <1>4, <2>1, <2>2, <2>4
  <2> QED BY <2>3, <2>4
<1>8. Tab([line |-> m, claimed |-> claimed]) /\ BoardsOk(m, board, loaded)
  BY <1>3, <1>4, <1>6, <1>7, UseStep DEF Table
<1> QED BY <1>1, <1>8, Carry DEF Good, m
-----------------------------------------------------------------------------
(* Registration and removal.                                               *)

(* The least of some numbers.                                              *)
LEMMA Least ==
  ASSUME NEW S, S \subseteq Nat, S # {}
  PROVE  Min(S) \in S /\ \A m \in S : Min(S) <= m
<1>1. IsWellFoundedOn(OpToRel(<, Nat), Nat)
  BY NatLessThanWellFounded, Zenon
<1>2. PICK n \in S : \A m \in S : ~(<<m, n>> \in OpToRel(<, Nat))
  BY <1>1, WFMin, Zenon
<1>3. ASSUME NEW m \in S PROVE n <= m
  <2>1. n \in Nat /\ m \in Nat /\ ~(m < n)
    BY <1>2 DEF OpToRel
  <2> QED BY <2>1
<1> QED BY <1>3, Zenon DEF Min

(* The line that a port gets is nobody else's: it is free, or it was at    *)
(* the address of the port and then it is not a note of any driver.        *)
LEMMA ChosenFacts ==
  ASSUME LinesInv, NEW b \in Boards, board[b].st = "probing",
         HasPort(b, board[b].next), NEW p, p = Port(b, board[b].next),
         NEW i \in Chosen(Table, p)
  PROVE  /\ i \in Lines
         /\ Match(line[i], p) \/ \A j \in Lines : ~Match(line[j], p)
         /\ \A c \in Boards : ~Plat(c) => line[i].dev # c
<1> DEFINE k == board[b].next
<1>1. Table.line = line
  BY DEF Table
<1>2. i \in Lines /\ (Match(line[i], p) \/ (~line[i].known /\ \A j \in Lines : ~Match(line[j], p)))
  BY <1>1 DEF Chosen
<1>3. ASSUME NEW c \in Boards, ~Plat(c), line[i].dev = c PROVE FALSE
  <2>1. OfBoard(line, board[c], c) /\ OfBoard(line, board[b], b) /\ WellBuilt /\ k \in Nat
        /\ board[c].lines \in Seq(Lines)
    BY BoardFacts DEF LinesInv
  <2>2. PICK n \in KeptIn(board[c]) : board[c].lines[n] = i
    BY <1>2, <1>3, <2>1 DEF OfBoard, Noting, Of
  <2>3. n \in DOMAIN board[c].lines /\ HasPort(c, n - 1) /\ line[i].known
        /\ Address(line[i]) = Where(c, n - 1)
    BY <1>3, <2>1, <2>2 DEF OfBoard, Noting, KeptIn
  <2>4. Where(b, k) = Where(c, n - 1)
    BY <1>2, <2>3 DEF Match, Where
  <2>5. n - 1 \in Nat /\ n - 1 < Len(board[c].lines)
    BY <2>1, <2>3
  <2>6. b = c /\ k = n - 1
    BY <1>3, <2>1, <2>3, <2>4, <2>5, PortsDiffer
  <2>7. k = Len(board[b].lines)
    BY <1>3, <2>1, <2>6 DEF OfBoard, Noting
  <2> QED BY <2>5, <2>6, <2>7
<1> QED BY <1>2, <1>3

(* A port is registered, and the line that it got is noted.                *)
LEMMA RegisterAtInv ==
  ASSUME LinesInv, NEW b \in Boards, board[b].st = "probing",
         board[b].next < NumPorts(b), Fits(b, board[b].next),
         NEW p, p = Port(b, board[b].next), NEW i \in Chosen(Table, p),
         RegisterAt(b, p, i), UNCHANGED <<sys, loaded>>
  PROVE  LinesInv'
<1> DEFINE o == board[b]
           k == o.next
           ls == IF Plat(b) THEN o.lines ELSE Append(o.lines, i)
           ms == IF Pci(b) THEN o.maps \cup {p.map} ELSE o.maps
           r == [o EXCEPT !.next = k + 1, !.lines = ls, !.maps = ms]
<1>1. /\ OfBoard(line, o, b) /\ BoardForm(o) /\ k \in Nat /\ loaded /\ WellBuilt
      /\ NumPorts(b) \in Nat /\ sys.nr \in Nat /\ o.lines \in Seq(Lines) /\ sys \in Systems
      /\ Tab(Table) /\ BoardsOk(line, board, loaded) /\ Card(b).bus \in {"pci", "pnp", "plat"}
  BY BoardFacts DEF LinesInv, Nodev
<1>2. HasPort(b, k)
  BY <1>1 DEF HasPort
<1>3. /\ i \in Lines /\ (Match(line[i], p) \/ \A j \in Lines : ~Match(line[j], p))
      /\ \A c \in Boards : ~Plat(c) => line[i].dev # c
  BY <1>2, ChosenFacts
<1>4. Table.line = line /\ Table.claimed = claimed /\ Sane(line)
  BY <1>1 DEF Table, Tab
<1>5. PICK l : /\ Register(Table, p, b, i) = With(Table, i, l) /\ Tab(With(Table, i, l))
               /\ l.dev = b /\ l.attached /\ l.use = "closed" /\ Address(l) = Address(p)
               /\ l.known = (Address(p) \notin sys.silent)
               /\ l.iotype = "mem" /\ ~l.remap => Pci(b) /\ l.map = p.map
  <2>1. Match(Table.line[i], p) \/ \A j \in Lines : ~Match(Table.line[j], p)
    BY <1>3, <1>4
  <2> QED BY <1>1, <1>2, <1>3, <2>1, RegisterFacts
<1> DEFINE m == [line EXCEPT ![i] = l]
           d == [board EXCEPT ![b] = r]
<1>6. line' = m /\ claimed' = With(Table, i, l).claimed /\ With(Table, i, l).line = m
  <2>1. With(Table, i, l).line = m
    BY <1>4 DEF With
  <2> QED BY <1>5, <2>1 DEF RegisterAt, Become
<1>7. board' = d
  <2>1. board = [c \in Boards |-> board[c]]
    BY <1>1 DEF BoardsOk
  <2>2. board' = [board EXCEPT ![b].next = k + 1, ![b].lines = ls, ![b].maps = ms]
    BY <1>1, <2>1 DEF RegisterAt, BoardForm
  <2> HIDE DEF ls, ms
  <2> QED BY <2>1, <2>2
<1>8. r = [st |-> o.st, next |-> k + 1, lines |-> ls, maps |-> ms, cnt |-> o.cnt, on |-> o.on]
  <2>1. r = [o EXCEPT !.next = k + 1, !.lines = ls, !.maps = ms]
    OBVIOUS
  <2> HIDE DEF r, ls, ms
  <2> QED BY <1>1, <2>1 DEF BoardForm
<1> HIDE DEF r
<1>9. r.st = "probing" /\ r.next = k + 1 /\ r.lines = ls /\ r.maps = ms
      /\ r.on = o.on
  BY <1>8
<1>10. m[i] = l /\ m = [j \in Lines |-> m[j]] /\ \A j \in Lines : j # i => m[j] = line[j]
  BY <1>3, <1>4 DEF Sane
<1>11. d[b] = r /\ d = [c \in Boards |-> d[c]] /\ \A c \in Boards : c # b => d[c] = board[c]
  BY <1>1 DEF BoardsOk
<1>12. ASSUME NEW c \in Boards, c # b PROVE OfBoard(m, d[c], c)
  <2>1. OfBoard(line, board[c], c) /\ l.dev # c /\ (~Plat(c) => line[i].dev # c)
    BY <1>1, <1>3, <1>5, <1>12 DEF BoardsOk
  <2>2. line = [j \in Lines |-> line[j]]
    BY <1>4 DEF Sane
  <2> HIDE DEF d
  <2>3. OfBoard(m, board[c], c)
    BY <1>1, <1>3, <2>1, <2>2, OtherBoard
  <2> QED BY <1>11, <1>12, <2>3
<1> HIDE DEF m, d
<1>13. OfBoard(m, r, b)
  <2>1. BoardForm(r)
    <3>1. ls \in Seq(Lines)
      BY <1>1, <1>3
    <3> QED BY <1>1, <1>8, <1>9, <3>1 DEF BoardForm
  <2>2. KeptIn(r) = DOMAIN ls
    BY <1>9 DEF KeptIn
  <2>3. ASSUME ~Plat(b)
        PROVE  /\ r.next = Len(ls)
               /\ \A n \in DOMAIN ls : HasPort(b, n - 1)
               /\ \A n \in DOMAIN ls : /\ m[ls[n]].known /\ m[ls[n]].dev = b
                                       /\ Address(m[ls[n]]) = Where(b, n - 1)
               /\ \A j \in Of(m, b) : \E n \in DOMAIN ls : ls[n] = j
    <3>1. k = Len(o.lines) /\ KeptIn(o) = DOMAIN o.lines
      BY <1>1, <2>3 DEF OfBoard, Noting, KeptIn
    <3>2. /\ Len(ls) = k + 1 /\ DOMAIN ls = 1 .. k + 1 /\ DOMAIN o.lines = 1 .. k
          /\ ls[k + 1] = i /\ \A n \in 1 .. k : ls[n] = o.lines[n] /\ o.lines[n] \in Lines
      BY <1>1, <1>3, <2>3, <3>1
    <3> HIDE DEF ls
    <3>3. l.known
      <4>1. Address(p) \notin sys.silent
        BY <1>1, <1>2, <2>3 DEF WellBuilt, NoConflict, Where
      <4> QED BY <1>5, <4>1
    <3>4. ASSUME NEW n \in 1 .. k
          PROVE  /\ HasPort(b, n - 1) /\ m[ls[n]] = line[o.lines[n]] /\ line[o.lines[n]].known
                 /\ line[o.lines[n]].dev = b /\ Address(line[o.lines[n]]) = Where(b, n - 1)
      <4>1. /\ HasPort(b, n - 1) /\ line[o.lines[n]].known
            /\ line[o.lines[n]].dev = b /\ Address(line[o.lines[n]]) = Where(b, n - 1)
        BY <1>1, <2>3, <3>1, <3>2 DEF OfBoard, Noting
      <4>2. o.lines[n] # i
        BY <1>3, <2>3, <4>1
      <4> QED BY <1>10, <3>2, <4>1, <4>2
    <3>5. ASSUME NEW n \in DOMAIN ls
          PROVE  /\ HasPort(b, n - 1) /\ m[ls[n]].known /\ m[ls[n]].dev = b
                 /\ Address(m[ls[n]]) = Where(b, n - 1)
      <4>1. CASE n = k + 1
        <5>1. n - 1 = k /\ ls[n] = i
          BY <1>1, <3>2, <4>1
        <5> QED BY <1>2, <1>5, <1>10, <3>3, <5>1 DEF Where
      <4>2. CASE n # k + 1
        <5>1. n \in 1 .. k
          BY <1>1, <3>2, <4>2
        <5> QED BY <3>4, <5>1
      <4> QED BY <4>1, <4>2
    <3>6. ASSUME NEW j \in Of(m, b) PROVE \E n \in DOMAIN ls : ls[n] = j
      <4>1. CASE j = i
        BY <1>1, <3>2, <4>1
      <4>2. CASE j # i
        <5>1. j \in Of(line, b)
          BY <1>10, <4>2 DEF Of
        <5>2. PICK n \in 1 .. k : o.lines[n] = j
          BY <1>1, <2>3, <3>1, <3>2, <5>1 DEF OfBoard, Noting
        <5>3. n \in DOMAIN ls /\ ls[n] = j
          BY <1>1, <3>2, <5>2
        <5> QED BY <5>3
      <4> QED BY <4>1, <4>2
    <3> QED BY <1>9, <3>2, <3>5, <3>6
  <2>4. Plat(b) => ls = <<>>
    BY <1>1 DEF OfBoard, Noting
  <2> HIDE DEF ls
  <2>5. Noting(m, r, b)
    BY <1>9, <2>2, <2>3, <2>4 DEF Noting
  <2>6. Counting(m, r, b)
    BY <1>1, <1>9 DEF OfBoard, Counting, Nodev
  <2>7. ~OpenWhileDown => Awake(m, r, b)
    BY <1>1, <1>9 DEF OfBoard, Awake
  <2> QED BY <2>1, <2>5, <2>6, <2>7 DEF OfBoard
<1>14. Mapped(m, d)
  <2> SUFFICES ASSUME NEW j \in Lines, m[j].known, m[j].iotype = "mem", ~m[j].remap
               PROVE  m[j].dev \in Boards /\ m[j].map \in d[m[j].dev].maps
    BY DEF Mapped
  <2>1. CASE j = i
    BY <1>5, <1>9, <1>10, <1>11, <2>1
  <2>2. CASE j # i
    <3>1. line[j].dev \in Boards /\ line[j].map \in board[line[j].dev].maps /\ m[j] = line[j]
      BY <1>1, <1>10, <2>2 DEF BoardsOk, Mapped
    <3> QED BY <1>9, <1>11, <3>1
  <2> QED BY <2>1, <2>2
<1>15. Present(m, d, loaded)
  <2>1. b # "none"
    BY <1>1 DEF WellBuilt
  <2> QED BY <1>1, <1>5, <1>10, <2>1 DEF BoardsOk, Present
<1>16. BoardsOk(m, d, loaded)
  BY <1>1, <1>11, <1>12, <1>13, <1>14, <1>15 DEF BoardsOk
<1>17. Tab([line |-> m, claimed |-> claimed'])
  BY <1>5, <1>6 DEF Tab
<1> QED BY <1>6, <1>7, <1>16, <1>17, Carry DEF Good

(* The next port of a board is registered, or there is no line for it.     *)
LEMMA RegisterNextInv ==
  ASSUME LinesInv, NEW b \in Boards, RegisterNext(b)
  PROVE  LinesInv'
<1> DEFINE p == Port(b, board[b].next)
<1>1. /\ board[b].st = "probing" /\ board[b].next < NumPorts(b) /\ Fits(b, board[b].next)
      /\ UNCHANGED <<sys, loaded>> /\ RegisterPort(b, p)
  BY DEF RegisterNext
<1> HIDE DEF p
<1>2. CASE Chosen(Table, p) = {}
  <2>1. NoPort(b, {p.map}) /\ UNCHANGED <<line, claimed>>
    BY <1>1, <1>2 DEF RegisterPort
  <2> QED BY <1>1, <2>1, NoPortInv
<1>3. CASE Chosen(Table, p) # {}
  <2>1. RegisterAt(b, p, Min(Chosen(Table, p)))
    BY <1>1, <1>3 DEF RegisterPort
  <2>2. Lines \subseteq Nat
    BY SysFacts DEF LinesInv
  <2>3. Chosen(Table, p) \subseteq Nat
    BY <2>2 DEF Chosen
  <2>4. Min(Chosen(Table, p)) \in Chosen(Table, p)
    BY <1>3, <2>3, Least
  <2> QED BY <1>1, <2>1, <2>4, RegisterAtInv DEF p
<1> QED BY <1>2, <1>3
(* A board gives up one of its lines: the next that it noted, or the first *)
(* that names it.                                                          *)
LEMMA UnregisterNextInv ==
  ASSUME LinesInv, NEW b \in Boards, UnregisterNext(b)
  PROVE  LinesInv'
<1> DEFINE o == board[b]
           k == o.next + 1
           i == Min(ToUnregister(b))
           r == [o EXCEPT !.next = k]
<1>1. /\ OfBoard(line, o, b) /\ BoardForm(o) /\ o.next \in Nat /\ WellBuilt
      /\ NumPorts(b) \in Nat \cup {Nodev} /\ sys.nr \in Nat /\ o.lines \in Seq(Lines)
      /\ sys \in Systems /\ Lines \subseteq Nat
      /\ Tab(Table) /\ BoardsOk(line, board, loaded)
  BY BoardFacts, SysFacts DEF LinesInv
<1>2. /\ o.st = "removing" /\ ToUnregister(b) # {} /\ UNCHANGED <<sys, loaded>>
      /\ Become(Unregister(Table, i)) /\ board' = [board EXCEPT ![b] = r]
  BY DEF UnregisterNext
<1>3. /\ i \in Of(line, b)
      /\ ~Plat(b) => k \in KeptIn(o) /\ o.lines[k] = i
  <2>1. CASE Plat(b)
    <3>1. ToUnregister(b) = Of(line, b)
      BY <2>1 DEF ToUnregister, Of
    <3>2. Of(line, b) \subseteq Nat
      BY <1>1 DEF Of
    <3> QED BY <1>2, <2>1, <3>1, <3>2, Least
  <2>2. CASE ~Plat(b)
    <3>1. k \in KeptIn(o) /\ ToUnregister(b) = {o.lines[k]}
      BY <1>1, <1>2, <2>2 DEF ToUnregister, KeptIn
    <3>2. o.lines[k] \in Lines /\ line[o.lines[k]].dev = b
      <4>1. k \in DOMAIN o.lines
        BY <3>1 DEF KeptIn
      <4>2. o.lines[k] \in Lines
        BY <1>1, <4>1
      <4>3. line[o.lines[k]].dev = b
        BY <1>1, <2>2, <3>1 DEF OfBoard, Noting
      <4> QED BY <4>2, <4>3
    <3>3. ToUnregister(b) \subseteq Nat
      BY <1>1, <3>1, <3>2
    <3>4. i \in ToUnregister(b)
      BY <1>2, <3>3, Least
    <3> QED BY <3>1, <3>2, <3>4 DEF Of
  <2> QED BY <2>1, <2>2
<1> HIDE DEF i
<1>4. Table.line = line /\ Table.claimed = claimed /\ Sane(line)
  BY <1>1 DEF Table, Tab
<1>5. i \in Lines /\ line[i].dev = b
  BY <1>3 DEF Of
<1>6. PICK l : /\ Unregister(Table, i) = With(Table, i, l) /\ Tab(With(Table, i, l))
               /\ l.dev = "isa" /\ ~l.known /\ l.use = "closed"
  BY <1>1, <1>5, UnregisterFacts
<1> DEFINE m == [line EXCEPT ![i] = l]
           d == [board EXCEPT ![b] = r]
<1>7. line' = m /\ claimed' = With(Table, i, l).claimed /\ With(Table, i, l).line = m
  <2>1. With(Table, i, l).line = m
    BY <1>4 DEF With
  <2> QED BY <1>2, <1>6, <2>1 DEF Become
<1>8. r = [st |-> o.st, next |-> k, lines |-> o.lines, maps |-> o.maps, cnt |-> o.cnt,
           on |-> o.on]
  BY <1>1, StateForm, Zenon
<1> HIDE DEF r
<1>9. r.st = "removing" /\ r.next = k /\ r.lines = o.lines /\ r.maps = o.maps
  BY <1>2, <1>8
<1>10. m[i] = l /\ m = [j \in Lines |-> m[j]] /\ \A j \in Lines : j # i => m[j] = line[j]
  BY <1>4, <1>5 DEF Sane
<1>11. d[b] = r /\ d = [c \in Boards |-> d[c]] /\ \A c \in Boards : c # b => d[c] = board[c]
  BY <1>1 DEF BoardsOk
<1>12. ASSUME NEW c \in Boards, c # b PROVE OfBoard(m, d[c], c)
  <2>1. OfBoard(line, board[c], c) /\ l.dev # c /\ (~Plat(c) => line[i].dev # c)
    BY <1>1, <1>5, <1>6, <1>12 DEF BoardsOk, WellBuilt
  <2>2. line = [j \in Lines |-> line[j]]
    BY <1>4 DEF Sane
  <2> HIDE DEF d
  <2>3. OfBoard(m, board[c], c)
    BY <1>1, <1>5, <2>1, <2>2, OtherBoard
  <2> QED BY <1>11, <1>12, <2>3
<1> HIDE DEF m, d
<1>13. Of(m, b) = Of(line, b) \ {i}
  BY <1>1, <1>6, <1>10 DEF Of, WellBuilt
<1>14. OfBoard(m, r, b)
  <2>1. BoardForm(r)
    BY <1>1, <1>8, <1>9 DEF BoardForm
  <2>2. KeptIn(r) = KeptIn(o) \ {k}
    BY <1>1, <1>2, <1>9 DEF KeptIn
  <2>3. ASSUME ~Plat(b)
        PROVE  /\ \A n \in KeptIn(r) : LET t == m[r.lines[n]]
                                       IN  t.known /\ t.dev = b /\ Address(t) = Where(b, n - 1)
               /\ \A j \in Of(m, b) : \E n \in KeptIn(r) : r.lines[n] = j
    <3>1. ASSUME NEW n \in KeptIn(o)
          PROVE  /\ n \in Nat /\ n - 1 \in Nat /\ HasPort(b, n - 1) /\ o.lines[n] \in Lines
                 /\ line[o.lines[n]].known /\ line[o.lines[n]].dev = b
                 /\ Address(line[o.lines[n]]) = Where(b, n - 1)
      BY <1>1, <2>3 DEF OfBoard, Noting, KeptIn
    <3>2. ASSUME NEW n \in KeptIn(r) PROVE m[r.lines[n]] = line[o.lines[n]]
      <4>1. n \in KeptIn(o) /\ n # k
        BY <2>2
      <4>2. o.lines[n] # i
        <5> SUFFICES ASSUME o.lines[n] = i PROVE FALSE
          OBVIOUS
        <5>1. Where(b, n - 1) = Where(b, k - 1) /\ n \in Nat /\ k \in Nat
          BY <1>3, <2>3, <3>1, <4>1
        <5>2. n - 1 = k - 1
          BY <1>1, <1>3, <2>3, <3>1, <4>1, <5>1, PortsDiffer
        <5> QED BY <4>1, <5>1, <5>2
      <4> QED BY <1>9, <1>10, <3>1, <4>1, <4>2
    <3>3. ASSUME NEW j \in Of(m, b) PROVE \E n \in KeptIn(r) : r.lines[n] = j
      <4>1. j \in Of(line, b) /\ j # i
        BY <1>13
      <4>2. PICK n \in KeptIn(o) : o.lines[n] = j
        BY <1>1, <2>3, <4>1 DEF OfBoard, Noting
      <4>3. n # k
        BY <1>3, <2>3, <4>1, <4>2
      <4> QED BY <1>9, <2>2, <4>2, <4>3
    <3> QED BY <2>2, <3>1, <3>2, <3>3
  <2>4. Noting(m, r, b)
    BY <1>1, <1>9, <2>3 DEF OfBoard, Noting
  <2>5. Counting(m, r, b)
    <3>1. /\ Cardinality(Of(line, b)) \in Nat
          /\ Cardinality(Of(m, b)) = Cardinality(Of(line, b)) - 1
          /\ Cardinality(Of(m, b)) \in Nat
      <4>1. IsFiniteSet(Of(line, b)) /\ Cardinality(Of(line, b)) \in Nat
            /\ Cardinality(Of(m, b)) \in Nat
        BY <1>1, OfFinite
      <4> QED BY <1>3, <1>13, <4>1, FS_RemoveElement
    <3>2. NumPorts(b) \in Nat /\ o.next + Cardinality(Of(line, b)) <= sys.nr
      BY <1>1, <1>2 DEF OfBoard, Counting
    <3> QED BY <1>1, <1>9, <3>1, <3>2, SMTT(40) DEF Counting, Nodev
  <2>6. Awake(m, r, b)
    BY <1>9 DEF Awake
  <2> QED BY <2>1, <2>4, <2>5, <2>6 DEF OfBoard
<1>15. Mapped(m, d)
  <2> SUFFICES ASSUME NEW j \in Lines, m[j].known, m[j].iotype = "mem", ~m[j].remap
               PROVE  m[j].dev \in Boards /\ m[j].map \in d[m[j].dev].maps
    BY DEF Mapped
  <2>1. j # i
    BY <1>6, <1>10
  <2>2. line[j].dev \in Boards /\ line[j].map \in board[line[j].dev].maps /\ m[j] = line[j]
    BY <1>1, <1>10, <2>1 DEF BoardsOk, Mapped
  <2> QED BY <1>9, <1>11, <2>2
<1>16. Present(m, d, loaded)
  BY <1>1, <1>2, <1>6, <1>10 DEF BoardsOk, Present
<1>17. BoardsOk(m, d, loaded)
  BY <1>1, <1>11, <1>12, <1>14, <1>15, <1>16 DEF BoardsOk
<1>18. Tab([line |-> m, claimed |-> claimed'])
  BY <1>6, <1>7 DEF Tab
<1> QED BY <1>2, <1>7, <1>17, <1>18, Carry DEF Good, d
-----------------------------------------------------------------------------
(* The module is loaded and unloaded: a walk over all the lines.           *)

(* Two walks that start alike and go on alike end alike.                   *)
LEMMA SameWalk ==
  ASSUME NEW N \in Nat, NEW f, NEW g, f[0] = g[0],
         \A n \in 0 .. N - 1 : f[n] = g[n] => f[n + 1] = g[n + 1]
  PROVE  f[N] = g[N]
<1> DEFINE T == {n \in 0 .. N : f[n] # g[n]}
<1> SUFFICES ASSUME T # {} PROVE FALSE
  OBVIOUS
<1>1. T \subseteq Nat
  OBVIOUS
<1> DEFINE k == Min(T)
<1>2. k \in T /\ \A m \in T : k <= m
  <2> HIDE DEF T
  <2> QED BY <1>1, Least
<1> HIDE DEF k
<1>3. k # 0 /\ k - 1 \in 0 .. N - 1 /\ k - 1 \in 0 .. N /\ (k - 1) + 1 = k /\ k - 1 < k
  BY <1>2
<1>4. f[k - 1] = g[k - 1]
  BY <1>2, <1>3
<1>5. f[k] = g[k]
  BY <1>3, <1>4
<1> QED BY <1>2, <1>5

(* A line of a table that nobody has used.                                 *)
LEMMA FreshFacts ==
  ASSUME sys \in Systems, WellBuilt, NEW j \in Lines, NEW l, l = FreshLines(sys)[j]
  PROVE  /\ LineForm(l) /\ l.iotype = "port" /\ l.known = FALSE /\ l.attached = FALSE
         /\ l.use = "closed" /\ l.dev = "isa"
         /\ Address(l) # None => /\ j + 1 \in DOMAIN sys.legacy
                                 /\ Address(l) = sys.legacy[j + 1]
                                 /\ KindOf(Address(l)) = "port"
<1> DEFINE a == IF j < Len(sys.legacy) THEN sys.legacy[j + 1] ELSE None
<1>1. Lines = 0 .. sys.nr - 1 /\ sys.nr \in Nat /\ sys.legacy \in Seq({"port"} \X Nat)
  BY SysFacts DEF WellBuilt, LegacyOk
<1>2. l = Fresh(a)
  BY <1>1 DEF FreshLines
<1>3. a # None => j + 1 \in DOMAIN sys.legacy /\ a = sys.legacy[j + 1] /\ KindOf(a) = "port"
  <2> SUFFICES ASSUME j < Len(sys.legacy)
               PROVE  j + 1 \in DOMAIN sys.legacy /\ KindOf(a) = "port"
    OBVIOUS
  <2>1. j + 1 \in DOMAIN sys.legacy /\ sys.legacy[j + 1] \in {"port"} \X Nat
    BY <1>1
  <2>2. a = sys.legacy[j + 1]
    OBVIOUS
  <2> HIDE DEF a
  <2>3. Len(a) = 2 /\ a[1] = "port"
    BY <2>1, <2>2
  <2> QED BY <2>1, <2>3 DEF KindOf
<1> HIDE DEF a
<1>4. l = [iotype |-> "port", iobase |-> a, mapbase |-> None, map |-> None, remap |-> FALSE,
           boot |-> (a # None), known |-> FALSE, dev |-> "isa", attached |-> FALSE,
           use |-> "closed"]
  BY <1>2 DEF Fresh
<1>5. /\ l.iotype = "port" /\ l.iobase = a /\ l.mapbase = None /\ l.map = None
      /\ l.remap = FALSE /\ l.boot = (a # None) /\ l.known = FALSE /\ l.dev = "isa"
      /\ l.attached = FALSE /\ l.use = "closed"
  BY <1>4
<1>6. LineForm(l)
  <2>1. (a # None) \in BOOLEAN
    OBVIOUS
  <2>2. /\ l.iotype \in {"port", "mem"} /\ l.use \in {"closed", "running", "asleep"}
        /\ l.remap \in BOOLEAN /\ l.boot \in BOOLEAN /\ l.known \in BOOLEAN
        /\ l.attached \in BOOLEAN /\ l.dev \in Boards \cup {"isa", "none"}
    BY <1>5, <2>1, Zenon
  <2>3. l = [iotype |-> l.iotype, iobase |-> l.iobase, mapbase |-> l.mapbase, map |-> l.map,
             remap |-> l.remap, boot |-> l.boot, known |-> l.known, dev |-> l.dev,
             attached |-> l.attached, use |-> l.use]
    BY <1>4, <1>5, Zenon
  <2> QED BY <2>2, <2>3 DEF LineForm
<1>7. Address(l) = a
  BY <1>5 DEF Address
<1> QED BY <1>3, <1>5, <1>6, <1>7

(* A fresh line that is added holds its address if a UART answers there.   *)
Filled(j) == Added(FreshLines(sys)[j], Answers(FreshLines(sys)[j]))

(* It is a sane line of the legacy device.                                 *)
LEMMA FilledFacts ==
  ASSUME sys \in Systems, WellBuilt, NEW j \in Lines
  PROVE  LET l == Filled(j)
         IN  /\ LineForm(l) /\ LineOk(l) /\ l.iotype = "port" /\ l.dev = "isa" /\ l.attached
             /\ Address(l) = Address(FreshLines(sys)[j])
<1> DEFINE o == FreshLines(sys)[j]
           kn == Answers(o)
           l == Filled(j)
           x == IF kn /\ o.remap THEN <<"own">> ELSE o.map
<1>1. /\ LineForm(o) /\ o.iotype = "port" /\ o.known = FALSE /\ o.attached = FALSE
      /\ o.use = "closed" /\ o.dev = "isa"
      /\ Address(o) # None => KindOf(Address(o)) = "port"
  BY FreshFacts
<1>2. l = [o EXCEPT !.attached = TRUE, !.known = kn, !.map = x]
  BY DEF Filled, Added
<1>3. kn \in BOOLEAN /\ (kn => Address(o) # None)
  BY <1>1 DEF Answers, LineForm
<1> HIDE DEF o, kn, l, x
<1>4. l = [iotype |-> o.iotype, iobase |-> o.iobase, mapbase |-> o.mapbase, map |-> x,
           remap |-> o.remap, boot |-> o.boot, known |-> kn, dev |-> o.dev,
           attached |-> TRUE, use |-> o.use]
  BY <1>1, <1>2, AddedForm
<1>5. /\ l.iotype = o.iotype /\ l.iobase = o.iobase /\ l.mapbase = o.mapbase
      /\ l.map = x /\ l.remap = o.remap /\ l.boot = o.boot /\ l.known = kn /\ l.dev = o.dev
      /\ l.attached = TRUE /\ l.use = o.use
  BY <1>4
<1>6. LineForm(l)
  BY <1>1, <1>3, <1>4, <1>5 DEF LineForm
<1>7. Address(l) = Address(o)
  BY <1>5 DEF Address
<1>8. LineOk(l)
  BY <1>1, <1>3, <1>5, <1>7 DEF LineOk
<1> QED BY <1>1, <1>5, <1>6, <1>7, <1>8 DEF o, l

(* The table when the first n lines have been added.                       *)
Loading(n) ==
  [line |-> [j \in Lines |-> IF j < n THEN Filled(j) ELSE FreshLines(sys)[j]],
   claimed |-> {<<Address(Filled(j)), j>> : j \in {k \in Lines : k < n /\ Filled(k).known}}]

(* One more line is added.                                                 *)
LEMMA LoadingStep ==
  ASSUME sys \in Systems, WellBuilt, NEW n \in Lines
  PROVE  AddOne(Loading(n), n) = Loading(n + 1)
<1> DEFINE ln == [j \in Lines |-> IF j < n THEN Filled(j) ELSE FreshLines(sys)[j]]
           cl == {<<Address(Filled(j)), j>> : j \in {k \in Lines : k < n /\ Filled(k).known}}
           o == FreshLines(sys)[n]
<1>1. n \in Nat /\ Lines \subseteq Nat /\ Lines = 0 .. sys.nr - 1 /\ sys.nr \in Nat
  BY SysFacts
<1>2. n \in DOMAIN ln /\ ln[n] = o /\ Loading(n) = [line |-> ln, claimed |-> cl]
  BY <1>1 DEF Loading
<1>3. LineForm(o) /\ ~o.attached /\ ~o.known
  BY FreshFacts
<1>4. Address(o) # None => ~ \E c \in cl : c[1] = Address(o)
  <2> SUFFICES ASSUME Address(o) # None, NEW j \in Lines, j < n, Address(Filled(j)) = Address(o)
               PROVE  FALSE
    OBVIOUS
  <2> DEFINE f == FreshLines(sys)[j]
  <2>1. Address(f) = Address(o)
    BY FilledFacts
  <2>2. j + 1 \in DOMAIN sys.legacy /\ Address(f) = sys.legacy[j + 1]
    BY <2>1, FreshFacts
  <2>3. n + 1 \in DOMAIN sys.legacy /\ Address(o) = sys.legacy[n + 1]
    BY FreshFacts
  <2>4. j + 1 = n + 1
    BY <2>1, <2>2, <2>3 DEF WellBuilt, LegacyOk
  <2> QED BY <1>1, <2>4
<1>5. AddOne([line |-> ln, claimed |-> cl], n)
      = [line |-> [ln EXCEPT ![n] = Added(ln[n], Answers(ln[n]))],
         claimed |-> cl \cup Region(Added(ln[n], Answers(ln[n])), n)]
  <2> HIDE DEF ln, cl
  <2> QED BY <1>2, <1>3, <1>4, AddFacts
<1>6. [ln EXCEPT ![n] = Filled(n)]
      = [j \in Lines |-> IF j < n + 1 THEN Filled(j) ELSE FreshLines(sys)[j]]
  <2> HIDE DEF o
  <2>1. \A j \in Lines : j < n + 1 <=> (j < n \/ j = n)
    BY <1>1
  <2> QED BY <2>1
<1>7. cl \cup Region(Filled(n), n)
      = {<<Address(Filled(j)), j>> : j \in {k \in Lines : k < n + 1 /\ Filled(k).known}}
  <2>1. \A j \in Lines : j < n + 1 <=> (j < n \/ j = n)
    BY <1>1
  <2>2. Filled(n).known \in BOOLEAN
    BY FilledFacts DEF LineForm
  <2>3. CASE Filled(n).known
    BY <2>1, <2>3 DEF Region
  <2>4. CASE ~Filled(n).known
    BY <2>1, <2>4 DEF Region
  <2> QED BY <2>3, <2>4
<1>8. Added(ln[n], Answers(ln[n])) = Filled(n)
  BY <1>2 DEF Filled
<1> HIDE DEF ln, cl
<1> QED BY <1>2, <1>5, <1>6, <1>7, <1>8 DEF Loading

(* What loading does to the table.                                         *)
LEMMA LoadForm ==
  ASSUME sys \in Systems, WellBuilt
  PROVE  AllAdded([line |-> FreshLines(sys), claimed |-> {}]) = Loading(sys.nr)
<1> DEFINE s == [line |-> FreshLines(sys), claimed |-> {}]
           N == sys.nr
           Def(f) == [i \in 0 .. N |-> IF i = 0 THEN s ELSE AddOne(f[i - 1], i - 1)]
           c == CHOOSE f : f = Def(f)
           g == [i \in 0 .. N |-> Loading(i)]
<1>0. AllAdded(s) = c[N]
  BY DEF AllAdded
<1>1. N \in Nat /\ Lines = 0 .. N - 1
  BY SysFacts
<1>2. Loading(0) = s
  <2>1. \A j \in Lines : ~(j < 0)
    BY <1>1
  <2>2. FreshLines(sys) = [j \in Lines |-> FreshLines(sys)[j]]
    BY DEF FreshLines, Lines
  <2> QED BY <2>1, <2>2 DEF Loading
<1> HIDE DEF s, N
<1>3. g = Def(g)
  <2>1. ASSUME NEW i \in 0 .. N, i # 0 PROVE Loading(i) = AddOne(g[i - 1], i - 1)
    <3>1. i - 1 \in Lines /\ i - 1 \in 0 .. N /\ (i - 1) + 1 = i
      BY <1>1, <2>1
    <3>2. AddOne(Loading(i - 1), i - 1) = Loading(i)
      BY <3>1, LoadingStep
    <3> QED BY <3>1, <3>2
  <2>2. ASSUME NEW i \in 0 .. N PROVE g[i] = Def(g)[i]
    BY <1>2, <2>1
  <2> QED BY <2>2
<1>4. c = Def(c)
  <2> HIDE DEF g, Def
  <2> QED BY <1>3
<1> HIDE DEF c, g
<1>5. c[0] = g[0] /\ \A n \in 0 .. N - 1 : c[n] = g[n] => c[n + 1] = g[n + 1]
  <2>1. \A i \in 0 .. N : c[i] = IF i = 0 THEN s ELSE AddOne(c[i - 1], i - 1)
    BY <1>4
  <2>2. \A i \in 0 .. N : g[i] = IF i = 0 THEN s ELSE AddOne(g[i - 1], i - 1)
    BY <1>3
  <2>3. ASSUME NEW n \in 0 .. N - 1 PROVE n + 1 \in 0 .. N /\ n + 1 # 0 /\ (n + 1) - 1 = n
    BY <1>1
  <2> QED BY <1>1, <2>1, <2>2, <2>3
<1>6. c[N] = g[N]
  BY <1>1, <1>5, SameWalk
<1> QED BY <1>0, <1>1, <1>6 DEF g, s, N
(* Nothing is attached or held, and no board is bound, while the module is *)
(* not loaded; every line is then added with its legacy address.           *)
LEMMA LoadInv ==
  ASSUME LinesInv, Load
  PROVE  LinesInv'
<1> DEFINE m == Loading(sys.nr).line
           cl == Loading(sys.nr).claimed
<1>1. /\ sys \in Systems /\ WellBuilt /\ Tab(Table) /\ BoardsOk(line, board, loaded)
      /\ sys.nr \in Nat /\ Lines = 0 .. sys.nr - 1
  BY SysFacts DEF LinesInv
<1>2. ~loaded /\ loaded' = TRUE /\ UNCHANGED <<sys, board>>
  BY DEF Load
<1>3. /\ Sane(line) /\ claimed = Held(line)
      /\ \A i \in Lines : ~line[i].attached /\ line[i].dev = "none"
      /\ \A b \in Boards : board[b].st = "unbound"
  BY <1>1, <1>2 DEF Tab, Table, BoardsOk, Present
<1>4. claimed = {}
  BY <1>3 DEF Held, Sane, LineOk
<1>5. line' = m /\ claimed' = cl
  BY <1>1, <1>4, LoadForm DEF Load, Become
<1>6. /\ m = [j \in Lines |-> m[j]] /\ \A j \in Lines : m[j] = Filled(j)
      /\ cl = {<<Address(Filled(j)), j>> : j \in {k \in Lines : Filled(k).known}}
  <2>1. \A j \in Lines : j < sys.nr
    BY <1>1
  <2> QED BY <2>1 DEF Loading
<1> HIDE DEF m, cl
<1>7. ASSUME NEW j \in Lines
      PROVE  /\ LineForm(m[j]) /\ LineOk(m[j]) /\ m[j].iotype = "port" /\ m[j].dev = "isa"
             /\ Address(m[j]) = Address(FreshLines(sys)[j])
  BY <1>1, <1>6, FilledFacts
<1>8. Apart(m)
  <2> SUFFICES ASSUME NEW i \in Lines, NEW j \in Lines, i # j, Address(m[i]) # None,
                      Address(m[i]) = Address(m[j])
               PROVE  FALSE
    BY DEF Apart
  <2> DEFINE a == FreshLines(sys)[i]
             b == FreshLines(sys)[j]
  <2>1. Address(a) = Address(b) /\ Address(a) # None
    BY <1>7
  <2>2. i + 1 \in DOMAIN sys.legacy /\ Address(a) = sys.legacy[i + 1]
    BY <1>1, <2>1, FreshFacts
  <2>3. j + 1 \in DOMAIN sys.legacy /\ Address(b) = sys.legacy[j + 1]
    BY <1>1, <2>1, FreshFacts
  <2>4. i + 1 = j + 1
    BY <1>1, <2>1, <2>2, <2>3 DEF WellBuilt, LegacyOk
  <2> QED BY <1>1, <2>4
<1>9. Tab([line |-> m, claimed |-> cl])
  <2>1. cl = Held(m)
    BY <1>6 DEF Held
  <2> QED BY <1>6, <1>7, <1>8, <2>1 DEF Tab, Sane
<1>10. ASSUME NEW b \in Boards PROVE OfBoard(m, board[b], b)
  <2>1. OfBoard(line, board[b], b) /\ board[b].st = "unbound"
    BY <1>1, <1>3 DEF BoardsOk
  <2>2. Of(m, b) = {}
    BY <1>1, <1>7 DEF Of, WellBuilt
  <2>3. Noting(m, board[b], b)
    BY <2>1, <2>2 DEF OfBoard, Noting, KeptIn
  <2> QED BY <2>1, <2>3 DEF OfBoard, Counting, Awake
<1>11. BoardsOk(m, board, TRUE)
  BY <1>1, <1>7, <1>10 DEF BoardsOk, Present, Mapped
<1> QED BY <1>2, <1>5, <1>9, <1>11, Carry DEF Good

(* A line that is removed for good.                                        *)
Gone(l) == [Removed(l) EXCEPT !.dev = "none"]
(* It holds nothing and is nobody's; its address stays.                    *)
LEMMA GoneFacts ==
  ASSUME NEW l, LineForm(l), LineOk(l)
  PROVE  /\ LineForm(Gone(l)) /\ LineOk(Gone(l)) /\ Address(Gone(l)) = Address(l)
         /\ Gone(l).known = FALSE /\ Gone(l).attached = FALSE /\ Gone(l).dev = "none"
<1> DEFINE d == Removed(l)
           g == Gone(l)
<1>1. LineForm(d) /\ d.known = FALSE /\ d.attached = FALSE /\ d.use = "closed"
      /\ d.iotype = l.iotype /\ Address(d) = Address(l)
  BY RemovedFacts
<1>2. g = [d EXCEPT !.dev = "none"]
  BY DEF Gone
<1> HIDE DEF d, g
<1>3. g = [iotype |-> d.iotype, iobase |-> d.iobase, mapbase |-> d.mapbase, map |-> d.map,
           remap |-> d.remap, boot |-> d.boot, known |-> d.known, dev |-> "none",
           attached |-> d.attached, use |-> d.use]
  BY <1>1, <1>2 DEF LineForm
<1>4. /\ g.iotype = d.iotype /\ g.iobase = d.iobase /\ g.mapbase = d.mapbase /\ g.map = d.map
      /\ g.remap = d.remap /\ g.boot = d.boot /\ g.known = d.known /\ g.dev = "none"
      /\ g.attached = d.attached /\ g.use = d.use
  BY <1>3
<1>5. LineForm(g)
  BY <1>1, <1>3, <1>4 DEF LineForm
<1>6. Address(g) = Address(d)
  BY <1>4 DEF Address
<1>7. LineOk(g)
  BY <1>1, <1>4, <1>6 DEF LineOk
<1> QED BY <1>1, <1>4, <1>5, <1>6, <1>7 DEF g

(* The table when the first n lines have been removed for good.            *)
Leaving(n) ==
  [line |-> [j \in Lines |-> IF j < n THEN Gone(line[j]) ELSE line[j]],
   claimed |-> {<<Address(line[j]), j>> : j \in {k \in Lines : k >= n /\ line[k].known}}]

(* On the way the table is in order.                                       *)
LEMMA LeavingTab ==
  ASSUME LinesInv, NEW n \in 0 .. sys.nr
  PROVE  Tab(Leaving(n))
<1> DEFINE m == Leaving(n).line
<1>1. sys.nr \in Nat /\ Lines = 0 .. sys.nr - 1 /\ Sane(line)
  BY SysFacts DEF LinesInv, Tab, Table
<1>2. /\ Leaving(n) = [line |-> m, claimed |-> Leaving(n).claimed] /\ m = [j \in Lines |-> m[j]]
      /\ \A j \in Lines : m[j] = IF j < n THEN Gone(line[j]) ELSE line[j]
      /\ Leaving(n).claimed
         = {<<Address(line[j]), j>> : j \in {k \in Lines : k >= n /\ line[k].known}}
  BY DEF Leaving
<1> HIDE DEF m
<1>3. ASSUME NEW j \in Lines
      PROVE  /\ LineForm(m[j]) /\ LineOk(m[j]) /\ Address(m[j]) = Address(line[j])
             /\ m[j].known <=> j >= n /\ line[j].known
  <2>1. LineForm(line[j]) /\ LineOk(line[j]) /\ (j < n <=> ~(j >= n))
    <3>1. LineForm(line[j]) /\ LineOk(line[j])
      BY <1>1 DEF Sane
    <3>2. j \in Int /\ n \in Int
      BY <1>1
    <3> QED BY <3>1, <3>2
  <2>4. m[j] = IF j < n THEN Gone(line[j]) ELSE line[j]
    BY <1>2, Zenon
  <2>2. CASE j < n
    <3>1. m[j] = Gone(line[j]) /\ ~(j >= n)
      BY <2>1, <2>2, <2>4, Zenon
    <3> QED BY <2>1, <3>1, GoneFacts
  <2>3. CASE ~(j < n)
    <3>1. m[j] = line[j] /\ j >= n
      BY <2>1, <2>3, <2>4, Zenon
    <3> QED BY <2>1, <3>1
  <2> QED BY <2>2, <2>3
<1>4. Apart(m)
  BY <1>1, <1>3, ZenonT(60) DEF Sane, Apart
<1>5. Leaving(n).claimed = Held(m)
  BY <1>2, <1>3 DEF Held
<1> QED BY <1>2, <1>3, <1>4, <1>5 DEF Tab, Sane, m

(* A line is removed and belongs to nobody.                                *)
Depart(s, i) == [RemoveOne(s, i) EXCEPT !.line[i].dev = "none"]
(* One more line is removed.                                               *)
LEMMA LeavingStep ==
  ASSUME LinesInv, NEW n \in Lines
  PROVE  Depart(Leaving(n), n) = Leaving(n + 1)
<1> DEFINE s == Leaving(n)
           ln == s.line
           d == Removed(line[n])
           e == [ln EXCEPT ![n] = d]
           W == Without(s.claimed, n)
           q == RemoveOne(s, n)
<1>1. n \in Nat /\ Lines = 0 .. sys.nr - 1 /\ sys.nr \in Nat /\ Lines \subseteq Nat /\ Sane(line)
  BY SysFacts DEF LinesInv, Tab, Table
<1>2. Tab(s)
  BY <1>1, LeavingTab
<1>3. ln[n] = line[n] /\ ln = [j \in Lines |-> IF j < n THEN Gone(line[j]) ELSE line[j]]
  BY <1>1 DEF Leaving
<1>4. q = [line |-> e, claimed |-> W]
  BY <1>2, <1>3, RemoveFacts
<1>5. [e EXCEPT ![n].dev = "none"]
      = [j \in Lines |-> IF j < n + 1 THEN Gone(line[j]) ELSE line[j]]
  <2>1. \A j \in Lines : j < n + 1 <=> (j < n \/ j = n)
    BY <1>1
  <2>2. e[n] = d /\ [d EXCEPT !.dev = "none"] = Gone(line[n])
    BY <1>3 DEF Gone
  <2> HIDE DEF d
  <2>3. [e EXCEPT ![n].dev = "none"] = [ln EXCEPT ![n] = Gone(line[n])]
    BY <1>3, <2>2
  <2> QED BY <1>3, <2>1, <2>3
<1>6. W = {<<Address(line[j]), j>> : j \in {k \in Lines : k >= n + 1 /\ line[k].known}}
  <2>1. \A j \in Lines : j >= n + 1 <=> (j >= n /\ j # n)
    BY <1>1
  <2>2. s.claimed = {<<Address(line[j]), j>> : j \in {k \in Lines : k >= n /\ line[k].known}}
    BY DEF Leaving
  <2> QED BY <2>1, <2>2 DEF Without
<1>7. [q EXCEPT !.line[n].dev = "none"] = [line |-> [e EXCEPT ![n].dev = "none"], claimed |-> W]
  <2> HIDE DEF q, e, W
  <2>1. q.line = e
    BY <1>4
  <2>2. \A z : [q EXCEPT !.line = z] = [line |-> z, claimed |-> W]
    BY <1>4
  <2> QED BY <2>1, <2>2, Zenon
<1> HIDE DEF e, W
<1> QED BY <1>5, <1>6, <1>7 DEF Leaving, Depart

(* Unloading takes every line away, and with it every region.              *)
LEMMA UnloadInv ==
  ASSUME LinesInv, Unload
  PROVE  LinesInv'
<1> DEFINE N == sys.nr
           mine == {i \in Lines : line[i].dev = "isa" \/ line[i].dev \in Boards}
           Def(f) == [i \in 0 .. N |->
               IF i = 0 THEN Table
               ELSE IF i - 1 \in mine
               THEN Depart(f[i - 1], i - 1)
               ELSE f[i - 1]]
           c == CHOOSE f : f = Def(f)
           g == [i \in 0 .. N |-> Leaving(i)]
           d == [b \in Boards |-> [board[b] EXCEPT !.st = "unbound"]]
<1>0. /\ loaded /\ loaded' = FALSE /\ UNCHANGED sys /\ board' = d /\ Become(c[N])
      /\ \A b \in Boards : board[b].st = "unbound" \/ (Plat(b) /\ board[b].st = "bound")
  BY DEF Unload, Depart
<1>1. N \in Nat /\ Lines = 0 .. N - 1 /\ sys \in Systems /\ WellBuilt /\ Tab(Table)
      /\ BoardsOk(line, board, loaded) /\ Sane(line) /\ claimed = Held(line)
  BY SysFacts DEF LinesInv, Tab, Table
<1>2. mine = Lines
  <2>1. \A i \in Lines : line[i].dev # "none" /\ line[i].dev \in Boards \cup {"isa", "none"}
    BY <1>0, <1>1 DEF BoardsOk, Present, Sane, LineForm
  <2> QED BY <2>1
<1>3. Leaving(0) = Table
  <2>1. \A j \in Lines : ~(j < 0) /\ j >= 0
    BY <1>1
  <2>2. line = [j \in Lines |-> line[j]]
    BY <1>1 DEF Sane
  <2>3. claimed = {<<Address(line[j]), j>> : j \in {k \in Lines : k >= 0 /\ line[k].known}}
    BY <1>1, <2>1 DEF Held
  <2> QED BY <2>1, <2>2, <2>3 DEF Leaving, Table
<1> HIDE DEF N, mine
<1>4. g = Def(g)
  <2>1. ASSUME NEW i \in 0 .. N, i # 0
        PROVE  Leaving(i) = Depart(g[i - 1], i - 1) /\ i - 1 \in mine
    <3>1. i - 1 \in Lines /\ i - 1 \in 0 .. N /\ (i - 1) + 1 = i
      BY <1>1, <2>1
    <3>2. Depart(Leaving(i - 1), i - 1) = Leaving(i)
      BY <3>1, LeavingStep
    <3> QED BY <1>2, <3>1, <3>2
  <2>2. ASSUME NEW i \in 0 .. N PROVE g[i] = Def(g)[i]
    BY <1>3, <2>1
  <2> QED BY <2>2
<1>5. c = Def(c)
  <2> HIDE DEF g, Def
  <2> QED BY <1>4
<1> HIDE DEF c, g
<1>6. c[0] = g[0] /\ \A n \in 0 .. N - 1 : c[n] = g[n] => c[n + 1] = g[n + 1]
  <2>1. \A i \in 0 .. N : c[i] = IF i = 0 THEN Table ELSE Depart(c[i - 1], i - 1)
    <3>1. \A i \in 0 .. N : i # 0 => i - 1 \in mine
      BY <1>1, <1>2
    <3> QED BY <1>5, <3>1
  <2>2. \A i \in 0 .. N : g[i] = IF i = 0 THEN Table ELSE Depart(g[i - 1], i - 1)
    <3>1. \A i \in 0 .. N : i # 0 => i - 1 \in mine
      BY <1>1, <1>2
    <3> QED BY <1>4, <3>1
  <2>3. ASSUME NEW n \in 0 .. N - 1 PROVE n + 1 \in 0 .. N /\ n + 1 # 0 /\ (n + 1) - 1 = n
    BY <1>1
  <2> QED BY <1>1, <2>1, <2>2, <2>3
<1>7. c[N] = Leaving(N)
  <2>1. c[N] = g[N]
    BY <1>1, <1>6, SameWalk
  <2>2. g[N] = Leaving(N)
    BY <1>1 DEF g
  <2> QED BY <2>1, <2>2
<1> DEFINE m == Leaving(N).line
<1>8. line' = m /\ claimed' = Leaving(N).claimed
  BY <1>0, <1>7 DEF Become
<1>9. Tab(Leaving(N))
  BY <1>1, LeavingTab DEF N
<1>10. ASSUME NEW j \in Lines PROVE ~m[j].known /\ ~m[j].attached /\ m[j].dev = "none"
  <2>1. LineForm(line[j]) /\ LineOk(line[j]) /\ j < N
    BY <1>1 DEF Sane
  <2>2. m[j] = Gone(line[j])
    BY <2>1 DEF Leaving
  <2> QED BY <2>1, <2>2, GoneFacts
<1> HIDE DEF m
<1>11. ASSUME NEW b \in Boards PROVE OfBoard(m, d[b], b) /\ d[b].st = "unbound"
  <2> DEFINE o == board[b]
  <2>1. OfBoard(line, o, b) /\ BoardForm(o)
    BY <1>1 DEF BoardsOk, OfBoard
  <2>2. Of(m, b) = {}
    BY <1>1, <1>10 DEF Of, WellBuilt
  <2>3. o.lines = <<>>
    BY <1>0, <2>1 DEF OfBoard, Noting
  <2>4. d[b] = [st |-> "unbound", next |-> o.next, lines |-> o.lines, maps |-> o.maps,
                cnt |-> o.cnt, on |-> o.on]
    BY <2>1, StateForm, Zenon
  <2> HIDE DEF d
  <2>5. d[b].st = "unbound" /\ d[b].next = o.next /\ d[b].lines = o.lines
    BY <2>4
  <2>6. BoardForm(d[b])
    BY <2>1, <2>4, <2>5 DEF BoardForm
  <2>7. Noting(m, d[b], b)
    BY <2>2, <2>3, <2>5 DEF Noting, KeptIn
  <2>8. Counting(m, d[b], b) /\ Awake(m, d[b], b)
    BY <2>1, <2>5 DEF OfBoard, Counting, Awake
  <2> QED BY <2>5, <2>6, <2>7, <2>8 DEF OfBoard
<1>12. d = [b \in Boards |-> d[b]]
  OBVIOUS
<1> HIDE DEF d
<1>13. BoardsOk(m, d, FALSE)
  BY <1>10, <1>11, <1>12 DEF BoardsOk, Present, Mapped
<1>14. Tab([line |-> m, claimed |-> claimed'])
  BY <1>8, <1>9 DEF Tab, m
<1> QED BY <1>0, <1>8, <1>13, <1>14, Carry DEF Good
-----------------------------------------------------------------------------
(* The theorems.                                                           *)

(* Before the module is loaded for the first time nobody has a line.       *)
LEMMA InitInv ==
  ASSUME Init, WellBuilt
  PROVE  LinesInv
<1> DEFINE e == [Fresh(None) EXCEPT !.dev = "none"]
<1>1. sys \in Systems /\ loaded = FALSE /\ claimed = {} /\ line = [i \in Lines |-> e]
      /\ board = [b \in Boards |-> [st |-> "unbound", next |-> 0, lines |-> <<>>, maps |-> {},
                                    cnt |-> 0, on |-> FALSE]]
  BY DEF Init
<1>2. e = [iotype |-> "port", iobase |-> None, mapbase |-> None, map |-> None, remap |-> FALSE,
           boot |-> FALSE, known |-> FALSE, dev |-> "none", attached |-> FALSE,
           use |-> "closed"]
  <2> DEFINE f == Fresh(None)
  <2>1. f = [iotype |-> "port", iobase |-> None, mapbase |-> None, map |-> None,
             remap |-> FALSE, boot |-> FALSE, known |-> FALSE, dev |-> "isa",
             attached |-> FALSE, use |-> "closed"]
    <3>1. (None # None) = FALSE
      OBVIOUS
    <3> QED BY <3>1, Zenon DEF Fresh
  <2>2. e = [f EXCEPT !.dev = "none"]
    OBVIOUS
  <2> HIDE DEF e, f
  <2> QED BY <2>1, <2>2
<1> HIDE DEF e
<1>3. e.iotype = "port" /\ e.iobase = None /\ e.mapbase = None /\ e.map = None
      /\ e.remap = FALSE /\ e.boot = FALSE /\ e.known = FALSE /\ e.dev = "none"
      /\ e.attached = FALSE /\ e.use = "closed"
  BY <1>2
<1>4. LineForm(e)
  BY <1>2, <1>3 DEF LineForm
<1>5. Address(e) = None
  BY <1>3 DEF Address
<1>6. LineOk(e)
  BY <1>3, <1>5 DEF LineOk
<1>7. Tab(Table)
  <2>1. line = [i \in Lines |-> line[i]] /\ \A i \in Lines : line[i] = e
    BY <1>1
  <2>2. Sane(line)
    BY <1>4, <1>5, <1>6, <2>1 DEF Sane, Apart
  <2>3. claimed = Held(line)
    BY <1>1, <1>3, <2>1 DEF Held
  <2> QED BY <2>2, <2>3 DEF Tab, Table
<1>8. ASSUME NEW b \in Boards PROVE OfBoard(line, board[b], b)
  <2> DEFINE r == board[b]
  <2>1. r = [st |-> "unbound", next |-> 0, lines |-> <<>>, maps |-> {}, cnt |-> 0, on |-> FALSE]
    BY <1>1
  <2> HIDE DEF r
  <2>2. r.st = "unbound" /\ r.next = 0 /\ r.lines = <<>> /\ r.maps = {} /\ r.cnt = 0
        /\ r.on = FALSE
    BY <2>1
  <2>3. BoardForm(r)
    <3>1. <<>> \in Seq(Lines)
      OBVIOUS
    <3> QED BY <2>1, <2>2, <3>1 DEF BoardForm
  <2>4. Of(line, b) = {}
    BY <1>1, <1>3 DEF Of, WellBuilt
  <2>5. Noting(line, r, b)
    BY <2>2, <2>4 DEF Noting, KeptIn
  <2>6. sys.nr \in Nat \ {0} /\ NumPorts(b) \in Nat \cup {-1}
    <3>1. CardOk(b)
      BY DEF WellBuilt
    <3> QED BY <1>1, <3>1, SysFacts DEF CardOk, NumPorts, Nodev
  <2>7. Counting(line, r, b) /\ Awake(line, r, b)
    BY <2>2, <2>6 DEF Counting, Awake
  <2> QED BY <2>3, <2>5, <2>7 DEF OfBoard, r
<1>9. BoardsOk(line, board, loaded)
  <2>1. Present(line, board, loaded) /\ Mapped(line, board)
    BY <1>1, <1>3 DEF Present, Mapped
  <2> QED BY <1>1, <1>8, <2>1 DEF BoardsOk
<1> QED BY <1>1, <1>7, <1>9 DEF LinesInv

(* Every step of the boards, of the users and of the module keeps it.      *)
LEMMA NextInv ==
  ASSUME LinesInv, [Next]_vars
  PROVE  LinesInv'
<1>1. CASE Load
  BY <1>1, LoadInv
<1>2. CASE Unload
  BY <1>2, UnloadInv
<1>3. ASSUME NEW b \in Boards,
             \/ Bind(b) \/ BindFails(b) \/ SetupFails(b) \/ RegisterNext(b) \/ Bound(b)
             \/ Unbind(b) \/ UnregisterNext(b) \/ Unbound(b)
             \/ Suspend(b) \/ Resume(b) \/ ErrorDetected(b) \/ SlotReset(b) \/ ErrorResume(b)
      PROVE  LinesInv'
  BY <1>3, BindInv, BindFailsInv, SetupFailsInv, RegisterNextInv, BoundInv, UnbindInv,
     UnregisterNextInv, UnboundInv, SuspendInv, ResumeInv, ErrorDetectedInv, SlotResetInv,
     ErrorResumeInv
<1>4. ASSUME NEW i \in Lines, Open(i) \/ Close(i) PROVE LinesInv'
  BY <1>4, OpenCloseInv
<1>5. CASE UNCHANGED vars
  <2>1. Tab([line |-> line, claimed |-> claimed]) /\ BoardsOk(line, board, loaded)
    BY DEF LinesInv, Table
  <2>2. sys' = sys /\ Good(line', claimed', board', loaded')
    BY <1>5, <2>1 DEF vars, Good
  <2> QED BY <2>2, Carry
<1> QED BY <1>1, <1>2, <1>3, <1>4, <1>5 DEF Next

(* On a machine that is put together well, the invariant always holds.     *)
THEOREM LinesSafe == Spec /\ WellBuilt => []LinesInv
<1>1. Init /\ WellBuilt => LinesInv
  BY InitInv
<1>2. LinesInv /\ [Next]_vars => LinesInv'
  BY NextInv
<1> QED BY <1>1, <1>2, PTL DEF Spec

(* Each line is of the board that noted it.                                *)
LEMMA InvOneOwner ==
  ASSUME LinesInv
  PROVE  OneOwner
<1> SUFFICES ASSUME NEW b \in Boards
             PROVE  /\ \A k \in Kept(b) : LET l == line[board[b].lines[k]]
                                          IN  /\ l.attached /\ l.dev = b
                                              /\ Address(l) = Address(Port(b, k - 1))
                    /\ \A j, k \in Kept(b) : board[b].lines[j] = board[b].lines[k] => j = k
                    /\ ~Plat(b) => {i \in Lines : line[i].dev = b}
                                   = {board[b].lines[k] : k \in Kept(b)}
  BY DEF OneOwner
<1> DEFINE o == board[b]
<1>1. OfBoard(line, o, b) /\ o.lines \in Seq(Lines) /\ WellBuilt /\ Sane(line)
  BY BoardFacts DEF LinesInv, Tab, Table
<1>2. Kept(b) = KeptIn(o)
  BY DEF Kept, KeptIn
<1>3. CASE Plat(b)
  <2>1. Kept(b) = {}
    BY <1>1, <1>3 DEF OfBoard, Noting, Kept
  <2> QED BY <1>3, <2>1
<1>4. CASE ~Plat(b)
  <2>1. ASSUME NEW k \in Kept(b)
        PROVE  /\ o.lines[k] \in Lines /\ HasPort(b, k - 1) /\ k - 1 \in Nat /\ k \in Nat
               /\ line[o.lines[k]].attached /\ line[o.lines[k]].dev = b
               /\ Address(line[o.lines[k]]) = Where(b, k - 1)
    <3>1. k \in KeptIn(o) /\ k \in DOMAIN o.lines
      BY <1>2 DEF KeptIn
    <3>2. o.lines[k] \in Lines /\ k - 1 \in Nat /\ k \in Nat
      BY <1>1, <3>1
    <3>3. /\ HasPort(b, k - 1) /\ line[o.lines[k]].known /\ line[o.lines[k]].dev = b
          /\ Address(line[o.lines[k]]) = Where(b, k - 1)
      BY <1>1, <1>4, <3>1 DEF OfBoard, Noting
    <3>4. line[o.lines[k]].attached
      BY <1>1, <3>2, <3>3 DEF Sane, LineOk
    <3> QED BY <3>2, <3>3, <3>4
  <2>2. ASSUME NEW j \in Kept(b), NEW k \in Kept(b), o.lines[j] = o.lines[k] PROVE j = k
    <3>1. Where(b, j - 1) = Where(b, k - 1)
      BY <2>1, <2>2
    <3>2. j - 1 = k - 1
      BY <1>1, <1>4, <2>1, <3>1, PortsDiffer
    <3> QED BY <2>1, <3>2
  <2>3. {i \in Lines : line[i].dev = b} = {o.lines[k] : k \in Kept(b)}
    BY <1>1, <1>2, <1>4, <2>1 DEF OfBoard, Noting, Of
  <2> QED BY <2>1, <2>2, <2>3 DEF Where
<1> QED BY <1>3, <1>4

(* The table, the boards' notes and the resource tree agree.               *)
LEMMA InvOwned ==
  ASSUME LinesInv
  PROVE  LinesOwned
<1>1. /\ WellBuilt /\ Sane(line) /\ claimed = Held(line) /\ BoardsOk(line, board, loaded)
      /\ sys.nr \in Nat
  BY SysFacts DEF LinesInv, Tab, Table
<1>2. TypeOK
  <2>1. ASSUME NEW i \in Lines
        PROVE  /\ line[i].iotype \in {"port", "mem"}
               /\ line[i].use \in {"closed", "running", "asleep"}
               /\ line[i].dev \in Boards \union {"isa", "none"}
               /\ line[i].use # "closed" => line[i].attached /\ line[i].known
    BY <1>1 DEF Sane, LineForm, LineOk
  <2>2. ASSUME NEW b \in Boards PROVE board[b].next \in 0..sys.nr + NumPorts(b)
    <3>1. /\ board[b].next \in Nat /\ NumPorts(b) \in Nat \cup {-1}
          /\ board[b].next <= sys.nr + NumPorts(b)
      BY BoardFacts DEF OfBoard, Counting
    <3> QED BY <1>1, <3>1
  <2> QED BY <2>1, <2>2 DEF TypeOK
<1>3. PortsInside
  <2> SUFFICES ASSUME NEW b \in Boards, Pci(b), NEW k \in DOMAIN board[b].lines
               PROVE  LET place == PciPlace(Card(b), k - 1)
                          bar   == Card(b).bars[place[1]]
                      IN  bar.kind # "none" /\ place[2] + Width(Card(b), place[1]) <= bar.len
    BY DEF PortsInside
  <2>1. OfBoard(line, board[b], b) /\ board[b].lines \in Seq(Lines)
    BY BoardFacts
  <2>2. ~Plat(b)
    BY DEF Pci, Plat
  <2>3. HasPort(b, k - 1) /\ k - 1 \in Nat
    BY <2>1, <2>2 DEF OfBoard, Noting
  <2>4. Placed(b)
    BY <1>1 DEF WellBuilt
  <2> QED BY <2>3, <2>4 DEF Placed
<1>4. RegionsExact
  <2>1. claimed = {<<Address(line[i]), i>> : i \in {j \in Lines : line[j].known}}
    BY <1>1 DEF Held
  <2>2. ASSUME NEW c \in claimed, NEW d \in claimed, c[1] = d[1] PROVE c = d
    <3>1. PICK i \in Lines : line[i].known /\ c = <<Address(line[i]), i>>
      BY <2>1
    <3>2. PICK j \in Lines : line[j].known /\ d = <<Address(line[j]), j>>
      BY <2>1
    <3>3. Address(line[i]) = Address(line[j]) /\ Address(line[i]) # None
      BY <1>1, <2>2, <3>1, <3>2 DEF Sane, LineOk
    <3>4. i = j
      BY <1>1, <3>3 DEF Sane, Apart
    <3> QED BY <3>1, <3>2, <3>4
  <2>3. ASSUME ~loaded PROVE claimed = {} /\ \A i \in Lines : ~line[i].attached
    <3>1. \A i \in Lines : ~line[i].attached
      BY <1>1, <2>3 DEF BoardsOk, Present
    <3>2. \A i \in Lines : ~line[i].known
      BY <1>1, <3>1 DEF Sane, LineOk
    <3> QED BY <2>1, <3>1, <3>2
  <2> QED BY <2>1, <2>2, <2>3 DEF RegionsExact
<1> QED BY <1>2, <1>3, <1>4, InvOneOwner DEF LinesOwned

(* LinesOwned: whoever registers and leaves in between, what a driver      *)
(* notes about its lines is what the table says, each port lies in a       *)
(* register of its board, and exactly the detected ports' regions are      *)
(* claimed.                                                                *)
THEOREM OwnersCorrect == Spec /\ WellBuilt => []LinesOwned
<1>1. LinesInv => LinesOwned
  BY InvOwned
<1> QED BY <1>1, LinesSafe, PTL

(* What the invariant says of a port that is used.                         *)
LEMMA InvReachable ==
  ASSUME LinesInv, ~OpenWhileDown
  PROVE  Reachable
<1>1. Sane(line) /\ BoardsOk(line, board, loaded)
  BY DEF LinesInv, Tab, Table
<1> SUFFICES ASSUME NEW i \in Lines
             PROVE  /\ line[i].known /\ line[i].iotype = "mem" =>
                        \/ line[i].map = <<"own">>
                        \/ \E b \in Boards : line[i].map \in board[b].maps
                    /\ line[i].use = "running" /\ line[i].dev \in Boards =>
                        LET b == board[line[i].dev]
                        IN  /\ b.st \in {"probing", "bound", "removing"}
                            /\ Pci(line[i].dev) /\ b.st # "removing" => b.on
  BY DEF Reachable
<1>2. ASSUME line[i].known, line[i].iotype = "mem"
      PROVE  line[i].map = <<"own">> \/ \E b \in Boards : line[i].map \in board[b].maps
  <2>1. CASE line[i].remap
    BY <1>1, <1>2, <2>1 DEF Sane, LineOk
  <2>2. CASE ~line[i].remap
    BY <1>1, <1>2, <2>2 DEF BoardsOk, Mapped
  <2> QED BY <2>1, <2>2
<1>3. ASSUME line[i].use = "running", line[i].dev \in Boards
      PROVE  LET b == board[line[i].dev]
             IN  /\ b.st \in {"probing", "bound", "removing"}
                 /\ Pci(line[i].dev) /\ b.st # "removing" => b.on
  <2> DEFINE c == line[i].dev
             o == board[c]
  <2>1. OfBoard(line, o, c) /\ i \in Of(line, c)
    BY <1>1, <1>3 DEF BoardsOk, Of
  <2>2. o.st \in {"unbound", "probing", "bound", "removing", "asleep", "error", "reset", "dead"}
    BY <2>1 DEF OfBoard, BoardForm
  <2>3. o.st # "unbound"
    BY <2>1 DEF OfBoard, Noting
  <2>4. Awake(line, o, c)
    BY <2>1 DEF OfBoard
  <2>5. o.st \notin {"asleep", "error", "reset", "dead"}
    BY <1>3, <2>1, <2>4 DEF Awake
  <2> QED BY <2>2, <2>3, <2>4, <2>5 DEF Awake
<1> QED BY <1>2, <1>3

(* Reachable: if nobody opens a line while its board is in trouble, memory *)
(* is mapped wherever a port was detected, and a port that runs is on a    *)
(* board that is awake and switched on.                                    *)
THEOREM PortsReachable ==
  ASSUME ~OpenWhileDown
  PROVE  Spec /\ WellBuilt => []Reachable
<1>1. LinesInv => Reachable
  BY InvReachable
<1> QED BY <1>1, LinesSafe, PTL
=============================================================================
