---------------------------- MODULE CharMuxProofs ----------------------------
(***************************************************************************)
(* Proofs about CharMux, for every back end, every depth and trigger level *)
(* of the UART's FIFO, every size of the multiplexer's ring, and any       *)
(* number of bytes: what is asked for before the wait still fits after it, *)
(* whatever the guest reads meanwhile; the front end is given what the     *)
(* telnet stream says, wherever the reads cut it; every byte goes to the   *)
(* front end it is meant for, in order; nobody waits with bytes that would *)
(* be taken; and nobody is taken for connected who is not.                 *)
(*                                                                         *)
(* The loops of the code are folds.  Each is first laid out as a sequence  *)
(* of states (IacRun, DeliverRun, MuxRun, ...), and what a loop preserves  *)
(* is then shown along that sequence (Climb).                              *)
(***************************************************************************)
EXTENDS CharMux, SequenceTheorems, WellFoundedInduction, TLAPS

-----------------------------------------------------------------------------
(* Folds.                                                                  *)

\* Induction over an interval, the induction hypothesis given as a set.
LEMMA Climb ==
  ASSUME NEW n \in Nat, NEW I, 0 \in I, \A k \in 1..n : k - 1 \in I => k \in I
  PROVE  \A k \in 0..n : k \in I
<1> SUFFICES ASSUME NEW k \in 0..n, k \notin I PROVE FALSE
  OBVIOUS
<1> DEFINE T == {j \in 0..n : j \notin I}
<1>1. T \subseteq Nat /\ T # {}
  OBVIOUS
<1>2. IsWellFoundedOn(OpToRel(<, Nat), Nat)
  BY NatLessThanWellFounded, Zenon
<1>3. PICK l \in T : \A m \in T : ~(<<m, l>> \in OpToRel(<, Nat))
  <2> HIDE DEF T
  <2> QED BY <1>1, <1>2, WFMin, Zenon
<1>4. l \in 0..n /\ l \notin I /\ l # 0
  OBVIOUS
<1>5. l \in 1..n /\ l - 1 \in 0..n
  BY <1>4
<1>6. l - 1 \notin T
  <2>1. <<l - 1, l>> \in OpToRel(<, Nat)
    BY <1>4, <1>5 DEF OpToRel
  <2> HIDE DEF T
  <2> QED BY <1>3, <2>1
<1> QED BY <1>4, <1>5, <1>6

\* The largest number of an interval, and of a set that holds its end.
LEMMA MaxOfInterval ==
  ASSUME NEW n \in Nat, NEW T \in SUBSET (1..n), n \in T
  PROVE  Max(T) = n
<1>1. \A y \in T : n >= y
  OBVIOUS
<1>2. \A x \in T : (\A y \in T : x >= y) => x = n
  OBVIOUS
<1> QED BY <1>1, <1>2 DEF Max

\* The last index of a prefix.
LEMMA MaxOfPrefix ==
  ASSUME NEW n \in Nat, NEW k \in 1..n
  PROVE  Max(1..k) = k
<1>1. k \in Nat /\ 1..k \in SUBSET (1..k) /\ k \in 1..k
  OBVIOUS
<1> QED BY <1>1, MaxOfInterval

\* Shorter prefixes, and the sets of their indices.
LEMMA PrefixOf ==
  ASSUME NEW n \in Nat, NEW k \in 1..n
  PROVE  /\ 1..k # {} /\ (1..k) \ {k} = 1..(k - 1) /\ 1..k \in SUBSET (1..n)
         /\ \A T \in SUBSET (1..k) : T \ {k} \in SUBSET (1..(k - 1))
  OBVIOUS

\* The largest number of a set of indices is one of them.
LEMMA MaxInside ==
  ASSUME NEW n \in Nat, NEW T \in SUBSET (1..n), T # {}
  PROVE  Max(T) \in 1..n
<1> DEFINE I == {k \in 0..n : \A S \in SUBSET (1..k) : S # {} => Max(S) \in S}
<1>1. 0 \in I
  <2>1. \A S \in SUBSET (1..0) : S = {}
    OBVIOUS
  <2>2. 0 \in 0..n
    OBVIOUS
  <2>3. \A S \in SUBSET (1..0) : S # {} => Max(S) \in S
    BY <2>1
  <2> QED BY <2>2, <2>3
<1>2. ASSUME NEW k \in 1..n, k - 1 \in I PROVE k \in I
  <2> SUFFICES ASSUME NEW S \in SUBSET (1..k), S # {} PROVE Max(S) \in S
    OBVIOUS
  <2>1. CASE k \in S
    BY <2>1, MaxOfInterval
  <2>2. CASE k \notin S
    <3>1. S \in SUBSET (1..(k - 1))
      BY <2>2
    <3> QED BY <3>1, <1>2
  <2> QED BY <2>1, <2>2
<1>3. \A k \in 0..n : k \in I
  <2> HIDE DEF I
  <2>1. \A k \in 1..n : k - 1 \in I => k \in I
    BY <1>2
  <2> QED BY <1>1, <2>1, Climb
<1>4. n \in 0..n
  OBVIOUS
<1>5. Max(T) \in T
  BY <1>3, <1>4
<1> QED BY <1>5

\* The table MapThenFoldSet computes to fold the first n bytes of buf, with F for the operator.
IsTable(g, A, F, s, buf, n) ==
    /\ g \in [SUBSET (1..n) -> A]
    /\ \A T \in SUBSET (1..n) :
         g[T] = IF T = {} THEN s ELSE F[g[T \ {Max(T)}]][buf[Max(T)]]
\* There is one.
HasTable(A, F, s, buf) == \E g : IsTable(g, A, F, s, buf, Len(buf))

\* It exists: it is built up from the shorter ones.
LEMMA FoldTable ==
  ASSUME NEW A, NEW B, NEW F \in [A -> [B -> A]], NEW s \in A, NEW buf \in Seq(B)
  PROVE  HasTable(A, F, s, buf)
<1> DEFINE n == Len(buf)
<1> DEFINE Is(g, k) == \A T \in SUBSET (1..k) :
             g[T] = IF T = {} THEN s ELSE F[g[T \ {Max(T)}]][buf[Max(T)]]
<1> DEFINE I == {k \in 0..n : \E g \in [SUBSET (1..k) -> A] : Is(g, k)}
<1>0. n \in Nat
  OBVIOUS
<1>1. 0 \in I
  <2> DEFINE g == [T \in SUBSET (1..0) |-> s]
  <2>1. g \in [SUBSET (1..0) -> A]
    OBVIOUS
  <2>2. \A T \in SUBSET (1..0) : T = {}
    OBVIOUS
  <2>3. Is(g, 0)
    BY <2>2
  <2>4. 0 \in 0..n
    BY <1>0
  <2> HIDE DEF g, Is
  <2> QED BY <2>1, <2>3, <2>4
<1>2. ASSUME NEW k \in 1..n, k - 1 \in I PROVE k \in I
  <2>1. PICK g \in [SUBSET (1..(k - 1)) -> A] : Is(g, k - 1)
    BY <1>2
  <2> DEFINE h == [T \in SUBSET (1..k) |-> IF k \in T THEN F[g[T \ {k}]][buf[k]] ELSE g[T]]
  <2>2. \A T \in SUBSET (1..k) : T \ {k} \in SUBSET (1..(k - 1))
    BY <1>0, PrefixOf
  <2>3. \A T \in SUBSET (1..k) : k \notin T => T \in SUBSET (1..(k - 1))
    BY <2>2
  <2>4. buf[k] \in B
    BY <1>0, ElementOfSeq
  <2>5. h \in [SUBSET (1..k) -> A]
    <3> SUFFICES ASSUME NEW T \in SUBSET (1..k)
                 PROVE  (IF k \in T THEN F[g[T \ {k}]][buf[k]] ELSE g[T]) \in A
      OBVIOUS
    <3>1. CASE k \in T
      <4>1. g[T \ {k}] \in A
        BY <2>2
      <4>2. F[g[T \ {k}]] \in [B -> A]
        BY <4>1
      <4>3. F[g[T \ {k}]][buf[k]] \in A
        BY <4>2, <2>4
      <4> QED BY <4>3, <3>1
    <3>2. CASE k \notin T
      BY <2>3, <3>2
    <3> QED BY <3>1, <3>2
  <2>6. \A T \in SUBSET (1..k) : k \notin T => h[T] = g[T]
    OBVIOUS
  <2>7. ASSUME NEW T \in SUBSET (1..k)
        PROVE  h[T] = IF T = {} THEN s ELSE F[h[T \ {Max(T)}]][buf[Max(T)]]
    <3>1. CASE k \in T
      <4>1. Max(T) = k
        BY <3>1, MaxOfInterval
      <4>2. h[T \ {k}] = g[T \ {k}]
        BY <2>6
      <4>3. h[T] = F[g[T \ {k}]][buf[k]]
        BY <3>1
      <4> HIDE DEF h
      <4> QED BY <3>1, <4>1, <4>2, <4>3
    <3>2. CASE k \notin T
      <4>1. h[T] = g[T]
        BY <2>6, <3>2
      <4>2. h[T \ {Max(T)}] = g[T \ {Max(T)}]
        BY <2>6, <3>2
      <4>3. g[T] = IF T = {} THEN s ELSE F[g[T \ {Max(T)}]][buf[Max(T)]]
        BY <2>1, <2>3, <3>2
      <4> HIDE DEF h
      <4> QED BY <4>1, <4>2, <4>3
    <3> QED BY <3>1, <3>2
  <2>8. Is(h, k)
    <3> HIDE DEF h
    <3> QED BY <2>7
  <2>9. k \in 0..n
    BY <1>0
  <2> HIDE DEF h, Is
  <2> QED BY <2>5, <2>8, <2>9
<1>3. n \in I
  <2> HIDE DEF I, n
  <2>1. \A k \in 1..n : k - 1 \in I => k \in I
    BY <1>2
  <2>2. \A k \in 0..n : k \in I
    BY <1>0, <1>1, <2>1, Climb
  <2> QED BY <1>0, <2>2
<1>4. PICK g \in [SUBSET (1..n) -> A] : Is(g, n)
  BY <1>3
<1>5. IsTable(g, A, F, s, buf, n)
  BY <1>4 DEF IsTable
<1> QED BY <1>5 DEF HasTable

\* The state of tcp_chr_process_IAC_bytes.
IacStates == [opt : 0..3, out : Seq(Bytes), breaks : Nat]

\* A byte leads from one state of the scanner to another, and to one byte or break at most.
LEMMA IacByteEffect ==
  ASSUME NEW a \in IacStates, NEW b \in Bytes
  PROVE  /\ IacByte(a, b) \in IacStates
         /\ \/ IacByte(a, b).out = a.out /\ IacByte(a, b).breaks \in {a.breaks, a.breaks + 1}
            \/ IacByte(a, b).out = Append(a.out, b) /\ IacByte(a, b).breaks = a.breaks
<1>1. CASE a.opt > 1 /\ b[1] = "IAC" /\ a.opt = 2
  <2>1. IacByte(a, b) = [a EXCEPT !.out = Append(@, b), !.opt = 1]
    BY <1>1 DEF IacByte
  <2>2. Append(a.out, b) \in Seq(Bytes) /\ 1 \in 0..3
    BY DEF IacStates
  <2>3. IacByte(a, b) = [opt |-> 1, out |-> Append(a.out, b), breaks |-> a.breaks]
    BY <2>1 DEF IacStates
  <2> QED BY <2>2, <2>3 DEF IacStates
<1>2. CASE a.opt > 1 /\ ~(b[1] = "IAC" /\ a.opt = 2)
  <2> DEFINE brk  == b[1] = "IAC_BREAK" /\ a.opt = 2
  <2> DEFINE next == a.opt + (IF brk THEN 2 ELSE 1)
  <2>1. IacByte(a, b) = [a EXCEPT !.opt = IF next >= 4 THEN 1 ELSE next,
                                  !.breaks = @ + (IF brk THEN 1 ELSE 0)]
    BY <1>2 DEF IacByte
  <2>2. (IF next >= 4 THEN 1 ELSE next) \in 0..3
    BY <1>2 DEF IacStates
  <2>3. a.breaks + (IF brk THEN 1 ELSE 0) \in {a.breaks, a.breaks + 1} /\ a.breaks \in Nat
    BY DEF IacStates
  <2>4. IacByte(a, b) = [opt |-> IF next >= 4 THEN 1 ELSE next, out |-> a.out,
                         breaks |-> a.breaks + (IF brk THEN 1 ELSE 0)]
    <3> HIDE DEF next, brk
    <3> QED BY <2>1 DEF IacStates
  <2> HIDE DEF next, brk
  <2> QED BY <2>2, <2>3, <2>4 DEF IacStates
<1>3. CASE ~(a.opt > 1) /\ b[1] = "IAC"
  <2>1. IacByte(a, b) = [a EXCEPT !.opt = 2]
    BY <1>3 DEF IacByte
  <2> QED BY <2>1, AppendProperties DEF IacStates
<1>4. CASE ~(a.opt > 1) /\ b[1] # "IAC"
  <2>1. IacByte(a, b) = [a EXCEPT !.out = Append(@, b)]
    BY <1>4 DEF IacByte
  <2>2. Append(a.out, b) \in Seq(Bytes)
    BY AppendProperties DEF IacStates
  <2>3. IacByte(a, b) = [opt |-> a.opt, out |-> Append(a.out, b), breaks |-> a.breaks]
    BY <2>1 DEF IacStates
  <2> QED BY <2>2, <2>3 DEF IacStates
<1> QED BY <1>1, <1>2, <1>3, <1>4

\* The fold of tcp_chr_process_IAC_bytes, state by state.
LEMMA IacRun ==
  ASSUME NEW s \in IacStates, NEW buf \in Seq(Bytes)
  PROVE  \E run \in [0..Len(buf) -> IacStates] :
           /\ run[0] = s
           /\ \A k \in 1..Len(buf) : run[k] = IacByte(run[k - 1], buf[k])
           /\ FoldLeft(IacByte, s, buf) = run[Len(buf)]
<1> DEFINE n == Len(buf)
<1> DEFINE P(h) == h = [T \in SUBSET (1..n) |->
                     IF T = {} THEN s ELSE IacByte(h[T \ {Max(T)}], buf[Max(T)])]
<1> DEFINE h == CHOOSE g : P(g)
<1>1. n \in Nat
  OBVIOUS
<1>2. PICK F \in [IacStates -> [Bytes -> IacStates]] :
          \A a \in IacStates, b \in Bytes : F[a][b] = IacByte(a, b)
  <2> DEFINE F == [a \in IacStates |-> [b \in Bytes |-> IacByte(a, b)]]
  <2>1. F \in [IacStates -> [Bytes -> IacStates]]
    BY IacByteEffect
  <2>2. \A a \in IacStates, b \in Bytes : F[a][b] = IacByte(a, b)
    OBVIOUS
  <2> HIDE DEF F
  <2> QED BY <2>1, <2>2
<1>3. P(h)
  <2>0. HasTable(IacStates, F, s, buf)
    BY FoldTable
  <2>1. PICK g : IsTable(g, IacStates, F, s, buf, n)
    BY <2>0 DEF HasTable
  <2>2. ASSUME NEW T \in SUBSET (1..n), T # {}
        PROVE  F[g[T \ {Max(T)}]][buf[Max(T)]] = IacByte(g[T \ {Max(T)}], buf[Max(T)])
    <3>1. Max(T) \in 1..n
      BY <1>1, <2>2, MaxInside
    <3>2. buf[Max(T)] \in Bytes /\ g[T \ {Max(T)}] \in IacStates
      BY <2>1, <3>1, ElementOfSeq DEF IsTable
    <3> QED BY <1>2, <3>2
  <2>3. P(g)
    BY <2>1, <2>2 DEF IsTable
  <2> HIDE DEF P
  <2> QED BY <2>3
<1>4. FoldLeft(IacByte, s, buf) = h[1..n]
  <2>1. DOMAIN buf = 1..n
    OBVIOUS
  <2> QED BY <2>1 DEF FoldLeft, MapThenFoldSet
<1>5. \A k \in 1..n : h[1..k] = IacByte(h[1..(k - 1)], buf[k])
  <2> SUFFICES ASSUME NEW k \in 1..n PROVE h[1..k] = IacByte(h[1..(k - 1)], buf[k])
    OBVIOUS
  <2>1. Max(1..k) = k
    BY <1>1, MaxOfPrefix, Zenon
  <2>2. 1..k # {} /\ (1..k) \ {k} = 1..(k - 1) /\ 1..k \in SUBSET (1..n)
    BY <1>1, PrefixOf
  <2>3. h[1..k] = IacByte(h[(1..k) \ {Max(1..k)}], buf[Max(1..k)])
    <3> HIDE DEF h
    <3> QED BY <1>3, <2>2
  <2> HIDE DEF h
  <2> QED BY <2>1, <2>2, <2>3
<1>6. h[1..0] = s
  <2>1. 1..0 = {} /\ {} \in SUBSET (1..n)
    OBVIOUS
  <2> HIDE DEF h
  <2> QED BY <1>3, <2>1
<1> DEFINE run == [k \in 0..n |-> h[1..k]]
<1> DEFINE I == {k \in 0..n : h[1..k] \in IacStates}
<1>7. n \in 0..n /\ 0 \in 0..n /\ \A k \in 1..n : k \in 0..n /\ k - 1 \in 0..n
  BY <1>1
<1>8. 0 \in I
  BY <1>6, <1>7
<1>9. \A k \in 1..n : k - 1 \in I => k \in I
  <2> SUFFICES ASSUME NEW k \in 1..n, h[1..(k - 1)] \in IacStates PROVE h[1..k] \in IacStates
    BY <1>7
  <2>1. buf[k] \in Bytes
    BY ElementOfSeq
  <2> HIDE DEF h
  <2> QED BY <1>5, <2>1, IacByteEffect
<1>10. \A k \in 0..n : k \in I
  <2> HIDE DEF I, n
  <2> QED BY <1>1, <1>8, <1>9, Climb
<1>11. run \in [0..n -> IacStates]
  BY <1>10
<1> HIDE DEF h
<1>12. run[0] = s /\ run[n] = h[1..n]
  BY <1>6, <1>7
<1>13. \A k \in 1..n : run[k] = IacByte(run[k - 1], buf[k])
  <2> SUFFICES ASSUME NEW k \in 1..n PROVE run[k] = IacByte(run[k - 1], buf[k])
    OBVIOUS
  <2>1. run[k] = h[1..k] /\ run[k - 1] = h[1..(k - 1)]
    BY <1>7
  <2> HIDE DEF run
  <2> QED BY <1>5, <2>1
<1> HIDE DEF run
<1> QED BY <1>4, <1>11, <1>12, <1>13

\* The front ends and the multiplexer, as the calls of a handler see them.
MuxStates == [focus : FrontEnds, escaped : BOOLEAN, ring : [FrontEnds -> Seq(Bytes)]]
\* The UART: no more in its FIFO than it has room for.
UartStates == {u \in [fe : BOOLEAN, fifo : Seq(Bytes)] : Len(u.fifo) <= Depth(u)}
\* The history.
Histories ==
    [raw : Seq(Bytes), passed : Seq(Bytes \X BOOLEAN), first : Nat, clean : BOOLEAN,
     got : [FrontEnds -> Seq(Bytes)], stale : [FrontEnds -> BOOLEAN], shrunk : BOOLEAN,
     lost : {"no", "guest", "self"}, guest : Nat]
\* Both, and the history.
FrontStates == [mux : MuxStates, uart : UartStates, hist : Histories]

\* What hist.lost becomes when a byte finds no place.
LostNow(h) == IF h.shrunk /\ h.lost # "self" THEN "guest" ELSE "self"

\* A break is one of the bytes.
LEMMA BreakIsByte == BREAK \in Bytes
  BY DEF Bytes

\* The types of all the parts.
LEMMA FrontTypes ==
  ASSUME NEW s \in FrontStates
  PROVE  /\ s.mux \in MuxStates /\ s.uart \in UartStates /\ s.hist \in Histories
         /\ s.mux.focus \in FrontEnds /\ s.mux.escaped \in BOOLEAN
         /\ s.mux.ring \in [FrontEnds -> Seq(Bytes)]
         /\ s.uart.fe \in BOOLEAN /\ s.uart.fifo \in Seq(Bytes)
         /\ Len(s.uart.fifo) \in Nat /\ Len(s.uart.fifo) <= Depth(s.uart)
         /\ s.hist.got \in [FrontEnds -> Seq(Bytes)] /\ s.hist.stale \in [FrontEnds -> BOOLEAN]
         /\ s.hist.passed \in Seq(Bytes \X BOOLEAN) /\ s.hist.raw \in Seq(Bytes)
         /\ s.hist.lost \in {"no", "guest", "self"} /\ s.hist.shrunk \in BOOLEAN
         /\ s.hist.first \in Nat /\ s.hist.guest \in Nat /\ s.hist.clean \in BOOLEAN
         /\ s.mux = [focus |-> s.mux.focus, escaped |-> s.mux.escaped, ring |-> s.mux.ring]
         /\ s.uart = [fe |-> s.uart.fe, fifo |-> s.uart.fifo]
         /\ s = [mux |-> s.mux, uart |-> s.uart, hist |-> s.hist]
  BY DEF FrontStates, MuxStates, UartStates, Histories

\* From history h to n, the handlers change no more than what they deliver, mark and lose.
HistStep(h, n, got, stale, lost) ==
    /\ n \in Histories
    /\ n.got = got /\ n.stale = stale /\ n.lost = lost
    /\ n.raw = h.raw /\ n.passed = h.passed /\ n.first = h.first /\ n.clean = h.clean
    /\ n.shrunk = h.shrunk /\ n.guest = h.guest

\* A step that leaves the history alone.
LEMMA HistUnchanged ==
  ASSUME NEW h \in Histories
  PROVE  HistStep(h, h, h.got, h.stale, h.lost)
  BY DEF HistStep

\* A byte got by a front end,
LEMMA HistGot ==
  ASSUME NEW h \in Histories, NEW f \in FrontEnds, NEW b \in Bytes
  PROVE  HistStep(h, [h EXCEPT !.got[f] = Append(@, b)], [h.got EXCEPT ![f] = Append(@, b)],
                  h.stale, h.lost)
<1>1. h.got \in [FrontEnds -> Seq(Bytes)]
  BY DEF Histories
<1>2. [h.got EXCEPT ![f] = Append(@, b)] \in [FrontEnds -> Seq(Bytes)]
  <2>1. Append(h.got[f], b) \in Seq(Bytes)
    BY <1>1
  <2> QED BY <1>1, <2>1
<1> QED BY <1>2 DEF HistStep, Histories

\* a byte that finds no place,
LEMMA HistLose ==
  ASSUME NEW h \in Histories
  PROVE  HistStep(h, Lose(h), h.got, h.stale, LostNow(h))
  BY DEF HistStep, Histories, Lose, LostNow

\* and a front end's mark.
LEMMA HistStale ==
  ASSUME NEW h \in Histories, NEW f \in FrontEnds, NEW v \in BOOLEAN
  PROVE  HistStep(h, [h EXCEPT !.stale[f] = v], h.got, [h.stale EXCEPT ![f] = v], h.lost)
<1>1. h.stale \in [FrontEnds -> BOOLEAN]
  BY DEF Histories
<1>2. [h.stale EXCEPT ![f] = v] \in [FrontEnds -> BOOLEAN]
  BY <1>1
<1> QED BY <1>2 DEF HistStep, Histories

\* The UART never says it takes more than its FIFO has room for.
LEMMA UartFacts ==
  ASSUME NEW u \in UartStates
  PROVE  /\ u.fe \in BOOLEAN /\ u.fifo \in Seq(Bytes) /\ Len(u.fifo) \in Nat
         /\ Len(u.fifo) <= Depth(u) /\ Depth(u) \in Nat
         /\ UartCanReceive(u) \in 0..FIFOLEN
         /\ UartCanReceive(u) # 0 => Len(u.fifo) < Depth(u)
         /\ UartCanReceive(u) <= Depth(u) - Len(u.fifo)
<1>1. u.fe \in BOOLEAN /\ u.fifo \in Seq(Bytes) /\ Len(u.fifo) \in Nat /\ Len(u.fifo) <= Depth(u)
  BY DEF UartStates
<1>2. FIFOLEN \in Nat /\ Level \in Nat /\ Level <= FIFOLEN /\ FIFOLEN >= 1
  BY CharAssumption
<1> DEFINE n == Len(u.fifo)
<1>3. CASE u.fe
  <2>1. Depth(u) = FIFOLEN
    BY <1>3 DEF Depth
  <2>2. UartCanReceive(u) = IF n <= Level THEN Level - n ELSE IF n < FIFOLEN THEN 1 ELSE 0
    BY <1>3 DEF UartCanReceive
  <2>3. n \in Nat /\ n <= FIFOLEN
    BY <1>1, <2>1
  <2> HIDE DEF n
  <2>4. UartCanReceive(u) \in 0..FIFOLEN /\ (UartCanReceive(u) # 0 => n < Depth(u))
        /\ UartCanReceive(u) <= Depth(u) - n
    BY <1>2, <2>1, <2>2, <2>3
  <2>5. Depth(u) \in Nat
    BY <1>2, <2>1
  <2> QED BY <1>1, <2>4, <2>5 DEF n
<1>4. CASE ~u.fe
  <2>1. Depth(u) = 1
    BY <1>4 DEF Depth
  <2>2. UartCanReceive(u) = 1 - n
    BY <1>4 DEF UartCanReceive
  <2>3. n \in Nat /\ n <= 1
    BY <1>1, <2>1
  <2> HIDE DEF n
  <2>4. UartCanReceive(u) \in 0..FIFOLEN /\ (UartCanReceive(u) # 0 => n < Depth(u))
        /\ UartCanReceive(u) <= Depth(u) - n
    BY <1>2, <2>1, <2>2, <2>3
  <2>5. Depth(u) \in Nat
    BY <2>1
  <2> QED BY <1>1, <2>4, <2>5 DEF n
<1> QED BY <1>3, <1>4

\* A byte or a break that is put into the UART.
LEMMA UartPutEffect ==
  ASSUME NEW u \in UartStates, NEW b \in Bytes
  PROVE  /\ UartPut(u, b) \in UartStates /\ UartPut(u, b).fe = u.fe
         /\ Len(u.fifo) < Depth(u) =>
              /\ UartPut(u, b).fifo = Append(u.fifo, b)
              /\ Len(UartPut(u, b).fifo) = Len(u.fifo) + 1
         /\ Len(u.fifo) >= Depth(u) => Len(UartPut(u, b).fifo) = Len(u.fifo)
<1>1. u.fe \in BOOLEAN /\ u.fifo \in Seq(Bytes) /\ Len(u.fifo) <= Depth(u) /\ Len(u.fifo) \in Nat
      /\ u = [fe |-> u.fe, fifo |-> u.fifo]
  BY DEF UartStates
<1>2. FIFOLEN \in Nat /\ FIFOLEN >= 1
  BY CharAssumption
<1>3. CASE Len(u.fifo) < Depth(u)
  <2>1. UartPut(u, b) = [fe |-> u.fe, fifo |-> Append(u.fifo, b)]
    BY <1>1, <1>3 DEF UartPut
  <2>2. Append(u.fifo, b) \in Seq(Bytes) /\ Len(Append(u.fifo, b)) = Len(u.fifo) + 1
    BY <1>1
  <2>3. Depth([fe |-> u.fe, fifo |-> Append(u.fifo, b)]) = Depth(u) /\ Depth(u) \in Nat
    BY <1>1, <1>2 DEF Depth
  <2> QED BY <1>1, <1>3, <2>1, <2>2, <2>3 DEF UartStates
<1>4. CASE ~(Len(u.fifo) < Depth(u))
  <2>1. CASE u.fe
    BY <1>1, <1>4, <2>1 DEF UartPut, UartStates
  <2>2. CASE ~u.fe
    <3>1. UartPut(u, b) = [fe |-> u.fe, fifo |-> <<b>>]
      BY <1>1, <1>4, <2>2 DEF UartPut
    <3>2. Depth(u) = 1 /\ Depth([fe |-> u.fe, fifo |-> <<b>>]) = 1
      BY <2>2 DEF Depth
    <3>3. <<b>> \in Seq(Bytes) /\ Len(<<b>>) = 1
      OBVIOUS
    <3> QED BY <1>1, <1>4, <3>1, <3>2, <3>3 DEF UartStates
  <2> QED BY <2>1, <2>2
<1> QED BY <1>3, <1>4

\* What qemu_chr_be_write of a front end does.
LEMMA ReadEffect ==
  ASSUME NEW s \in FrontStates, NEW f \in FrontEnds, NEW b \in Bytes
  PROVE  LET t == FrontEndRead(s, f, b)
         IN  /\ t \in FrontStates /\ t.mux = s.mux
             /\ t.uart = IF f = UART THEN UartPut(s.uart, b) ELSE s.uart
             /\ HistStep(s.hist, t.hist, [s.hist.got EXCEPT ![f] = Append(@, b)], s.hist.stale,
                         IF f = UART /\ Len(s.uart.fifo) >= Depth(s.uart)
                         THEN LostNow(s.hist) ELSE s.hist.lost)
<1> DEFINE got == [s.hist.got EXCEPT ![f] = Append(@, b)]
<1> DEFINE t == [s EXCEPT !.hist.got[f] = Append(@, b)]
<1>1. s.mux \in MuxStates /\ s.uart \in UartStates /\ s.hist \in Histories
  BY FrontTypes
<1>2. t.mux = s.mux /\ t.uart = s.uart /\ t.hist = [s.hist EXCEPT !.got[f] = Append(@, b)]
      /\ t \in [mux : MuxStates, uart : UartStates, hist : {t.hist}]
  BY DEF FrontStates
<1>3. HistStep(s.hist, t.hist, got, s.hist.stale, s.hist.lost)
  BY <1>1, <1>2, HistGot
<1>4. t \in FrontStates
  BY <1>2, <1>3 DEF FrontStates, HistStep
<1> HIDE DEF got, t
<1>5. CASE f # UART
  <2>1. FrontEndRead(s, f, b) = t
    BY <1>5 DEF FrontEndRead, t
  <2> QED BY <1>2, <1>3, <1>4, <1>5, <2>1 DEF got
<1>6. CASE f = UART
  <2>1. FrontEndRead(s, f, b) = ToUart(t, b)
    BY <1>6 DEF FrontEndRead, t
  <2> DEFINE k == IF Len(s.uart.fifo) < Depth(s.uart) THEN t.hist ELSE Lose(t.hist)
  <2>2. ToUart(t, b) = [t EXCEPT !.uart = UartPut(s.uart, b), !.hist = k]
    BY <1>2 DEF ToUart
  <2>3. /\ LostNow(t.hist) = LostNow(s.hist) /\ Len(s.uart.fifo) \in Nat /\ Depth(s.uart) \in Nat
        /\ t.hist \in Histories
    BY <1>1, <1>3, UartFacts DEF LostNow, HistStep
  <2>4. HistStep(t.hist, Lose(t.hist), t.hist.got, t.hist.stale, LostNow(t.hist))
    BY <2>3, HistLose
  <2>5. HistStep(s.hist, k, got, s.hist.stale,
                 IF Len(s.uart.fifo) >= Depth(s.uart) THEN LostNow(s.hist) ELSE s.hist.lost)
    <3>1. CASE Len(s.uart.fifo) < Depth(s.uart)
      BY <1>3, <2>3, <3>1
    <3>2. CASE ~(Len(s.uart.fifo) < Depth(s.uart))
      BY <1>3, <2>3, <2>4, <3>2 DEF HistStep
    <3> QED BY <3>1, <3>2
  <2>6. UartPut(s.uart, b) \in UartStates /\ k \in Histories
    BY <1>1, <2>5, UartPutEffect DEF HistStep
  <2> HIDE DEF k
  <2>7. /\ ToUart(t, b) \in FrontStates /\ ToUart(t, b).mux = s.mux
        /\ ToUart(t, b).uart = UartPut(s.uart, b) /\ ToUart(t, b).hist = k
    BY <1>2, <1>4, <2>2, <2>6 DEF FrontStates
  <2> QED BY <1>6, <2>1, <2>5, <2>7 DEF got
<1> QED BY <1>5, <1>6

-----------------------------------------------------------------------------
(* What a byte may do to the front ends, from s to t.                      *)

\* Front end f takes the byte b.
Taken(s, t, f, b) ==
    /\ FrontEndCanRead(s, f) # 0
    /\ t.uart.fe = s.uart.fe
    /\ t.uart.fifo = IF f = UART THEN Append(s.uart.fifo, b) ELSE s.uart.fifo
    /\ HistStep(s.hist, t.hist, [s.hist.got EXCEPT ![f] = Append(@, b)], s.hist.stale, s.hist.lost)

\* From its ring, when it is offered the oldest byte there.
Drained(s, t, b) ==
    LET m == s.mux.focus
    IN  /\ s.mux.ring[m] # <<>> /\ Taken(s, t, m, b)
        /\ t.mux.focus = m /\ t.mux.escaped = s.mux.escaped
        /\ t.mux.ring = [s.mux.ring EXCEPT ![m] = Tail(@)]
\* The loop is over: no byte waits, or the front end takes none.
Stops(s) == s.mux.ring[s.mux.focus] = <<>> \/ FrontEndCanRead(s, s.mux.focus) = 0

\* Straight from the back end.
Direct(s, t, m, b) ==
    /\ ForFrontEnd(s, b[1]) /\ s.mux.ring[m] = <<>> /\ Taken(s, t, m, b)
    /\ t.mux.focus = s.mux.focus /\ ~t.mux.escaped /\ t.mux.ring = s.mux.ring

\* Or it waits in the ring.
Buffered(s, t, m, b) ==
    /\ ForFrontEnd(s, b[1]) /\ ~(s.mux.ring[m] = <<>> /\ FrontEndCanRead(s, m) # 0)
    /\ t.mux.focus = s.mux.focus /\ ~t.mux.escaped
    /\ t.mux.ring = [s.mux.ring EXCEPT ![m] = RingPut(@, b)]
    /\ t.uart = s.uart
    /\ HistStep(s.hist, t.hist, s.hist.got, s.hist.stale,
                IF Len(s.mux.ring[m]) < MUX_BUFFER_SIZE THEN s.hist.lost ELSE LostNow(s.hist))

\* The UART hears a break.
Broken(s, t) ==
    /\ t.uart = UartPut(s.uart, BREAK)
    /\ HistStep(s.hist, t.hist, s.hist.got, [s.hist.stale EXCEPT ![UART] = TRUE], s.hist.lost)

\* The byte is no data: an escape, or the command behind it.
Command(s, t, b) == ~ForFrontEnd(s, b[1]) /\ t.mux.ring = s.mux.ring
\* The escape itself,
Escaping(s, t, b) ==
    /\ Command(s, t, b) /\ ~s.mux.escaped
    /\ t.mux.focus = s.mux.focus /\ t.mux.escaped /\ t.uart = s.uart /\ t.hist = s.hist
\* a command that is none,
Ignored(s, t, b) ==
    /\ Command(s, t, b) /\ s.mux.escaped /\ b[1] \notin {"b", "c"}
    /\ t.mux.focus = s.mux.focus /\ ~t.mux.escaped /\ t.uart = s.uart /\ t.hist = s.hist
\* Ctrl-A b,
Breaking(s, t, b) ==
    /\ Command(s, t, b) /\ s.mux.escaped /\ b[1] = "b"
    /\ t.mux.focus = s.mux.focus /\ ~t.mux.escaped /\ Broken(s, t)
\* Ctrl-A c.
Switched(s, t, b) ==
    /\ Command(s, t, b) /\ s.mux.escaped /\ b[1] = "c"
    /\ t.mux.focus = 1 - s.mux.focus /\ ~t.mux.escaped /\ t.uart = s.uart
    /\ HistStep(s.hist, t.hist, s.hist.got, [s.hist.stale EXCEPT ![s.mux.focus] = TRUE],
                s.hist.lost)

\* All a byte may do.
MuxStep(s, t, m, b) ==
    \/ Direct(s, t, m, b) \/ Buffered(s, t, m, b)
    \/ Escaping(s, t, b) \/ Ignored(s, t, b) \/ Breaking(s, t, b) \/ Switched(s, t, b)

-----------------------------------------------------------------------------
\* A front end that takes input loses nothing.
LEMMA TakenByFrontEnd ==
  ASSUME NEW s \in FrontStates, NEW f \in FrontEnds, NEW b \in Bytes, FrontEndCanRead(s, f) # 0
  PROVE  LET t == FrontEndRead(s, f, b)
         IN  t \in FrontStates /\ t.mux = s.mux /\ Taken(s, t, f, b)
<1> DEFINE t == FrontEndRead(s, f, b)
<1>1. /\ t \in FrontStates /\ t.mux = s.mux
      /\ t.uart = IF f = UART THEN UartPut(s.uart, b) ELSE s.uart
      /\ HistStep(s.hist, t.hist, [s.hist.got EXCEPT ![f] = Append(@, b)], s.hist.stale,
                  IF f = UART /\ Len(s.uart.fifo) >= Depth(s.uart)
                  THEN LostNow(s.hist) ELSE s.hist.lost)
  BY ReadEffect
<1>2. s.uart \in UartStates
  BY FrontTypes
<1> HIDE DEF t
<1>3. CASE f = UART
  <2>1. Len(s.uart.fifo) < Depth(s.uart) /\ Len(s.uart.fifo) \in Nat /\ Depth(s.uart) \in Nat
    BY <1>2, <1>3, UartFacts DEF FrontEndCanRead
  <2>2. ~(Len(s.uart.fifo) >= Depth(s.uart))
    BY <2>1
  <2>3. t.uart.fe = s.uart.fe /\ t.uart.fifo = Append(s.uart.fifo, b)
    BY <1>1, <1>2, <1>3, <2>1, UartPutEffect
  <2> QED BY <1>1, <1>3, <2>2, <2>3 DEF Taken, t
<1>4. CASE f # UART
  BY <1>1, <1>4 DEF Taken, t
<1> QED BY <1>3, <1>4

\* The rest of a sequence of bytes.
LEMMA TailType ==
  ASSUME NEW q \in Seq(Bytes), q # <<>>
  PROVE  Tail(q) \in Seq(Bytes) /\ Len(Tail(q)) = Len(q) - 1 /\ Len(q) \in Nat /\ Len(q) >= 1
  BY HeadTailProperties

\* Setting a ring of the multiplexer keeps the types.
SetRing(s, m, q) == [s EXCEPT !.mux.ring[m] = q]

\* Nothing else changes with it.
LEMMA RingExcept ==
  ASSUME NEW s \in FrontStates, NEW m \in FrontEnds, NEW q \in Seq(Bytes)
  PROVE  LET t == SetRing(s, m, q)
         IN  /\ t \in FrontStates /\ t.uart = s.uart /\ t.hist = s.hist
             /\ t.mux.focus = s.mux.focus /\ t.mux.escaped = s.mux.escaped
             /\ t.mux.ring = [s.mux.ring EXCEPT ![m] = q]
<1>1. [s.mux.ring EXCEPT ![m] = q] \in [FrontEnds -> Seq(Bytes)]
  BY FrontTypes
<1> QED BY <1>1 DEF FrontStates, MuxStates, SetRing

\* A round of the loop of mux_chr_accept_input: nothing, or the oldest byte is taken.
LEMMA DeliverEffect ==
  ASSUME NEW s \in FrontStates, NEW b \in Bytes
  PROVE  LET t == Deliver(s, b)
         IN  /\ t \in FrontStates
             /\ Stops(s) => t = s
             /\ ~Stops(s) => Drained(s, t, b)
<1> DEFINE m == s.mux.focus
<1> DEFINE t == FrontEndRead(s, m, b)
<1>0. m \in FrontEnds /\ s.mux.ring \in [FrontEnds -> Seq(Bytes)]
  BY FrontTypes
<1>1. CASE Stops(s)
  BY <1>1 DEF Stops, Deliver
<1>2. CASE ~Stops(s)
  <2>1. s.mux.ring[m] # <<>> /\ FrontEndCanRead(s, m) # 0
    BY <1>2 DEF Stops
  <2>2. t \in FrontStates /\ t.mux = s.mux /\ Taken(s, t, m, b)
    BY <1>0, <2>1, TakenByFrontEnd
  <2> DEFINE q == Tail(s.mux.ring[m])
  <2>3. q \in Seq(Bytes)
    BY <1>0, <2>1, TailType
  <2> DEFINE u == SetRing(t, m, q)
  <2>4. Deliver(s, b) = [t EXCEPT !.mux.ring[m] = Tail(@)]
    BY <2>1 DEF Deliver
  <2>5. [t EXCEPT !.mux.ring[m] = Tail(@)] = u
    BY <2>2 DEF SetRing
  <2> HIDE DEF t
  <2>6. /\ u \in FrontStates /\ u.uart = t.uart /\ u.hist = t.hist
        /\ u.mux.focus = t.mux.focus /\ u.mux.escaped = t.mux.escaped
        /\ u.mux.ring = [t.mux.ring EXCEPT ![m] = q]
    <3> HIDE DEF q, m
    <3>1. t \in FrontStates /\ m \in FrontEnds /\ q \in Seq(Bytes)
      BY <1>0, <2>2, <2>3
    <3> QED BY ONLY <3>1, RingExcept
  <2> HIDE DEF u
  <2>7. Drained(s, u, b)
    BY <2>1, <2>2, <2>6 DEF Drained, Taken
  <2> QED BY <1>2, <2>4, <2>5, <2>6, <2>7
<1> QED BY <1>1, <1>2

\* A number below the divisor is its own remainder.
LEMMA SmallMod ==
  ASSUME NEW y \in Nat, NEW x \in 0..(y - 1)
  PROVE  x % y = x
  OBVIOUS

\* A byte put into a ring: appended, where there is room.
LEMMA RingPutFacts ==
  ASSUME NEW q \in Seq(Bytes), NEW b \in Bytes
  PROVE  /\ RingPut(q, b) \in Seq(Bytes) /\ Len(RingPut(q, b)) = Len(q) + 1
         /\ Len(q) \in Nat /\ RingPut(q, b) # <<>>
         /\ Len(q) < MUX_BUFFER_SIZE => RingPut(q, b) = Append(q, b)
<1> DEFINE n == Len(q)
<1> DEFINE M == MUX_BUFFER_SIZE
<1>1. n \in Nat /\ M \in Nat /\ M >= 1 /\ \A i \in 1..n : q[i] \in Bytes
  BY CharAssumption
<1>2. RingPut(q, b) = [i \in 1..n + 1 |-> IF (n + 1 - i) % M = 0 THEN b ELSE q[i]]
  BY DEF RingPut
<1>3. 0 % M = 0
  <2>1. 0 \in 0..(M - 1)
    BY <1>1
  <2> QED BY <1>1, <2>1, SmallMod
<1>4. ASSUME NEW i \in 1..n + 1
      PROVE  (IF (n + 1 - i) % M = 0 THEN b ELSE q[i]) \in Bytes
  <2>1. CASE i = n + 1
    <3>1. n + 1 - i = 0
      BY <1>1, <2>1
    <3> QED BY <1>3, <3>1
  <2>2. CASE i # n + 1
    <3>1. i \in 1..n
      BY <1>1, <2>2
    <3> QED BY <1>1, <3>1
  <2> QED BY <2>1, <2>2
<1>5. RingPut(q, b) \in Seq(Bytes) /\ Len(RingPut(q, b)) = n + 1
  <2> HIDE DEF M, n
  <2>1. RingPut(q, b) \in [1..n + 1 -> Bytes]
    BY <1>2, <1>4
  <2>2. n + 1 \in Nat
    BY <1>1
  <2>3. RingPut(q, b) \in Seq(Bytes)
    BY <2>1, <2>2, SeqDef
  <2>4. 1..Len(RingPut(q, b)) = 1..(n + 1) /\ Len(RingPut(q, b)) \in Nat
    BY <2>1, <2>3, LenProperties
  <2> QED BY <2>2, <2>3, <2>4
<1>6. ASSUME n < M PROVE RingPut(q, b) = Append(q, b)
  <2>1. ASSUME NEW i \in 1..n + 1
        PROVE  (IF (n + 1 - i) % M = 0 THEN b ELSE q[i]) = Append(q, b)[i]
    <3>1. CASE i = n + 1
      <4>1. n + 1 - i = 0
        BY <1>1, <3>1
      <4>2. Append(q, b)[i] = b
        BY <3>1, AppendProperties
      <4> QED BY <1>3, <4>1, <4>2
    <3>2. CASE i # n + 1
      <4>1. i \in 1..n
        BY <1>1, <3>2
      <4>2. n + 1 - i \in 0..(M - 1) /\ n + 1 - i # 0
        BY <1>1, <1>6, <4>1
      <4>3. (n + 1 - i) % M = n + 1 - i
        <5> HIDE DEF n, M
        <5> QED BY <1>1, <4>2, SmallMod
      <4>4. Append(q, b)[i] = q[i]
        BY <4>1, AppendProperties
      <4> QED BY <4>2, <4>3, <4>4
    <3> QED BY <3>1, <3>2
  <2>2. Append(q, b) \in Seq(Bytes) /\ Len(Append(q, b)) = n + 1
    BY AppendProperties
  <2>3. \A i \in 1..n + 1 : RingPut(q, b)[i] = Append(q, b)[i]
    BY <1>2, <2>1
  <2> HIDE DEF n
  <2> QED BY <1>5, <2>2, <2>3, SeqEqual
<1>7. RingPut(q, b) # <<>>
  BY <1>1, <1>5
<1> QED BY <1>1, <1>5, <1>6, <1>7

\* qemu_chr_be_event(CHR_EVENT_BREAK).
LEMMA BreakEffect ==
  ASSUME NEW s \in FrontStates
  PROVE  BeBreak(s) \in FrontStates /\ BeBreak(s).mux = s.mux /\ Broken(s, BeBreak(s))
<1>1. s.mux \in MuxStates /\ s.uart \in UartStates /\ s.hist \in Histories /\ UART \in FrontEnds
  BY FrontTypes DEF FrontEnds
<1>2. UartPut(s.uart, BREAK) \in UartStates
  BY <1>1, BreakIsByte, UartPutEffect
<1> DEFINE h == [s.hist EXCEPT !.stale[UART] = TRUE]
<1>3. HistStep(s.hist, h, s.hist.got, [s.hist.stale EXCEPT ![UART] = TRUE], s.hist.lost)
  BY <1>1, HistStale
<1>4. h \in Histories
  BY <1>3 DEF HistStep
<1> DEFINE t == BeBreak(s)
<1>5. t = [s EXCEPT !.uart = UartPut(s.uart, BREAK), !.hist = h]
  BY DEF BeBreak
<1> HIDE DEF h, t
<1>6. t \in FrontStates /\ t.mux = s.mux /\ t.uart = UartPut(s.uart, BREAK) /\ t.hist = h
  BY <1>2, <1>4, <1>5 DEF FrontStates
<1> QED BY <1>3, <1>6 DEF Broken, t, h

\* The escape state set, the focus changed.
SetEscaped(s, v) == [s EXCEPT !.mux.escaped = v]

\* Nothing else changes with it.
LEMMA EscapedSet ==
  ASSUME NEW s \in FrontStates, NEW v \in BOOLEAN
  PROVE  LET t == SetEscaped(s, v)
         IN  /\ t \in FrontStates /\ t.uart = s.uart /\ t.hist = s.hist
             /\ t.mux.focus = s.mux.focus /\ t.mux.ring = s.mux.ring /\ t.mux.escaped = v
  BY DEF SetEscaped, FrontStates, MuxStates

\* The focus goes to the other front end, and the old one is marked.
LEMMA FocusSwitched ==
  ASSUME NEW s \in FrontStates
  PROVE  LET t == SwitchFocus(s)
         IN  /\ t \in FrontStates /\ t.uart = s.uart
             /\ t.mux.focus = 1 - s.mux.focus /\ t.mux.ring = s.mux.ring
             /\ t.mux.escaped = s.mux.escaped
             /\ HistStep(s.hist, t.hist, s.hist.got,
                         [s.hist.stale EXCEPT ![s.mux.focus] = TRUE], s.hist.lost)
<1> DEFINE m == s.mux.focus
<1> DEFINE h == [s.hist EXCEPT !.stale[m] = TRUE]
<1> DEFINE t == SwitchFocus(s)
<1>1. s.mux \in MuxStates /\ s.hist \in Histories /\ m \in FrontEnds
  BY FrontTypes
<1>2. (m + 1) % 2 = 1 - m /\ 1 - m \in FrontEnds
  BY <1>1 DEF FrontEnds, MONITOR, UART
<1>3. HistStep(s.hist, h, s.hist.got, [s.hist.stale EXCEPT ![m] = TRUE], s.hist.lost)
  <2> HIDE DEF m
  <2> QED BY <1>1, HistStale
<1>4. t = [s EXCEPT !.mux.focus = 1 - m, !.hist = h]
  BY <1>2 DEF SwitchFocus
<1>5. h \in Histories
  BY <1>3 DEF HistStep
<1> HIDE DEF h, t
<1>6. t \in FrontStates /\ t.uart = s.uart /\ t.hist = h
      /\ t.mux.focus = 1 - m /\ t.mux.ring = s.mux.ring /\ t.mux.escaped = s.mux.escaped
  BY <1>1, <1>2, <1>4, <1>5 DEF FrontStates, MuxStates
<1> QED BY <1>3, <1>6 DEF t

\* A byte of mux_chr_read.
LEMMA MuxByteEffect ==
  ASSUME NEW s \in FrontStates, NEW m \in FrontEnds, NEW b \in Bytes
  PROVE  MuxByte(s, m, b) \in FrontStates /\ MuxStep(s, MuxByte(s, m, b), m, b)
<1> DEFINE u == SetEscaped(s, FALSE)
<1> DEFINE t == MuxByte(s, m, b)
<1>1. /\ u \in FrontStates /\ u.uart = s.uart /\ u.hist = s.hist
      /\ u.mux.focus = s.mux.focus /\ u.mux.ring = s.mux.ring /\ u.mux.escaped = FALSE
  BY EscapedSet
<1>2. s.mux.ring[m] \in Seq(Bytes) /\ s.hist \in Histories /\ s.mux.escaped \in BOOLEAN
      /\ s.uart \in UartStates
  BY FrontTypes
<1>3. FrontEndCanRead(u, m) = FrontEndCanRead(s, m)
      /\ (FrontEndCanRead(s, m) > 0 <=> FrontEndCanRead(s, m) # 0)
  <2>1. UartCanReceive(s.uart) \in Nat
    BY <1>2, UartFacts
  <2> HIDE DEF u
  <2> QED BY <1>1, <2>1 DEF FrontEndCanRead
<1>4. CASE ForFrontEnd(s, b[1]) /\ s.mux.ring[m] = <<>> /\ FrontEndCanRead(s, m) # 0
  <2>1. t = FrontEndRead(u, m, b)
    <3> HIDE DEF u
    <3>1. t = IF u.mux.ring[m] = <<>> /\ FrontEndCanRead(u, m) > 0
              THEN FrontEndRead(u, m, b) ELSE Buffer(u, m, b)
      BY <1>4 DEF MuxByte, u, SetEscaped
    <3> QED BY <1>1, <1>3, <1>4, <3>1
  <2> HIDE DEF u, t
  <2>2. FrontEndRead(u, m, b) \in FrontStates /\ FrontEndRead(u, m, b).mux = u.mux
        /\ Taken(u, FrontEndRead(u, m, b), m, b)
    BY <1>1, <1>3, <1>4, TakenByFrontEnd
  <2>3. Taken(s, t, m, b)
    BY <1>1, <1>3, <2>1, <2>2 DEF Taken
  <2>4. Direct(s, t, m, b)
    BY <1>1, <1>4, <2>1, <2>2, <2>3 DEF Direct
  <2> QED BY <2>1, <2>2, <2>4 DEF MuxStep, t
<1>5. CASE ForFrontEnd(s, b[1]) /\ ~(s.mux.ring[m] = <<>> /\ FrontEndCanRead(s, m) # 0)
  <2> DEFINE q == RingPut(s.mux.ring[m], b)
  <2> DEFINE v == SetRing(u, m, q)
  <2> DEFINE h == IF Len(s.mux.ring[m]) < MUX_BUFFER_SIZE THEN s.hist ELSE Lose(s.hist)
  <2>1. t = Buffer(u, m, b)
    <3> HIDE DEF u
    <3>1. t = IF u.mux.ring[m] = <<>> /\ FrontEndCanRead(u, m) > 0
              THEN FrontEndRead(u, m, b) ELSE Buffer(u, m, b)
      BY <1>5 DEF MuxByte, u, SetEscaped
    <3> QED BY <1>1, <1>3, <1>5, <3>1
  <2>2. q \in Seq(Bytes)
    BY <1>2, RingPutFacts
  <2>3. Buffer(u, m, b) = [v EXCEPT !.hist = h]
    <3> HIDE DEF u
    <3> QED BY <1>1 DEF Buffer, SetRing, FrontStates
  <2> HIDE DEF u, t, q
  <2>4. /\ v \in FrontStates /\ v.uart = u.uart /\ v.hist = u.hist
        /\ v.mux.focus = u.mux.focus /\ v.mux.escaped = u.mux.escaped
        /\ v.mux.ring = [u.mux.ring EXCEPT ![m] = q]
    BY <1>1, <2>2, RingExcept
  <2>5. HistStep(s.hist, h, s.hist.got, s.hist.stale,
                 IF Len(s.mux.ring[m]) < MUX_BUFFER_SIZE THEN s.hist.lost ELSE LostNow(s.hist))
    <3>1. HistStep(s.hist, s.hist, s.hist.got, s.hist.stale, s.hist.lost)
      BY <1>2, HistUnchanged
    <3>2. HistStep(s.hist, Lose(s.hist), s.hist.got, s.hist.stale, LostNow(s.hist))
      BY <1>2, HistLose
    <3> QED BY <3>1, <3>2
  <2>6. h \in Histories
    BY <2>5 DEF HistStep
  <2> HIDE DEF v, h
  <2>7. t \in FrontStates /\ t.uart = v.uart /\ t.mux = v.mux /\ t.hist = h
    BY <2>1, <2>3, <2>4, <2>6 DEF FrontStates
  <2>8. Buffered(s, t, m, b)
    BY <1>1, <1>5, <2>4, <2>5, <2>7 DEF Buffered, q, h
  <2> QED BY <2>7, <2>8 DEF MuxStep, t
<1>6. CASE ~ForFrontEnd(s, b[1]) /\ s.mux.escaped
  <2>1. t = IF b[1] = "c" THEN SwitchFocus(u) ELSE IF b[1] = "b" THEN BeBreak(u) ELSE u
    BY <1>6 DEF MuxByte, MuxCommand, SetEscaped
  <2> HIDE DEF u
  <2>2. CASE b[1] = "c"
    <3>1. t = SwitchFocus(u)
      BY <2>1, <2>2
    <3> HIDE DEF t
    <3> DEFINE w == SwitchFocus(u)
    <3>2. /\ w \in FrontStates /\ w.uart = u.uart
          /\ w.mux.focus = 1 - u.mux.focus /\ w.mux.ring = u.mux.ring
          /\ w.mux.escaped = u.mux.escaped
          /\ HistStep(u.hist, w.hist, u.hist.got,
                      [u.hist.stale EXCEPT ![u.mux.focus] = TRUE], u.hist.lost)
      BY <1>1, FocusSwitched
    <3> HIDE DEF w
    <3>3. Switched(s, w, b)
      BY <1>1, <1>6, <2>2, <3>2 DEF Switched, Command
    <3> QED BY <3>1, <3>2, <3>3 DEF MuxStep, w, t
  <2>3. CASE b[1] = "b"
    <3>1. t = BeBreak(u)
      BY <2>1, <2>3
    <3> HIDE DEF t
    <3>2. BeBreak(u) \in FrontStates /\ BeBreak(u).mux = u.mux /\ Broken(u, BeBreak(u))
      BY <1>1, BreakEffect
    <3>3. Breaking(s, BeBreak(u), b)
      BY <1>1, <1>6, <2>3, <3>2 DEF Breaking, Command, Broken
    <3> QED BY <3>1, <3>2, <3>3 DEF MuxStep, t
  <2>4. CASE b[1] \notin {"b", "c"}
    <3>1. t = u
      BY <2>1, <2>4
    <3> HIDE DEF t
    <3>2. Ignored(s, u, b)
      BY <1>1, <1>6, <2>4 DEF Ignored, Command
    <3> QED BY <1>1, <3>1, <3>2 DEF MuxStep, t
  <2> QED BY <2>2, <2>3, <2>4
<1>7. CASE ~ForFrontEnd(s, b[1]) /\ ~s.mux.escaped
  <2> DEFINE v == SetEscaped(s, TRUE)
  <2>1. t = v
    BY <1>7 DEF MuxByte, SetEscaped
  <2>2. /\ v \in FrontStates /\ v.uart = s.uart /\ v.hist = s.hist
        /\ v.mux.focus = s.mux.focus /\ v.mux.ring = s.mux.ring /\ v.mux.escaped = TRUE
    BY EscapedSet
  <2> HIDE DEF v, t
  <2>3. Escaping(s, v, b)
    BY <1>7, <2>2 DEF Escaping, Command
  <2> QED BY <2>1, <2>2, <2>3 DEF MuxStep, t
<1> QED BY <1>4, <1>5, <1>6, <1>7

\* The types of the loop of mux_chr_accept_input,
LEMMA DeliverTyped ==
  ASSUME NEW s \in FrontStates, NEW b \in Bytes
  PROVE  Deliver(s, b) \in FrontStates
  BY DeliverEffect

\* The loop of mux_chr_accept_input, state by state.
LEMMA DeliverRun ==
  ASSUME NEW s \in FrontStates, NEW buf \in Seq(Bytes)
  PROVE  \E run \in [0..Len(buf) -> FrontStates] :
           /\ run[0] = s
           /\ \A k \in 1..Len(buf) : run[k] = Deliver(run[k - 1], buf[k])
           /\ FoldLeft(Deliver, s, buf) = run[Len(buf)]
<1> DEFINE n == Len(buf)
<1> DEFINE P(h) == h = [T \in SUBSET (1..n) |->
                     IF T = {} THEN s ELSE Deliver(h[T \ {Max(T)}], buf[Max(T)])]
<1> DEFINE h == CHOOSE g : P(g)
<1>1. n \in Nat
  OBVIOUS
<1>2. PICK F \in [FrontStates -> [Bytes -> FrontStates]] :
          \A a \in FrontStates, b \in Bytes : F[a][b] = Deliver(a, b)
  <2> DEFINE F == [a \in FrontStates |-> [b \in Bytes |-> Deliver(a, b)]]
  <2>1. F \in [FrontStates -> [Bytes -> FrontStates]]
    BY DeliverTyped
  <2>2. \A a \in FrontStates, b \in Bytes : F[a][b] = Deliver(a, b)
    OBVIOUS
  <2> HIDE DEF F
  <2> QED BY <2>1, <2>2
<1>3. P(h)
  <2>0. HasTable(FrontStates, F, s, buf)
    BY FoldTable
  <2>1. PICK g : IsTable(g, FrontStates, F, s, buf, n)
    BY <2>0 DEF HasTable
  <2>2. ASSUME NEW T \in SUBSET (1..n), T # {}
        PROVE  F[g[T \ {Max(T)}]][buf[Max(T)]] = Deliver(g[T \ {Max(T)}], buf[Max(T)])
    <3>1. Max(T) \in 1..n
      BY <1>1, <2>2, MaxInside
    <3>2. buf[Max(T)] \in Bytes /\ g[T \ {Max(T)}] \in FrontStates
      BY <2>1, <3>1, ElementOfSeq DEF IsTable
    <3> QED BY <1>2, <3>2
  <2>3. P(g)
    BY <2>1, <2>2 DEF IsTable
  <2> HIDE DEF P
  <2> QED BY <2>3
<1>4. FoldLeft(Deliver, s, buf) = h[1..n]
  <2>1. DOMAIN buf = 1..n
    OBVIOUS
  <2> QED BY <2>1 DEF FoldLeft, MapThenFoldSet
<1>5. \A k \in 1..n : h[1..k] = Deliver(h[1..(k - 1)], buf[k])
  <2> SUFFICES ASSUME NEW k \in 1..n PROVE h[1..k] = Deliver(h[1..(k - 1)], buf[k])
    OBVIOUS
  <2>1. Max(1..k) = k
    BY <1>1, MaxOfPrefix, Zenon
  <2>2. 1..k # {} /\ (1..k) \ {k} = 1..(k - 1) /\ 1..k \in SUBSET (1..n)
    BY <1>1, PrefixOf
  <2>3. h[1..k] = Deliver(h[(1..k) \ {Max(1..k)}], buf[Max(1..k)])
    <3> HIDE DEF h
    <3> QED BY <1>3, <2>2
  <2> HIDE DEF h
  <2> QED BY <2>1, <2>2, <2>3
<1>6. h[1..0] = s
  <2>1. 1..0 = {} /\ {} \in SUBSET (1..n)
    OBVIOUS
  <2> HIDE DEF h
  <2> QED BY <1>3, <2>1
<1> DEFINE run == [k \in 0..n |-> h[1..k]]
<1> DEFINE I == {k \in 0..n : h[1..k] \in FrontStates}
<1>7. n \in 0..n /\ 0 \in 0..n /\ \A k \in 1..n : k \in 0..n /\ k - 1 \in 0..n
  BY <1>1
<1>8. 0 \in I
  BY <1>6, <1>7
<1>9. \A k \in 1..n : k - 1 \in I => k \in I
  <2> SUFFICES ASSUME NEW k \in 1..n, h[1..(k - 1)] \in FrontStates PROVE h[1..k] \in FrontStates
    BY <1>7
  <2>1. buf[k] \in Bytes
    BY ElementOfSeq
  <2> HIDE DEF h
  <2> QED BY <1>5, <2>1, DeliverTyped
<1>10. \A k \in 0..n : k \in I
  <2> HIDE DEF I, n
  <2> QED BY <1>1, <1>8, <1>9, Climb
<1>11. run \in [0..n -> FrontStates]
  BY <1>10
<1> HIDE DEF h
<1>12. run[0] = s /\ run[n] = h[1..n]
  BY <1>6, <1>7
<1>13. \A k \in 1..n : run[k] = Deliver(run[k - 1], buf[k])
  <2> SUFFICES ASSUME NEW k \in 1..n PROVE run[k] = Deliver(run[k - 1], buf[k])
    OBVIOUS
  <2>1. run[k] = h[1..k] /\ run[k - 1] = h[1..(k - 1)]
    BY <1>7
  <2> HIDE DEF run
  <2> QED BY <1>5, <2>1
<1> HIDE DEF run
<1> QED BY <1>4, <1>11, <1>12, <1>13

\* The loop of mux_chr_read,
MuxFold(s, m, buf) == FoldLeft(LAMBDA a, b : MuxByte(a, m, b), s, buf)
\* the same without a multiplexer,
DirectFold(s, buf) == FoldLeft(LAMBDA a, b : FrontEndRead(a, UART, b), s, buf)
\* and the breaks of one read.
BreakFold(s, buf) == FoldLeft(LAMBDA a, i : BeBreak(a), s, buf)

\* The loop of mux_chr_read, state by state.
LEMMA MuxRun ==
  ASSUME NEW m \in FrontEnds, NEW s \in FrontStates, NEW buf \in Seq(Bytes)
  PROVE  \E run \in [0..Len(buf) -> FrontStates] :
           /\ run[0] = s
           /\ \A k \in 1..Len(buf) : run[k] = MuxByte(run[k - 1], m, buf[k])
           /\ MuxFold(s, m, buf) = run[Len(buf)]
<1> DEFINE n == Len(buf)
<1> DEFINE P(h) == h = [T \in SUBSET (1..n) |->
                     IF T = {} THEN s ELSE MuxByte(h[T \ {Max(T)}], m, buf[Max(T)])]
<1> DEFINE h == CHOOSE g : P(g)
<1>1. n \in Nat
  OBVIOUS
<1>2. PICK F \in [FrontStates -> [Bytes -> FrontStates]] :
          \A a \in FrontStates, b \in Bytes : F[a][b] = MuxByte(a, m, b)
  <2> DEFINE F == [a \in FrontStates |-> [b \in Bytes |-> MuxByte(a, m, b)]]
  <2>1. F \in [FrontStates -> [Bytes -> FrontStates]]
    BY MuxByteEffect
  <2>2. \A a \in FrontStates, b \in Bytes : F[a][b] = MuxByte(a, m, b)
    OBVIOUS
  <2> HIDE DEF F
  <2> QED BY <2>1, <2>2
<1>3. P(h)
  <2>0. HasTable(FrontStates, F, s, buf)
    BY FoldTable
  <2>1. PICK g : IsTable(g, FrontStates, F, s, buf, n)
    BY <2>0 DEF HasTable
  <2>2. ASSUME NEW T \in SUBSET (1..n), T # {}
        PROVE  F[g[T \ {Max(T)}]][buf[Max(T)]] = MuxByte(g[T \ {Max(T)}], m, buf[Max(T)])
    <3>1. Max(T) \in 1..n
      BY <1>1, <2>2, MaxInside
    <3>2. buf[Max(T)] \in Bytes /\ g[T \ {Max(T)}] \in FrontStates
      BY <2>1, <3>1, ElementOfSeq DEF IsTable
    <3> QED BY <1>2, <3>2
  <2>3. P(g)
    BY <2>1, <2>2 DEF IsTable
  <2> HIDE DEF P
  <2> QED BY <2>3
<1>4. MuxFold(s, m, buf) = h[1..n]
  <2>1. DOMAIN buf = 1..n
    OBVIOUS
  <2> QED BY <2>1 DEF FoldLeft, MapThenFoldSet, MuxFold
<1>5. \A k \in 1..n : h[1..k] = MuxByte(h[1..(k - 1)], m, buf[k])
  <2> SUFFICES ASSUME NEW k \in 1..n PROVE h[1..k] = MuxByte(h[1..(k - 1)], m, buf[k])
    OBVIOUS
  <2>1. Max(1..k) = k
    BY <1>1, MaxOfPrefix, Zenon
  <2>2. 1..k # {} /\ (1..k) \ {k} = 1..(k - 1) /\ 1..k \in SUBSET (1..n)
    BY <1>1, PrefixOf
  <2>3. h[1..k] = MuxByte(h[(1..k) \ {Max(1..k)}], m, buf[Max(1..k)])
    <3> HIDE DEF h
    <3> QED BY <1>3, <2>2
  <2> HIDE DEF h
  <2> QED BY <2>1, <2>2, <2>3
<1>6. h[1..0] = s
  <2>1. 1..0 = {} /\ {} \in SUBSET (1..n)
    OBVIOUS
  <2> HIDE DEF h
  <2> QED BY <1>3, <2>1
<1> DEFINE run == [k \in 0..n |-> h[1..k]]
<1> DEFINE I == {k \in 0..n : h[1..k] \in FrontStates}
<1>7. n \in 0..n /\ 0 \in 0..n /\ \A k \in 1..n : k \in 0..n /\ k - 1 \in 0..n
  BY <1>1
<1>8. 0 \in I
  BY <1>6, <1>7
<1>9. \A k \in 1..n : k - 1 \in I => k \in I
  <2> SUFFICES ASSUME NEW k \in 1..n, h[1..(k - 1)] \in FrontStates PROVE h[1..k] \in FrontStates
    BY <1>7
  <2>1. buf[k] \in Bytes
    BY ElementOfSeq
  <2> HIDE DEF h
  <2> QED BY <1>5, <2>1, MuxByteEffect
<1>10. \A k \in 0..n : k \in I
  <2> HIDE DEF I, n
  <2> QED BY <1>1, <1>8, <1>9, Climb
<1>11. run \in [0..n -> FrontStates]
  BY <1>10
<1> HIDE DEF h
<1>12. run[0] = s /\ run[n] = h[1..n]
  BY <1>6, <1>7
<1>13. \A k \in 1..n : run[k] = MuxByte(run[k - 1], m, buf[k])
  <2> SUFFICES ASSUME NEW k \in 1..n PROVE run[k] = MuxByte(run[k - 1], m, buf[k])
    OBVIOUS
  <2>1. run[k] = h[1..k] /\ run[k - 1] = h[1..(k - 1)]
    BY <1>7
  <2> HIDE DEF run
  <2> QED BY <1>5, <2>1
<1> HIDE DEF run
<1> QED BY <1>4, <1>11, <1>12, <1>13

\* of the UART reading on its own,
LEMMA UartReads ==
  ASSUME NEW s \in FrontStates, NEW b \in Bytes
  PROVE  FrontEndRead(s, UART, b) \in FrontStates
<1>1. UART \in FrontEnds
  BY DEF FrontEnds
<1> QED BY <1>1, ReadEffect

\* A UART without multiplexer reads, byte by byte.
LEMMA DirectRun ==
  ASSUME NEW s \in FrontStates, NEW buf \in Seq(Bytes)
  PROVE  \E run \in [0..Len(buf) -> FrontStates] :
           /\ run[0] = s
           /\ \A k \in 1..Len(buf) : run[k] = FrontEndRead(run[k - 1], UART, buf[k])
           /\ DirectFold(s, buf) = run[Len(buf)]
<1> DEFINE n == Len(buf)
<1> DEFINE P(h) == h = [T \in SUBSET (1..n) |->
                     IF T = {} THEN s ELSE FrontEndRead(h[T \ {Max(T)}], UART, buf[Max(T)])]
<1> DEFINE h == CHOOSE g : P(g)
<1>1. n \in Nat
  OBVIOUS
<1>2. PICK F \in [FrontStates -> [Bytes -> FrontStates]] :
          \A a \in FrontStates, b \in Bytes : F[a][b] = FrontEndRead(a, UART, b)
  <2> DEFINE F == [a \in FrontStates |-> [b \in Bytes |-> FrontEndRead(a, UART, b)]]
  <2>1. F \in [FrontStates -> [Bytes -> FrontStates]]
    BY UartReads
  <2>2. \A a \in FrontStates, b \in Bytes : F[a][b] = FrontEndRead(a, UART, b)
    OBVIOUS
  <2> HIDE DEF F
  <2> QED BY <2>1, <2>2
<1>3. P(h)
  <2>0. HasTable(FrontStates, F, s, buf)
    BY FoldTable
  <2>1. PICK g : IsTable(g, FrontStates, F, s, buf, n)
    BY <2>0 DEF HasTable
  <2>2. ASSUME NEW T \in SUBSET (1..n), T # {}
        PROVE  F[g[T \ {Max(T)}]][buf[Max(T)]] = FrontEndRead(g[T \ {Max(T)}], UART, buf[Max(T)])
    <3>1. Max(T) \in 1..n
      BY <1>1, <2>2, MaxInside
    <3>2. buf[Max(T)] \in Bytes /\ g[T \ {Max(T)}] \in FrontStates
      BY <2>1, <3>1, ElementOfSeq DEF IsTable
    <3> QED BY <1>2, <3>2
  <2>3. P(g)
    BY <2>1, <2>2 DEF IsTable
  <2> HIDE DEF P
  <2> QED BY <2>3
<1>4. DirectFold(s, buf) = h[1..n]
  <2>1. DOMAIN buf = 1..n
    OBVIOUS
  <2> QED BY <2>1 DEF FoldLeft, MapThenFoldSet, DirectFold
<1>5. \A k \in 1..n : h[1..k] = FrontEndRead(h[1..(k - 1)], UART, buf[k])
  <2> SUFFICES ASSUME NEW k \in 1..n PROVE h[1..k] = FrontEndRead(h[1..(k - 1)], UART, buf[k])
    OBVIOUS
  <2>1. Max(1..k) = k
    BY <1>1, MaxOfPrefix, Zenon
  <2>2. 1..k # {} /\ (1..k) \ {k} = 1..(k - 1) /\ 1..k \in SUBSET (1..n)
    BY <1>1, PrefixOf
  <2>3. h[1..k] = FrontEndRead(h[(1..k) \ {Max(1..k)}], UART, buf[Max(1..k)])
    <3> HIDE DEF h
    <3> QED BY <1>3, <2>2
  <2> HIDE DEF h
  <2> QED BY <2>1, <2>2, <2>3
<1>6. h[1..0] = s
  <2>1. 1..0 = {} /\ {} \in SUBSET (1..n)
    OBVIOUS
  <2> HIDE DEF h
  <2> QED BY <1>3, <2>1
<1> DEFINE run == [k \in 0..n |-> h[1..k]]
<1> DEFINE I == {k \in 0..n : h[1..k] \in FrontStates}
<1>7. n \in 0..n /\ 0 \in 0..n /\ \A k \in 1..n : k \in 0..n /\ k - 1 \in 0..n
  BY <1>1
<1>8. 0 \in I
  BY <1>6, <1>7
<1>9. \A k \in 1..n : k - 1 \in I => k \in I
  <2> SUFFICES ASSUME NEW k \in 1..n, h[1..(k - 1)] \in FrontStates PROVE h[1..k] \in FrontStates
    BY <1>7
  <2>1. buf[k] \in Bytes
    BY ElementOfSeq
  <2> HIDE DEF h
  <2> QED BY <1>5, <2>1, UartReads
<1>10. \A k \in 0..n : k \in I
  <2> HIDE DEF I, n
  <2> QED BY <1>1, <1>8, <1>9, Climb
<1>11. run \in [0..n -> FrontStates]
  BY <1>10
<1> HIDE DEF h
<1>12. run[0] = s /\ run[n] = h[1..n]
  BY <1>6, <1>7
<1>13. \A k \in 1..n : run[k] = FrontEndRead(run[k - 1], UART, buf[k])
  <2> SUFFICES ASSUME NEW k \in 1..n PROVE run[k] = FrontEndRead(run[k - 1], UART, buf[k])
    OBVIOUS
  <2>1. run[k] = h[1..k] /\ run[k - 1] = h[1..(k - 1)]
    BY <1>7
  <2> HIDE DEF run
  <2> QED BY <1>5, <2>1
<1> HIDE DEF run
<1> QED BY <1>4, <1>11, <1>12, <1>13

\* The breaks of one read, one by one.
LEMMA BreakRun ==
  ASSUME NEW s \in FrontStates, NEW buf \in Seq(Nat)
  PROVE  \E run \in [0..Len(buf) -> FrontStates] :
           /\ run[0] = s
           /\ \A k \in 1..Len(buf) : run[k] = BeBreak(run[k - 1])
           /\ BreakFold(s, buf) = run[Len(buf)]
<1> DEFINE n == Len(buf)
<1> DEFINE P(h) == h = [T \in SUBSET (1..n) |->
                     IF T = {} THEN s ELSE BeBreak(h[T \ {Max(T)}])]
<1> DEFINE h == CHOOSE g : P(g)
<1>1. n \in Nat
  OBVIOUS
<1>2. PICK F \in [FrontStates -> [Nat -> FrontStates]] :
          \A a \in FrontStates, b \in Nat : F[a][b] = BeBreak(a)
  <2> DEFINE F == [a \in FrontStates |-> [b \in Nat |-> BeBreak(a)]]
  <2>1. F \in [FrontStates -> [Nat -> FrontStates]]
    BY BreakEffect
  <2>2. \A a \in FrontStates, b \in Nat : F[a][b] = BeBreak(a)
    OBVIOUS
  <2> HIDE DEF F
  <2> QED BY <2>1, <2>2
<1>3. P(h)
  <2>0. HasTable(FrontStates, F, s, buf)
    BY FoldTable
  <2>1. PICK g : IsTable(g, FrontStates, F, s, buf, n)
    BY <2>0 DEF HasTable
  <2>2. ASSUME NEW T \in SUBSET (1..n), T # {}
        PROVE  F[g[T \ {Max(T)}]][buf[Max(T)]] = BeBreak(g[T \ {Max(T)}])
    <3>1. Max(T) \in 1..n
      BY <1>1, <2>2, MaxInside
    <3>2. buf[Max(T)] \in Nat /\ g[T \ {Max(T)}] \in FrontStates
      BY <2>1, <3>1, ElementOfSeq DEF IsTable
    <3> QED BY <1>2, <3>2
  <2>3. P(g)
    BY <2>1, <2>2 DEF IsTable
  <2> HIDE DEF P
  <2> QED BY <2>3
<1>4. BreakFold(s, buf) = h[1..n]
  <2>1. DOMAIN buf = 1..n
    OBVIOUS
  <2> QED BY <2>1 DEF FoldLeft, MapThenFoldSet, BreakFold
<1>5. \A k \in 1..n : h[1..k] = BeBreak(h[1..(k - 1)])
  <2> SUFFICES ASSUME NEW k \in 1..n PROVE h[1..k] = BeBreak(h[1..(k - 1)])
    OBVIOUS
  <2>1. Max(1..k) = k
    BY <1>1, MaxOfPrefix, Zenon
  <2>2. 1..k # {} /\ (1..k) \ {k} = 1..(k - 1) /\ 1..k \in SUBSET (1..n)
    BY <1>1, PrefixOf
  <2>3. h[1..k] = BeBreak(h[(1..k) \ {Max(1..k)}])
    <3> HIDE DEF h
    <3> QED BY <1>3, <2>2
  <2> HIDE DEF h
  <2> QED BY <2>1, <2>2, <2>3
<1>6. h[1..0] = s
  <2>1. 1..0 = {} /\ {} \in SUBSET (1..n)
    OBVIOUS
  <2> HIDE DEF h
  <2> QED BY <1>3, <2>1
<1> DEFINE run == [k \in 0..n |-> h[1..k]]
<1> DEFINE I == {k \in 0..n : h[1..k] \in FrontStates}
<1>7. n \in 0..n /\ 0 \in 0..n /\ \A k \in 1..n : k \in 0..n /\ k - 1 \in 0..n
  BY <1>1
<1>8. 0 \in I
  BY <1>6, <1>7
<1>9. \A k \in 1..n : k - 1 \in I => k \in I
  <2> SUFFICES ASSUME NEW k \in 1..n, h[1..(k - 1)] \in FrontStates PROVE h[1..k] \in FrontStates
    BY <1>7
  <2>1. buf[k] \in Nat
    BY ElementOfSeq
  <2> HIDE DEF h
  <2> QED BY <1>5, <2>1, BreakEffect
<1>10. \A k \in 0..n : k \in I
  <2> HIDE DEF I, n
  <2> QED BY <1>1, <1>8, <1>9, Climb
<1>11. run \in [0..n -> FrontStates]
  BY <1>10
<1> HIDE DEF h
<1>12. run[0] = s /\ run[n] = h[1..n]
  BY <1>6, <1>7
<1>13. \A k \in 1..n : run[k] = BeBreak(run[k - 1])
  <2> SUFFICES ASSUME NEW k \in 1..n PROVE run[k] = BeBreak(run[k - 1])
    OBVIOUS
  <2>1. run[k] = h[1..k] /\ run[k - 1] = h[1..(k - 1)]
    BY <1>7
  <2> HIDE DEF run
  <2> QED BY <1>5, <2>1
<1> HIDE DEF run
<1> QED BY <1>4, <1>11, <1>12, <1>13

\* The multiplexer without buffers.
RouteStates == [focus : FrontEnds, m : FrontEnds, escaped : BOOLEAN, to : [FrontEnds -> Seq(Bytes)]]
\* A byte, and whether it is the first of its call.
Tagged == Bytes \X BOOLEAN

\* What a byte does to it.
LEMMA RouteEffect ==
  ASSUME NEW a \in RouteStates, NEW p \in Tagged
  PROVE  LET m == IF p[2] THEN a.focus ELSE a.m
             t == RouteByte(a, p)
             data == a.escaped = (p[1][1] = "escape")
         IN  /\ t \in RouteStates /\ t.m = m
             /\ t.focus = IF ~data /\ a.escaped /\ p[1][1] = "c" THEN 1 - a.focus ELSE a.focus
             /\ t.escaped = (~data /\ ~a.escaped)
             /\ t.to = IF data THEN [a.to EXCEPT ![m] = Append(@, p[1])] ELSE a.to
<1> DEFINE m == IF p[2] THEN a.focus ELSE a.m
<1> DEFINE n == [a EXCEPT !.m = m, !.escaped = FALSE]
<1>1. p[1] \in Bytes /\ p[2] \in BOOLEAN
  BY DEF Tagged
<1>2. /\ a.focus \in FrontEnds /\ m \in FrontEnds /\ a.escaped \in BOOLEAN
      /\ a.to \in [FrontEnds -> Seq(Bytes)] /\ 1 - a.focus \in FrontEnds
  BY <1>1 DEF RouteStates, FrontEnds, MONITOR, UART
<1>3. /\ n \in RouteStates /\ n.m = m /\ n.focus = a.focus /\ n.escaped = FALSE /\ n.to = a.to
  BY <1>2 DEF RouteStates
<1> DEFINE g == [a.to EXCEPT ![m] = Append(@, p[1])]
<1>4. g \in [FrontEnds -> Seq(Bytes)]
  <2>1. Append(a.to[m], p[1]) \in Seq(Bytes)
    BY <1>1, <1>2
  <2> HIDE DEF m
  <2> QED BY <1>2, <2>1
<1>5. CASE a.escaped = (p[1][1] = "escape")
  <2>1. RouteByte(a, p) = [n EXCEPT !.to[m] = Append(@, p[1])]
    BY <1>5 DEF RouteByte
  <2> HIDE DEF n, m
  <2>2. RouteByte(a, p) = [n EXCEPT !.to = g]
    BY <1>3, <2>1 DEF RouteStates
  <2> HIDE DEF g
  <2>3. /\ RouteByte(a, p) \in RouteStates /\ RouteByte(a, p).m = n.m
        /\ RouteByte(a, p).focus = n.focus /\ RouteByte(a, p).escaped = n.escaped
        /\ RouteByte(a, p).to = g
    BY <1>3, <1>4, <2>2 DEF RouteStates
  <2> QED BY <1>3, <1>5, <2>3 DEF g, m
<1>6. CASE ~(a.escaped = (p[1][1] = "escape")) /\ ~a.escaped
  <2>1. RouteByte(a, p) = [n EXCEPT !.escaped = TRUE]
    BY <1>6 DEF RouteByte
  <2> HIDE DEF n, g, m
  <2>2. /\ RouteByte(a, p) \in RouteStates /\ RouteByte(a, p).m = n.m
        /\ RouteByte(a, p).focus = n.focus /\ RouteByte(a, p).escaped = TRUE
        /\ RouteByte(a, p).to = n.to
    BY <1>3, <2>1 DEF RouteStates
  <2> QED BY <1>3, <1>6, <2>2 DEF m
<1>7. CASE ~(a.escaped = (p[1][1] = "escape")) /\ a.escaped /\ p[1][1] = "c"
  <2>1. RouteByte(a, p) = [n EXCEPT !.focus = 1 - @]
    BY <1>7 DEF RouteByte
  <2> HIDE DEF n, g, m
  <2>2. /\ RouteByte(a, p) \in RouteStates /\ RouteByte(a, p).m = n.m
        /\ RouteByte(a, p).focus = 1 - n.focus /\ RouteByte(a, p).escaped = n.escaped
        /\ RouteByte(a, p).to = n.to
    BY <1>2, <1>3, <2>1 DEF RouteStates
  <2> QED BY <1>3, <1>7, <2>2 DEF m
<1>8. CASE ~(a.escaped = (p[1][1] = "escape")) /\ a.escaped /\ p[1][1] # "c"
  <2>1. RouteByte(a, p) = n
    BY <1>8 DEF RouteByte
  <2> HIDE DEF n, g, m
  <2> QED BY <1>3, <1>8, <2>1 DEF m
<1> QED BY <1>5, <1>6, <1>7, <1>8

\* and of the reference.
LEMMA RouteTyped ==
  ASSUME NEW a \in RouteStates, NEW p \in Tagged
  PROVE  RouteByte(a, p) \in RouteStates
  BY RouteEffect

\* The fold of the reference, byte by byte.
LEMMA RouteRun ==
  ASSUME NEW s \in RouteStates, NEW buf \in Seq(Tagged)
  PROVE  \E run \in [0..Len(buf) -> RouteStates] :
           /\ run[0] = s
           /\ \A k \in 1..Len(buf) : run[k] = RouteByte(run[k - 1], buf[k])
           /\ FoldLeft(RouteByte, s, buf) = run[Len(buf)]
<1> DEFINE n == Len(buf)
<1> DEFINE P(h) == h = [T \in SUBSET (1..n) |->
                     IF T = {} THEN s ELSE RouteByte(h[T \ {Max(T)}], buf[Max(T)])]
<1> DEFINE h == CHOOSE g : P(g)
<1>1. n \in Nat
  OBVIOUS
<1>2. PICK F \in [RouteStates -> [Tagged -> RouteStates]] :
          \A a \in RouteStates, b \in Tagged : F[a][b] = RouteByte(a, b)
  <2> DEFINE F == [a \in RouteStates |-> [b \in Tagged |-> RouteByte(a, b)]]
  <2>1. F \in [RouteStates -> [Tagged -> RouteStates]]
    BY RouteTyped
  <2>2. \A a \in RouteStates, b \in Tagged : F[a][b] = RouteByte(a, b)
    OBVIOUS
  <2> HIDE DEF F
  <2> QED BY <2>1, <2>2
<1>3. P(h)
  <2>0. HasTable(RouteStates, F, s, buf)
    BY FoldTable
  <2>1. PICK g : IsTable(g, RouteStates, F, s, buf, n)
    BY <2>0 DEF HasTable
  <2>2. ASSUME NEW T \in SUBSET (1..n), T # {}
        PROVE  F[g[T \ {Max(T)}]][buf[Max(T)]] = RouteByte(g[T \ {Max(T)}], buf[Max(T)])
    <3>1. Max(T) \in 1..n
      BY <1>1, <2>2, MaxInside
    <3>2. buf[Max(T)] \in Tagged /\ g[T \ {Max(T)}] \in RouteStates
      BY <2>1, <3>1, ElementOfSeq DEF IsTable
    <3> QED BY <1>2, <3>2
  <2>3. P(g)
    BY <2>1, <2>2 DEF IsTable
  <2> HIDE DEF P
  <2> QED BY <2>3
<1>4. FoldLeft(RouteByte, s, buf) = h[1..n]
  <2>1. DOMAIN buf = 1..n
    OBVIOUS
  <2> QED BY <2>1 DEF FoldLeft, MapThenFoldSet
<1>5. \A k \in 1..n : h[1..k] = RouteByte(h[1..(k - 1)], buf[k])
  <2> SUFFICES ASSUME NEW k \in 1..n PROVE h[1..k] = RouteByte(h[1..(k - 1)], buf[k])
    OBVIOUS
  <2>1. Max(1..k) = k
    BY <1>1, MaxOfPrefix, Zenon
  <2>2. 1..k # {} /\ (1..k) \ {k} = 1..(k - 1) /\ 1..k \in SUBSET (1..n)
    BY <1>1, PrefixOf
  <2>3. h[1..k] = RouteByte(h[(1..k) \ {Max(1..k)}], buf[Max(1..k)])
    <3> HIDE DEF h
    <3> QED BY <1>3, <2>2
  <2> HIDE DEF h
  <2> QED BY <2>1, <2>2, <2>3
<1>6. h[1..0] = s
  <2>1. 1..0 = {} /\ {} \in SUBSET (1..n)
    OBVIOUS
  <2> HIDE DEF h
  <2> QED BY <1>3, <2>1
<1> DEFINE run == [k \in 0..n |-> h[1..k]]
<1> DEFINE I == {k \in 0..n : h[1..k] \in RouteStates}
<1>7. n \in 0..n /\ 0 \in 0..n /\ \A k \in 1..n : k \in 0..n /\ k - 1 \in 0..n
  BY <1>1
<1>8. 0 \in I
  BY <1>6, <1>7
<1>9. \A k \in 1..n : k - 1 \in I => k \in I
  <2> SUFFICES ASSUME NEW k \in 1..n, h[1..(k - 1)] \in RouteStates PROVE h[1..k] \in RouteStates
    BY <1>7
  <2>1. buf[k] \in Tagged
    BY ElementOfSeq
  <2> HIDE DEF h
  <2> QED BY <1>5, <2>1, RouteTyped
<1>10. \A k \in 0..n : k \in I
  <2> HIDE DEF I, n
  <2> QED BY <1>1, <1>8, <1>9, Climb
<1>11. run \in [0..n -> RouteStates]
  BY <1>10
<1> HIDE DEF h
<1>12. run[0] = s /\ run[n] = h[1..n]
  BY <1>6, <1>7
<1>13. \A k \in 1..n : run[k] = RouteByte(run[k - 1], buf[k])
  <2> SUFFICES ASSUME NEW k \in 1..n PROVE run[k] = RouteByte(run[k - 1], buf[k])
    OBVIOUS
  <2>1. run[k] = h[1..k] /\ run[k - 1] = h[1..(k - 1)]
    BY <1>7
  <2> HIDE DEF run
  <2> QED BY <1>5, <2>1
<1> HIDE DEF run
<1> QED BY <1>4, <1>11, <1>12, <1>13

-----------------------------------------------------------------------------
(* mux_chr_accept_input.                                                   *)

\* What the UART surely takes, whatever the guest reads before.
SafeTake(u) ==
    IF ~u.fe THEN 1 - Len(u.fifo) ELSE IF Len(u.fifo) <= Level THEN Level - Len(u.fifo) ELSE 0
\* It takes input again above its trigger level.
Mid(u) == u.fe /\ Len(u.fifo) > Level /\ Len(u.fifo) < FIFOLEN

\* How many bytes wait for the UART.
RingLen(s) == Len(s.mux.ring[UART])

\* It differs from what the UART says only above the trigger level, and there by one.
LEMMA SafeFacts ==
  ASSUME NEW u \in UartStates
  PROVE  /\ SafeTake(u) \in Nat /\ SafeTake(u) <= UartCanReceive(u)
         /\ SafeTake(u) = 0 /\ UartCanReceive(u) # 0 => Mid(u)
         /\ Mid(u) => UartCanReceive(u) = 1 /\ SafeTake(u) = 0
         /\ ~Mid(u) => UartCanReceive(u) = SafeTake(u)
         /\ UartCanReceive(u) \in Nat
<1> DEFINE n == Len(u.fifo)
<1>1. u.fe \in BOOLEAN /\ n \in Nat /\ n <= Depth(u)
  BY DEF UartStates
<1>2. FIFOLEN \in Nat /\ Level \in Nat /\ Level <= FIFOLEN /\ Level >= 1
  BY CharAssumption
<1>3. ~u.fe => SafeTake(u) = 1 - n /\ UartCanReceive(u) = 1 - n /\ ~Mid(u) /\ Depth(u) = 1
  BY <1>1 DEF SafeTake, Mid, UartCanReceive, Depth
<1>4. u.fe => /\ SafeTake(u) = IF n <= Level THEN Level - n ELSE 0
              /\ UartCanReceive(u) = IF n <= Level THEN Level - n ELSE IF n < FIFOLEN THEN 1 ELSE 0
              /\ Mid(u) <=> n > Level /\ n < FIFOLEN
  BY <1>1 DEF SafeTake, Mid, UartCanReceive, Depth
<1> HIDE DEF n
<1>5. CASE ~u.fe
  BY <1>1, <1>3, <1>5
<1>6. CASE u.fe
  BY <1>1, <1>2, <1>4, <1>6
<1> QED BY <1>5, <1>6

\* What the UART surely takes shrinks by one at most when it gets a byte or a break, and one
\* more byte does not make it grow.
LEMMA SafeTakeStep ==
  ASSUME NEW u \in UartStates, NEW v \in UartStates, v.fe = u.fe,
         Len(v.fifo) \in {Len(u.fifo), Len(u.fifo) + 1}
  PROVE  /\ SafeTake(v) <= SafeTake(u) /\ SafeTake(v) >= SafeTake(u) - 1
         /\ Mid(v) /\ ~Mid(u) => SafeTake(u) = 0
<1> DEFINE n == Len(u.fifo)
<1> DEFINE k == Len(v.fifo)
<1>1. u.fe \in BOOLEAN /\ n \in Nat /\ n <= Depth(u) /\ k \in {n, n + 1} /\ k <= Depth(v)
  BY DEF UartStates
<1>2. FIFOLEN \in Nat /\ Level \in Nat /\ Level <= FIFOLEN /\ Level >= 1
  BY CharAssumption
<1>3. /\ SafeTake(u) = IF ~u.fe THEN 1 - n ELSE IF n <= Level THEN Level - n ELSE 0
      /\ SafeTake(v) = IF ~u.fe THEN 1 - k ELSE IF k <= Level THEN Level - k ELSE 0
      /\ Mid(u) = (u.fe /\ n > Level /\ n < FIFOLEN)
      /\ Mid(v) = (u.fe /\ k > Level /\ k < FIFOLEN)
      /\ Depth(u) = IF u.fe THEN FIFOLEN ELSE 1
      /\ Depth(v) = IF u.fe THEN FIFOLEN ELSE 1
  BY <1>1 DEF SafeTake, Mid, Depth
<1> HIDE DEF n, k
<1> QED BY <1>1, <1>2, <1>3

\* A byte moved from the head of one sequence to the end of another.
LEMMA AppendTail ==
  ASSUME NEW p \in Seq(Bytes), NEW q \in Seq(Bytes), q # <<>>
  PROVE  Append(p, Head(q)) \o Tail(q) = p \o q
<1> DEFINE b == Head(q)
<1> DEFINE r == Tail(q)
<1>1. b \in Bytes /\ r \in Seq(Bytes)
  BY HeadTailProperties
<1>2. q = <<b>> \o r
  <2>1. Len(q) \in Nat /\ Len(q) >= 1
    BY TailType
  <2>2. 1 \in 1..Len(q) /\ Len(q) \in 1..Len(q)
    BY <2>1
  <2>3. SubSeq(q, 1, Len(q)) = <<q[1]>> \o SubSeq(q, 1 + 1, Len(q))
    BY <2>2, SubSeqRecursiveFirst
  <2>4. SubSeq(q, 1, Len(q)) = q /\ Tail(q) = SubSeq(q, 2, Len(q)) /\ Head(q) = q[1]
    BY SubSeqFull, TailIsSubSeq
  <2> QED BY <2>3, <2>4
<1>3. Append(p, b) = p \o <<b>>
  BY <1>1, AppendIsConcat
<1>4. (p \o <<b>>) \o r = p \o (<<b>> \o r)
  <2>1. <<b>> \in Seq(Bytes)
    BY <1>1
  <2> HIDE DEF b, r
  <2> QED BY <1>1, <2>1, ConcatAssociative
<1> HIDE DEF b, r
<1> QED BY <1>2, <1>3, <1>4 DEF b, r

\* From s to t, the front end in focus took the oldest bytes of its ring.
Moved(s, t) ==
    LET m == s.mux.focus
    IN  /\ t.mux.focus = m /\ t.mux.escaped = s.mux.escaped /\ t.uart.fe = s.uart.fe
        /\ HistStep(s.hist, t.hist, t.hist.got, s.hist.stale, s.hist.lost)
        /\ \A f \in FrontEnds : t.hist.got[f] \o t.mux.ring[f] = s.hist.got[f] \o s.mux.ring[f]
        /\ \A f \in FrontEnds \ {m} : t.mux.ring[f] = s.mux.ring[f]
        /\ m # UART => t.uart = s.uart
        /\ RingLen(t) <= RingLen(s)
        /\ RingLen(t) - SafeTake(t.uart) <= RingLen(s) - SafeTake(s.uart)

\* The lengths are numbers.
LEMMA RingLenType ==
  ASSUME NEW s \in FrontStates
  PROVE  RingLen(s) \in Nat /\ SafeTake(s.uart) \in Nat /\ s.mux.ring[UART] \in Seq(Bytes)
         /\ (RingLen(s) = 0 <=> s.mux.ring[UART] = <<>>)
<1>1. s.mux.ring \in [FrontEnds -> Seq(Bytes)] /\ s.uart \in UartStates
  BY FrontTypes
<1>2. UART \in FrontEnds
  BY DEF FrontEnds
<1>3. s.mux.ring[UART] \in Seq(Bytes)
  BY <1>1, <1>2
<1>4. Len(s.mux.ring[UART]) = 0 <=> s.mux.ring[UART] = <<>>
  BY <1>3, EmptySeq
<1> QED BY <1>1, <1>3, <1>4, SafeFacts DEF RingLen

\* A byte taken from the ring moves it.
LEMMA MovedByDrain ==
  ASSUME NEW s \in FrontStates, NEW t \in FrontStates, ~Stops(s),
         Drained(s, t, Head(s.mux.ring[s.mux.focus]))
  PROVE  Moved(s, t)
<1> DEFINE m == s.mux.focus
<1> DEFINE b == Head(s.mux.ring[m])
<1>1. /\ m \in FrontEnds /\ s.mux.ring \in [FrontEnds -> Seq(Bytes)]
      /\ s.hist.got \in [FrontEnds -> Seq(Bytes)] /\ s.uart \in UartStates
      /\ t.uart \in UartStates
      /\ s.uart = [fe |-> s.uart.fe, fifo |-> s.uart.fifo]
      /\ t.uart = [fe |-> t.uart.fe, fifo |-> t.uart.fifo]
  BY FrontTypes
<1>2. s.mux.ring[m] # <<>> /\ s.mux.ring[m] \in Seq(Bytes)
  BY <1>1 DEF Stops
<1>3. b \in Bytes
  <2> HIDE DEF m
  <2> QED BY <1>2, HeadTailProperties
<1>4. /\ t.mux.focus = m /\ t.mux.escaped = s.mux.escaped /\ t.uart.fe = s.uart.fe
      /\ t.mux.ring = [s.mux.ring EXCEPT ![m] = Tail(@)]
      /\ t.uart.fifo = IF m = UART THEN Append(s.uart.fifo, b) ELSE s.uart.fifo
      /\ HistStep(s.hist, t.hist, [s.hist.got EXCEPT ![m] = Append(@, b)], s.hist.stale,
                  s.hist.lost)
  BY DEF Drained, Taken
<1>5. t.hist.got = [s.hist.got EXCEPT ![m] = Append(@, b)]
  BY <1>4 DEF HistStep
<1>6. HistStep(s.hist, t.hist, t.hist.got, s.hist.stale, s.hist.lost)
  BY <1>4, <1>5
<1> HIDE DEF m, b
<1>7. ASSUME NEW f \in FrontEnds
      PROVE  t.hist.got[f] \o t.mux.ring[f] = s.hist.got[f] \o s.mux.ring[f]
  <2>1. CASE f # m
    <3>1. t.hist.got[f] = s.hist.got[f] /\ t.mux.ring[f] = s.mux.ring[f]
      BY <1>1, <1>4, <1>5, <2>1
    <3> QED BY <3>1
  <2>2. CASE f = m
    <3>1. t.hist.got[f] = Append(s.hist.got[m], b) /\ t.mux.ring[f] = Tail(s.mux.ring[m])
      BY <1>1, <1>4, <1>5, <2>2
    <3>2. s.hist.got[m] \in Seq(Bytes)
      BY <1>1
    <3> QED BY <1>2, <2>2, <3>1, <3>2, AppendTail DEF b
  <2> QED BY <2>1, <2>2
<1>9. \A f \in FrontEnds \ {m} : t.mux.ring[f] = s.mux.ring[f]
  BY <1>1, <1>4
<1>10. m # UART => t.uart = s.uart
  BY <1>1, <1>4
<1>11. /\ RingLen(t) <= RingLen(s)
       /\ RingLen(t) - SafeTake(t.uart) <= RingLen(s) - SafeTake(s.uart)
  <2>0. /\ RingLen(s) \in Nat /\ RingLen(t) \in Nat
        /\ SafeTake(s.uart) \in Nat /\ SafeTake(t.uart) \in Nat
    BY RingLenType
  <2>1. CASE m = UART
    <3>1. RingLen(t) = RingLen(s) - 1
      <4>1. t.mux.ring[m] = Tail(s.mux.ring[m])
        BY <1>1, <1>4
      <4> QED BY <1>2, <2>1, <4>1, TailType DEF RingLen
    <3>2. Len(t.uart.fifo) = Len(s.uart.fifo) + 1
      <4>1. s.uart.fifo \in Seq(Bytes)
        BY FrontTypes
      <4> QED BY <1>3, <1>4, <2>1, <4>1, AppendProperties
    <3>3. SafeTake(t.uart) >= SafeTake(s.uart) - 1
      BY <1>1, <1>4, <3>2, SafeTakeStep
    <3> QED BY <2>0, <3>1, <3>3
  <2>2. CASE m # UART
    <3>1. t.mux.ring[UART] = s.mux.ring[UART]
      BY <1>9, <2>2 DEF FrontEnds
    <3> QED BY <2>0, <2>2, <3>1, <1>10 DEF RingLen
  <2> QED BY <2>1, <2>2
<1> QED BY <1>4, <1>6, <1>7, <1>9, <1>10, <1>11 DEF Moved, m

\* No byte is no move.
LEMMA MovedNot ==
  ASSUME NEW s \in FrontStates
  PROVE  Moved(s, s)
<1>1. HistStep(s.hist, s.hist, s.hist.got, s.hist.stale, s.hist.lost)
  BY FrontTypes, HistUnchanged
<1>2. RingLen(s) \in Nat /\ SafeTake(s.uart) \in Nat
  BY RingLenType
<1> QED BY <1>1, <1>2 DEF Moved

\* Moves follow one another.
LEMMA MovedTwice ==
  ASSUME NEW s \in FrontStates, NEW t \in FrontStates, NEW u \in FrontStates,
         Moved(s, t), Moved(t, u)
  PROVE  Moved(s, u)
<1> DEFINE m == s.mux.focus
<1>0. RingLen(s) \in Nat /\ RingLen(t) \in Nat /\ RingLen(u) \in Nat
      /\ SafeTake(s.uart) \in Nat /\ SafeTake(t.uart) \in Nat /\ SafeTake(u.uart) \in Nat
  BY RingLenType
<1>1. t.mux.focus = m /\ u.mux.focus = m /\ u.mux.escaped = s.mux.escaped
      /\ u.uart.fe = s.uart.fe
  BY DEF Moved
<1>2. HistStep(s.hist, u.hist, u.hist.got, s.hist.stale, s.hist.lost)
  BY DEF Moved, HistStep
<1>3. \A f \in FrontEnds : u.hist.got[f] \o u.mux.ring[f] = s.hist.got[f] \o s.mux.ring[f]
  BY DEF Moved
<1>4. \A f \in FrontEnds \ {m} : u.mux.ring[f] = s.mux.ring[f]
  BY <1>1 DEF Moved
<1>5. m # UART => u.uart = s.uart
  BY <1>1 DEF Moved
<1>6. RingLen(u) <= RingLen(s) /\ RingLen(u) - SafeTake(u.uart) <= RingLen(s) - SafeTake(s.uart)
  <2>1. RingLen(t) <= RingLen(s) /\ RingLen(t) - SafeTake(t.uart) <= RingLen(s) - SafeTake(s.uart)
    BY DEF Moved
  <2>2. RingLen(u) <= RingLen(t) /\ RingLen(u) - SafeTake(u.uart) <= RingLen(t) - SafeTake(t.uart)
    BY DEF Moved
  <2> QED BY <1>0, <2>1, <2>2
<1> QED BY <1>1, <1>2, <1>3, <1>4, <1>5, <1>6 DEF Moved

\* The loop: it ends with the ring empty or the front end refusing.
LEMMA AcceptLoop ==
  ASSUME NEW s \in FrontStates
  PROVE  LET u == FoldLeft(Deliver, s, s.mux.ring[s.mux.focus])
         IN  u \in FrontStates /\ Moved(s, u) /\ Stops(u)
<1> DEFINE m == s.mux.focus
<1> DEFINE q == s.mux.ring[m]
<1> DEFINE n == Len(q)
<1>1. m \in FrontEnds /\ q \in Seq(Bytes) /\ n \in Nat
  <2>1. s.mux.ring \in [FrontEnds -> Seq(Bytes)] /\ m \in FrontEnds
    BY FrontTypes
  <2>2. q \in Seq(Bytes)
    BY <2>1
  <2> QED BY <2>1, <2>2
<1> HIDE DEF q
<1>2. PICK run \in [0..n -> FrontStates] :
         /\ run[0] = s
         /\ \A k \in 1..n : run[k] = Deliver(run[k - 1], q[k])
         /\ FoldLeft(Deliver, s, q) = run[n]
  BY <1>1, DeliverRun
<1> HIDE DEF n, m
<1> DEFINE I == {k \in 0..n : /\ Moved(s, run[k])
                              /\ Stops(run[k]) \/ run[k].mux.ring[m] = SubSeq(q, k + 1, n)}
<1>3. 0 \in I
  <2>1. SubSeq(q, 0 + 1, n) = q
    BY <1>1, SubSeqFull DEF n
  <2>2. Moved(s, run[0]) /\ run[0].mux.ring[m] = q
    BY <1>2, MovedNot DEF q, m
  <2>3. 0 \in 0..n
    BY <1>1
  <2> QED BY <2>1, <2>2, <2>3
<1>4. ASSUME NEW k \in 1..n, k - 1 \in I PROVE k \in I
  <2> DEFINE a == run[k - 1]
  <2> DEFINE t == run[k]
  <2>0. k \in 0..n /\ k - 1 \in 0..n /\ k \in Nat /\ k - 1 + 1 = k
    BY <1>1
  <2>1. a \in FrontStates /\ t \in FrontStates /\ t = Deliver(a, q[k]) /\ q[k] \in Bytes
    <3>1. q[k] \in Bytes
      BY <1>1, ElementOfSeq DEF n
    <3> QED BY <1>2, <2>0, <3>1
  <2>2. Moved(s, a) /\ (Stops(a) \/ a.mux.ring[m] = SubSeq(q, k, n)) /\ a.mux.focus = m
    BY <1>4, <2>0 DEF Moved, m
  <2> HIDE DEF a, t
  <2>3. CASE Stops(a)
    <3>1. t = a
      BY <2>1, <2>3, DeliverEffect
    <3> QED BY <2>0, <2>2, <2>3, <3>1 DEF t
  <2>4. CASE ~Stops(a)
    <3>1. a.mux.ring[m] = SubSeq(q, k, n)
      BY <2>2, <2>4
    <3>2. Head(a.mux.ring[m]) = q[k] /\ Tail(a.mux.ring[m]) = SubSeq(q, k + 1, n)
      <4>1. k \in 1..Len(q) /\ n \in k..Len(q)
        BY <1>1 DEF n
      <4> QED BY <1>1, <3>1, <4>1, HeadTailOfSubSeq
    <3>3. Drained(a, t, q[k])
      BY <2>1, <2>4, DeliverEffect
    <3>4. Moved(a, t)
      BY <2>1, <2>2, <2>4, <3>2, <3>3, MovedByDrain
    <3>5. Moved(s, t)
      BY <2>1, <2>2, <3>4, MovedTwice
    <3>6. t.mux.ring[m] = Tail(a.mux.ring[m])
      <4>1. a.mux.ring \in [FrontEnds -> Seq(Bytes)]
        BY <2>1, FrontTypes
      <4> QED BY <1>1, <2>2, <3>3, <4>1 DEF Drained
    <3> QED BY <2>0, <3>2, <3>5, <3>6 DEF t
  <2> QED BY <2>3, <2>4
<1>5. \A k \in 0..n : k \in I
  <2> HIDE DEF I
  <2> QED BY <1>1, <1>3, <1>4, Climb
<1>6. n \in 0..n
  BY <1>1
<1>7. Moved(s, run[n]) /\ run[n] \in FrontStates
      /\ (Stops(run[n]) \/ run[n].mux.ring[m] = SubSeq(q, n + 1, n))
  BY <1>2, <1>5, <1>6
<1>8. SubSeq(q, n + 1, n) = <<>>
  BY <1>1, SubSeqEmpty
<1>9. Stops(run[n])
  BY <1>7, <1>8 DEF Stops, Moved, m
<1> QED BY <1>2, <1>7, <1>9 DEF q, m

\* The whole of it.
Accepted(s, t) ==
    /\ \E u \in FrontStates :
         /\ Moved(s, u) /\ t.mux = u.mux /\ t.uart = u.uart
         /\ HistStep(u.hist, t.hist, u.hist.got, [u.hist.stale EXCEPT ![s.mux.focus] = FALSE],
                     u.hist.lost)
    /\ Stops(t)

\* All of mux_chr_accept_input: bytes move until the front end refuses or has them all.
LEMMA AcceptEffect ==
  ASSUME NEW s \in FrontStates
  PROVE  MuxAcceptInput(s) \in FrontStates /\ Accepted(s, MuxAcceptInput(s))
<1> DEFINE m == s.mux.focus
<1> DEFINE u == FoldLeft(Deliver, s, s.mux.ring[m])
<1> DEFINE t == MuxAcceptInput(s)
<1> DEFINE h == [u.hist EXCEPT !.stale[m] = FALSE]
<1>1. u \in FrontStates /\ Moved(s, u) /\ Stops(u)
  BY AcceptLoop
<1>2. t = [u EXCEPT !.hist.stale[m] = FALSE]
  BY DEF MuxAcceptInput
<1> HIDE DEF u
<1>3. m \in FrontEnds /\ u.hist \in Histories
  BY <1>1, FrontTypes
<1> HIDE DEF m
<1>4. HistStep(u.hist, h, u.hist.got, [u.hist.stale EXCEPT ![m] = FALSE], u.hist.lost)
  BY <1>3, HistStale
<1>5. h \in Histories
  BY <1>4 DEF HistStep
<1>6. t = [u EXCEPT !.hist = h]
  BY <1>2
<1> HIDE DEF h, t
<1>7. t \in FrontStates /\ t.mux = u.mux /\ t.uart = u.uart /\ t.hist = h
  BY <1>1, <1>5, <1>6 DEF FrontStates
<1>8. Stops(t)
  BY <1>1, <1>7 DEF Stops, FrontEndCanRead
<1> QED BY <1>1, <1>4, <1>7, <1>8 DEF Accepted, t, h, m

-----------------------------------------------------------------------------
(* mux_chr_read.                                                           *)

\* The monitor takes every byte at once; a ring is used only with the multiplexer.
RingsUsed(s) == s.mux.ring[MONITOR] = <<>> /\ (~muxed => s.mux.ring[UART] = <<>>)

\* Front end f has been away, or lost bytes, since the last delivery to it.
Stale(s, f) == s.hist.stale[f] = TRUE

\* A front end with bytes waiting refuses more, or nobody has looked since its turn came back.
Awake(s) ==
    \A f \in FrontEnds :
        \/ s.mux.ring[f] = <<>> \/ Stale(s, f)
        \/ f = s.mux.focus /\ FrontEndCanRead(s, f) = 0

\* In a call whose bytes go to m, `rem' of them still to come: they fit, with a byte to spare
\* where the UART may take one less than it says.
Budget(s, m, rem) ==
    LET r == RingLen(s)
        k == SafeTake(s.uart)
    IN  /\ m = UART =>
             /\ r + rem <= MUX_BUFFER_SIZE + k
             /\ r > 0 => k = 0
             /\ r > 0 /\ Mid(s.uart) => r + rem + 1 <= MUX_BUFFER_SIZE
             /\ s.mux.focus = MONITOR => r + rem + 1 <= MUX_BUFFER_SIZE + k
        /\ m # UART => r < MUX_BUFFER_SIZE

\* The invariant in the middle of a call.
During(s, m, rem) ==
    /\ RingsUsed(s) /\ Awake(s) /\ s.hist.lost # "self"
    /\ ~s.hist.shrunk => Budget(s, m, rem)
    /\ m = s.mux.focus \/ Stale(s, m)

\* There are two front ends.
LEMMA FrontEndsAre ==
  /\ MONITOR # UART /\ FrontEnds = {MONITOR, UART}
  /\ 1 - MONITOR = UART /\ 1 - UART = MONITOR
  BY DEF FrontEnds, MONITOR, UART

\* What the multiplexer's byte does to the length of the UART's ring and to its FIFO.
LEMMA ByteCounts ==
  ASSUME NEW s \in FrontStates, NEW t \in FrontStates, NEW m \in FrontEnds, NEW b \in Bytes,
         MuxStep(s, t, m, b), RingsUsed(s), muxed
  PROVE  /\ t.uart.fe = s.uart.fe /\ t.mux.ring[MONITOR] = <<>>
         /\ Len(t.uart.fifo) \in {Len(s.uart.fifo), Len(s.uart.fifo) + 1}
         /\ RingLen(t) = RingLen(s) +
              (IF m = UART /\ Buffered(s, t, m, b) THEN 1 ELSE 0)
         /\ Buffered(s, t, m, b) => m = UART /\ t.uart = s.uart
<1>1. /\ s.mux.ring \in [FrontEnds -> Seq(Bytes)] /\ s.uart \in UartStates
      /\ t.mux.ring \in [FrontEnds -> Seq(Bytes)] /\ s.uart.fifo \in Seq(Bytes)
      /\ Len(s.uart.fifo) \in Nat /\ RingLen(s) \in Nat
  BY FrontTypes, RingLenType
<1>2. CASE Direct(s, t, m, b)
  <2>1. t.uart.fe = s.uart.fe /\ t.mux.ring = s.mux.ring
        /\ t.uart.fifo \in {s.uart.fifo, Append(s.uart.fifo, b)}
    BY <1>2 DEF Direct, Taken
  <2>2. ~Buffered(s, t, m, b)
    BY <1>2 DEF Direct, Taken, Buffered
  <2>3. Len(Append(s.uart.fifo, b)) = Len(s.uart.fifo) + 1
    BY <1>1, AppendProperties
  <2> QED BY <1>1, <2>1, <2>2, <2>3 DEF RingsUsed, RingLen
<1>3. CASE Buffered(s, t, m, b)
  <2>1. m = UART
    <3>1. FrontEndCanRead(s, MONITOR) # 0
      BY FrontEndsAre DEF FrontEndCanRead
    <3> QED BY <1>3, <3>1, FrontEndsAre DEF Buffered, RingsUsed
  <2>2. t.mux.ring = [s.mux.ring EXCEPT ![m] = RingPut(@, b)] /\ t.uart = s.uart
    BY <1>3 DEF Buffered
  <2>3. t.mux.ring[UART] = RingPut(s.mux.ring[UART], b) /\ t.mux.ring[MONITOR] = s.mux.ring[MONITOR]
    BY <1>1, <2>1, <2>2, FrontEndsAre
  <2>4. s.mux.ring[UART] \in Seq(Bytes)
    BY RingLenType
  <2>5. Len(RingPut(s.mux.ring[UART], b)) = Len(s.mux.ring[UART]) + 1
    BY <2>4, RingPutFacts
  <2> QED BY <1>1, <1>3, <2>1, <2>2, <2>3, <2>5 DEF RingsUsed, RingLen
<1>4. CASE Escaping(s, t, b) \/ Ignored(s, t, b) \/ Switched(s, t, b)
  <2>1. t.uart = s.uart /\ t.mux.ring = s.mux.ring /\ ~Buffered(s, t, m, b)
    BY <1>4 DEF Escaping, Ignored, Switched, Command, Buffered
  <2> QED BY <1>1, <2>1 DEF RingsUsed, RingLen
<1>5. CASE Breaking(s, t, b)
  <2>1. t.uart = UartPut(s.uart, BREAK) /\ t.mux.ring = s.mux.ring /\ ~Buffered(s, t, m, b)
    BY <1>5 DEF Breaking, Broken, Command, Buffered
  <2>2. t.uart.fe = s.uart.fe /\ Len(t.uart.fifo) \in {Len(s.uart.fifo), Len(s.uart.fifo) + 1}
    <3>1. Depth(s.uart) \in Nat
      BY <1>1, UartFacts
    <3>2. /\ UartPut(s.uart, BREAK).fe = s.uart.fe
          /\ Len(s.uart.fifo) < Depth(s.uart) =>
               Len(UartPut(s.uart, BREAK).fifo) = Len(s.uart.fifo) + 1
          /\ Len(s.uart.fifo) >= Depth(s.uart) =>
               Len(UartPut(s.uart, BREAK).fifo) = Len(s.uart.fifo)
      BY <1>1, UartPutEffect, BreakIsByte
    <3> QED BY <1>1, <2>1, <3>1, <3>2
  <2> QED BY <1>1, <2>1, <2>2 DEF RingsUsed, RingLen
<1> QED BY <1>2, <1>3, <1>4, <1>5 DEF MuxStep

\* The byte's room.
LEMMA ByteBudget ==
  ASSUME NEW s \in FrontStates, NEW t \in FrontStates, NEW m \in FrontEnds, NEW b \in Bytes,
         NEW rem \in Nat, rem # 0, muxed, RingsUsed(s), MuxStep(s, t, m, b), Budget(s, m, rem)
  PROVE  /\ Budget(t, m, rem - 1)
         /\ Buffered(s, t, m, b) => Len(s.mux.ring[m]) < MUX_BUFFER_SIZE
<1> DEFINE r == RingLen(s)
<1> DEFINE q == RingLen(t)
<1> DEFINE k == SafeTake(s.uart)
<1> DEFINE j == SafeTake(t.uart)
<1> DEFINE M == MUX_BUFFER_SIZE
<1>0. /\ r \in Nat /\ q \in Nat /\ k \in Nat /\ j \in Nat /\ M \in Nat
      /\ s.uart \in UartStates /\ t.uart \in UartStates
  BY RingLenType, FrontTypes, CharAssumption
<1>1. /\ t.uart.fe = s.uart.fe
      /\ Len(t.uart.fifo) \in {Len(s.uart.fifo), Len(s.uart.fifo) + 1}
      /\ q = r + (IF m = UART /\ Buffered(s, t, m, b) THEN 1 ELSE 0)
      /\ Buffered(s, t, m, b) => m = UART /\ t.uart = s.uart
  BY ByteCounts
<1>2. j <= k /\ j >= k - 1 /\ (Mid(t.uart) /\ ~Mid(s.uart) => k = 0)
  BY <1>0, <1>1, SafeTakeStep
<1>3. CASE m # UART
  <2>1. ~Buffered(s, t, m, b)
    BY <1>1, <1>3
  <2>2. q = r /\ r < M
    BY <1>0, <1>1, <1>3 DEF Budget
  <2> QED BY <1>3, <2>1, <2>2 DEF Budget
<1>4. CASE m = UART
  <2>1. /\ r + rem <= M + k
        /\ r > 0 => k = 0
        /\ r > 0 /\ Mid(s.uart) => r + rem + 1 <= M
        /\ s.mux.focus = MONITOR => r + rem + 1 <= M + k
    BY <1>4 DEF Budget
  <2> SUFFICES /\ q + (rem - 1) <= M + j
               /\ q > 0 => j = 0
               /\ q > 0 /\ Mid(t.uart) => q + (rem - 1) + 1 <= M
               /\ t.mux.focus = MONITOR => q + (rem - 1) + 1 <= M + j
               /\ Buffered(s, t, m, b) => r < M
    BY <1>4 DEF Budget, RingLen
  <2>2. CASE Buffered(s, t, m, b)
    <3>1. q = r + 1 /\ t.uart = s.uart /\ t.mux.focus = s.mux.focus
      BY <1>0, <1>1, <1>4, <2>2 DEF Buffered
    <3>2. k = 0 /\ (r = 0 => ~Mid(s.uart))
      <4>1. CASE r = 0
        <5>1. s.mux.ring[m] = <<>>
          BY <1>4, <4>1, RingLenType
        <5>2. UartCanReceive(s.uart) = 0
          BY <1>4, <2>2, <5>1 DEF Buffered, FrontEndCanRead
        <5> QED BY <1>0, <5>2, SafeFacts
      <4>2. CASE r # 0
        BY <1>0, <2>1, <4>2
      <4> QED BY <4>1, <4>2
    <3> HIDE DEF r, q, k, M
    <3>3. j = k /\ (Mid(t.uart) => Mid(s.uart))
      BY <3>1 DEF k
    <3> HIDE DEF j
    <3> QED BY <1>0, <2>1, <3>1, <3>2, <3>3
  <2>3. CASE ~Buffered(s, t, m, b)
    <3>1. q = r
      BY <1>0, <1>1, <2>3
    <3>2. t.mux.focus = s.mux.focus \/ s.mux.focus = MONITOR \/ (t.mux.focus = MONITOR /\ j = k)
      <4>1. CASE Switched(s, t, b)
        <5>1. t.mux.focus = 1 - s.mux.focus /\ t.uart = s.uart
          BY <4>1 DEF Switched
        <5>2. s.mux.focus \in FrontEnds
          BY FrontTypes
        <5>3. t.mux.focus = MONITOR \/ s.mux.focus = MONITOR
          BY <5>1, <5>2, FrontEndsAre
        <5> QED BY <5>1, <5>3
      <4>2. CASE ~Switched(s, t, b)
        <5>1. t.mux.focus = s.mux.focus
          <6> HIDE DEF r, q, k, j, M
          <6> QED BY <2>3, <4>2 DEF MuxStep, Direct, Escaping, Ignored, Breaking
        <5> QED BY <5>1
      <4> QED BY <4>1, <4>2
    <3>3. Direct(s, t, m, b) => r = 0
      BY <1>4, RingLenType DEF Direct
    <3>4. t.mux.focus = MONITOR => s.mux.focus = MONITOR \/ j = k
      BY <3>2
    <3> HIDE DEF r, q, k, M, j
    <3> QED BY <1>0, <1>2, <2>1, <2>3, <3>1, <3>4
  <2> QED BY <2>2, <2>3
<1> QED BY <1>3, <1>4

\* What the byte does to the history: it loses nothing but what a full ring loses.
LEMMA ByteHist ==
  ASSUME NEW s \in FrontStates, NEW t \in FrontStates, NEW m \in FrontEnds, NEW b \in Bytes,
         MuxStep(s, t, m, b)
  PROVE  /\ HistStep(s.hist, t.hist, t.hist.got, t.hist.stale, t.hist.lost)
         /\ \A f \in FrontEnds : Stale(s, f) => Stale(t, f)
         /\ t.hist.lost = s.hist.lost
              \/ /\ Buffered(s, t, m, b) /\ t.hist.lost = LostNow(s.hist)
                 /\ ~(Len(s.mux.ring[m]) < MUX_BUFFER_SIZE)
<1>1. s.hist.stale \in [FrontEnds -> BOOLEAN] /\ s.hist \in Histories
  BY FrontTypes
<1>2. CASE Direct(s, t, m, b)
  BY <1>2 DEF Direct, Taken, HistStep, Stale
<1>3. CASE Buffered(s, t, m, b)
  BY <1>3 DEF Buffered, HistStep, Stale
<1>4. CASE Escaping(s, t, b) \/ Ignored(s, t, b)
  BY <1>1, <1>4, HistUnchanged DEF Escaping, Ignored, HistStep, Stale
<1>5. CASE Switched(s, t, b)
  <2>1. HistStep(s.hist, t.hist, s.hist.got, [s.hist.stale EXCEPT ![s.mux.focus] = TRUE],
                 s.hist.lost)
    BY <1>5 DEF Switched
  <2>2. \A f \in FrontEnds : Stale(s, f) => [s.hist.stale EXCEPT ![s.mux.focus] = TRUE][f] = TRUE
    BY <1>1 DEF Stale
  <2> QED BY <2>1, <2>2 DEF HistStep, Stale
<1>6. CASE Breaking(s, t, b)
  <2>1. HistStep(s.hist, t.hist, s.hist.got, [s.hist.stale EXCEPT ![UART] = TRUE], s.hist.lost)
    BY <1>6 DEF Breaking, Broken
  <2>2. \A f \in FrontEnds : Stale(s, f) => [s.hist.stale EXCEPT ![UART] = TRUE][f] = TRUE
    BY <1>1 DEF Stale
  <2> QED BY <2>1, <2>2 DEF HistStep, Stale
<1> QED BY <1>2, <1>3, <1>4, <1>5, <1>6 DEF MuxStep

\* A front end with bytes waiting still refuses more, or is marked.
LEMMA ByteAwake ==
  ASSUME NEW s \in FrontStates, NEW t \in FrontStates, NEW m \in FrontEnds, NEW b \in Bytes,
         MuxStep(s, t, m, b), RingsUsed(s), muxed, Awake(s), m = s.mux.focus \/ Stale(s, m)
  PROVE  Awake(t) /\ (m = t.mux.focus \/ Stale(t, m))
<1>1. /\ s.hist.stale \in [FrontEnds -> BOOLEAN] /\ s.mux.ring \in [FrontEnds -> Seq(Bytes)]
      /\ s.mux.focus \in FrontEnds
  BY FrontTypes
<1>2. t.mux.ring[MONITOR] = <<>> /\ \A f \in FrontEnds : Stale(s, f) => Stale(t, f)
  BY ByteCounts, ByteHist
<1>3. (m = t.mux.focus \/ Stale(t, m))
  <2>1. CASE Switched(s, t, b)
    <3>1. t.hist.stale = [s.hist.stale EXCEPT ![s.mux.focus] = TRUE]
      BY <2>1 DEF Switched, HistStep
    <3>2. Stale(t, s.mux.focus)
      BY <1>1, <3>1 DEF Stale
    <3> QED BY <1>2, <3>2
  <2>2. CASE ~Switched(s, t, b)
    <3>1. t.mux.focus = s.mux.focus
      BY <2>2 DEF MuxStep, Direct, Buffered, Escaping, Ignored, Breaking
    <3> QED BY <1>2, <3>1
  <2> QED BY <2>1, <2>2
<1>4. t.mux.ring[UART] = <<>> \/ Stale(t, UART)
      \/ (UART = t.mux.focus /\ FrontEndCanRead(t, UART) = 0)
  <2>0. UART \in FrontEnds /\ UART # MONITOR
    BY FrontEndsAre
  <2>1. s.mux.ring[UART] = <<>> \/ Stale(s, UART)
        \/ (UART = s.mux.focus /\ FrontEndCanRead(s, UART) = 0)
    BY <2>0 DEF Awake
  <2>2. CASE Stale(s, UART)
    <3>1. Stale(t, UART)
      BY <1>2, <2>0, <2>2
    <3> QED BY <3>1
  <2>3. CASE ~Stale(s, UART) /\ Direct(s, t, m, b)
    <3>1. t.mux.ring = s.mux.ring /\ t.mux.focus = s.mux.focus /\ s.mux.ring[m] = <<>>
      BY <2>3 DEF Direct
    <3>2. CASE m = UART
      BY <3>1, <3>2
    <3>3. CASE m # UART
      <4>1. t.uart.fifo = s.uart.fifo /\ t.uart.fe = s.uart.fe
        BY <2>3, <3>3 DEF Direct, Taken
      <4>2. FrontEndCanRead(t, UART) = FrontEndCanRead(s, UART)
        BY <4>1 DEF FrontEndCanRead, UartCanReceive
      <4> QED BY <2>1, <2>3, <3>1, <4>2
    <3> QED BY <3>2, <3>3
  <2>4. CASE ~Stale(s, UART) /\ Buffered(s, t, m, b)
    <3>1. m = UART /\ t.uart = s.uart
      BY <2>4, ByteCounts
    <3>2. t.mux.focus = s.mux.focus /\ FrontEndCanRead(t, UART) = FrontEndCanRead(s, UART)
      BY <2>4, <3>1 DEF Buffered, FrontEndCanRead
    <3>3. UART = s.mux.focus
      BY <2>4, <3>1
    <3>4. FrontEndCanRead(s, UART) = 0
      BY <2>1, <2>4, <3>1 DEF Buffered
    <3> QED BY <3>2, <3>3, <3>4
  <2>5. CASE ~Stale(s, UART) /\ (Escaping(s, t, b) \/ Ignored(s, t, b))
    <3>1. t.mux.ring = s.mux.ring /\ t.mux.focus = s.mux.focus /\ t.uart = s.uart
      BY <2>5 DEF Escaping, Ignored, Command
    <3> QED BY <2>1, <2>5, <3>1 DEF FrontEndCanRead
  <2>6. CASE ~Stale(s, UART) /\ Switched(s, t, b)
    <3>1. t.hist.stale = [s.hist.stale EXCEPT ![s.mux.focus] = TRUE]
          /\ t.mux.ring = s.mux.ring
      BY <2>6 DEF Switched, HistStep, Command
    <3>2. CASE s.mux.focus = UART
      BY <1>1, <3>1, <3>2 DEF Stale
    <3>3. CASE s.mux.focus # UART
      BY <2>1, <2>6, <3>1, <3>3
    <3> QED BY <3>2, <3>3
  <2>7. CASE Breaking(s, t, b)
    <3>1. t.hist.stale = [s.hist.stale EXCEPT ![UART] = TRUE]
      BY <2>7 DEF Breaking, Broken, HistStep
    <3>2. Stale(t, UART)
      BY <1>1, <2>0, <3>1 DEF Stale
    <3> QED BY <3>2
  <2> QED BY <2>2, <2>3, <2>4, <2>5, <2>6, <2>7 DEF MuxStep
<1> QED BY <1>2, <1>3, <1>4, FrontEndsAre DEF Awake

\* A byte of the loop.
LEMMA DuringByte ==
  ASSUME NEW s \in FrontStates, NEW m \in FrontEnds, NEW b \in Bytes, NEW rem \in Nat, rem # 0,
         muxed, During(s, m, rem)
  PROVE  LET t == MuxByte(s, m, b)
         IN  t \in FrontStates /\ During(t, m, rem - 1) /\ MuxStep(s, t, m, b)
<1> DEFINE t == MuxByte(s, m, b)
<1>1. t \in FrontStates /\ MuxStep(s, t, m, b)
  BY MuxByteEffect
<1> HIDE DEF t
<1>2. RingsUsed(s) /\ Awake(s) /\ (m = s.mux.focus \/ Stale(s, m))
  BY DEF During
<1>3. Awake(t) /\ (m = t.mux.focus \/ Stale(t, m))
  BY <1>1, <1>2, ByteAwake
<1>4. RingsUsed(t)
  BY <1>1, <1>2, ByteCounts DEF RingsUsed
<1>5. t.hist.shrunk = s.hist.shrunk
  BY <1>1, ByteHist DEF HistStep
<1>6. ~s.hist.shrunk => Budget(s, m, rem)
  BY DEF During
<1>7. ~s.hist.shrunk =>
        Budget(t, m, rem - 1) /\ (Buffered(s, t, m, b) => Len(s.mux.ring[m]) < MUX_BUFFER_SIZE)
  BY <1>1, <1>2, <1>6, ByteBudget
<1>8. t.hist.lost # "self"
  <2>1. s.hist.lost # "self"
    BY DEF During
  <2>2. CASE s.hist.shrunk
    BY <1>1, <2>1, <2>2, ByteHist DEF LostNow
  <2>3. CASE ~s.hist.shrunk
    BY <1>1, <1>7, <2>1, <2>3, ByteHist
  <2> QED BY <2>2, <2>3, FrontTypes
<1> QED BY <1>1, <1>3, <1>4, <1>5, <1>7, <1>8 DEF During, t

-----------------------------------------------------------------------------
(* The invariant of the front ends, and what a call needs.                 *)

\* No byte is lost for want of room, and the UART's ring keeps a place free where the next
\* call may bring one byte more than the ring has room for.
Held(s) ==
    /\ s.hist.lost # "self"
    /\ ~s.hist.shrunk /\ muxed =>
        /\ RingLen(s) <= MUX_BUFFER_SIZE
        /\ Mid(s.uart) \/ s.mux.focus = MONITOR => RingLen(s) < MUX_BUFFER_SIZE

\* There is room for n bytes.
Room(s, n) ==
    ~s.hist.shrunk =>
        /\ muxed /\ s.mux.focus = UART => RingLen(s) + n <= MUX_BUFFER_SIZE + SafeTake(s.uart)
        /\ ~muxed => Len(s.uart.fifo) + n <= Depth(s.uart)

\* The front ends have, or have waiting, what the state a of the reference says.
RoutesLike(s, a) ==
    s.hist.lost = "no" =>
        /\ a.focus = s.mux.focus /\ a.escaped = s.mux.escaped
        /\ \A f \in FrontEnds : s.hist.got[f] \o s.mux.ring[f] = a.to[f]
\* So it is with the bytes passed so far.
RoutedSoFar(s) ==
    /\ muxed => RoutesLike(s, Routing(s.hist.passed))
    /\ ~muxed /\ s.hist.lost = "no" => s.hist.got[UART] = Bare(s.hist.passed)

\* The invariant of the front ends.
FrontInv(s) == RingsUsed(s) /\ Held(s) /\ Awake(s) /\ RoutedSoFar(s)

\* What a handler leaves alone of the history.
SameHist(s, t) ==
    /\ t.hist.raw = s.hist.raw /\ t.hist.passed = s.hist.passed /\ t.hist.first = s.hist.first
    /\ t.hist.clean = s.hist.clean /\ t.hist.shrunk = s.hist.shrunk /\ t.hist.guest = s.hist.guest

\* All an accept needs.
Acceptable(s) ==
    /\ RingsUsed(s) /\ s.hist.lost # "self"
    /\ \A f \in FrontEnds : f # s.mux.focus => s.mux.ring[f] = <<>> \/ Stale(s, f)
    /\ ~s.hist.shrunk =>
        /\ RingLen(s) <= MUX_BUFFER_SIZE
        /\ s.mux.focus = MONITOR => RingLen(s) < MUX_BUFFER_SIZE

\* mux_chr_accept_input makes the invariant hold, and takes no room away.
LEMMA AcceptKeeps ==
  ASSUME NEW s \in FrontStates, muxed, Acceptable(s)
  PROVE  LET t == MuxAcceptInput(s)
         IN  /\ t \in FrontStates /\ RingsUsed(t) /\ Awake(t) /\ Held(t) /\ Stops(t)
             /\ t.mux.focus = s.mux.focus /\ SameHist(s, t)
             /\ \A a : RoutesLike(s, a) => RoutesLike(t, a)
             /\ \A n \in Nat : Room(s, n) => Room(t, n)
<1> DEFINE t == MuxAcceptInput(s)
<1> DEFINE m == s.mux.focus
<1>1. t \in FrontStates /\ Accepted(s, t)
  BY AcceptEffect
<1> HIDE DEF t
<1>2. Stops(t)
  BY <1>1 DEF Accepted
<1>3. PICK u \in FrontStates :
         /\ Moved(s, u) /\ t.mux = u.mux /\ t.uart = u.uart
         /\ HistStep(u.hist, t.hist, u.hist.got, [u.hist.stale EXCEPT ![m] = FALSE], u.hist.lost)
  BY <1>1 DEF Accepted
<1>4. /\ u.mux.focus = m /\ u.mux.escaped = s.mux.escaped /\ u.uart.fe = s.uart.fe
      /\ HistStep(s.hist, u.hist, u.hist.got, s.hist.stale, s.hist.lost)
      /\ \A f \in FrontEnds : u.hist.got[f] \o u.mux.ring[f] = s.hist.got[f] \o s.mux.ring[f]
      /\ \A f \in FrontEnds \ {m} : u.mux.ring[f] = s.mux.ring[f]
      /\ m # UART => u.uart = s.uart
      /\ RingLen(u) <= RingLen(s)
      /\ RingLen(u) - SafeTake(u.uart) <= RingLen(s) - SafeTake(s.uart)
  BY <1>3 DEF Moved
<1>5. SameHist(s, t) /\ t.hist.lost = s.hist.lost /\ t.hist.got = u.hist.got
      /\ t.hist.stale = [s.hist.stale EXCEPT ![m] = FALSE]
  BY <1>3, <1>4 DEF HistStep, SameHist
<1>6. /\ m \in FrontEnds /\ s.hist.stale \in [FrontEnds -> BOOLEAN]
      /\ t.mux.ring \in [FrontEnds -> Seq(Bytes)] /\ t.uart \in UartStates
  BY <1>1, FrontTypes
<1>7. /\ RingLen(s) \in Nat /\ RingLen(t) \in Nat /\ SafeTake(s.uart) \in Nat
      /\ SafeTake(t.uart) \in Nat /\ RingLen(t) = RingLen(u)
      /\ (RingLen(t) = 0 <=> t.mux.ring[UART] = <<>>)
  <2>1. RingLen(t) = RingLen(u)
    BY <1>3 DEF RingLen
  <2> QED BY <1>1, <2>1, RingLenType
<1>8. t.mux.ring[MONITOR] = <<>>
  <2>1. CASE m = MONITOR
    <3>1. FrontEndCanRead(t, MONITOR) # 0
      BY FrontEndsAre DEF FrontEndCanRead
    <3> QED BY <1>2, <1>3, <1>4, <2>1, <3>1 DEF Stops
  <2>2. CASE m # MONITOR
    BY <1>3, <1>4, <2>2, FrontEndsAre DEF Acceptable, RingsUsed
  <2> QED BY <2>1, <2>2
<1>9. Awake(t)
  <2> SUFFICES ASSUME NEW f \in FrontEnds
               PROVE  \/ t.mux.ring[f] = <<>> \/ Stale(t, f)
                      \/ f = t.mux.focus /\ FrontEndCanRead(t, f) = 0
    BY DEF Awake
  <2>1. CASE f = m
    BY <1>2, <1>3, <1>4, <2>1 DEF Stops
  <2>2. CASE f # m
    <3>1. s.mux.ring[f] = <<>> \/ Stale(s, f)
      BY <2>2 DEF Acceptable
    <3>2. t.mux.ring[f] = s.mux.ring[f]
      BY <1>3, <1>4, <2>2
    <3>3. Stale(s, f) => Stale(t, f)
      BY <1>5, <1>6, <2>2 DEF Stale
    <3> QED BY <3>1, <3>2, <3>3
  <2> QED BY <2>1, <2>2
<1>10. Held(t)
  <2> SUFFICES ASSUME ~t.hist.shrunk
               PROVE  /\ RingLen(t) <= MUX_BUFFER_SIZE
                      /\ Mid(t.uart) \/ t.mux.focus = MONITOR => RingLen(t) < MUX_BUFFER_SIZE
    BY <1>5 DEF Held, Acceptable
  <2>0. MUX_BUFFER_SIZE \in Nat /\ MUX_BUFFER_SIZE >= 1
    BY CharAssumption
  <2>1. RingLen(s) <= MUX_BUFFER_SIZE /\ (m = MONITOR => RingLen(s) < MUX_BUFFER_SIZE)
    BY <1>5 DEF Acceptable, SameHist
  <2>2. t.mux.focus = m
    BY <1>3, <1>4
  <2>3. m = UART /\ Mid(t.uart) => RingLen(t) = 0
    <3> SUFFICES ASSUME m = UART, Mid(t.uart) PROVE t.mux.ring[UART] = <<>>
      BY <1>7
    <3>1. UartCanReceive(t.uart) # 0
      BY <1>6, SafeFacts
    <3> QED BY <1>2, <2>2, <3>1 DEF Stops, FrontEndCanRead
  <2>4. RingLen(t) <= RingLen(s)
    BY <1>3, <1>4 DEF RingLen
  <2>5. RingLen(t) <= MUX_BUFFER_SIZE
    BY <1>7, <2>0, <2>1, <2>4
  <2>6. m = MONITOR => RingLen(t) < MUX_BUFFER_SIZE
    BY <1>7, <2>0, <2>1, <2>4
  <2>7. Mid(t.uart) /\ m # MONITOR => RingLen(t) < MUX_BUFFER_SIZE
    BY <1>6, <2>0, <2>3, FrontEndsAre
  <2> QED BY <2>2, <2>5, <2>6, <2>7
<1>11. ASSUME NEW a, RoutesLike(s, a) PROVE RoutesLike(t, a)
  BY <1>3, <1>4, <1>5, <1>11 DEF RoutesLike
<1>12. ASSUME NEW n \in Nat, Room(s, n) PROVE Room(t, n)
  <2> SUFFICES ASSUME ~t.hist.shrunk, t.mux.focus = UART
               PROVE  RingLen(t) + n <= MUX_BUFFER_SIZE + SafeTake(t.uart)
    BY DEF Room
  <2>1. RingLen(s) + n <= MUX_BUFFER_SIZE + SafeTake(s.uart)
    BY <1>3, <1>4, <1>5, <1>12 DEF Room, SameHist
  <2>2. RingLen(t) - SafeTake(t.uart) <= RingLen(s) - SafeTake(s.uart)
    BY <1>3, <1>4, <1>7
  <2>3. MUX_BUFFER_SIZE \in Nat
    BY CharAssumption
  <2> QED BY <1>7, <2>1, <2>2, <2>3
<1>13. RingsUsed(t) /\ t.mux.focus = s.mux.focus
  BY <1>3, <1>4, <1>8 DEF RingsUsed
<1> QED BY <1>1, <1>2, <1>5, <1>9, <1>10, <1>11, <1>12, <1>13 DEF t

\* Before the bytes of a call: the budget is the room that was asked for.
LEMMA DuringStart ==
  ASSUME NEW s \in FrontStates, muxed, RingsUsed(s), Awake(s), Held(s), Stops(s),
         NEW n \in Nat, Room(s, n)
  PROVE  During(s, s.mux.focus, n)
<1> DEFINE m == s.mux.focus
<1>1. ASSUME ~s.hist.shrunk PROVE Budget(s, m, n)
  <2>0. /\ RingLen(s) \in Nat /\ SafeTake(s.uart) \in Nat /\ s.uart \in UartStates
        /\ (RingLen(s) = 0 <=> s.mux.ring[UART] = <<>>) /\ m \in FrontEnds
    BY RingLenType, FrontTypes
  <2>1. CASE m = UART
    <3>1. RingLen(s) + n <= MUX_BUFFER_SIZE + SafeTake(s.uart)
      BY <1>1, <2>1 DEF Room
    <3>2. RingLen(s) > 0 => UartCanReceive(s.uart) = 0
      BY <2>0, <2>1 DEF Stops, FrontEndCanRead
    <3>3. RingLen(s) > 0 => SafeTake(s.uart) = 0 /\ ~Mid(s.uart)
      BY <2>0, <3>2, SafeFacts
    <3> QED BY <2>1, <3>1, <3>3, FrontEndsAre DEF Budget
  <2>2. CASE m # UART
    <3>1. m = MONITOR
      BY <2>0, <2>2, FrontEndsAre
    <3> QED BY <1>1, <2>2, <3>1 DEF Held, Budget
  <2> QED BY <2>1, <2>2
<1> QED BY <1>1 DEF During, Held

\* After them.
LEMMA DuringEnd ==
  ASSUME NEW s \in FrontStates, muxed, NEW m \in FrontEnds, During(s, m, 0)
  PROVE  RingsUsed(s) /\ Awake(s) /\ Held(s)
<1>0. /\ RingLen(s) \in Nat /\ SafeTake(s.uart) \in Nat /\ MUX_BUFFER_SIZE \in Nat
      /\ MUX_BUFFER_SIZE >= 1
  BY RingLenType, CharAssumption
<1>1. ASSUME ~s.hist.shrunk
      PROVE  /\ RingLen(s) <= MUX_BUFFER_SIZE
             /\ Mid(s.uart) \/ s.mux.focus = MONITOR => RingLen(s) < MUX_BUFFER_SIZE
  <2>1. Budget(s, m, 0)
    BY <1>1 DEF During
  <2> QED BY <1>0, <2>1 DEF Budget
<1> QED BY <1>1 DEF During, Held

-----------------------------------------------------------------------------
(* The bytes of a call against the reference.                              *)

\* Appending behind what is there.
LEMMA ConcatAppend ==
  ASSUME NEW p \in Seq(Bytes), NEW q \in Seq(Bytes), NEW b \in Bytes
  PROVE  p \o Append(q, b) = Append(p \o q, b) /\ Append(p, b) \o <<>> = Append(p \o <<>>, b)
<1>1. <<b>> \in Seq(Bytes) /\ p \o q \in Seq(Bytes) /\ Append(p, b) \in Seq(Bytes)
  BY ConcatProperties, AppendProperties
<1>2. Append(q, b) = q \o <<b>> /\ Append(p \o q, b) = (p \o q) \o <<b>>
  BY <1>1, AppendIsConcat
<1>3. (p \o q) \o <<b>> = p \o (q \o <<b>>)
  BY <1>1, ConcatAssociative
<1>4. p \o <<>> = p /\ Append(p, b) \o <<>> = Append(p, b)
  BY <1>1, ConcatEmptySeq
<1> QED BY <1>2, <1>3, <1>4

\* A byte does to the front ends what it does to the reference.
LEMMA RoutesByte ==
  ASSUME NEW s \in FrontStates, NEW t \in FrontStates, NEW m \in FrontEnds, NEW p \in Tagged,
         NEW a \in RouteStates, MuxStep(s, t, m, p[1]), RoutesLike(s, a),
         s.hist.lost = "no" => (IF p[2] THEN a.focus ELSE a.m) = m
  PROVE  /\ RoutesLike(t, RouteByte(a, p))
         /\ t.hist.lost = "no" => s.hist.lost = "no" /\ RouteByte(a, p).m = m
<1> DEFINE b == p[1]
<1> DEFINE c == RouteByte(a, p)
<1>0. b \in Bytes
  BY DEF Tagged
<1>1. t.hist.lost = "no" => s.hist.lost = "no"
  <2> HIDE DEF b
  <2>1. t.hist.lost = s.hist.lost \/ t.hist.lost = LostNow(s.hist)
    BY <1>0, ByteHist DEF b
  <2> QED BY <2>1 DEF LostNow
<1> SUFFICES ASSUME s.hist.lost = "no", t.hist.lost = "no"
             PROVE  /\ c.focus = t.mux.focus /\ c.escaped = t.mux.escaped /\ c.m = m
                    /\ \A f \in FrontEnds : t.hist.got[f] \o t.mux.ring[f] = c.to[f]
  BY <1>1 DEF RoutesLike
<1>2. /\ a.focus = s.mux.focus /\ a.escaped = s.mux.escaped
      /\ \A f \in FrontEnds : s.hist.got[f] \o s.mux.ring[f] = a.to[f]
  BY DEF RoutesLike
<1> DEFINE data == a.escaped = (b[1] = "escape")
<1>3. /\ c.m = m
      /\ c.focus = IF ~data /\ a.escaped /\ b[1] = "c" THEN 1 - a.focus ELSE a.focus
      /\ c.escaped = (~data /\ ~a.escaped)
      /\ c.to = IF data THEN [a.to EXCEPT ![m] = Append(@, b)] ELSE a.to
  BY RouteEffect
<1>4. /\ s.mux.ring \in [FrontEnds -> Seq(Bytes)] /\ s.hist.got \in [FrontEnds -> Seq(Bytes)]
      /\ s.mux.escaped \in BOOLEAN /\ t.mux.escaped \in BOOLEAN
      /\ a.to \in [FrontEnds -> Seq(Bytes)] /\ a.escaped \in BOOLEAN
  BY FrontTypes DEF RouteStates
<1>5. ForFrontEnd(s, b[1]) <=> data
  BY <1>2, <1>4 DEF ForFrontEnd
<1> HIDE DEF b, c, data
<1>6. CASE Direct(s, t, m, b)
  <2>1. data /\ s.mux.ring[m] = <<>> /\ t.mux.ring = s.mux.ring /\ t.mux.focus = s.mux.focus
        /\ t.mux.escaped = FALSE
        /\ t.hist.got = [s.hist.got EXCEPT ![m] = Append(@, b)]
    BY <1>4, <1>5, <1>6 DEF Direct, Taken, HistStep
  <2>2. ASSUME NEW f \in FrontEnds PROVE t.hist.got[f] \o t.mux.ring[f] = c.to[f]
    <3>1. CASE f = m
      <4>1. t.hist.got[f] = Append(s.hist.got[m], b) /\ c.to[f] = Append(a.to[m], b)
        BY <1>3, <1>4, <2>1, <3>1
      <4>2. s.hist.got[m] \in Seq(Bytes)
        BY <1>4
      <4>3. Append(s.hist.got[m], b) \o <<>> = Append(s.hist.got[m] \o <<>>, b)
        BY <1>0, <4>2, ConcatAppend
      <4> QED BY <1>2, <2>1, <3>1, <4>1, <4>3
    <3>2. CASE f # m
      <4>1. t.hist.got[f] = s.hist.got[f] /\ c.to[f] = a.to[f]
        BY <1>3, <1>4, <2>1, <3>2
      <4> QED BY <1>2, <2>1, <4>1
    <3> QED BY <3>1, <3>2
  <2> QED BY <1>2, <1>3, <2>1, <2>2
<1>7. CASE Buffered(s, t, m, b)
  <2>1. data /\ t.hist.got = s.hist.got /\ t.mux.focus = s.mux.focus /\ t.mux.escaped = FALSE
        /\ t.mux.ring = [s.mux.ring EXCEPT ![m] = RingPut(@, b)]
        /\ Len(s.mux.ring[m]) < MUX_BUFFER_SIZE
    <3>1. Len(s.mux.ring[m]) < MUX_BUFFER_SIZE
      BY <1>7 DEF Buffered, HistStep, LostNow
    <3> QED BY <1>4, <1>5, <1>7, <3>1 DEF Buffered, HistStep
  <2>2. ASSUME NEW f \in FrontEnds PROVE t.hist.got[f] \o t.mux.ring[f] = c.to[f]
    <3>1. CASE f = m
      <4>1. s.mux.ring[m] \in Seq(Bytes) /\ s.hist.got[m] \in Seq(Bytes)
        BY <1>4
      <4>2. t.mux.ring[f] = Append(s.mux.ring[m], b) /\ c.to[f] = Append(a.to[m], b)
        <5>1. RingPut(s.mux.ring[m], b) = Append(s.mux.ring[m], b)
          BY <1>0, <2>1, <4>1, RingPutFacts
        <5> QED BY <1>3, <1>4, <2>1, <3>1, <5>1
      <4>3. s.hist.got[m] \o Append(s.mux.ring[m], b) = Append(s.hist.got[m] \o s.mux.ring[m], b)
        BY <1>0, <4>1, ConcatAppend
      <4> QED BY <1>2, <2>1, <3>1, <4>2, <4>3
    <3>2. CASE f # m
      <4>1. t.mux.ring[f] = s.mux.ring[f] /\ c.to[f] = a.to[f]
        BY <1>3, <1>4, <2>1, <3>2
      <4> QED BY <1>2, <2>1, <4>1
    <3> QED BY <3>1, <3>2
  <2> QED BY <1>2, <1>3, <2>1, <2>2
<1>8. CASE Escaping(s, t, b)
  <2>1. ~data /\ ~a.escaped /\ t.hist = s.hist /\ t.mux.ring = s.mux.ring
        /\ t.mux.focus = s.mux.focus /\ t.mux.escaped = TRUE
    BY <1>2, <1>4, <1>5, <1>8 DEF Escaping, Command
  <2>2. \A f \in FrontEnds : t.hist.got[f] \o t.mux.ring[f] = a.to[f]
    BY <1>2, <2>1
  <2>3. c.to = a.to /\ c.focus = a.focus /\ c.escaped = TRUE /\ c.m = m
    BY <1>3, <2>1
  <2>4. a.focus = s.mux.focus
    BY <1>2
  <2>5. c.focus = t.mux.focus /\ c.escaped = t.mux.escaped
    BY ONLY <2>1, <2>3, <2>4
  <2> QED BY <2>2, <2>3, <2>5
<1>9. CASE Ignored(s, t, b)
  <2>1. ~data /\ a.escaped /\ t.hist = s.hist /\ t.mux.ring = s.mux.ring
        /\ t.mux.focus = s.mux.focus /\ t.mux.escaped = FALSE /\ b[1] # "c"
    BY <1>2, <1>4, <1>5, <1>9 DEF Ignored, Command
  <2>2. \A f \in FrontEnds : t.hist.got[f] \o t.mux.ring[f] = a.to[f]
    BY <1>2, <2>1
  <2>3. c.to = a.to /\ c.focus = a.focus /\ c.escaped = FALSE /\ c.m = m
    BY <1>3, <2>1
  <2>4. a.focus = s.mux.focus
    BY <1>2
  <2>5. c.focus = t.mux.focus /\ c.escaped = t.mux.escaped
    BY ONLY <2>1, <2>3, <2>4
  <2> QED BY <2>2, <2>3, <2>5
<1>10. CASE Breaking(s, t, b)
  <2>1. ~data /\ a.escaped /\ t.hist.got = s.hist.got /\ t.mux.ring = s.mux.ring
        /\ t.mux.focus = s.mux.focus /\ t.mux.escaped = FALSE /\ b[1] # "c"
    BY <1>2, <1>4, <1>5, <1>10 DEF Breaking, Command, Broken, HistStep
  <2>2. \A f \in FrontEnds : t.hist.got[f] \o t.mux.ring[f] = a.to[f]
    BY <1>2, <2>1
  <2>3. c.to = a.to /\ c.focus = a.focus /\ c.escaped = FALSE /\ c.m = m
    BY <1>3, <2>1
  <2>4. a.focus = s.mux.focus
    BY <1>2
  <2>5. c.focus = t.mux.focus /\ c.escaped = t.mux.escaped
    BY ONLY <2>1, <2>3, <2>4
  <2> QED BY <2>2, <2>3, <2>5
<1>11. CASE Switched(s, t, b)
  <2>1. ~data /\ a.escaped /\ t.hist.got = s.hist.got /\ t.mux.ring = s.mux.ring
        /\ t.mux.focus = 1 - s.mux.focus /\ t.mux.escaped = FALSE /\ b[1] = "c"
    BY <1>2, <1>4, <1>5, <1>11 DEF Switched, Command, HistStep
  <2>2. \A f \in FrontEnds : t.hist.got[f] \o t.mux.ring[f] = a.to[f]
    BY <1>2, <2>1
  <2>3. c.to = a.to /\ c.focus = 1 - a.focus /\ c.escaped = FALSE /\ c.m = m
    BY <1>3, <2>1
  <2>4. a.focus = s.mux.focus
    BY <1>2
  <2>5. c.focus = t.mux.focus /\ c.escaped = t.mux.escaped
    BY ONLY <2>1, <2>3, <2>4
  <2> QED BY <2>2, <2>3, <2>5
<1> QED BY <1>6, <1>7, <1>8, <1>9, <1>10, <1>11 DEF MuxStep, b

\* The first state of the reference.
LEMMA UnroutedType == Unrouted \in RouteStates
  BY DEF Unrouted, RouteStates, FrontEnds

\* The fold over what was passed before and what comes now goes on from where it was.
LEMMA RoutingGoesOn ==
  ASSUME NEW p \in Seq(Tagged), NEW q \in Seq(Tagged)
  PROVE  \E run \in [0..Len(q) -> RouteStates] :
           /\ run[0] = Routing(p)
           /\ \A k \in 1..Len(q) : run[k] = RouteByte(run[k - 1], q[k])
           /\ Routing(p \o q) = run[Len(q)]
<1> DEFINE n == Len(p)
<1> DEFINE l == Len(q)
<1> DEFINE pq == p \o q
<1>1. n \in Nat /\ l \in Nat /\ pq \in Seq(Tagged) /\ Len(pq) = n + l
  BY ConcatProperties
<1>2. \A k \in 1..n : k \in 1..Len(pq) /\ pq[k] = p[k]
  BY <1>1, ConcatProperties
<1>3. \A k \in 1..l : n + k \in 1..Len(pq) /\ pq[n + k] = q[k]
  BY <1>1, ConcatProperties
<1> HIDE DEF pq
<1>4. PICK r \in [0..Len(pq) -> RouteStates] :
         /\ r[0] = Unrouted
         /\ \A k \in 1..Len(pq) : r[k] = RouteByte(r[k - 1], pq[k])
         /\ FoldLeft(RouteByte, Unrouted, pq) = r[Len(pq)]
  BY <1>1, UnroutedType, RouteRun
<1>5. PICK s \in [0..n -> RouteStates] :
         /\ s[0] = Unrouted
         /\ \A k \in 1..n : s[k] = RouteByte(s[k - 1], p[k])
         /\ FoldLeft(RouteByte, Unrouted, p) = s[n]
  BY UnroutedType, RouteRun
<1> HIDE DEF n, l
<1> DEFINE I == {k \in 0..n : r[k] = s[k]}
<1>6. \A k \in 0..n : k \in I
  <2>1. 0 \in I
    BY <1>1, <1>4, <1>5
  <2>2. \A k \in 1..n : k - 1 \in I => k \in I
    <3> SUFFICES ASSUME NEW k \in 1..n, r[k - 1] = s[k - 1] PROVE r[k] = s[k]
      BY <1>1
    <3> QED BY <1>2, <1>4, <1>5
  <2> HIDE DEF I
  <2> QED BY <1>1, <2>1, <2>2, Climb
<1>7. r[n] = Routing(p)
  <2>1. n \in 0..n
    BY <1>1
  <2> QED BY <1>5, <1>6, <2>1 DEF Routing
<1> DEFINE run == [k \in 0..l |-> r[n + k]]
<1>8. run \in [0..l -> RouteStates]
  BY <1>1, <1>4
<1>9. run[0] = Routing(p) /\ run[l] = r[n + l]
  BY <1>1, <1>7
<1>10. ASSUME NEW k \in 1..l PROVE run[k] = RouteByte(run[k - 1], q[k])
  <2> DEFINE i == n + k
  <2>1. run[k] = r[i] /\ run[k - 1] = r[i - 1]
    BY <1>1
  <2>2. i \in 1..Len(pq) /\ pq[i] = q[k]
    BY <1>3
  <2> HIDE DEF i
  <2>4. r[i] = RouteByte(r[i - 1], pq[i])
    BY <1>4, <2>2
  <2> HIDE DEF run
  <2> QED BY <2>1, <2>2, <2>4
<1>11. Routing(p \o q) = run[l]
  BY <1>1, <1>4, <1>9 DEF Routing, pq
<1> HIDE DEF run
<1> QED BY <1>8, <1>9, <1>10, <1>11 DEF l

-----------------------------------------------------------------------------
(* qemu_chr_be_write.                                                      *)

\* The bytes of a call, with their marks.
Tag(buf) == [i \in 1..Len(buf) |-> <<buf[i], i = 1>>]

\* The marks: the first byte of a call is the one at which the focus is read.
LEMMA TagType ==
  ASSUME NEW buf \in Seq(Bytes)
  PROVE  Tag(buf) \in Seq(Tagged) /\ Len(Tag(buf)) = Len(buf) /\ Len(buf) \in Nat
         /\ \A i \in 1..Len(buf) : Tag(buf)[i] = <<buf[i], i = 1>> /\ buf[i] \in Bytes
<1> DEFINE n == Len(buf)
<1>1. n \in Nat /\ \A i \in 1..n : buf[i] \in Bytes
  BY ElementOfSeq
<1>2. \A i \in 1..n : <<buf[i], i = 1>> \in Tagged
  BY <1>1 DEF Tagged
<1>3. Tag(buf) \in [1..n -> Tagged]
  BY <1>2 DEF Tag
<1>4. Tag(buf) \in Seq(Tagged)
  BY <1>1, <1>3, SeqDef
<1>5. 1..Len(Tag(buf)) = 1..n /\ Len(Tag(buf)) \in Nat
  BY <1>3, <1>4, LenProperties
<1>6. Len(Tag(buf)) = n
  BY <1>1, <1>5
<1> QED BY <1>1, <1>4, <1>6 DEF Tag

\* From s to t the bytes of buf are passed on.
Passes(s, t, buf) ==
    /\ t.hist.passed = s.hist.passed \o Tag(buf)
    /\ t.hist.raw = s.hist.raw /\ t.hist.first = s.hist.first /\ t.hist.clean = s.hist.clean
    /\ t.hist.shrunk = s.hist.shrunk /\ t.hist.guest = s.hist.guest

\* Bytes that are passed on.
SetPassed(s, p) == [s EXCEPT !.hist.passed = p]

\* Nothing else changes with it.
LEMMA PassedSet ==
  ASSUME NEW s \in FrontStates, NEW p \in Seq(Tagged)
  PROVE  LET t == SetPassed(s, p)
         IN  /\ t \in FrontStates /\ t.mux = s.mux /\ t.uart = s.uart /\ t.hist.passed = p
             /\ t.hist.raw = s.hist.raw /\ t.hist.first = s.hist.first
             /\ t.hist.clean = s.hist.clean
             /\ t.hist.shrunk = s.hist.shrunk /\ t.hist.guest = s.hist.guest
             /\ t.hist.got = s.hist.got /\ t.hist.lost = s.hist.lost /\ t.hist.stale = s.hist.stale
  BY DEF SetPassed, FrontStates, Histories, Tagged

\* The loop of mux_chr_read keeps its invariant and follows the reference.
LEMMA MuxLoop ==
  ASSUME NEW s \in FrontStates, muxed, NEW buf \in Seq(Bytes), NEW p \in Seq(Tagged),
         During(s, s.mux.focus, Len(buf)), RoutesLike(s, Routing(p))
  PROVE  LET m == s.mux.focus
             t == MuxFold(s, m, buf)
         IN  /\ t \in FrontStates /\ SameHist(s, t) /\ During(t, m, 0)
             /\ RoutesLike(t, Routing(p \o Tag(buf)))
<1> DEFINE m == s.mux.focus
<1> DEFINE n == Len(buf)
<1> DEFINE q == Tag(buf)
<1>1. m \in FrontEnds /\ n \in Nat /\ q \in Seq(Tagged) /\ Len(q) = n
      /\ \A i \in 1..n : q[i] = <<buf[i], i = 1>> /\ buf[i] \in Bytes
  BY TagType, FrontTypes
<1> HIDE DEF q
<1>2. PICK R \in [0..n -> RouteStates] :
         /\ R[0] = Routing(p)
         /\ \A k \in 1..n : R[k] = RouteByte(R[k - 1], q[k])
         /\ Routing(p \o q) = R[n]
  <2>1. \E R \in [0..Len(q) -> RouteStates] :
          /\ R[0] = Routing(p)
          /\ \A k \in 1..Len(q) : R[k] = RouteByte(R[k - 1], q[k])
          /\ Routing(p \o q) = R[Len(q)]
    BY <1>1, RoutingGoesOn
  <2> HIDE DEF n
  <2> QED BY <1>1, <2>1
<1> HIDE DEF m
<1>3. PICK run \in [0..n -> FrontStates] :
         /\ run[0] = s
         /\ \A k \in 1..n : run[k] = MuxByte(run[k - 1], m, buf[k])
         /\ MuxFold(s, m, buf) = run[n]
  <2>1. \E run \in [0..Len(buf) -> FrontStates] :
          /\ run[0] = s
          /\ \A k \in 1..Len(buf) : run[k] = MuxByte(run[k - 1], m, buf[k])
          /\ MuxFold(s, m, buf) = run[Len(buf)]
    <3>1. m \in FrontEnds /\ s \in FrontStates /\ buf \in Seq(Bytes)
      BY <1>1
    <3> QED BY ONLY <3>1, MuxRun
  <2> QED BY ONLY <2>1
<1> HIDE DEF n
<1> DEFINE Follows(k) ==
      run[k].hist.lost = "no" => (IF k = 0 THEN R[k].focus = m ELSE R[k].m = m)
<1> DEFINE I == {k \in 0..n : /\ SameHist(s, run[k]) /\ During(run[k], m, n - k)
                              /\ RoutesLike(run[k], R[k]) /\ Follows(k)}
<1>4. 0 \in I
  <2>1. 0 \in 0..n /\ n - 0 = n
    BY <1>1
  <2>2. SameHist(s, s)
    BY DEF SameHist
  <2>3. Follows(0)
    BY <1>2, <1>3 DEF RoutesLike, m
  <2> HIDE DEF Follows
  <2> QED BY <1>2, <1>3, <2>1, <2>2, <2>3 DEF n, m
<1>5. ASSUME NEW k \in 1..n, k - 1 \in I PROVE k \in I
  <2> DEFINE a == run[k - 1]
  <2> DEFINE t == run[k]
  <2> DEFINE rem == n - (k - 1)
  <2>0. k \in 0..n /\ k - 1 \in 0..n /\ rem \in Nat /\ rem # 0 /\ rem - 1 = n - k /\ k # 0
    BY <1>1
  <2>1. a \in FrontStates /\ t \in FrontStates /\ buf[k] \in Bytes /\ t = MuxByte(a, m, buf[k])
    BY <1>1, <1>3, <2>0
  <2>2. /\ SameHist(s, a) /\ During(a, m, rem) /\ RoutesLike(a, R[k - 1]) /\ Follows(k - 1)
    BY <1>5
  <2> HIDE DEF a, t, rem
  <2>3. During(t, m, rem - 1) /\ MuxStep(a, t, m, buf[k])
    BY <1>1, <2>0, <2>1, <2>2, DuringByte
  <2>4. q[k] \in Tagged /\ q[k][1] = buf[k] /\ q[k][2] = (k = 1)
    BY <1>1 DEF Tagged
  <2>5. R[k - 1] \in RouteStates /\ R[k] = RouteByte(R[k - 1], q[k])
    BY <1>2, <2>0
  <2>6. a.hist.lost = "no" => (IF q[k][2] THEN R[k - 1].focus ELSE R[k - 1].m) = m
    <3>1. CASE k = 1
      <4>0. q[k][2] = TRUE
        BY <2>4, <3>1, Zenon
      <4>1. k - 1 = 0 /\ q[k][2] = TRUE
        BY <4>0, <3>1
      <4>2. a.hist.lost = "no" => R[k - 1].focus = m
        BY <2>2, <4>1 DEF a
      <4> QED BY <4>1, <4>2
    <3>2. CASE k # 1
      <4>0. q[k][2] = FALSE
        BY <2>4, <3>2, Zenon
      <4>1. k - 1 # 0 /\ q[k][2] = FALSE
        BY <1>1, <2>0, <3>2, <4>0
      <4>2. a.hist.lost = "no" => R[k - 1].m = m
        BY <2>2, <4>1 DEF a
      <4> QED BY <4>1, <4>2
    <3> QED BY <3>1, <3>2
  <2>7. RoutesLike(t, R[k]) /\ (t.hist.lost = "no" => R[k].m = m)
    <3>1. MuxStep(a, t, m, q[k][1])
      BY <2>3, <2>4
    <3> QED BY <1>1, <2>1, <2>2, <2>4, <2>5, <2>6, <3>1, RoutesByte
  <2>8. SameHist(s, t)
    BY <1>1, <2>1, <2>2, <2>3, ByteHist DEF SameHist, HistStep
  <2>9. Follows(k)
    BY <2>0, <2>7 DEF t
  <2> QED BY <2>0, <2>3, <2>7, <2>8, <2>9 DEF t
<1>6. \A k \in 0..n : k \in I
  <2> HIDE DEF I
  <2> QED BY <1>1, <1>4, <1>5, Climb
<1>7. n \in 0..n /\ n - n = 0
  BY <1>1
<1>8. /\ run[n] \in FrontStates /\ SameHist(s, run[n]) /\ During(run[n], m, 0)
      /\ RoutesLike(run[n], R[n])
  BY <1>3, <1>6, <1>7
<1> QED BY <1>2, <1>3, <1>8 DEF m, q

\* The call, with the multiplexer.
LEMMA MuxedWrite ==
  ASSUME NEW s \in FrontStates, muxed, NEW buf \in Seq(Bytes), FrontInv(s), Room(s, Len(buf))
  PROVE  LET t == BeWrite(s, buf)
         IN  t \in FrontStates /\ FrontInv(t) /\ Passes(s, t, buf)
<1> DEFINE p == s.hist.passed
<1> DEFINE q == p \o Tag(buf)
<1> DEFINE u == SetPassed(s, q)
<1> DEFINE v == MuxAcceptInput(u)
<1> DEFINE t == BeWrite(s, buf)
<1> DEFINE m == u.mux.focus
<1>1. p \in Seq(Tagged) /\ Tag(buf) \in Seq(Tagged) /\ q \in Seq(Tagged) /\ Len(buf) \in Nat
  <2>1. p \in Seq(Tagged) /\ Tag(buf) \in Seq(Tagged) /\ Len(buf) \in Nat
    BY FrontTypes, TagType DEF Tagged
  <2> HIDE DEF p
  <2> QED BY <2>1, ConcatProperties
<1>2. t = MuxFold(v, m, buf)
  BY DEF BeWrite, MuxRead, SetPassed, Tag, MuxFold
<1> HIDE DEF q, t
<1>3. /\ u \in FrontStates /\ u.mux = s.mux /\ u.uart = s.uart /\ u.hist.passed = q
      /\ u.hist.raw = s.hist.raw /\ u.hist.first = s.hist.first /\ u.hist.clean = s.hist.clean
      /\ u.hist.shrunk = s.hist.shrunk /\ u.hist.guest = s.hist.guest
      /\ u.hist.got = s.hist.got /\ u.hist.lost = s.hist.lost /\ u.hist.stale = s.hist.stale
  BY <1>1, PassedSet
<1> HIDE DEF u
<1>4. RingsUsed(s) /\ Held(s) /\ Awake(s) /\ RoutesLike(s, Routing(p))
  BY DEF FrontInv, RoutedSoFar
<1>5. Acceptable(u)
  BY <1>3, <1>4 DEF Acceptable, RingsUsed, Held, Awake, Stale, RingLen
<1>6. RoutesLike(u, Routing(p)) /\ Room(u, Len(buf))
  BY <1>3, <1>4 DEF RoutesLike, Room, RingLen
<1>7. /\ v \in FrontStates /\ RingsUsed(v) /\ Awake(v) /\ Held(v) /\ Stops(v)
      /\ v.mux.focus = m /\ SameHist(u, v)
      /\ RoutesLike(v, Routing(p)) /\ Room(v, Len(buf))
  BY <1>1, <1>3, <1>5, <1>6, AcceptKeeps
<1> HIDE DEF v
<1>8. During(v, v.mux.focus, Len(buf))
  BY <1>1, <1>7, DuringStart
<1>9. /\ t \in FrontStates /\ SameHist(v, t) /\ During(t, m, 0) /\ RoutesLike(t, Routing(q))
  <2> HIDE DEF m, p
  <2> QED BY <1>1, <1>2, <1>7, <1>8, MuxLoop DEF q
<1>10. RingsUsed(t) /\ Awake(t) /\ Held(t)
  <2>1. m \in FrontEnds
    BY <1>3, FrontTypes
  <2> HIDE DEF m
  <2> QED BY <1>9, <2>1, DuringEnd
<1>11. t.hist.passed = q /\ Passes(s, t, buf)
  BY <1>3, <1>7, <1>9 DEF SameHist, Passes, q
<1>12. FrontInv(t)
  BY <1>9, <1>10, <1>11 DEF FrontInv, RoutedSoFar
<1> QED BY <1>9, <1>11, <1>12 DEF t

-----------------------------------------------------------------------------
(* The call without the multiplexer, and breaks.                           *)

\* The bytes that were passed, without the marks.
LEMMA BareGrows ==
  ASSUME NEW p \in Seq(Tagged), NEW buf \in Seq(Bytes)
  PROVE  /\ Bare(p) \in Seq(Bytes) /\ Len(Bare(p)) = Len(p) /\ Len(p) \in Nat
         /\ Bare(p \o Tag(buf)) = Bare(p) \o buf
<1> DEFINE n == Len(p)
<1> DEFINE l == Len(buf)
<1> DEFINE q == p \o Tag(buf)
<1>1. /\ n \in Nat /\ l \in Nat /\ \A i \in 1..n : p[i] \in Tagged /\ p[i][1] \in Bytes
      /\ Tag(buf) \in Seq(Tagged) /\ Len(Tag(buf)) = l
      /\ \A i \in 1..l : Tag(buf)[i][1] = buf[i] /\ buf[i] \in Bytes
  <2>1. \A i \in 1..n : p[i] \in Tagged
    BY ElementOfSeq
  <2> QED BY <2>1, TagType DEF Tagged
<1>2. Bare(p) \in [1..n -> Bytes]
  BY <1>1 DEF Bare
<1>3. Bare(p) \in Seq(Bytes)
  BY <1>1, <1>2, SeqDef
<1>4. Len(Bare(p)) = n
  <2>1. 1..Len(Bare(p)) = 1..n /\ Len(Bare(p)) \in Nat
    BY <1>2, <1>3, LenProperties
  <2> QED BY <1>1, <2>1
<1> DEFINE tb == Tag(buf)
<1> DEFINE e == Bare(p)
<1>5. q \in Seq(Tagged) /\ Len(q) = n + l
      /\ \A i \in 1..n + l : q[i] = IF i <= n THEN p[i] ELSE Tag(buf)[i - n]
  <2>1. p \in Seq(Tagged) /\ tb \in Seq(Tagged) /\ Len(tb) = l /\ Len(p) = n
    BY <1>1
  <2> HIDE DEF tb, n, l
  <2>2. p \o tb \in Seq(Tagged) /\ Len(p \o tb) = Len(p) + Len(tb)
        /\ \A i \in 1..Len(p) + Len(tb) :
             (p \o tb)[i] = IF i <= Len(p) THEN p[i] ELSE tb[i - Len(p)]
    BY <2>1, ConcatProperties
  <2> QED BY <2>1, <2>2 DEF tb
<1>6. e \o buf \in Seq(Bytes) /\ Len(e \o buf) = n + l
      /\ \A i \in 1..n + l : (e \o buf)[i] = IF i <= n THEN e[i] ELSE buf[i - n]
  <2>1. e \in Seq(Bytes) /\ Len(e) = n /\ Len(buf) = l
    BY <1>3, <1>4
  <2> HIDE DEF e, n, l
  <2>2. e \o buf \in Seq(Bytes) /\ Len(e \o buf) = Len(e) + Len(buf)
        /\ \A i \in 1..Len(e) + Len(buf) :
             (e \o buf)[i] = IF i <= Len(e) THEN e[i] ELSE buf[i - Len(e)]
    BY <2>1, ConcatProperties
  <2> QED BY <2>1, <2>2
<1> HIDE DEF q, n, l
<1>7. \A i \in 1..n + l : q[i][1] = (Bare(p) \o buf)[i]
  <2> SUFFICES ASSUME NEW i \in 1..n + l PROVE q[i][1] = (Bare(p) \o buf)[i]
    OBVIOUS
  <2>1. CASE i <= n
    <3>1. i \in 1..n
      BY <1>1, <2>1
    <3>2. Bare(p)[i] = p[i][1]
      BY <3>1 DEF Bare, n
    <3> QED BY <1>5, <1>6, <2>1, <3>2
  <2>2. CASE ~(i <= n)
    <3>1. i - n \in 1..l
      BY <1>1, <2>2
    <3> QED BY <1>1, <1>5, <1>6, <2>2, <3>1
  <2> QED BY <2>1, <2>2
<1>8. Bare(q) = [i \in 1..n + l |-> (Bare(p) \o buf)[i]]
  BY <1>5, <1>7 DEF Bare
<1>9. Bare(p) \o buf = [i \in 1..n + l |-> (Bare(p) \o buf)[i]]
  <2> DEFINE z == Bare(p) \o buf
  <2>1. z \in [1..n + l -> Bytes]
    BY <1>6, LenProperties
  <2> HIDE DEF z
  <2>2. z = [i \in 1..n + l |-> z[i]]
    BY <2>1
  <2> QED BY <2>2 DEF z
<1> QED BY <1>1, <1>3, <1>4, <1>8, <1>9 DEF q, n

\* The prefixes of a sequence, one byte after another.
LEMMA AppendNext ==
  ASSUME NEW p \in Seq(Bytes), NEW buf \in Seq(Bytes), NEW k \in 1..Len(buf)
  PROVE  Append(p \o SubSeq(buf, 1, k - 1), buf[k]) = p \o SubSeq(buf, 1, k)
<1> DEFINE h == SubSeq(buf, 1, k - 1)
<1>1. Len(buf) \in Nat /\ buf[k] \in Bytes /\ \A i \in 1..k - 1 : buf[i] \in Bytes
  BY ElementOfSeq
<1>2. h \in Seq(Bytes)
  BY <1>1, SubSeqProperties
<1>3. SubSeq(buf, 1, k) = h \o <<buf[k]>>
  <2>1. 1 \in 1..Len(buf) /\ k \in 1..Len(buf)
    BY <1>1
  <2> QED BY <2>1, SubSeqRecursiveSecond
<1> DEFINE b == buf[k]
<1>4. h \o <<b>> = Append(h, b)
  <2> HIDE DEF h, b
  <2>1. b \in Bytes
    BY <1>1 DEF b
  <2> QED BY <1>2, <2>1, AppendIsConcat
<1>5. p \o Append(h, b) = Append(p \o h, b)
  <2> HIDE DEF h, b
  <2>1. b \in Bytes
    BY <1>1 DEF b
  <2> QED BY <1>2, <2>1, ConcatAppend
<1> QED BY <1>3, <1>4, <1>5

\* The bytes go to the UART, one by one.
LEMMA DirectLoop ==
  ASSUME NEW s \in FrontStates, NEW buf \in Seq(Bytes), NEW p \in Seq(Bytes),
         s.hist.lost # "self",
         ~s.hist.shrunk => Len(s.uart.fifo) + Len(buf) <= Depth(s.uart),
         s.hist.lost = "no" => s.hist.got[UART] = p
  PROVE  LET t == DirectFold(s, buf)
         IN  /\ t \in FrontStates /\ t.mux = s.mux /\ SameHist(s, t) /\ t.hist.lost # "self"
             /\ t.hist.stale = s.hist.stale
             /\ t.hist.lost = "no" => t.hist.got[UART] = p \o buf
<1> DEFINE n == Len(buf)
<1>1. n \in Nat /\ (\A k \in 1..n : buf[k] \in Bytes) /\ UART \in FrontEnds
  BY ElementOfSeq, FrontEndsAre
<1>2. PICK run \in [0..n -> FrontStates] :
         /\ run[0] = s
         /\ \A k \in 1..n : run[k] = FrontEndRead(run[k - 1], UART, buf[k])
         /\ DirectFold(s, buf) = run[n]
  BY DirectRun
<1> HIDE DEF n
<1> DEFINE Ok(t, k) ==
      /\ t.mux = s.mux /\ SameHist(s, t) /\ t.hist.lost # "self" /\ t.hist.stale = s.hist.stale
      /\ ~s.hist.shrunk => Len(t.uart.fifo) + (n - k) <= Depth(t.uart)
      /\ t.hist.lost = "no" => t.hist.got[UART] = p \o SubSeq(buf, 1, k)
<1> DEFINE I == {k \in 0..n : Ok(run[k], k)}
<1>3. 0 \in I
  <2>1. SubSeq(buf, 1, 0) = <<>> /\ p \o <<>> = p
    BY SubSeqEmpty, ConcatEmptySeq
  <2>2. 0 \in 0..n /\ n - 0 = n /\ SameHist(s, s)
    BY <1>1 DEF SameHist
  <2>3. Ok(s, 0)
    BY <2>1, <2>2 DEF n
  <2> HIDE DEF Ok
  <2> QED BY <1>2, <2>2, <2>3
<1>4. ASSUME NEW k \in 1..n, k - 1 \in I PROVE k \in I
  <2> DEFINE a == run[k - 1]
  <2> DEFINE t == run[k]
  <2>0. k \in 0..n /\ k - 1 \in 0..n
    BY <1>1
  <2>1. a \in FrontStates /\ t \in FrontStates /\ buf[k] \in Bytes
        /\ t = FrontEndRead(a, UART, buf[k]) /\ Ok(a, k - 1)
    BY <1>1, <1>2, <1>4, <2>0
  <2> HIDE DEF a, t
  <2>2. /\ t.mux = a.mux /\ t.uart = UartPut(a.uart, buf[k])
        /\ HistStep(a.hist, t.hist, [a.hist.got EXCEPT ![UART] = Append(@, buf[k])], a.hist.stale,
                    IF Len(a.uart.fifo) >= Depth(a.uart) THEN LostNow(a.hist) ELSE a.hist.lost)
    BY <1>1, <2>1, ReadEffect
  <2>3. /\ a.uart \in UartStates /\ Len(a.uart.fifo) \in Nat /\ Depth(a.uart) \in Nat
        /\ a.hist.got \in [FrontEnds -> Seq(Bytes)] /\ a.hist.shrunk = s.hist.shrunk
    BY <2>1, FrontTypes, UartFacts DEF SameHist
  <2>4. SameHist(s, t) /\ t.hist.stale = s.hist.stale
    BY <2>1, <2>2 DEF SameHist, HistStep
  <2>5. t.hist.lost = IF Len(a.uart.fifo) >= Depth(a.uart) THEN LostNow(a.hist) ELSE a.hist.lost
    BY <2>2 DEF HistStep
  <2>6. ~s.hist.shrunk => /\ Len(a.uart.fifo) < Depth(a.uart)
                          /\ Len(t.uart.fifo) + (n - k) <= Depth(t.uart)
    <3> SUFFICES ASSUME ~s.hist.shrunk
                 PROVE  /\ Len(a.uart.fifo) < Depth(a.uart)
                        /\ Len(t.uart.fifo) + (n - k) <= Depth(t.uart)
      OBVIOUS
    <3> DEFINE x == Len(a.uart.fifo)
    <3> DEFINE d == Depth(a.uart)
    <3>0. x \in Nat /\ d \in Nat /\ n \in Nat /\ k \in 1..n
      BY <1>1, <2>3
    <3>1. x + (n - (k - 1)) <= d
      BY <2>1
    <3>2. x < d
      <4> HIDE DEF x, d
      <4> QED BY <3>0, <3>1
    <3>3. t.uart.fe = a.uart.fe /\ Len(t.uart.fifo) = x + 1
      <4> DEFINE w == a.uart
      <4> DEFINE c == buf[k]
      <4>1. w \in UartStates /\ c \in Bytes /\ Len(w.fifo) < Depth(w) /\ t.uart = UartPut(w, c)
        BY <2>1, <2>2, <2>3, <3>2
      <4> HIDE DEF w, c
      <4>2. UartPut(w, c).fe = w.fe /\ Len(UartPut(w, c).fifo) = Len(w.fifo) + 1
        BY <4>1, UartPutEffect
      <4> QED BY <4>1, <4>2 DEF w
    <3>4. Depth(t.uart) = d
      BY <3>3 DEF Depth
    <3> HIDE DEF x, d
    <3>5. (x + 1) + (n - k) <= d
      BY <3>0, <3>1
    <3> QED BY <3>2, <3>3, <3>4, <3>5 DEF x, d
  <2>7. t.hist.lost # "self"
    <3>1. CASE s.hist.shrunk
      BY <2>1, <2>3, <2>5, <3>1 DEF LostNow
    <3>2. CASE ~s.hist.shrunk
      BY <2>1, <2>3, <2>5, <2>6, <3>2
    <3> QED BY <3>1, <3>2
  <2>8. t.hist.lost = "no" => t.hist.got[UART] = p \o SubSeq(buf, 1, k)
    <3> SUFFICES ASSUME t.hist.lost = "no" PROVE t.hist.got[UART] = p \o SubSeq(buf, 1, k)
      OBVIOUS
    <3>1. a.hist.lost = "no"
      BY <2>5 DEF LostNow
    <3>2. a.hist.got[UART] = p \o SubSeq(buf, 1, k - 1)
      BY <2>1, <3>1
    <3>3. t.hist.got[UART] = Append(a.hist.got[UART], buf[k])
      BY <1>1, <2>2, <2>3 DEF HistStep
    <3>4. Append(p \o SubSeq(buf, 1, k - 1), buf[k]) = p \o SubSeq(buf, 1, k)
      BY AppendNext DEF n
    <3> QED BY <3>2, <3>3, <3>4
  <2>9. t.mux = s.mux
    BY <2>1, <2>2
  <2>10. Ok(t, k)
    BY <2>4, <2>6, <2>7, <2>8, <2>9
  <2> HIDE DEF Ok
  <2> QED BY <2>0, <2>10 DEF t
<1>5. \A k \in 0..n : k \in I
  <2> HIDE DEF I
  <2> QED BY <1>1, <1>3, <1>4, Climb
<1>6. n \in 0..n
  BY <1>1
<1>7. Ok(run[n], n) /\ run[n] \in FrontStates
  <2> HIDE DEF Ok
  <2> QED BY <1>2, <1>5, <1>6
<1>8. SubSeq(buf, 1, n) = buf
  BY SubSeqFull DEF n
<1> QED BY <1>2, <1>7, <1>8

\* The call, without the multiplexer.
LEMMA DirectWrite ==
  ASSUME NEW s \in FrontStates, ~muxed, NEW buf \in Seq(Bytes), FrontInv(s), Room(s, Len(buf))
  PROVE  LET t == BeWrite(s, buf)
         IN  t \in FrontStates /\ FrontInv(t) /\ Passes(s, t, buf)
<1> DEFINE p == s.hist.passed
<1> DEFINE q == p \o Tag(buf)
<1> DEFINE u == SetPassed(s, q)
<1> DEFINE t == BeWrite(s, buf)
<1>1. p \in Seq(Tagged) /\ Tag(buf) \in Seq(Tagged) /\ q \in Seq(Tagged) /\ Len(buf) \in Nat
  <2>1. p \in Seq(Tagged) /\ Tag(buf) \in Seq(Tagged) /\ Len(buf) \in Nat
    BY FrontTypes, TagType DEF Tagged
  <2> HIDE DEF p
  <2> QED BY <2>1, ConcatProperties
<1>2. t = DirectFold(u, buf)
  BY DEF BeWrite, SetPassed, Tag, DirectFold
<1> HIDE DEF q, t
<1>3. /\ u \in FrontStates /\ u.mux = s.mux /\ u.uart = s.uart /\ u.hist.passed = q
      /\ u.hist.raw = s.hist.raw /\ u.hist.first = s.hist.first /\ u.hist.clean = s.hist.clean
      /\ u.hist.shrunk = s.hist.shrunk /\ u.hist.guest = s.hist.guest
      /\ u.hist.got = s.hist.got /\ u.hist.lost = s.hist.lost /\ u.hist.stale = s.hist.stale
  BY <1>1, PassedSet
<1> HIDE DEF u
<1>4. /\ RingsUsed(s) /\ s.hist.lost # "self"
      /\ s.hist.lost = "no" => s.hist.got[UART] = Bare(p)
      /\ ~s.hist.shrunk => Len(s.uart.fifo) + Len(buf) <= Depth(s.uart)
  BY DEF FrontInv, RoutedSoFar, Held, Room
<1>5. Bare(p) \in Seq(Bytes) /\ Bare(q) = Bare(p) \o buf
  <2> HIDE DEF p
  <2> QED BY <1>1, BareGrows DEF q
<1>6. /\ t \in FrontStates /\ t.mux = u.mux /\ SameHist(u, t) /\ t.hist.lost # "self"
      /\ t.hist.stale = u.hist.stale
      /\ t.hist.lost = "no" => t.hist.got[UART] = Bare(p) \o buf
  <2> DEFINE e == Bare(p)
  <2>1. e \in Seq(Bytes) /\ (u.hist.lost = "no" => u.hist.got[UART] = e)
    BY <1>3, <1>4, <1>5
  <2>2. u.hist.lost # "self" /\ (~u.hist.shrunk => Len(u.uart.fifo) + Len(buf) <= Depth(u.uart))
    BY <1>3, <1>4
  <2> HIDE DEF e
  <2>3. /\ t \in FrontStates /\ t.mux = u.mux /\ SameHist(u, t) /\ t.hist.lost # "self"
        /\ t.hist.stale = u.hist.stale
        /\ t.hist.lost = "no" => t.hist.got[UART] = e \o buf
    BY <1>2, <1>3, <2>1, <2>2, DirectLoop
  <2> QED BY <2>3 DEF e
<1>7. t.hist.passed = q /\ Passes(s, t, buf)
  BY <1>3, <1>6 DEF SameHist, Passes, q
<1>8. RingsUsed(t) /\ Awake(t)
  BY <1>3, <1>4, <1>6, FrontEndsAre DEF RingsUsed, Awake
<1>9. FrontInv(t)
  BY <1>5, <1>6, <1>7, <1>8 DEF FrontInv, RoutedSoFar, Held
<1> QED BY <1>6, <1>7, <1>9 DEF t

\* qemu_chr_be_write, when there is room.
LEMMA WriteKeeps ==
  ASSUME NEW s \in FrontStates, NEW buf \in Seq(Bytes), FrontInv(s), Room(s, Len(buf))
  PROVE  LET t == BeWrite(s, buf)
         IN  t \in FrontStates /\ FrontInv(t) /\ Passes(s, t, buf)
<1>1. CASE muxed
  BY <1>1, MuxedWrite
<1>2. CASE ~muxed
  BY <1>2, DirectWrite
<1> QED BY <1>1, <1>2

-----------------------------------------------------------------------------
(* Breaks from the line, and the datagram that is handed on piece by piece. *)

\* A break in the room that was asked for.
LEMMA BreakKeeps ==
  ASSUME NEW s \in FrontStates, FrontInv(s), NEW k \in Nat, Room(s, k + 1)
  PROVE  LET t == BeBreak(s)
         IN  t \in FrontStates /\ FrontInv(t) /\ SameHist(s, t) /\ Room(t, k)
<1> DEFINE t == BeBreak(s)
<1>1. /\ t \in FrontStates /\ t.mux = s.mux /\ t.uart = UartPut(s.uart, BREAK)
      /\ HistStep(s.hist, t.hist, s.hist.got, [s.hist.stale EXCEPT ![UART] = TRUE], s.hist.lost)
  BY BreakEffect DEF Broken
<1> HIDE DEF t
<1>2. /\ RingLen(s) \in Nat /\ SafeTake(s.uart) \in Nat /\ SafeTake(t.uart) \in Nat
      /\ RingLen(t) = RingLen(s) /\ MUX_BUFFER_SIZE \in Nat
      /\ s.uart \in UartStates /\ t.uart \in UartStates
      /\ Len(s.uart.fifo) \in Nat /\ Depth(s.uart) \in Nat
      /\ s.mux.focus \in FrontEnds /\ s.hist.stale \in [FrontEnds -> BOOLEAN]
  BY <1>1, RingLenType, FrontTypes, UartFacts, CharAssumption DEF RingLen
<1>3. /\ t.uart.fe = s.uart.fe
      /\ Len(s.uart.fifo) < Depth(s.uart) => Len(t.uart.fifo) = Len(s.uart.fifo) + 1
      /\ Len(s.uart.fifo) >= Depth(s.uart) => Len(t.uart.fifo) = Len(s.uart.fifo)
  <2> DEFINE u == s.uart
  <2>1. u \in UartStates
    BY <1>2
  <2> HIDE DEF u
  <2>2. /\ UartPut(u, BREAK).fe = u.fe
        /\ Len(u.fifo) < Depth(u) => Len(UartPut(u, BREAK).fifo) = Len(u.fifo) + 1
        /\ Len(u.fifo) >= Depth(u) => Len(UartPut(u, BREAK).fifo) = Len(u.fifo)
    BY <2>1, BreakIsByte, UartPutEffect
  <2> QED BY <1>1, <2>2 DEF u
<1>4. Len(t.uart.fifo) \in {Len(s.uart.fifo), Len(s.uart.fifo) + 1} /\ Depth(t.uart) = Depth(s.uart)
  <2>1. Len(s.uart.fifo) < Depth(s.uart) \/ Len(s.uart.fifo) >= Depth(s.uart)
    BY <1>2
  <2> QED BY <1>3, <2>1 DEF Depth
<1>5. /\ SafeTake(t.uart) >= SafeTake(s.uart) - 1
      /\ Mid(t.uart) /\ ~Mid(s.uart) => SafeTake(s.uart) = 0
  BY <1>2, <1>3, <1>4, SafeTakeStep
<1>6. SameHist(s, t) /\ t.hist.lost = s.hist.lost /\ t.hist.got = s.hist.got
      /\ t.hist.stale = [s.hist.stale EXCEPT ![UART] = TRUE]
  BY <1>1 DEF SameHist, HistStep
<1>7. RingsUsed(t)
  BY <1>1 DEF FrontInv, RingsUsed
<1>8. Held(t)
  <2> SUFFICES ASSUME ~t.hist.shrunk, muxed
               PROVE  /\ RingLen(t) <= MUX_BUFFER_SIZE
                      /\ Mid(t.uart) \/ t.mux.focus = MONITOR => RingLen(t) < MUX_BUFFER_SIZE
    BY <1>6 DEF FrontInv, Held
  <2>1. /\ RingLen(s) <= MUX_BUFFER_SIZE
        /\ Mid(s.uart) \/ s.mux.focus = MONITOR => RingLen(s) < MUX_BUFFER_SIZE
    BY <1>6 DEF FrontInv, Held, SameHist
  <2>2. s.mux.focus = UART => RingLen(s) + (k + 1) <= MUX_BUFFER_SIZE + SafeTake(s.uart)
    BY <1>6 DEF Room, SameHist
  <2>3. ASSUME Mid(t.uart), ~Mid(s.uart), s.mux.focus # MONITOR
        PROVE  RingLen(s) < MUX_BUFFER_SIZE
    <3>1. s.mux.focus = UART /\ SafeTake(s.uart) = 0
      BY <1>2, <1>5, <2>3, FrontEndsAre
    <3>2. RingLen(s) + (k + 1) <= MUX_BUFFER_SIZE + 0
      BY <2>2, <3>1
    <3> QED BY <1>2, <3>2
  <2> QED BY <1>1, <1>2, <2>1, <2>3
<1>9. Awake(t)
  <2> SUFFICES ASSUME NEW f \in FrontEnds PROVE t.mux.ring[f] = <<>> \/ Stale(t, f)
    BY DEF Awake
  <2>1. CASE f = UART
    <3>1. t.hist.stale[f] = TRUE
      BY <1>2, <1>6, <2>1
    <3> QED BY <3>1 DEF Stale
  <2>2. CASE f # UART
    <3>1. f = MONITOR
      BY <2>2, FrontEndsAre
    <3> QED BY <1>7, <3>1 DEF RingsUsed
  <2> QED BY <2>1, <2>2
<1>10. RoutedSoFar(t)
  BY <1>1, <1>6 DEF FrontInv, RoutedSoFar, RoutesLike, SameHist
<1>11. Room(t, k)
  <2>1. ASSUME ~t.hist.shrunk, muxed, t.mux.focus = UART
        PROVE  RingLen(t) + k <= MUX_BUFFER_SIZE + SafeTake(t.uart)
    <3>1. RingLen(s) + (k + 1) <= MUX_BUFFER_SIZE + SafeTake(s.uart)
      BY <1>1, <1>6, <2>1 DEF Room, SameHist
    <3> QED BY <1>2, <1>5, <3>1
  <2>2. ASSUME ~t.hist.shrunk, ~muxed
        PROVE  Len(t.uart.fifo) + k <= Depth(t.uart)
    <3>1. Len(s.uart.fifo) + (k + 1) <= Depth(s.uart)
      BY <1>1, <1>6, <2>2 DEF Room, SameHist
    <3>2. Len(s.uart.fifo) < Depth(s.uart)
      <4> DEFINE x == Len(s.uart.fifo)
      <4> DEFINE d == Depth(s.uart)
      <4>1. x \in Nat /\ d \in Nat /\ x + (k + 1) <= d
        BY <1>2, <3>1
      <4> HIDE DEF x, d
      <4>2. x < d
        BY <4>1
      <4> QED BY <4>2 DEF x, d
    <3>3. Len(t.uart.fifo) = Len(s.uart.fifo) + 1
      BY <1>3, <3>2
    <3> DEFINE x == Len(s.uart.fifo)
    <3> DEFINE y == Len(t.uart.fifo)
    <3>4. x \in Nat /\ y = x + 1 /\ x + (k + 1) <= Depth(s.uart) /\ Depth(s.uart) \in Nat
      BY <1>2, <3>1, <3>3
    <3> HIDE DEF x, y
    <3>5. y + k <= Depth(s.uart)
      BY <3>4
    <3> QED BY <1>4, <3>5 DEF y
  <2> QED BY <2>1, <2>2 DEF Room
<1> QED BY <1>1, <1>6, <1>7, <1>8, <1>9, <1>10, <1>11 DEF FrontInv, t

\* Room for more is room for less.
LEMMA RoomForLess ==
  ASSUME NEW s \in FrontStates, NEW n \in Nat, NEW k \in 0..n, Room(s, n)
  PROVE  Room(s, k)
<1>1. /\ RingLen(s) \in Nat /\ SafeTake(s.uart) \in Nat /\ MUX_BUFFER_SIZE \in Nat
      /\ Len(s.uart.fifo) \in Nat /\ Depth(s.uart) \in Nat
  BY RingLenType, FrontTypes, UartFacts, CharAssumption
<1> QED BY <1>1 DEF Room

\* The breaks of one read.
LEMMA BreaksKeep ==
  ASSUME NEW s \in FrontStates, FrontInv(s), NEW n \in Nat, NEW k \in Nat, Room(s, n + k)
  PROVE  LET t == Breaks(s, n)
         IN  t \in FrontStates /\ FrontInv(t) /\ SameHist(s, t) /\ Room(t, k)
<1> DEFINE buf == [i \in 1..n |-> i]
<1>1. buf \in Seq(Nat) /\ Len(buf) = n
  <2>1. buf \in [1..n -> Nat]
    OBVIOUS
  <2>2. buf \in Seq(Nat)
    BY <2>1, SeqDef
  <2>3. 1..Len(buf) = 1..n /\ Len(buf) \in Nat
    BY <2>1, <2>2, LenProperties
  <2> HIDE DEF buf
  <2> QED BY <2>2, <2>3
<1>2. Breaks(s, n) = BreakFold(s, buf)
  BY DEF Breaks, BreakFold
<1> HIDE DEF buf
<1>3. PICK run \in [0..n -> FrontStates] :
         /\ run[0] = s
         /\ \A j \in 1..n : run[j] = BeBreak(run[j - 1])
         /\ BreakFold(s, buf) = run[n]
  <2>1. \E run \in [0..Len(buf) -> FrontStates] :
          /\ run[0] = s
          /\ \A j \in 1..Len(buf) : run[j] = BeBreak(run[j - 1])
          /\ BreakFold(s, buf) = run[Len(buf)]
    BY <1>1, BreakRun
  <2> QED BY <1>1, <2>1
<1> DEFINE Ok(t, j) == FrontInv(t) /\ SameHist(s, t) /\ Room(t, (n - j) + k)
<1> DEFINE I == {j \in 0..n : Ok(run[j], j)}
<1>4. 0 \in I
  <2>1. 0 \in 0..n /\ (n - 0) + k = n + k /\ SameHist(s, s)
    BY DEF SameHist
  <2> QED BY <1>3, <2>1
<1>5. ASSUME NEW j \in 1..n, j - 1 \in I PROVE j \in I
  <2> DEFINE a == run[j - 1]
  <2> DEFINE t == run[j]
  <2> DEFINE r == (n - j) + k
  <2>0. j \in 0..n /\ j - 1 \in 0..n /\ r \in Nat /\ (n - (j - 1)) + k = r + 1
    OBVIOUS
  <2>1. a \in FrontStates /\ t = BeBreak(a)
    BY <1>3, <2>0
  <2>2. FrontInv(a) /\ SameHist(s, a) /\ Room(a, r + 1)
    BY <1>5, <2>0
  <2> HIDE DEF a, t, r
  <2>3. FrontInv(t) /\ SameHist(a, t) /\ Room(t, r)
    BY <2>0, <2>1, <2>2, BreakKeeps
  <2>4. SameHist(s, t)
    BY <2>2, <2>3 DEF SameHist
  <2> QED BY <2>0, <2>3, <2>4 DEF t, r
<1>6. \A j \in 0..n : j \in I
  <2> HIDE DEF I
  <2> QED BY <1>4, <1>5, Climb
<1>7. n \in 0..n /\ (n - n) + k = k
  OBVIOUS
<1>8. Ok(run[n], n) /\ run[n] \in FrontStates
  <2> HIDE DEF Ok
  <2> QED BY <1>3, <1>6, <1>7
<1> QED BY <1>2, <1>3, <1>7, <1>8

\* What the back end is told is room it has.
LEMMA AskRoom ==
  ASSUME NEW s \in FrontStates, FrontInv(s)
  PROVE  BeCanWrite(s) \in 0..FIFOLEN /\ Room(s, BeCanWrite(s))
<1>1. /\ RingLen(s) \in Nat /\ SafeTake(s.uart) \in Nat /\ MUX_BUFFER_SIZE \in Nat
      /\ s.uart \in UartStates /\ s.mux.focus \in FrontEnds /\ MUX_BUFFER_SIZE >= 1
      /\ FIFOLEN \in Nat /\ FIFOLEN >= 1
  <2>1. MUX_BUFFER_SIZE \in Nat /\ MUX_BUFFER_SIZE >= 1 /\ FIFOLEN \in Nat /\ FIFOLEN >= 1
    BY CharAssumption
  <2>2. RingLen(s) \in Nat /\ SafeTake(s.uart) \in Nat
    BY RingLenType
  <2>3. s.uart \in UartStates /\ s.mux.focus \in FrontEnds
    BY FrontTypes
  <2> QED BY <2>1, <2>2, <2>3
<1>2. /\ UartCanReceive(s.uart) \in 0..FIFOLEN /\ Depth(s.uart) \in Nat
      /\ Len(s.uart.fifo) \in Nat /\ UartCanReceive(s.uart) <= Depth(s.uart) - Len(s.uart.fifo)
  BY <1>1, UartFacts
<1>3. CASE ~muxed
  <2>1. BeCanWrite(s) = UartCanReceive(s.uart)
    BY <1>3 DEF BeCanWrite, FrontEndCanRead
  <2> QED BY <1>2, <1>3, <2>1 DEF Room
<1>4. CASE muxed /\ s.mux.focus = MONITOR
  <2>1. FrontEndCanRead(s, MONITOR) = 1
    BY FrontEndsAre DEF FrontEndCanRead
  <2>2. BeCanWrite(s) = 1
    BY <1>4, <2>1 DEF BeCanWrite, MuxCanRead
  <2>3. 1 \in 0..FIFOLEN
    BY <1>1
  <2> QED BY <1>4, <2>2, <2>3, FrontEndsAre DEF Room
<1>5. CASE muxed /\ s.mux.focus = UART
  <2>1. BeCanWrite(s) = IF RingLen(s) < MUX_BUFFER_SIZE THEN 1 ELSE UartCanReceive(s.uart)
    BY <1>5 DEF BeCanWrite, MuxCanRead, FrontEndCanRead, RingLen
  <2>2. CASE RingLen(s) < MUX_BUFFER_SIZE
    <3>1. BeCanWrite(s) = 1
      BY <2>1, <2>2
    <3>2. RingLen(s) + 1 <= MUX_BUFFER_SIZE + SafeTake(s.uart) /\ 1 \in 0..FIFOLEN
      BY <1>1, <2>2
    <3> QED BY <1>5, <3>1, <3>2 DEF Room
  <2>3. CASE ~(RingLen(s) < MUX_BUFFER_SIZE)
    <3>1. BeCanWrite(s) = UartCanReceive(s.uart)
      BY <2>1, <2>3
    <3>2. ~s.hist.shrunk => RingLen(s) <= MUX_BUFFER_SIZE /\ ~Mid(s.uart)
      BY <1>5, <2>3 DEF FrontInv, Held
    <3>3. ~s.hist.shrunk => UartCanReceive(s.uart) = SafeTake(s.uart)
      BY <1>1, <3>2, SafeFacts
    <3>4. ~s.hist.shrunk =>
             RingLen(s) + UartCanReceive(s.uart) <= MUX_BUFFER_SIZE + SafeTake(s.uart)
      BY <1>1, <1>2, <3>2, <3>3
    <3> QED BY <1>2, <1>5, <3>1, <3>4 DEF Room
  <2> QED BY <2>2, <2>3
<1> QED BY <1>1, <1>3, <1>4, <1>5, FrontEndsAre

\* Before the next wait the guest's changes of an empty ring are forgotten.
Forget(s) == [s EXCEPT !.hist.shrunk = @ /\ s.mux.ring[UART] # <<>>]

\* The invariant holds without the excuse, as the ring is empty.
LEMMA ForgetKeeps ==
  ASSUME NEW s \in FrontStates, FrontInv(s)
  PROVE  LET t == Forget(s)
         IN  /\ t \in FrontStates /\ FrontInv(t) /\ t.mux = s.mux /\ t.uart = s.uart
             /\ t.hist.raw = s.hist.raw /\ t.hist.passed = s.hist.passed
             /\ t.hist.first = s.hist.first /\ t.hist.clean = s.hist.clean
             /\ t.hist.guest = s.hist.guest /\ BeCanWrite(t) = BeCanWrite(s)
<1> DEFINE t == Forget(s)
<1> DEFINE v == s.hist.shrunk /\ s.mux.ring[UART] # <<>>
<1>1. v \in BOOLEAN
  OBVIOUS
<1>2. t = [s EXCEPT !.hist.shrunk = v]
  BY DEF Forget
<1> HIDE DEF t, v
<1>3. /\ t \in FrontStates /\ t.mux = s.mux /\ t.uart = s.uart
      /\ t.hist.raw = s.hist.raw /\ t.hist.passed = s.hist.passed
      /\ t.hist.first = s.hist.first /\ t.hist.clean = s.hist.clean
      /\ t.hist.guest = s.hist.guest /\ t.hist.got = s.hist.got /\ t.hist.lost = s.hist.lost
      /\ t.hist.stale = s.hist.stale /\ t.hist.shrunk = v
  BY <1>1, <1>2 DEF FrontStates, Histories
<1>4. RingsUsed(t) /\ Awake(t) /\ RoutedSoFar(t)
  BY <1>3 DEF FrontInv, RingsUsed, Awake, RoutedSoFar, RoutesLike, Stale, FrontEndCanRead
<1>5. Held(t)
  <2>1. CASE s.mux.ring[UART] = <<>>
    <3>1. RingLen(t) = 0 /\ MUX_BUFFER_SIZE \in Nat /\ MUX_BUFFER_SIZE >= 1
      BY <1>3, <2>1, RingLenType, CharAssumption
    <3>2. RingLen(t) <= MUX_BUFFER_SIZE /\ RingLen(t) < MUX_BUFFER_SIZE
      BY <3>1
    <3> QED BY <1>3, <3>2 DEF FrontInv, Held
  <2>2. CASE s.mux.ring[UART] # <<>>
    <3>1. v = TRUE <=> s.hist.shrunk = TRUE
      BY <2>2 DEF v
    <3>2. s.hist.shrunk \in BOOLEAN
      BY FrontTypes
    <3>3. t.hist.shrunk = s.hist.shrunk
      BY <1>1, <1>3, <3>1, <3>2
    <3> QED BY <1>3, <3>3 DEF FrontInv, Held, RingLen
  <2> QED BY <2>1, <2>2
<1>6. BeCanWrite(t) = BeCanWrite(s)
  BY <1>3 DEF BeCanWrite, MuxCanRead, FrontEndCanRead
<1> QED BY <1>3, <1>4, <1>5, <1>6 DEF FrontInv, t

-----------------------------------------------------------------------------
(* udp_chr_poll: what is left of a datagram is handed on byte by byte.      *)

\* The states of its loop.
StrayStates == {a \in [s : FrontStates, buf : Seq(Bytes)] : FrontInv(a.s)}

\* What the calls for a datagram leave alone, and what they hand on.
HandsOn(s, buf, t, rest) ==
    /\ Bare(t.hist.passed) \o rest = Bare(s.hist.passed) \o buf
    /\ t.hist.raw = s.hist.raw /\ t.hist.first = s.hist.first /\ t.hist.clean = s.hist.clean
    /\ t.hist.shrunk = s.hist.shrunk /\ t.hist.guest = s.hist.guest

\* One byte, when somebody takes it.
LEMMA WriteOne ==
  ASSUME NEW s \in FrontStates, FrontInv(s), NEW b \in Bytes, Room(s, 1)
  PROVE  LET t == BeWrite(s, <<b>>)
         IN  /\ t \in FrontStates /\ FrontInv(t)
             /\ Bare(s.hist.passed) \in Seq(Bytes)
             /\ Bare(t.hist.passed) = Append(Bare(s.hist.passed), b)
             /\ HandsOn(s, <<b>>, t, <<>>)
<1> DEFINE t == BeWrite(s, <<b>>)
<1> DEFINE p == s.hist.passed
<1> DEFINE q == <<b>>
<1>1. q \in Seq(Bytes) /\ Len(q) = 1
  OBVIOUS
<1>2. t \in FrontStates /\ FrontInv(t) /\ Passes(s, t, q)
  <2> HIDE DEF q
  <2>1. Room(s, Len(q))
    BY <1>1
  <2>2. BeWrite(s, q) \in FrontStates /\ FrontInv(BeWrite(s, q)) /\ Passes(s, BeWrite(s, q), q)
    BY <1>1, <2>1, WriteKeeps
  <2> QED BY <2>2 DEF q
<1>3. p \in Seq(Tagged)
  BY FrontTypes DEF Tagged
<1> HIDE DEF t, p, q
<1>4. Bare(p) \in Seq(Bytes) /\ Bare(p \o Tag(q)) = Bare(p) \o q
  BY <1>1, <1>3, BareGrows
<1>5. Bare(t.hist.passed) = Bare(p) \o q
  BY <1>2, <1>4 DEF Passes, p
<1>6. Bare(p) \o q = Append(Bare(p), b)
  <2> DEFINE e == Bare(p)
  <2>1. e \in Seq(Bytes)
    BY <1>4
  <2> HIDE DEF e
  <2>2. e \o <<b>> = Append(e, b)
    BY <2>1, AppendIsConcat
  <2> QED BY <2>2 DEF e, q
<1>7. Bare(t.hist.passed) \o <<>> = Bare(p) \o q
  <2> DEFINE e == Bare(t.hist.passed)
  <2>1. e \in Seq(Bytes)
    <3>1. Append(Bare(p), b) \in Seq(Bytes)
      BY <1>4
    <3> QED BY <1>5, <1>6, <3>1
  <2> HIDE DEF e
  <2>2. e \o <<>> = e
    BY <2>1, ConcatEmptySeq
  <2> QED BY <1>5, <2>2 DEF e
<1>8. HandsOn(s, <<b>>, t, <<>>)
  BY <1>2, <1>7 DEF HandsOn, Passes, p, q
<1> QED BY <1>2, <1>4, <1>5, <1>6, <1>8 DEF t, p

\* A round of the loop: it stops, or the next byte of the datagram is handed on.
LEMMA StrayByteEffect ==
  ASSUME NEW a \in StrayStates, NEW b \in Bytes
  PROVE  LET c == StrayByte(a, b)
             stops == a.buf = <<>> \/ BeCanWrite(a.s) = 0
         IN  /\ c \in StrayStates
             /\ stops => c = a
             /\ ~stops => c.buf = Tail(a.buf) /\ Bare(a.s.hist.passed) \in Seq(Bytes)
             /\ ~stops /\ b = Head(a.buf) => HandsOn(a.s, a.buf, c.s, c.buf)
<1> DEFINE stops == a.buf = <<>> \/ BeCanWrite(a.s) = 0
<1> DEFINE s == a.s
<1> DEFINE t == BeWrite(s, <<b>>)
<1> DEFINE c == StrayByte(a, b)
<1>1. s \in FrontStates /\ FrontInv(s) /\ a.buf \in Seq(Bytes)
  BY DEF StrayStates
<1>2. CASE stops
  <2>1. c = a
    BY <1>2 DEF StrayByte
  <2> QED BY <1>2, <2>1
<1>3. CASE ~stops
  <2>1. c = [s |-> t, buf |-> Tail(a.buf)]
    BY <1>3 DEF StrayByte
  <2>2. Room(s, 1)
    <3> HIDE DEF s
    <3>1. BeCanWrite(s) \in 0..FIFOLEN /\ Room(s, BeCanWrite(s)) /\ FIFOLEN \in Nat
      BY <1>1, AskRoom, CharAssumption
    <3>2. BeCanWrite(s) \in Nat /\ BeCanWrite(s) # 0
      BY <1>3, <3>1 DEF s
    <3>3. 1 \in 0..BeCanWrite(s)
      BY <3>2
    <3> QED BY <1>1, <3>1, <3>2, <3>3, RoomForLess
  <2>3. /\ t \in FrontStates /\ FrontInv(t) /\ Bare(s.hist.passed) \in Seq(Bytes)
        /\ Bare(t.hist.passed) = Append(Bare(s.hist.passed), b) /\ HandsOn(s, <<b>>, t, <<>>)
    <3> HIDE DEF s
    <3> QED BY <1>1, <2>2, WriteOne
  <2>4. a.buf # <<>> /\ Tail(a.buf) \in Seq(Bytes)
    BY <1>1, <1>3, TailType
  <2> HIDE DEF t, s, c
  <2>5. c \in StrayStates /\ c.s = t /\ c.buf = Tail(a.buf)
    BY <2>1, <2>3, <2>4 DEF StrayStates
  <2>6. ASSUME b = Head(a.buf) PROVE HandsOn(s, a.buf, c.s, c.buf)
    <3> DEFINE e == Bare(s.hist.passed)
    <3> DEFINE q == a.buf
    <3>1. e \in Seq(Bytes) /\ q \in Seq(Bytes) /\ q # <<>>
      BY <1>1, <2>3, <2>4
    <3> HIDE DEF e, q
    <3>2. Append(e, Head(q)) \o Tail(q) = e \o q
      BY <3>1, AppendTail
    <3>3. Bare(t.hist.passed) \o c.buf = e \o q
      BY <2>3, <2>5, <2>6, <3>2 DEF e, q
    <3> QED BY <2>3, <2>5, <3>3 DEF HandsOn, e, q
  <2> QED BY <1>3, <2>3, <2>5, <2>6 DEF s, c
<1> QED BY <1>2, <1>3

\* The types of the loop.
LEMMA StrayTyped ==
  ASSUME NEW a \in StrayStates, NEW b \in Bytes
  PROVE  StrayByte(a, b) \in StrayStates
  BY StrayByteEffect

\* The loop of udp_chr_poll, byte by byte.
LEMMA StrayRun ==
  ASSUME NEW s \in StrayStates, NEW buf \in Seq(Bytes)
  PROVE  \E run \in [0..Len(buf) -> StrayStates] :
           /\ run[0] = s
           /\ \A k \in 1..Len(buf) : run[k] = StrayByte(run[k - 1], buf[k])
           /\ FoldLeft(StrayByte, s, buf) = run[Len(buf)]
<1> DEFINE n == Len(buf)
<1> DEFINE P(h) == h = [T \in SUBSET (1..n) |->
                     IF T = {} THEN s ELSE StrayByte(h[T \ {Max(T)}], buf[Max(T)])]
<1> DEFINE h == CHOOSE g : P(g)
<1>1. n \in Nat
  OBVIOUS
<1>2. PICK F \in [StrayStates -> [Bytes -> StrayStates]] :
          \A a \in StrayStates, b \in Bytes : F[a][b] = StrayByte(a, b)
  <2> DEFINE F == [a \in StrayStates |-> [b \in Bytes |-> StrayByte(a, b)]]
  <2>1. F \in [StrayStates -> [Bytes -> StrayStates]]
    BY StrayTyped
  <2>2. \A a \in StrayStates, b \in Bytes : F[a][b] = StrayByte(a, b)
    OBVIOUS
  <2> HIDE DEF F
  <2> QED BY <2>1, <2>2
<1>3. P(h)
  <2>0. HasTable(StrayStates, F, s, buf)
    BY FoldTable
  <2>1. PICK g : IsTable(g, StrayStates, F, s, buf, n)
    BY <2>0 DEF HasTable
  <2>2. ASSUME NEW T \in SUBSET (1..n), T # {}
        PROVE  F[g[T \ {Max(T)}]][buf[Max(T)]] = StrayByte(g[T \ {Max(T)}], buf[Max(T)])
    <3>1. Max(T) \in 1..n
      BY <1>1, <2>2, MaxInside
    <3>2. buf[Max(T)] \in Bytes /\ g[T \ {Max(T)}] \in StrayStates
      BY <2>1, <3>1, ElementOfSeq DEF IsTable
    <3> QED BY <1>2, <3>2
  <2>3. P(g)
    BY <2>1, <2>2 DEF IsTable
  <2> HIDE DEF P
  <2> QED BY <2>3
<1>4. FoldLeft(StrayByte, s, buf) = h[1..n]
  <2>1. DOMAIN buf = 1..n
    OBVIOUS
  <2> QED BY <2>1 DEF FoldLeft, MapThenFoldSet
<1>5. \A k \in 1..n : h[1..k] = StrayByte(h[1..(k - 1)], buf[k])
  <2> SUFFICES ASSUME NEW k \in 1..n PROVE h[1..k] = StrayByte(h[1..(k - 1)], buf[k])
    OBVIOUS
  <2>1. Max(1..k) = k
    BY <1>1, MaxOfPrefix, Zenon
  <2>2. 1..k # {} /\ (1..k) \ {k} = 1..(k - 1) /\ 1..k \in SUBSET (1..n)
    BY <1>1, PrefixOf
  <2>3. h[1..k] = StrayByte(h[(1..k) \ {Max(1..k)}], buf[Max(1..k)])
    <3> HIDE DEF h
    <3> QED BY <1>3, <2>2
  <2> HIDE DEF h
  <2> QED BY <2>1, <2>2, <2>3
<1>6. h[1..0] = s
  <2>1. 1..0 = {} /\ {} \in SUBSET (1..n)
    OBVIOUS
  <2> HIDE DEF h
  <2> QED BY <1>3, <2>1
<1> DEFINE run == [k \in 0..n |-> h[1..k]]
<1> DEFINE I == {k \in 0..n : h[1..k] \in StrayStates}
<1>7. n \in 0..n /\ 0 \in 0..n /\ \A k \in 1..n : k \in 0..n /\ k - 1 \in 0..n
  BY <1>1
<1>8. 0 \in I
  BY <1>6, <1>7
<1>9. \A k \in 1..n : k - 1 \in I => k \in I
  <2> SUFFICES ASSUME NEW k \in 1..n, h[1..(k - 1)] \in StrayStates PROVE h[1..k] \in StrayStates
    BY <1>7
  <2>1. buf[k] \in Bytes
    BY ElementOfSeq
  <2> HIDE DEF h
  <2> QED BY <1>5, <2>1, StrayTyped
<1>10. \A k \in 0..n : k \in I
  <2> HIDE DEF I, n
  <2> QED BY <1>1, <1>8, <1>9, Climb
<1>11. run \in [0..n -> StrayStates]
  BY <1>10
<1> HIDE DEF h
<1>12. run[0] = s /\ run[n] = h[1..n]
  BY <1>6, <1>7
<1>13. \A k \in 1..n : run[k] = StrayByte(run[k - 1], buf[k])
  <2> SUFFICES ASSUME NEW k \in 1..n PROVE run[k] = StrayByte(run[k - 1], buf[k])
    OBVIOUS
  <2>1. run[k] = h[1..k] /\ run[k - 1] = h[1..(k - 1)]
    BY <1>7
  <2> HIDE DEF run
  <2> QED BY <1>5, <2>1
<1> HIDE DEF run
<1> QED BY <1>4, <1>11, <1>12, <1>13

\* The loop hands on a piece of the datagram, and ends when nobody takes more.
LEMMA StrayKeeps ==
  ASSUME NEW s \in FrontStates, FrontInv(s), NEW buf \in Seq(Bytes)
  PROVE  LET p == Stray(s, buf)
         IN  /\ p \in StrayStates /\ HandsOn(s, buf, p.s, p.buf)
             /\ p.buf = <<>> \/ BeCanWrite(p.s) = 0
<1> DEFINE n == Len(buf)
<1> DEFINE a0 == [s |-> s, buf |-> buf]
<1>1. a0 \in StrayStates /\ n \in Nat /\ a0.s = s /\ a0.buf = buf
  BY DEF StrayStates
<1>2. Stray(s, buf) = FoldLeft(StrayByte, a0, buf)
  BY DEF Stray
<1> HIDE DEF a0
<1>3. PICK run \in [0..n -> StrayStates] :
         /\ run[0] = a0
         /\ \A k \in 1..n : run[k] = StrayByte(run[k - 1], buf[k])
         /\ FoldLeft(StrayByte, a0, buf) = run[n]
  BY <1>1, StrayRun
<1> HIDE DEF n
<1> DEFINE Ends(a) == a.buf = <<>> \/ BeCanWrite(a.s) = 0
<1> DEFINE I == {k \in 0..n : /\ HandsOn(s, buf, run[k].s, run[k].buf)
                              /\ Ends(run[k]) \/ run[k].buf = SubSeq(buf, k + 1, n)}
<1>4. 0 \in I
  <2>1. SubSeq(buf, 0 + 1, n) = buf
    BY <1>1, SubSeqFull DEF n
  <2>2. HandsOn(s, buf, s, buf)
    BY DEF HandsOn
  <2>3. 0 \in 0..n
    BY <1>1
  <2> HIDE DEF Ends
  <2> QED BY <1>1, <1>3, <2>1, <2>2, <2>3
<1>5. ASSUME NEW k \in 1..n, k - 1 \in I PROVE k \in I
  <2> DEFINE a == run[k - 1]
  <2> DEFINE c == run[k]
  <2>0. k \in 0..n /\ k - 1 \in 0..n /\ k \in Nat /\ k - 1 + 1 = k
    BY <1>1
  <2>1. a \in StrayStates /\ c = StrayByte(a, buf[k]) /\ buf[k] \in Bytes
    <3>1. buf[k] \in Bytes
      BY <1>1, ElementOfSeq DEF n
    <3> QED BY <1>3, <2>0, <3>1
  <2>2. HandsOn(s, buf, a.s, a.buf) /\ (Ends(a) \/ a.buf = SubSeq(buf, k, n))
    BY <1>5, <2>0
  <2> HIDE DEF a, c
  <2>3. CASE Ends(a)
    <3>1. c = a
      BY <2>1, <2>3, StrayByteEffect
    <3> HIDE DEF Ends
    <3> QED BY <2>0, <2>2, <2>3, <3>1 DEF c
  <2>4. CASE ~Ends(a)
    <3>1. a.buf = SubSeq(buf, k, n)
      BY <2>2, <2>4
    <3>2. Head(a.buf) = buf[k] /\ Tail(a.buf) = SubSeq(buf, k + 1, n)
      <4>1. k \in 1..Len(buf) /\ n \in k..Len(buf)
        BY <1>1 DEF n
      <4> QED BY <1>1, <3>1, <4>1, HeadTailOfSubSeq
    <3>3. c.buf = Tail(a.buf) /\ HandsOn(a.s, a.buf, c.s, c.buf)
      BY <2>1, <2>4, <3>2, StrayByteEffect
    <3>4. HandsOn(s, buf, c.s, c.buf)
      BY <2>2, <3>3 DEF HandsOn
    <3> HIDE DEF Ends
    <3> QED BY <2>0, <3>2, <3>3, <3>4 DEF c
  <2> QED BY <2>3, <2>4
<1>6. \A k \in 0..n : k \in I
  <2> HIDE DEF I
  <2> QED BY <1>1, <1>4, <1>5, Climb
<1>7. n \in 0..n
  BY <1>1
<1>8. run[n] \in StrayStates /\ HandsOn(s, buf, run[n].s, run[n].buf)
      /\ (Ends(run[n]) \/ run[n].buf = SubSeq(buf, n + 1, n))
  <2> HIDE DEF Ends
  <2> QED BY <1>3, <1>6, <1>7
<1>9. SubSeq(buf, n + 1, n) = <<>>
  BY <1>1, SubSeqEmpty
<1> QED BY <1>2, <1>3, <1>8, <1>9

-----------------------------------------------------------------------------
(* tcp_chr_process_IAC_bytes against the reference decoder.                 *)

\* A byte that is handed on, by the position in a command,
Emits(o, b) == (o = 2 /\ b[1] = "IAC") \/ (o <= 1 /\ b[1] # "IAC")
\* and the next position.
NextOpt(o, b) ==
    IF o <= 1 THEN IF b[1] = "IAC" THEN 2 ELSE o
    ELSE IF o = 2 /\ b[1] \notin {"IAC", "IAC_BREAK"} THEN 3 ELSE 1

\* What a byte does, by the position in a command.
LEMMA IacNext ==
  ASSUME NEW a \in IacStates, NEW b \in Bytes
  PROVE  LET t == IacByte(a, b)
         IN  /\ t \in IacStates /\ t.opt = NextOpt(a.opt, b)
             /\ t.out = IF Emits(a.opt, b) THEN Append(a.out, b) ELSE a.out
<1> DEFINE o == a.opt
<1>0. IacByte(a, b) \in IacStates /\ o \in 0..3
  BY IacByteEffect DEF IacStates
<1>1. CASE o > 1 /\ b[1] = "IAC" /\ o = 2
  <2>1. IacByte(a, b) = [a EXCEPT !.out = Append(@, b), !.opt = 1]
    BY <1>1 DEF IacByte
  <2>2. IacByte(a, b).opt = 1 /\ IacByte(a, b).out = Append(a.out, b)
    BY <2>1 DEF IacStates
  <2> QED BY <1>0, <1>1, <2>2, IacByteEffect DEF NextOpt, Emits
<1>2. CASE o > 1 /\ ~(b[1] = "IAC" /\ o = 2)
  <2> DEFINE brk  == b[1] = "IAC_BREAK" /\ o = 2
  <2> DEFINE next == o + (IF brk THEN 2 ELSE 1)
  <2>1. IacByte(a, b) = [a EXCEPT !.opt = IF next >= 4 THEN 1 ELSE next,
                                  !.breaks = @ + (IF brk THEN 1 ELSE 0)]
    BY <1>2 DEF IacByte
  <2>2. (IF next >= 4 THEN 1 ELSE next) = NextOpt(o, b) /\ ~Emits(o, b)
    BY <1>0, <1>2 DEF NextOpt, Emits
  <2> HIDE DEF next, brk
  <2>3. IacByte(a, b).opt = (IF next >= 4 THEN 1 ELSE next) /\ IacByte(a, b).out = a.out
    BY <2>1 DEF IacStates
  <2> QED BY <2>2, <2>3, IacByteEffect
<1>3. CASE ~(o > 1) /\ b[1] = "IAC"
  <2>1. IacByte(a, b) = [a EXCEPT !.opt = 2]
    BY <1>3 DEF IacByte
  <2>2. IacByte(a, b).opt = 2 /\ IacByte(a, b).out = a.out
    BY <2>1 DEF IacStates
  <2> QED BY <1>0, <1>3, <2>2, IacByteEffect DEF NextOpt, Emits
<1>4. CASE ~(o > 1) /\ b[1] # "IAC"
  <2>1. IacByte(a, b) = [a EXCEPT !.out = Append(@, b)]
    BY <1>4 DEF IacByte
  <2>2. IacByte(a, b).opt = o /\ IacByte(a, b).out = Append(a.out, b)
    BY <2>1 DEF IacStates
  <2> QED BY <1>0, <1>4, <2>2, IacByteEffect DEF NextOpt, Emits
<1> QED BY <1>1, <1>2, <1>3, <1>4

\* The scanner before a read,
Scanner(opt) == [opt |-> opt, out |-> <<>>, breaks |-> 0]
\* and what it makes of one.
Parsed(opt, raw) == FoldLeft(IacByte, Scanner(opt), raw)

\* The first state of the scanner.
LEMMA ScannerType == ASSUME NEW opt \in 0..3 PROVE Scanner(opt) \in IacStates
  BY DEF Scanner, IacStates

\* Of nothing it makes nothing.
LEMMA ParsedNothing ==
  ASSUME NEW w \in Seq(Bytes), Len(w) = 0
  PROVE  Parsed(1, w) = Scanner(1)
<1>1. Scanner(1) \in IacStates
  BY ScannerType
<1>2. \E run \in [0..Len(w) -> IacStates] :
        /\ run[0] = Scanner(1)
        /\ \A k \in 1..Len(w) : run[k] = IacByte(run[k - 1], w[k])
        /\ FoldLeft(IacByte, Scanner(1), w) = run[Len(w)]
  BY ONLY <1>1, w \in Seq(Bytes), IacRun, Zenon
<1> QED BY <1>2 DEF Parsed

\* A read gives no more bytes and breaks together than it takes.
LEMMA ParsedLength ==
  ASSUME NEW opt \in 1..3, NEW buf \in Seq(Bytes)
  PROVE  LET r == Parsed(opt, buf)
         IN  /\ r \in IacStates /\ r.opt \in 1..3
             /\ Len(r.out) \in Nat /\ Len(buf) \in Nat /\ r.breaks + Len(r.out) <= Len(buf)
<1> DEFINE n == Len(buf)
<1>1. n \in Nat /\ Scanner(opt) \in IacStates
  <2>1. opt \in 0..3
    OBVIOUS
  <2> QED BY <2>1, ScannerType
<1>2. PICK run \in [0..n -> IacStates] :
         /\ run[0] = Scanner(opt)
         /\ \A k \in 1..n : run[k] = IacByte(run[k - 1], buf[k])
         /\ Parsed(opt, buf) = run[n]
  BY <1>1, IacRun DEF Parsed
<1>3. \A k \in 1..n : buf[k] \in Bytes
  BY ElementOfSeq
<1> HIDE DEF n
<1> DEFINE I == {k \in 0..n : run[k].opt \in 1..3 /\ run[k].breaks + Len(run[k].out) <= k}
<1>4. 0 \in I
  <2>1. run[0].opt = opt /\ run[0].breaks = 0 /\ Len(run[0].out) = 0
    BY <1>2 DEF Scanner
  <2> QED BY <1>1, <2>1
<1>5. ASSUME NEW k \in 1..n, k - 1 \in I PROVE k \in I
  <2> DEFINE a == run[k - 1]
  <2> DEFINE c == run[k]
  <2>0. k \in 0..n /\ k - 1 \in 0..n /\ k \in Nat
    BY <1>1
  <2>1. a \in IacStates /\ c = IacByte(a, buf[k]) /\ buf[k] \in Bytes
    BY <1>2, <1>3, <2>0
  <2>2. a.opt \in 1..3 /\ a.breaks + Len(a.out) <= k - 1
    BY <1>5
  <2> HIDE DEF a, c
  <2>3. c.opt \in 1..3
    <3>1. c.opt = NextOpt(a.opt, buf[k])
      BY <2>1, IacNext
    <3> QED BY <2>2, <3>1 DEF NextOpt
  <2>4. \/ c.out = a.out /\ c.breaks \in {a.breaks, a.breaks + 1}
        \/ c.out = Append(a.out, buf[k]) /\ c.breaks = a.breaks
    BY <2>1, IacByteEffect
  <2>5. a.out \in Seq(Bytes) /\ a.breaks \in Nat /\ Len(a.out) \in Nat
    BY <2>1 DEF IacStates
  <2>6. c.breaks + Len(c.out) <= k
    <3>1. CASE c.out = a.out /\ c.breaks \in {a.breaks, a.breaks + 1}
      BY <2>0, <2>2, <2>5, <3>1
    <3>2. CASE c.out = Append(a.out, buf[k]) /\ c.breaks = a.breaks
      <4>1. Len(c.out) = Len(a.out) + 1
        BY <2>1, <2>5, <3>2, AppendProperties
      <4> QED BY <2>0, <2>2, <2>5, <3>2, <4>1
    <3> QED BY <2>4, <3>1, <3>2
  <2> QED BY <2>0, <2>3, <2>6 DEF c
<1>6. \A k \in 0..n : k \in I
  <2> HIDE DEF I
  <2> QED BY <1>1, <1>4, <1>5, Climb
<1>7. n \in 0..n
  BY <1>1
<1>8. run[n] \in IacStates /\ run[n].opt \in 1..3 /\ run[n].breaks + Len(run[n].out) <= n
  BY <1>2, <1>6, <1>7
<1>9. Len(run[n].out) \in Nat
  BY <1>8 DEF IacStates
<1> QED BY <1>1, <1>2, <1>8, <1>9 DEF n

\* A scanner that has given p before is as far as one that has given nothing.
LEMMA IacFollows ==
  ASSUME NEW a \in IacStates, NEW c \in IacStates, NEW p \in Seq(Bytes), NEW b \in Bytes,
         a.opt = c.opt, a.out = p \o c.out
  PROVE  /\ IacByte(a, b).opt = IacByte(c, b).opt
         /\ IacByte(a, b).out = p \o IacByte(c, b).out
<1>1. c.out \in Seq(Bytes)
  BY DEF IacStates
<1>2. p \o Append(c.out, b) = Append(p \o c.out, b)
  <2> DEFINE q == c.out
  <2> HIDE DEF q
  <2>1. q \in Seq(Bytes)
    BY <1>1 DEF q
  <2>2. p \o Append(q, b) = Append(p \o q, b)
    BY <2>1, ConcatAppend
  <2> QED BY <2>2 DEF q
<1>3. /\ IacByte(a, b).opt = NextOpt(a.opt, b)
      /\ IacByte(a, b).out = IF Emits(a.opt, b) THEN Append(a.out, b) ELSE a.out
  BY IacNext
<1>4. /\ IacByte(c, b).opt = NextOpt(c.opt, b)
      /\ IacByte(c, b).out = IF Emits(c.opt, b) THEN Append(c.out, b) ELSE c.out
  BY IacNext
<1>5. CASE Emits(a.opt, b)
  <2>1. IacByte(a, b).out = Append(a.out, b) /\ IacByte(c, b).out = Append(c.out, b)
    BY <1>3, <1>4, <1>5
  <2> QED BY <1>2, <1>3, <1>4, <2>1
<1>6. CASE ~Emits(a.opt, b)
  <2>1. IacByte(a, b).out = a.out /\ IacByte(c, b).out = c.out
    BY <1>3, <1>4, <1>6
  <2> QED BY <1>3, <1>4, <2>1
<1> QED BY <1>5, <1>6

\* Read in two pieces or in one.
LEMMA ParsedGoesOn ==
  ASSUME NEW p \in Seq(Bytes), NEW q \in Seq(Bytes)
  PROVE  LET a == Parsed(1, p)
             c == Parsed(a.opt, q)
             r == Parsed(1, p \o q)
         IN  r.opt = c.opt /\ r.out = a.out \o c.out
<1> DEFINE n == Len(p)
<1> DEFINE l == Len(q)
<1> DEFINE pq == p \o q
<1> DEFINE a == Parsed(1, p)
<1>1. n \in Nat /\ l \in Nat /\ pq \in Seq(Bytes) /\ Len(pq) = n + l
  BY ConcatProperties
<1>2. \A k \in 1..n : k \in 1..Len(pq) /\ pq[k] = p[k]
  BY <1>1, ConcatProperties
<1>3. \A k \in 1..l : n + k \in 1..Len(pq) /\ pq[n + k] = q[k] /\ q[k] \in Bytes
  <2>1. \A k \in 1..l : n + k \in 1..Len(pq) /\ pq[n + k] = q[k]
    BY <1>1, ConcatProperties
  <2>2. \A k \in 1..l : q[k] \in Bytes
    BY ElementOfSeq
  <2> QED BY <2>1, <2>2
<1>4. a \in IacStates /\ a.opt \in 1..3
  <2>1. 1 \in 1..3
    OBVIOUS
  <2> QED BY <2>1, ParsedLength
<1> HIDE DEF pq
<1>5. Scanner(1) \in IacStates /\ Scanner(a.opt) \in IacStates
  <2>1. 1 \in 0..3 /\ a.opt \in 0..3
    BY <1>4
  <2> HIDE DEF a
  <2> QED BY <2>1, ScannerType
<1>6. PICK r \in [0..Len(pq) -> IacStates] :
         /\ r[0] = Scanner(1)
         /\ \A k \in 1..Len(pq) : r[k] = IacByte(r[k - 1], pq[k])
         /\ Parsed(1, pq) = r[Len(pq)]
  BY <1>1, <1>5, IacRun DEF Parsed
<1>7. PICK s \in [0..n -> IacStates] :
         /\ s[0] = Scanner(1)
         /\ \A k \in 1..n : s[k] = IacByte(s[k - 1], p[k])
         /\ a = s[n]
  BY <1>5, IacRun DEF Parsed
<1> HIDE DEF a
<1>8. PICK c \in [0..l -> IacStates] :
         /\ c[0] = Scanner(a.opt)
         /\ \A k \in 1..l : c[k] = IacByte(c[k - 1], q[k])
         /\ Parsed(a.opt, q) = c[l]
  BY <1>5, IacRun DEF Parsed
<1> HIDE DEF n, l
<1> DEFINE I == {k \in 0..n : r[k] = s[k]}
<1>9. \A k \in 0..n : k \in I
  <2>1. 0 \in I
    BY <1>1, <1>6, <1>7
  <2>2. \A k \in 1..n : k - 1 \in I => k \in I
    <3> SUFFICES ASSUME NEW k \in 1..n, r[k - 1] = s[k - 1] PROVE r[k] = s[k]
      BY <1>1
    <3> QED BY <1>2, <1>6, <1>7
  <2> HIDE DEF I
  <2> QED BY <1>1, <2>1, <2>2, Climb
<1>10. r[n] = a
  <2>1. n \in 0..n
    BY <1>1
  <2> QED BY <1>7, <1>9, <2>1
<1> DEFINE J == {k \in 0..l : r[n + k].opt = c[k].opt /\ r[n + k].out = a.out \o c[k].out}
<1>11. 0 \in J
  <2>1. a.out \o <<>> = a.out
    <3> DEFINE e == a.out
    <3>1. e \in Seq(Bytes)
      BY <1>4 DEF IacStates
    <3> HIDE DEF e
    <3>2. e \o <<>> = e
      BY <3>1, ConcatEmptySeq
    <3> QED BY <3>2 DEF e
  <2>2. n + 0 = n /\ 0 \in 0..l
    BY <1>1
  <2>3. c[0].opt = a.opt /\ c[0].out = <<>>
    BY <1>8 DEF Scanner
  <2> QED BY <1>10, <2>1, <2>2, <2>3
<1>12. ASSUME NEW k \in 1..l, k - 1 \in J PROVE k \in J
  <2> DEFINE i == n + k
  <2> DEFINE x == r[i - 1]
  <2> DEFINE y == c[k - 1]
  <2> DEFINE e == a.out
  <2>0. i \in 1..Len(pq) /\ pq[i] = q[k] /\ q[k] \in Bytes /\ k \in 0..l /\ k - 1 \in 0..l
        /\ n + (k - 1) = i - 1 /\ i - 1 \in 0..Len(pq)
    <3>1. i \in 1..Len(pq) /\ pq[i] = q[k] /\ q[k] \in Bytes
      BY <1>3
    <3> QED BY <1>1, <3>1
  <2>1. x.opt = y.opt /\ x.out = e \o y.out
    BY <1>12, <2>0
  <2>2. r[i] = IacByte(x, q[k]) /\ c[k] = IacByte(y, q[k]) /\ x \in IacStates /\ y \in IacStates
    <3> HIDE DEF i
    <3> QED BY <1>6, <1>8, <2>0
  <2>3. e \in Seq(Bytes)
    BY <1>4 DEF IacStates
  <2> HIDE DEF x, y, e, i
  <2> DEFINE b == q[k]
  <2>4. b \in Bytes /\ r[i] = IacByte(x, b) /\ c[k] = IacByte(y, b)
    BY <2>0, <2>2
  <2> HIDE DEF b
  <2>5. IacByte(x, b).opt = IacByte(y, b).opt /\ IacByte(x, b).out = e \o IacByte(y, b).out
    BY <2>1, <2>2, <2>3, <2>4, IacFollows
  <2>6. r[i].opt = c[k].opt /\ r[i].out = e \o c[k].out
    BY <2>4, <2>5
  <2> QED BY <2>0, <2>6 DEF i, e
<1>13. \A k \in 0..l : k \in J
  <2> HIDE DEF J
  <2> QED BY <1>1, <1>11, <1>12, Climb
<1>14. r[n + l].opt = c[l].opt /\ r[n + l].out = a.out \o c[l].out
  <2>1. l \in 0..l
    BY <1>1
  <2> QED BY <1>13, <2>1
<1> QED BY <1>1, <1>6, <1>8, <1>14 DEF a, pq

-----------------------------------------------------------------------------
\* One byte before a sequence.
LEMMA ConsFacts ==
  ASSUME NEW b \in Bytes, NEW q \in Seq(Bytes)
  PROVE  /\ <<b>> \o q \in Seq(Bytes)
         /\ \A p \in Seq(Bytes) : p \o (<<b>> \o q) = Append(p, b) \o q
<1>1. <<b>> \in Seq(Bytes)
  OBVIOUS
<1>2. <<b>> \o q \in Seq(Bytes)
  BY <1>1, ConcatProperties
<1>3. ASSUME NEW p \in Seq(Bytes) PROVE p \o (<<b>> \o q) = Append(p, b) \o q
  <2>1. (p \o <<b>>) \o q = p \o (<<b>> \o q)
    BY <1>1, ConcatAssociative
  <2>2. Append(p, b) = p \o <<b>>
    BY AppendIsConcat
  <2> QED BY <2>1, <2>2
<1> QED BY <1>2, <1>3

\* What the reference decoder says from position i on, by what it says further on.
DecodeFrom(f, s, i) ==
    IF i > Len(s) THEN <<>>
    ELSE IF s[i][1] # "IAC" THEN <<s[i]>> \o f[i + 1]
    ELSE IF i = Len(s) THEN <<>>
    ELSE CASE s[i + 1][1] = "IAC"       -> <<s[i + 1]>> \o f[i + 2]
           [] s[i + 1][1] = "IAC_BREAK" -> f[i + 2]
           [] OTHER                     -> f[i + 3]

\* What the reference says from a position on is bytes,
LEMMA DecodeFromType ==
  ASSUME NEW s \in Seq(Bytes), NEW f, NEW i \in 1..Len(s) + 3,
         \A j \in 1..Len(s) + 3 : j > i => f[j] \in Seq(Bytes)
  PROVE  DecodeFrom(f, s, i) \in Seq(Bytes)
<1> DEFINE n == Len(s)
<1>1. n \in Nat /\ (\A j \in 1..n : s[j] \in Bytes) /\ <<>> \in Seq(Bytes)
  BY ElementOfSeq
<1>2. CASE i > n
  BY <1>1, <1>2 DEF DecodeFrom
<1>3. CASE i <= n /\ s[i][1] # "IAC"
  <2>1. s[i] \in Bytes /\ i + 1 \in 1..n + 3 /\ i + 1 > i
    BY <1>1, <1>3
  <2>2. f[i + 1] \in Seq(Bytes)
    BY <2>1
  <2>3. <<s[i]>> \o f[i + 1] \in Seq(Bytes)
    BY <2>1, <2>2, ConsFacts
  <2> QED BY <1>1, <1>3, <2>3 DEF DecodeFrom
<1>4. CASE i <= n /\ s[i][1] = "IAC" /\ i = n
  BY <1>1, <1>4 DEF DecodeFrom
<1>5. CASE i <= n /\ s[i][1] = "IAC" /\ i # n
  <2>1. s[i + 1] \in Bytes /\ i + 2 \in 1..n + 3 /\ i + 3 \in 1..n + 3 /\ i + 2 > i /\ i + 3 > i
    BY <1>1, <1>5
  <2>2. f[i + 2] \in Seq(Bytes) /\ f[i + 3] \in Seq(Bytes)
    BY <2>1
  <2>3. <<s[i + 1]>> \o f[i + 2] \in Seq(Bytes)
    BY <2>1, <2>2, ConsFacts
  <2> QED BY <1>1, <1>5, <2>2, <2>3 DEF DecodeFrom
<1> QED BY <1>1, <1>2, <1>3, <1>4, <1>5

\* and depends on what it says further on only.
LEMMA DecodeFromSame ==
  ASSUME NEW s \in Seq(Bytes), NEW f, NEW g, NEW i \in 1..Len(s) + 3,
         \A j \in 1..Len(s) + 3 : j > i => f[j] = g[j]
  PROVE  DecodeFrom(f, s, i) = DecodeFrom(g, s, i)
<1> DEFINE n == Len(s)
<1>1. n \in Nat
  OBVIOUS
<1>2. CASE i > n
  BY <1>1, <1>2 DEF DecodeFrom
<1>3. CASE i <= n
  <2>1. i + 1 \in 1..n + 3 /\ i + 1 > i /\ i + 2 \in 1..n + 3 /\ i + 2 > i /\ i + 3 \in 1..n + 3
        /\ i + 3 > i
    BY <1>1, <1>3
  <2>2. f[i + 1] = g[i + 1] /\ f[i + 2] = g[i + 2] /\ f[i + 3] = g[i + 3]
    BY <2>1
  <2> QED BY <2>2 DEF DecodeFrom
<1> QED BY <1>1, <1>2, <1>3

\* The recursive function of Decode.
IsDecoder(f, s) ==
    /\ f \in [1..Len(s) + 3 -> Seq(Bytes)]
    /\ \A i \in 1..Len(s) + 3 : f[i] = DecodeFrom(f, s, i)

\* The recursive function exists: built from the end of the stream.
LEMMA DecoderExists ==
  ASSUME NEW s \in Seq(Bytes)
  PROVE  \E f : IsDecoder(f, s)
<1> DEFINE n == Len(s)
<1> DEFINE D == 1..n + 3
<1> DEFINE Is(f, k) == \A i \in D : i > n - k => f[i] = DecodeFrom(f, s, i)
<1> DEFINE I == {k \in 0..n : \E f \in [D -> Seq(Bytes)] : Is(f, k)}
<1>1. n \in Nat /\ <<>> \in Seq(Bytes)
  OBVIOUS
<1>2. 0 \in I
  <2> DEFINE f == [i \in D |-> <<>>]
  <2>1. f \in [D -> Seq(Bytes)]
    BY <1>1
  <2>2. ASSUME NEW i \in D, i > n - 0 PROVE f[i] = DecodeFrom(f, s, i)
    <3>1. f[i] = <<>> /\ i > Len(s)
      BY <1>1, <2>2
    <3> HIDE DEF f
    <3> QED BY <3>1 DEF DecodeFrom
  <2>3. 0 \in 0..n
    BY <1>1
  <2> HIDE DEF f, D
  <2> QED BY <2>1, <2>2, <2>3
<1>3. ASSUME NEW k \in 1..n, k - 1 \in I PROVE k \in I
  <2>1. PICK f \in [D -> Seq(Bytes)] : Is(f, k - 1)
    BY <1>3
  <2> DEFINE c == n - k + 1
  <2> DEFINE g == [f EXCEPT ![c] = DecodeFrom(f, s, c)]
  <2>2. c \in D /\ k \in 0..n /\ c \in Int
    BY <1>1
  <2>3. DecodeFrom(f, s, c) \in Seq(Bytes)
    <3>1. \A j \in 1..Len(s) + 3 : j > c => f[j] \in Seq(Bytes)
      OBVIOUS
    <3>2. c \in 1..Len(s) + 3
      BY <2>2
    <3> HIDE DEF c
    <3> QED BY <3>1, <3>2, DecodeFromType
  <2>4. g \in [D -> Seq(Bytes)] /\ g[c] = DecodeFrom(f, s, c)
        /\ \A j \in D : j # c => g[j] = f[j]
    <3> HIDE DEF c, D
    <3> QED BY <2>2, <2>3
  <2> HIDE DEF g
  <2>5. ASSUME NEW i \in D, i > n - k PROVE g[i] = DecodeFrom(g, s, i)
    <3>1. i >= c /\ i \in Int
      BY <1>1, <2>5
    <3>2. \A j \in 1..Len(s) + 3 : j > i => f[j] = g[j]
      <4> SUFFICES ASSUME NEW j \in 1..Len(s) + 3, j > i PROVE f[j] = g[j]
        OBVIOUS
      <4>1. j # c /\ j \in D
        BY <2>2, <3>1
      <4> QED BY <2>4, <4>1
    <3>3. DecodeFrom(f, s, i) = DecodeFrom(g, s, i)
      <4>1. i \in 1..Len(s) + 3
        OBVIOUS
      <4> QED BY <3>2, <4>1, DecodeFromSame
    <3>4. CASE i = c
      BY <2>4, <3>3, <3>4
    <3>5. CASE i # c
      <4>1. i > n - (k - 1)
        <5>1. n \in Int /\ k \in Int
          BY <1>1
        <5> HIDE DEF n, D
        <5> QED BY ONLY <5>1, <3>1, <3>5
      <4>2. g[i] = f[i]
        BY <2>4, <3>5
      <4> HIDE DEF D
      <4> QED BY <2>1, <3>3, <4>1, <4>2
    <3> QED BY <3>4, <3>5
  <2>6. Is(g, k)
    BY <2>5
  <2> HIDE DEF Is, D
  <2> QED BY <2>2, <2>4, <2>6
<1>4. \A k \in 0..n : k \in I
  <2> HIDE DEF I, n
  <2> QED BY <1>1, <1>2, <1>3, Climb
<1>5. n \in 0..n
  BY <1>1
<1>6. PICK f \in [D -> Seq(Bytes)] : Is(f, n)
  BY <1>4, <1>5
<1>7. \A i \in D : i > n - n
  BY <1>1
<1>8. IsDecoder(f, s)
  BY <1>6, <1>7 DEF IsDecoder
<1> QED BY <1>8

\* So Decode is what it says from the first byte on.
LEMMA DecodeIs ==
  ASSUME NEW s \in Seq(Bytes)
  PROVE  \E f : IsDecoder(f, s) /\ Decode(s) = f[1]
<1> DEFINE n == Len(s)
<1> DEFINE D == 1..n + 3
<1> DEFINE P(g) == g = [i \in D |->
            IF i > Len(s) THEN <<>>
            ELSE IF s[i][1] # "IAC" THEN <<s[i]>> \o g[i + 1]
            ELSE IF i = Len(s) THEN <<>>
            ELSE CASE s[i + 1][1] = "IAC"       -> <<s[i + 1]>> \o g[i + 2]
                   [] s[i + 1][1] = "IAC_BREAK" -> g[i + 2]
                   [] OTHER                     -> g[i + 3]]
<1> DEFINE f == CHOOSE g : P(g)
<1>1. n \in Nat /\ <<>> \in Seq(Bytes)
  OBVIOUS
<1>2. PICK g : IsDecoder(g, s)
  BY DecoderExists
<1>3. g = [i \in D |-> DecodeFrom(g, s, i)]
  BY <1>2 DEF IsDecoder
<1>4. P(g)
  BY <1>3 DEF DecodeFrom
<1>5. P(f)
  <2> HIDE DEF P
  <2> QED BY <1>4
<1>6. Decode(s) = f[1]
  BY DEF Decode
<1> HIDE DEF f
<1>7. f = [i \in D |-> DecodeFrom(f, s, i)]
  BY <1>5 DEF DecodeFrom
<1> HIDE DEF P
<1>8. \A i \in D : f[i] = DecodeFrom(f, s, i)
  <2> DEFINE d == [i \in D |-> DecodeFrom(f, s, i)]
  <2>1. \A i \in D : d[i] = DecodeFrom(f, s, i)
    OBVIOUS
  <2>2. f = d
    BY <1>7
  <2> HIDE DEF d
  <2> QED BY <2>1, <2>2
<1> DEFINE I == {k \in 0..n : \A i \in D : i > n - k => f[i] \in Seq(Bytes)}
<1>9. 0 \in I
  <2>1. ASSUME NEW i \in D, i > n - 0 PROVE f[i] \in Seq(Bytes)
    <3>1. i > Len(s)
      BY <1>1, <2>1
    <3> QED BY <1>1, <1>8, <3>1 DEF DecodeFrom
  <2>2. 0 \in 0..n
    BY <1>1
  <2> QED BY <2>1, <2>2
<1>10. ASSUME NEW k \in 1..n, k - 1 \in I PROVE k \in I
  <2>1. ASSUME NEW i \in D, i > n - k PROVE f[i] \in Seq(Bytes)
    <3>1. \A j \in 1..Len(s) + 3 : j > i => f[j] \in Seq(Bytes)
      <4> SUFFICES ASSUME NEW j \in 1..Len(s) + 3, j > i PROVE f[j] \in Seq(Bytes)
        OBVIOUS
      <4>1. j > n - (k - 1) /\ j \in D
        BY <1>1, <2>1
      <4> QED BY <1>10, <4>1
    <3>2. DecodeFrom(f, s, i) \in Seq(Bytes)
      BY <3>1, DecodeFromType
    <3> QED BY <1>8, <3>2
  <2>2. k \in 0..n
    BY <1>1
  <2> HIDE DEF D
  <2> QED BY <2>1, <2>2
<1>11. \A k \in 0..n : k \in I
  <2> HIDE DEF I, n
  <2> QED BY <1>1, <1>9, <1>10, Climb
<1>12. \A i \in D : f[i] \in Seq(Bytes)
  <2>1. n \in 0..n /\ \A i \in D : i > n - n
    BY <1>1
  <2> QED BY <1>11, <2>1
<1>13. f \in [D -> Seq(Bytes)]
  <2> DEFINE d == [i \in D |-> DecodeFrom(f, s, i)]
  <2>1. \A i \in D : d[i] \in Seq(Bytes)
    BY <1>8, <1>12
  <2>2. d \in [D -> Seq(Bytes)]
    <3>1. \A i \in D : DecodeFrom(f, s, i) \in Seq(Bytes)
      BY <1>8, <1>12
    <3> HIDE DEF D
    <3> QED BY <3>1
  <2>3. f = d
    BY <1>7
  <2> HIDE DEF d
  <2> QED BY <2>2, <2>3
<1> QED BY <1>6, <1>8, <1>13 DEF IsDecoder

\* The scanner, wherever it stops, has given what the reference says of the stream so far.
LEMMA DecodeRight ==
  ASSUME NEW raw \in Seq(Bytes)
  PROVE  Parsed(1, raw).out = Decode(raw)
<1> DEFINE n == Len(raw)
<1>1. n \in Nat /\ \A k \in 1..n : raw[k] \in Bytes
  BY ElementOfSeq
<1>2. PICK f : IsDecoder(f, raw) /\ Decode(raw) = f[1]
  BY DecodeIs
<1>3. /\ \A i \in 1..n + 3 : f[i] \in Seq(Bytes)
      /\ \A i \in 1..n + 3 : f[i] = DecodeFrom(f, raw, i)
  BY <1>2 DEF IsDecoder
<1>4. Scanner(1) \in IacStates
  BY ScannerType
<1>5. PICK run \in [0..n -> IacStates] :
         /\ run[0] = Scanner(1)
         /\ \A k \in 1..n : run[k] = IacByte(run[k - 1], raw[k])
         /\ Parsed(1, raw) = run[n]
  BY <1>4, IacRun DEF Parsed
<1> DEFINE So(a, k) ==
      \/ a.opt = 1 /\ a.out \o f[k + 1] = f[1]
      \/ a.opt = 2 /\ k >= 1 /\ raw[k][1] = "IAC" /\ a.out \o f[k] = f[1]
      \/ a.opt = 3 /\ a.out \o f[k + 2] = f[1]
<1> DEFINE I == {k \in 0..n : So(run[k], k)}
<1>6. 0 \in I
  <2>1. run[0].opt = 1 /\ run[0].out = <<>>
    BY <1>5 DEF Scanner
  <2>2. f[1] \in Seq(Bytes)
    <3>1. 1 \in 1..n + 3
      BY <1>1
    <3> QED BY <1>3, <3>1
  <2>3. <<>> \o f[1] = f[1]
    BY <2>2, ConcatEmptySeq
  <2> QED BY <1>1, <2>1, <2>3
<1>7. ASSUME NEW k \in 1..n, k - 1 \in I PROVE k \in I
  <2> DEFINE a == run[k - 1]
  <2> DEFINE c == run[k]
  <2> DEFINE b == raw[k]
  <2>0. /\ k \in 0..n /\ k - 1 \in 0..n /\ k \in Nat /\ k - 1 + 1 = k /\ k - 1 + 2 = k + 1
        /\ k \in 1..n + 3 /\ k + 1 \in 1..n + 3 /\ k + 2 \in 1..n + 3 /\ ~(k > n)
    BY <1>1
  <2>1. a \in IacStates /\ c = IacByte(a, b) /\ b \in Bytes
    BY <1>1, <1>5, <2>0
  <2>2. So(a, k - 1)
    BY <1>7
  <2> HIDE DEF a, c
  <2>3. c.opt = NextOpt(a.opt, b) /\ c.out = IF Emits(a.opt, b) THEN Append(a.out, b) ELSE a.out
    <3> HIDE DEF b
    <3> QED BY <2>1, IacNext
  <2>4. a.out \in Seq(Bytes)
    BY <2>1 DEF IacStates
  <2>5. f[k] \in Seq(Bytes) /\ f[k + 1] \in Seq(Bytes) /\ f[k + 2] \in Seq(Bytes)
    BY <1>3, <2>0
  <2>6. a.out \o (<<b>> \o f[k + 1]) = Append(a.out, b) \o f[k + 1]
    <3> DEFINE e == a.out
    <3> DEFINE q == f[k + 1]
    <3>1. e \in Seq(Bytes) /\ q \in Seq(Bytes)
      BY <2>4, <2>5
    <3> HIDE DEF e, q, b
    <3>2. e \o (<<b>> \o q) = Append(e, b) \o q
      BY <2>1, <3>1, ConsFacts
    <3> QED BY <3>2 DEF e, q
  <2>7. CASE a.opt = 1 /\ a.out \o f[k] = f[1]
    <3>1. f[k] = DecodeFrom(f, raw, k)
      BY <1>3, <2>0
    <3>2. CASE b[1] = "IAC"
      <4>1. c.opt = 2 /\ c.out = a.out
        BY <2>3, <2>7, <3>2 DEF NextOpt, Emits
      <4>2. k >= 1 /\ raw[k][1] = "IAC" /\ c.out \o f[k] = f[1]
        <5>1. k >= 1
          BY <1>1, <2>0
        <5>2. raw[k][1] = "IAC"
          BY <3>2
        <5>3. c.out \o f[k] = f[1]
          BY <2>7, <4>1
        <5> QED BY <5>1, <5>2, <5>3
      <4>3. So(c, k)
        BY <4>1, <4>2
      <4> HIDE DEF So
      <4> QED BY <2>0, <4>3 DEF c
    <3>3. CASE b[1] # "IAC"
      <4>1. c.opt = 1 /\ c.out = Append(a.out, b)
        BY <2>3, <2>7, <3>3 DEF NextOpt, Emits
      <4>2. f[k] = <<b>> \o f[k + 1]
        BY <2>0, <3>1, <3>3 DEF DecodeFrom
      <4>3. c.out \o f[k + 1] = f[1]
        BY <2>6, <2>7, <4>1, <4>2
      <4> QED BY <2>0, <4>1, <4>3 DEF c
    <3> QED BY <3>2, <3>3
  <2>8. CASE a.opt = 2 /\ k - 1 >= 1 /\ raw[k - 1][1] = "IAC" /\ a.out \o f[k - 1] = f[1]
    <3> DEFINE i == k - 1
    <3>0. i \in 1..n + 3 /\ ~(i > n) /\ i # n /\ i + 1 = k /\ i + 2 = k + 1 /\ i + 3 = k + 2
      BY <1>1, <2>8
    <3>1. f[i] = DecodeFrom(f, raw, i) /\ raw[i][1] = "IAC" /\ a.out \o f[i] = f[1]
      BY <1>3, <2>8, <3>0
    <3> HIDE DEF i
    <3>2. f[i] = CASE b[1] = "IAC"       -> <<b>> \o f[k + 1]
                   [] b[1] = "IAC_BREAK" -> f[k + 1]
                   [] OTHER              -> f[k + 2]
      BY <3>0, <3>1 DEF DecodeFrom
    <3>3. CASE b[1] = "IAC"
      <4>1. c.opt = 1 /\ c.out = Append(a.out, b)
        BY <2>3, <2>8, <3>3 DEF NextOpt, Emits
      <4>2. f[i] = <<b>> \o f[k + 1]
        BY <3>2, <3>3
      <4>3. c.out \o f[k + 1] = f[1]
        BY <2>6, <3>1, <4>1, <4>2
      <4> QED BY <2>0, <4>1, <4>3 DEF c
    <3>4. CASE b[1] = "IAC_BREAK"
      <4>1. c.opt = 1 /\ c.out = a.out
        BY <2>3, <2>8, <3>4 DEF NextOpt, Emits
      <4>2. f[i] = f[k + 1]
        BY <3>2, <3>4
      <4> QED BY <2>0, <3>1, <4>1, <4>2 DEF c
    <3>5. CASE b[1] \notin {"IAC", "IAC_BREAK"}
      <4>1. c.opt = 3 /\ c.out = a.out
        BY <2>3, <2>8, <3>5 DEF NextOpt, Emits
      <4>2. f[i] = f[k + 2]
        BY <3>2, <3>5
      <4> QED BY <2>0, <3>1, <4>1, <4>2 DEF c
    <3> QED BY <3>3, <3>4, <3>5
  <2>9. CASE a.opt = 3 /\ a.out \o f[k + 1] = f[1]
    <3>1. c.opt = 1 /\ c.out = a.out
      BY <2>3, <2>9 DEF NextOpt, Emits
    <3> QED BY <2>0, <2>9, <3>1 DEF c
  <2> QED BY <2>0, <2>2, <2>7, <2>8, <2>9
<1>8. \A k \in 0..n : k \in I
  <2> HIDE DEF I, n
  <2> QED BY <1>1, <1>6, <1>7, Climb
<1>9. So(run[n], n)
  <2>1. n \in 0..n
    BY <1>1
  <2> HIDE DEF So
  <2> QED BY <1>8, <2>1
<1> DEFINE a == run[n]
<1>10. a.out \in Seq(Bytes) /\ a.out \o <<>> = a.out
  <2> DEFINE e == a.out
  <2>1. a \in IacStates
    BY <1>1, <1>5
  <2>2. e \in Seq(Bytes)
    BY <2>1 DEF IacStates
  <2> HIDE DEF e
  <2>3. e \o <<>> = e
    BY <2>2, ConcatEmptySeq
  <2> QED BY <2>2, <2>3 DEF e
<1>11. f[n + 1] = <<>> /\ f[n + 2] = <<>>
  <2>1. n + 1 \in 1..n + 3 /\ n + 2 \in 1..n + 3 /\ n + 1 > n /\ n + 2 > n
    BY <1>1
  <2> QED BY <1>3, <2>1 DEF DecodeFrom
<1>12. n >= 1 /\ raw[n][1] = "IAC" => f[n] = <<>>
  <2> SUFFICES ASSUME n >= 1, raw[n][1] = "IAC" PROVE f[n] = <<>>
    OBVIOUS
  <2>1. n \in 1..n + 3 /\ ~(n > n)
    BY <1>1
  <2> QED BY <1>3, <2>1 DEF DecodeFrom
<1>13. a.out = f[1]
  BY <1>9, <1>10, <1>11, <1>12
<1> QED BY <1>2, <1>5, <1>13

-----------------------------------------------------------------------------
(* The inductive invariant.                                                *)

\* A piece of a sequence.
LEMMA Slice ==
  ASSUME NEW e \in Seq(Bytes), NEW f \in Nat, NEW n \in Nat, f <= n, n <= Len(e)
  PROVE  LET g == SubSeq(e, f + 1, n)
         IN  g \in Seq(Bytes) /\ Len(g) = n - f /\ \A i \in 1..n - f : g[i] = e[f + i]
<1> DEFINE a == f + 1
<1> DEFINE g == SubSeq(e, a, n)
<1>1. a \in Int /\ n \in Int /\ a <= n + 1 /\ n - a + 1 = n - f
  OBVIOUS
<1>2. \A i \in a..n : e[i] \in Bytes
  <2>1. \A i \in 1..Len(e) : e[i] \in Bytes
    BY ElementOfSeq
  <2> QED BY <2>1
<1> HIDE DEF a
<1>3. /\ g \in Seq(Bytes) /\ Len(g) = IF a <= n THEN n - a + 1 ELSE 0
      /\ \A i \in 1..n - a + 1 : g[i] = e[a + i - 1]
  BY ONLY <1>1, <1>2, SubSeqProperties
<1> HIDE DEF g
<1>4. \A i \in 1..n - f : a + i - 1 = f + i
  BY DEF a
<1>5. Len(g) = n - f
  BY <1>1, <1>3
<1>6. \A i \in 1..n - f : g[i] = e[f + i]
  BY <1>1, <1>3, <1>4
<1>7. g \in Seq(Bytes) /\ Len(g) = n - f /\ \A i \in 1..n - f : g[i] = e[f + i]
  BY <1>3, <1>5, <1>6
<1> QED BY <1>7 DEF g, a

\* The end of a sequence that grows.
LEMMA EndGrows ==
  ASSUME NEW e \in Seq(Bytes), NEW buf \in Seq(Bytes), NEW f \in 0..Len(e)
  PROVE  SubSeq(e \o buf, f + 1, Len(e) + Len(buf)) = SubSeq(e, f + 1, Len(e)) \o buf
<1> DEFINE n == Len(e)
<1> DEFINE l == Len(buf)
<1> DEFINE eb == e \o buf
<1> DEFINE g == SubSeq(e, f + 1, n)
<1> DEFINE x == SubSeq(eb, f + 1, n + l)
<1>1. /\ n \in Nat /\ l \in Nat /\ eb \in Seq(Bytes) /\ f \in 0..n
      /\ \A i \in 1..n + l : eb[i] = IF i <= n THEN e[i] ELSE buf[i - n]
      /\ Len(eb) = n + l
  BY ConcatProperties
<1>2. (\A i \in 1..n : e[i] \in Bytes) /\ (\A i \in 1..n + l : eb[i] \in Bytes)
  <2>1. \A i \in 1..Len(e) : e[i] \in Bytes
    BY ElementOfSeq
  <2>2. \A i \in 1..Len(eb) : eb[i] \in Bytes
    <3> HIDE DEF eb
    <3> QED BY <1>1, ElementOfSeq
  <2> HIDE DEF eb
  <2> QED BY <1>1, <2>1, <2>2
<1>3. g \in Seq(Bytes) /\ Len(g) = n - f /\ \A i \in 1..n - f : g[i] = e[f + i]
  <2>1. n \in Nat /\ f \in Nat /\ f <= n /\ n <= Len(e)
    BY <1>1
  <2> HIDE DEF n
  <2> QED BY <2>1, Slice
<1>4. x \in Seq(Bytes) /\ Len(x) = n + l - f /\ \A i \in 1..n + l - f : x[i] = eb[f + i]
  <2> DEFINE k == n + l
  <2>1. k \in Nat /\ f \in Nat /\ f <= k /\ k <= Len(eb) /\ eb \in Seq(Bytes)
    BY <1>1
  <2> HIDE DEF k, eb
  <2>2. x \in Seq(Bytes) /\ Len(x) = k - f /\ \A i \in 1..k - f : x[i] = eb[f + i]
    <3>1. x = SubSeq(eb, f + 1, k)
      BY DEF k
    <3> HIDE DEF x
    <3> QED BY <2>1, <3>1, Slice
  <2> QED BY <2>2 DEF k
<1> HIDE DEF g, x, eb
<1>5. /\ g \o buf \in Seq(Bytes) /\ Len(g \o buf) = n - f + l
      /\ \A i \in 1..n - f + l : (g \o buf)[i] = IF i <= n - f THEN g[i] ELSE buf[i - (n - f)]
  <2>1. g \in Seq(Bytes) /\ Len(buf) = l /\ Len(g) = n - f
    BY <1>3
  <2> HIDE DEF n, l
  <2>2. /\ g \o buf \in Seq(Bytes) /\ Len(g \o buf) = Len(g) + Len(buf)
        /\ \A i \in 1..Len(g) + Len(buf) :
             (g \o buf)[i] = IF i <= Len(g) THEN g[i] ELSE buf[i - Len(g)]
    BY <2>1, ConcatProperties
  <2> QED BY <2>1, <2>2
<1> HIDE DEF n, l
<1>6. ASSUME NEW i \in 1..n + l - f PROVE x[i] = (g \o buf)[i]
  <2>0. i \in 1..n - f + l /\ f + i \in 1..n + l /\ f + i - n = i - (n - f)
    BY <1>1
  <2>1. CASE i <= n - f
    <3>1. f + i <= n /\ i \in 1..n - f
      BY <1>1, <2>1
    <3> QED BY <1>1, <1>3, <1>4, <1>5, <2>0, <2>1, <3>1
  <2>2. CASE ~(i <= n - f)
    <3>1. ~(f + i <= n)
      BY <1>1, <2>2
    <3>2. x[i] = buf[f + i - n]
      <4> DEFINE j == f + i
      <4>1. x[i] = eb[j]
        BY <1>4
      <4>2. j \in 1..n + l /\ ~(j <= n)
        BY <2>0, <3>1
      <4> HIDE DEF j
      <4>3. eb[j] = buf[j - n]
        BY ONLY <1>1, <4>2
      <4>4. j - n = f + i - n
        <5>1. f \in Int /\ i \in Int /\ n \in Int
          BY <1>1
        <5> QED BY ONLY <5>1 DEF j
      <4> QED BY ONLY <4>1, <4>3, <4>4
    <3>3. (g \o buf)[i] = buf[i - (n - f)]
      BY <1>5, <2>0, <2>2
    <3> QED BY <2>0, <3>2, <3>3
  <2> QED BY <2>1, <2>2
<1>7. x = g \o buf
  <2> DEFINE y == g \o buf
  <2>1. y \in Seq(Bytes) /\ Len(x) = Len(y) /\ \A i \in 1..Len(x) : x[i] = y[i]
    <3>1. n + l - f = n - f + l
      BY <1>1
    <3> QED BY <1>4, <1>5, <1>6, <3>1
  <2> HIDE DEF y
  <2>2. x = y
    BY <1>4, <2>1, SeqEqual
  <2> QED BY <2>2 DEF y
<1> QED BY <1>7 DEF x, g, eb, n, l

\* What has been passed since the connection began.
Given(h) == SubSeq(Bare(h.passed), h.first + 1, Len(h.passed))

\* It grows by the bytes of a call.
LEMMA GivenGrows ==
  ASSUME NEW h \in Histories, NEW g, NEW buf \in Seq(Bytes), h.first <= Len(h.passed),
         g.first = h.first, g.passed = h.passed \o Tag(buf)
  PROVE  Given(g) = Given(h) \o buf /\ g.first <= Len(g.passed)
<1> DEFINE p == h.passed
<1> DEFINE e == Bare(p)
<1> DEFINE tb == Tag(buf)
<1>1. p \in Seq(Tagged) /\ h.first \in Nat /\ tb \in Seq(Tagged) /\ Len(tb) = Len(buf)
      /\ Len(buf) \in Nat
  BY TagType DEF Histories, Tagged
<1> HIDE DEF p, tb
<1>2. Len(p \o tb) = Len(p) + Len(tb) /\ Len(p) \in Nat
  <2>1. p \in Seq(Tagged) /\ tb \in Seq(Tagged)
    BY <1>1
  <2>2. Len(p \o tb) = Len(p) + Len(tb)
    BY <2>1, ConcatProperties
  <2>3. Len(p) \in Nat
    BY <2>1
  <2> QED BY <2>2, <2>3
<1>3. e \in Seq(Bytes) /\ Len(e) = Len(p) /\ Bare(p \o tb) = e \o buf
  BY <1>1, BareGrows DEF tb
<1>4. h.first \in 0..Len(e)
  BY <1>1, <1>2, <1>3 DEF p
<1> HIDE DEF e
<1> DEFINE f == h.first
<1> HIDE DEF f
<1>5. SubSeq(e \o buf, f + 1, Len(e) + Len(buf)) = SubSeq(e, f + 1, Len(e)) \o buf
  <2>1. f \in 0..Len(e)
    BY <1>4 DEF f
  <2> QED BY <1>3, <2>1, EndGrows
<1>6. Given(g) = Given(h) \o buf
  BY <1>1, <1>2, <1>3, <1>5 DEF Given, p, tb, e, f
<1>7. g.first <= Len(g.passed)
  BY <1>1, <1>2 DEF p, tb
<1> QED BY <1>6, <1>7

\* It is bytes.
LEMMA GivenType ==
  ASSUME NEW h \in Histories, h.first <= Len(h.passed)
  PROVE  Given(h) \in Seq(Bytes)
<1> DEFINE p == h.passed
<1> DEFINE e == Bare(p)
<1>1. p \in Seq(Tagged) /\ h.first \in Nat
  BY DEF Histories, Tagged
<1> HIDE DEF p
<1>2. e \in Seq(Bytes) /\ Len(e) = Len(p) /\ Len(p) \in Nat
  <2>1. <<>> \in Seq(Bytes)
    OBVIOUS
  <2> QED BY <1>1, <2>1, BareGrows
<1> HIDE DEF e
<1>3. \A i \in h.first + 1..Len(p) : e[i] \in Bytes
  <2>1. \A i \in 1..Len(e) : e[i] \in Bytes
    BY <1>2, ElementOfSeq
  <2> QED BY <1>1, <1>2, <2>1
<1> DEFINE f == h.first + 1
<1> DEFINE n == Len(p)
<1>4. f \in Int /\ n \in Int /\ \A i \in f..n : e[i] \in Bytes
  BY <1>1, <1>2, <1>3
<1> HIDE DEF f, n
<1>5. SubSeq(e, f, n) \in Seq(Bytes)
  BY <1>4, SubSeqProperties
<1> QED BY <1>5 DEF Given, p, e, f, n

-----------------------------------------------------------------------------
\* The back end.
BaseStates ==
    [connected : BOOLEAN, handler : BOOLEAN, telnetopt : 0..3, size : 0..FIFOLEN,
     polling : BOOLEAN, timer : {"off", "short", "long"}, buf : Seq(Bytes),
     opened : BOOLEAN, openTimer : BOOLEAN]
\* What one write of the peer brings: a datagram, or one byte.
Chunked == {c \in Seq(Bytes) : c # <<>> /\ (kind # "udp" => Len(c) = 1)}
\* The peer.
PeerStates == [up : BOOLEAN, knocks : BOOLEAN, pipe : Seq(Chunked), sent : 0..MaxKeys]
\* The main loop.
LoopStates == [at : {"wait", "timers"}, fd : BOOLEAN]

\* A front end behind a telnet server is given what the scanner has decoded, whose position in
\* a command the connection keeps; behind any other back end the bytes that came, up to those
\* of the datagram that are left.
DecodedSoFar(h, d) ==
    /\ h.first <= Len(h.passed)
    /\ kind = "telnet" /\ h.clean =>
         Parsed(1, h.raw).out = Given(h) /\ Parsed(1, h.raw).opt = d.telnetopt
    /\ kind # "telnet" => h.first = 0 /\ h.raw = Bare(h.passed) \o d.buf

\* A descriptor that is waited for has room for what may be read, and nothing left to hand on.
WaitOk(s, d, l) ==
    l.at = "wait" /\ l.fd => Asked(d) /\ d.size > 0 /\ d.buf = <<>> /\ Room(s, d.size)

\* Who is connected, and who hears of it.
LinkOk(d, l, p) ==
    /\ d.polling = (kind = "pty" /\ d.handler) /\ (d.connected => d.handler)
    /\ kind # "pty" => d.timer = "off"
    /\ kind # "udp" => d.buf = <<>>
    /\ kind \in {"udp", "fd"} => ~d.connected
    /\ kind = "udp" => p.up
    /\ kind = "telnet" => d.telnetopt \in 1..3
    /\ kind = "telnet" /\ l.at = "wait" => (d.opened <=> d.connected) /\ ~d.openTimer
    /\ kind = "telnet" /\ l.at = "timers" => (d.opened \/ d.openTimer <=> d.connected)
    /\ kind = "pty" /\ l.at = "timers" /\ l.fd /\ d.polling /\ ~d.connected => p.up

\* All of it.
Sound(s, d, l, p) ==
    /\ s \in FrontStates /\ d \in BaseStates /\ l \in LoopStates /\ p \in PeerStates
    /\ FrontInv(s) /\ WaitOk(s, d, l) /\ LinkOk(d, l, p) /\ DecodedSoFar(s.hist, d)

\* The inductive invariant.
CharInv == kind \in Kinds /\ muxed \in BOOLEAN /\ Sound(State, base, loop, peer)

\* The state a step leads to.
After == [mux |-> mux', uart |-> uart', hist |-> hist']

\* A state of the front ends that is assigned.
LEMMA Became ==
  ASSUME NEW s \in FrontStates, Become(s)
  PROVE  After = s
<1>1. s = [mux |-> s.mux, uart |-> s.uart, hist |-> s.hist]
  BY FrontTypes
<1> QED BY <1>1 DEF After, Become

\* The invariant after a step, from the next values of the variables.
LEMMA SoundAfter ==
  ASSUME CharInv, UNCHANGED <<kind, muxed>>, Sound(After, base', loop', peer')
  PROVE  CharInv'
<1>1. kind' = kind /\ muxed' = muxed
  OBVIOUS
<1>2. Bytes' = Bytes
  BY <1>1 DEF Bytes, Alphabet
<1>3. FrontStates' = FrontStates
  BY <1>2 DEF FrontStates, MuxStates, UartStates, Histories
<1>4. BaseStates' = BaseStates /\ PeerStates' = PeerStates /\ LoopStates' = LoopStates
  BY <1>1, <1>2 DEF BaseStates, PeerStates, LoopStates, Chunked
<1>5. State' = After
  BY DEF State, After
<1>6. FrontInv(After) => FrontInv(State)'
  <2>1. RingsUsed(After) => RingsUsed(State)'
    BY <1>1, <1>5 DEF RingsUsed
  <2>2. Held(After) => Held(State)'
    BY <1>1, <1>5 DEF Held
  <2>3. Awake(After) => Awake(State)'
    BY <1>1, <1>5 DEF Awake
  <2>4. RoutedSoFar(After) => RoutedSoFar(State)'
    BY <1>1, <1>5 DEF RoutedSoFar
  <2> QED BY <2>1, <2>2, <2>3, <2>4 DEF FrontInv
<1>7. WaitOk(After, base', loop') => WaitOk(State, base, loop)'
  BY <1>1, <1>5 DEF WaitOk, Asked, Room
<1>8. LinkOk(base', loop', peer') => LinkOk(base, loop, peer)'
  BY <1>1 DEF LinkOk
<1>9. DecodedSoFar(After.hist, base') => DecodedSoFar(State.hist, base)'
  BY <1>1, <1>5 DEF DecodedSoFar, Given
<1>10. Sound(State, base, loop, peer)'
  BY <1>3, <1>4, <1>5, <1>6, <1>7, <1>8, <1>9 DEF Sound
<1> QED BY <1>1, <1>10 DEF CharInv

-----------------------------------------------------------------------------
(* The initial states.                                                     *)

\* Bytes that came in calls of one byte.
Calls(buf) == [i \in 1..Len(buf) |-> <<buf[i], TRUE>>]
\* Keys only.
Keys(buf) == \A i \in 1..Len(buf) : buf[i][1] = "key"

\* Bytes that came one by one, each in a call of its own.
LEMMA CallsType ==
  ASSUME NEW buf \in Seq(Bytes)
  PROVE  /\ Calls(buf) \in Seq(Tagged) /\ Len(Calls(buf)) = Len(buf) /\ Len(buf) \in Nat
         /\ Bare(Calls(buf)) = buf
         /\ \A i \in 1..Len(buf) : Calls(buf)[i] = <<buf[i], TRUE>> /\ buf[i] \in Bytes
<1> DEFINE n == Len(buf)
<1> DEFINE p == Calls(buf)
<1>1. n \in Nat /\ \A i \in 1..n : buf[i] \in Bytes
  BY ElementOfSeq
<1>2. \A i \in 1..n : <<buf[i], TRUE>> \in Tagged
  BY <1>1 DEF Tagged
<1>3. p \in [1..n -> Tagged] /\ \A i \in 1..n : p[i] = <<buf[i], TRUE>>
  BY <1>2 DEF Calls
<1> HIDE DEF p, n
<1>4. p \in Seq(Tagged)
  BY <1>1, <1>3, SeqDef
<1>5. Len(p) = n
  <2>1. 1..Len(p) = 1..n /\ Len(p) \in Nat
    BY <1>3, <1>4, LenProperties
  <2> QED BY <1>1, <2>1
<1>6. Bare(p) \in Seq(Bytes) /\ Len(Bare(p)) = n
  <2>1. <<>> \in Seq(Bytes)
    OBVIOUS
  <2> QED BY <1>4, <1>5, <2>1, BareGrows
<1>7. \A i \in 1..n : Bare(p)[i] = buf[i]
  <2> SUFFICES ASSUME NEW i \in 1..n PROVE Bare(p)[i] = buf[i]
    OBVIOUS
  <2>1. Bare(p)[i] = p[i][1]
    BY <1>5 DEF Bare
  <2>2. p[i] = <<buf[i], TRUE>>
    BY <1>3
  <2> QED BY <2>1, <2>2
<1>8. Bare(p) = buf
  <2> DEFINE e == Bare(p)
  <2>1. e \in Seq(Bytes) /\ Len(e) = Len(buf) /\ \A i \in 1..Len(e) : e[i] = buf[i]
    BY <1>6, <1>7 DEF n
  <2> HIDE DEF e
  <2>2. e = buf
    BY <2>1, SeqEqual
  <2> QED BY <2>2 DEF e
<1> QED BY <1>1, <1>3, <1>4, <1>5, <1>8 DEF p, n

\* Keys are for the UART, which has the focus.
LEMMA KeysRouted ==
  ASSUME NEW buf \in Seq(Bytes), Keys(buf)
  PROVE  LET a == Routing(Calls(buf))
         IN  a \in RouteStates /\ a.focus = UART /\ a.escaped = FALSE /\ a.to[UART] = buf
             /\ a.to[MONITOR] = <<>>
<1> DEFINE n == Len(buf)
<1> DEFINE p == Calls(buf)
<1>1. /\ p \in Seq(Tagged) /\ Len(p) = n /\ n \in Nat
      /\ \A i \in 1..n : p[i] = <<buf[i], TRUE>> /\ buf[i] \in Bytes
  BY CallsType
<1> HIDE DEF p
<1>2. PICK r \in [0..n -> RouteStates] :
         /\ r[0] = Unrouted
         /\ \A k \in 1..n : r[k] = RouteByte(r[k - 1], p[k])
         /\ Routing(p) = r[n]
  <2>1. \E r \in [0..Len(p) -> RouteStates] :
          /\ r[0] = Unrouted
          /\ \A k \in 1..Len(p) : r[k] = RouteByte(r[k - 1], p[k])
          /\ FoldLeft(RouteByte, Unrouted, p) = r[Len(p)]
    BY <1>1, UnroutedType, RouteRun
  <2> HIDE DEF n
  <2> QED BY <1>1, <2>1 DEF Routing
<1> DEFINE Ok(a, k) ==
      /\ a.focus = UART /\ a.escaped = FALSE
      /\ a.to[UART] = SubSeq(buf, 1, k) /\ a.to[MONITOR] = <<>>
<1> DEFINE I == {k \in 0..n : Ok(r[k], k)}
<1>3. 0 \in I
  <2>1. SubSeq(buf, 1, 0) = <<>>
    BY SubSeqEmpty
  <2>2. Ok(Unrouted, 0) /\ 0 \in 0..n
    BY <1>1, <2>1, FrontEndsAre DEF Unrouted
  <2> HIDE DEF Ok
  <2> QED BY <1>2, <2>2
<1>4. ASSUME NEW k \in 1..n, k - 1 \in I PROVE k \in I
  <2> DEFINE a == r[k - 1]
  <2> DEFINE c == r[k]
  <2> DEFINE b == buf[k]
  <2>0. k \in 0..n /\ k - 1 \in 0..n
    BY <1>1
  <2>1. a \in RouteStates /\ c = RouteByte(a, p[k]) /\ p[k] = <<b, TRUE>> /\ b \in Bytes
        /\ b[1] = "key" /\ Ok(a, k - 1) /\ p[k] \in Tagged
    <3>1. a \in RouteStates /\ c = RouteByte(a, p[k])
      BY <1>2, <2>0
    <3>2. p[k] = <<b, TRUE>> /\ b \in Bytes
      BY <1>1
    <3>3. p[k] \in Tagged
      BY <1>1, ElementOfSeq
    <3>4. b[1] = "key"
      BY DEF Keys
    <3>5. Ok(a, k - 1)
      BY <1>4
    <3> HIDE DEF Ok, a, c, b
    <3> QED BY <3>1, <3>2, <3>3, <3>4, <3>5
  <2> HIDE DEF a, c
  <2> DEFINE g == p[k]
  <2>2. g \in Tagged /\ g[1] = b /\ g[2] = TRUE /\ c = RouteByte(a, g)
    BY <2>1
  <2> HIDE DEF g, b
  <2>3. /\ c.focus = a.focus /\ c.escaped = FALSE
        /\ c.to = [a.to EXCEPT ![UART] = Append(@, b)]
    <3>1. ~(b[1] = "escape")
      BY <2>1
    <3>2. a.escaped = FALSE /\ a.focus = UART
      BY <2>1
    <3>3. LET m == IF g[2] THEN a.focus ELSE a.m
              t == RouteByte(a, g)
              data == a.escaped = (g[1][1] = "escape")
          IN  /\ t.focus = IF ~data /\ a.escaped /\ g[1][1] = "c" THEN 1 - a.focus ELSE a.focus
              /\ t.escaped = (~data /\ ~a.escaped)
              /\ t.to = IF data THEN [a.to EXCEPT ![m] = Append(@, g[1])] ELSE a.to
      BY <2>1, <2>2, RouteEffect
    <3> QED BY <2>2, <3>1, <3>2, <3>3
  <2>4. a.to \in [FrontEnds -> Seq(Bytes)] /\ MONITOR # UART /\ UART \in FrontEnds
    BY <2>1, FrontEndsAre DEF RouteStates
  <2>5. c.to[UART] = Append(a.to[UART], b) /\ c.to[MONITOR] = a.to[MONITOR]
    BY <2>3, <2>4, FrontEndsAre
  <2>6. Append(SubSeq(buf, 1, k - 1), b) = SubSeq(buf, 1, k)
    <3>1. Append(<<>> \o SubSeq(buf, 1, k - 1), buf[k]) = <<>> \o SubSeq(buf, 1, k)
      <4>1. <<>> \in Seq(Bytes)
        OBVIOUS
      <4> QED BY <4>1, AppendNext
    <3>2. SubSeq(buf, 1, k - 1) \in Seq(Bytes) /\ SubSeq(buf, 1, k) \in Seq(Bytes)
      <4>1. /\ \A i \in 1..k - 1 : buf[i] \in Bytes
            /\ \A i \in 1..k : buf[i] \in Bytes
        BY <1>1
      <4> QED BY <4>1, SubSeqProperties
    <3>3. <<>> \o SubSeq(buf, 1, k - 1) = SubSeq(buf, 1, k - 1)
          /\ <<>> \o SubSeq(buf, 1, k) = SubSeq(buf, 1, k)
      BY <3>2, ConcatEmptySeq
    <3> QED BY <3>1, <3>3 DEF b
  <2>7. Ok(c, k)
    BY <2>1, <2>3, <2>5, <2>6
  <2> HIDE DEF Ok
  <2> QED BY <2>0, <2>7 DEF c
<1>5. \A k \in 0..n : k \in I
  <2> HIDE DEF I, n
  <2> QED BY <1>1, <1>3, <1>4, Climb
<1>6. Ok(r[n], n) /\ r[n] \in RouteStates
  <2>1. n \in 0..n
    BY <1>1
  <2> HIDE DEF Ok
  <2> QED BY <1>2, <1>5, <2>1
<1>7. SubSeq(buf, 1, n) = buf
  BY SubSeqFull
<1> QED BY <1>2, <1>6, <1>7 DEF p

\* And pass through the scanner as they are.
LEMMA KeysParsed ==
  ASSUME NEW buf \in Seq(Bytes), Keys(buf)
  PROVE  Parsed(1, buf).out = buf /\ Parsed(1, buf).opt = 1
<1> DEFINE n == Len(buf)
<1>1. n \in Nat /\ \A i \in 1..n : buf[i] \in Bytes
  BY ElementOfSeq
<1>2. PICK r \in [0..n -> IacStates] :
         /\ r[0] = Scanner(1)
         /\ \A k \in 1..n : r[k] = IacByte(r[k - 1], buf[k])
         /\ Parsed(1, buf) = r[n]
  <2>1. Scanner(1) \in IacStates
    BY ScannerType
  <2> QED BY <2>1, IacRun DEF Parsed
<1> DEFINE Ok(a, k) == a.opt = 1 /\ a.out = SubSeq(buf, 1, k)
<1> DEFINE I == {k \in 0..n : Ok(r[k], k)}
<1>3. 0 \in I
  <2>1. SubSeq(buf, 1, 0) = <<>>
    BY SubSeqEmpty
  <2>2. Ok(Scanner(1), 0) /\ 0 \in 0..n
    BY <1>1, <2>1 DEF Scanner
  <2> HIDE DEF Ok
  <2> QED BY <1>2, <2>2
<1>4. ASSUME NEW k \in 1..n, k - 1 \in I PROVE k \in I
  <2> DEFINE a == r[k - 1]
  <2> DEFINE c == r[k]
  <2> DEFINE b == buf[k]
  <2>0. k \in 0..n /\ k - 1 \in 0..n
    BY <1>1
  <2>1. a \in IacStates /\ c = IacByte(a, b) /\ b \in Bytes /\ b[1] = "key" /\ Ok(a, k - 1)
    BY <1>1, <1>2, <1>4, <2>0 DEF Keys
  <2> HIDE DEF a, c, b
  <2>2. c.opt = NextOpt(a.opt, b) /\ c.out = IF Emits(a.opt, b) THEN Append(a.out, b) ELSE a.out
    BY <2>1, IacNext
  <2>3. c.opt = 1 /\ c.out = Append(a.out, b)
    BY <2>1, <2>2 DEF NextOpt, Emits
  <2>6. Append(SubSeq(buf, 1, k - 1), b) = SubSeq(buf, 1, k)
    <3>1. Append(<<>> \o SubSeq(buf, 1, k - 1), buf[k]) = <<>> \o SubSeq(buf, 1, k)
      <4>1. <<>> \in Seq(Bytes)
        OBVIOUS
      <4> QED BY <4>1, AppendNext
    <3>2. SubSeq(buf, 1, k - 1) \in Seq(Bytes) /\ SubSeq(buf, 1, k) \in Seq(Bytes)
      <4>1. /\ \A i \in 1..k - 1 : buf[i] \in Bytes
            /\ \A i \in 1..k : buf[i] \in Bytes
        BY <1>1
      <4> QED BY <4>1, SubSeqProperties
    <3>3. <<>> \o SubSeq(buf, 1, k - 1) = SubSeq(buf, 1, k - 1)
          /\ <<>> \o SubSeq(buf, 1, k) = SubSeq(buf, 1, k)
      BY <3>2, ConcatEmptySeq
    <3> QED BY <3>1, <3>3 DEF b
  <2>7. Ok(c, k)
    BY <2>1, <2>3, <2>6
  <2> HIDE DEF Ok
  <2> QED BY <2>0, <2>7 DEF c
<1>5. \A k \in 0..n : k \in I
  <2> HIDE DEF I, n
  <2> QED BY <1>1, <1>3, <1>4, Climb
<1>6. Ok(r[n], n)
  <2>1. n \in 0..n
    BY <1>1
  <2> HIDE DEF Ok
  <2> QED BY <1>5, <2>1
<1>7. SubSeq(buf, 1, n) = buf
  BY SubSeqFull
<1> QED BY <1>2, <1>6, <1>7

\* What waits in the ring at first, and what the guest has left unread.
Backlog(m, backlog) ==
    IF m /\ backlog THEN [i \in 1..MUX_BUFFER_SIZE |-> <<"key", -i>>] ELSE <<>>
\* What the UART holds at first.
Unread(backlog) == IF backlog THEN [i \in 1..Level |-> BREAK] ELSE <<>>

\* The backlog is keys, and exactly fills the ring.
LEMMA BacklogType ==
  ASSUME NEW m \in BOOLEAN, NEW backlog \in BOOLEAN
  PROVE  LET first == Backlog(m, backlog)
         IN  /\ first \in Seq(Bytes) /\ Keys(first)
             /\ Len(first) = IF m /\ backlog THEN MUX_BUFFER_SIZE ELSE 0
<1> DEFINE M == MUX_BUFFER_SIZE
<1>1. M \in Nat /\ MaxKeys \in Nat
  BY CharAssumption
<1>2. CASE m /\ backlog
  <2> DEFINE f == [i \in 1..M |-> <<"key", -i>>]
  <2>1. \A i \in 1..M : <<"key", -i>> \in Bytes
    <3> SUFFICES ASSUME NEW i \in 1..M PROVE <<"key", -i>> \in Bytes
      OBVIOUS
    <3>1. "key" \in Alphabet
      BY DEF Alphabet
    <3>2. -i \in -M..MaxKeys
      BY <1>1
    <3> QED BY <3>1, <3>2 DEF Bytes
  <2>2. f \in [1..M -> Bytes] /\ \A i \in 1..M : f[i][1] = "key"
    BY <2>1
  <2> HIDE DEF M, f
  <2>3. f \in Seq(Bytes)
    BY <1>1, <2>2, SeqDef
  <2>4. Len(f) = M
    <3>1. 1..Len(f) = 1..M /\ Len(f) \in Nat
      BY <2>2, <2>3, LenProperties
    <3> QED BY <1>1, <3>1
  <2>5. Backlog(m, backlog) = f
    BY <1>2 DEF Backlog, f, M
  <2> QED BY <1>2, <2>2, <2>3, <2>4, <2>5 DEF Keys, M
<1>3. CASE ~(m /\ backlog)
  <2>1. Backlog(m, backlog) = <<>> /\ <<>> \in Seq(Bytes) /\ Len(<<>>) = 0
    BY <1>3 DEF Backlog
  <2> QED BY <1>3, <2>1 DEF Keys
<1> QED BY <1>2, <1>3

\* A UART that is full of breaks up to its trigger level takes nothing more.
LEMMA UnreadType ==
  ASSUME NEW backlog \in BOOLEAN
  PROVE  LET u == [fe |-> TRUE, fifo |-> Unread(backlog)]
         IN  /\ u \in UartStates /\ ~Mid(u) /\ (backlog => UartCanReceive(u) = 0)
<1> DEFINE q == Unread(backlog)
<1> DEFINE u == [fe |-> TRUE, fifo |-> q]
<1>1. Level \in Nat /\ FIFOLEN \in Nat /\ Level <= FIFOLEN
  BY CharAssumption
<1>2. q \in Seq(Bytes) /\ Len(q) = IF backlog THEN Level ELSE 0
  <2>1. CASE backlog
    <3> DEFINE f == [i \in 1..Level |-> BREAK]
    <3>1. f \in [1..Level -> Bytes]
      BY BreakIsByte
    <3> HIDE DEF f
    <3>2. f \in Seq(Bytes)
      BY <1>1, <3>1, SeqDef
    <3>3. 1..Len(f) = 1..Level /\ Len(f) \in Nat
      BY <3>1, <3>2, LenProperties
    <3>4. Len(f) = Level
      BY <1>1, <3>3
    <3>5. q = f
      BY <2>1 DEF Unread, f
    <3> QED BY <2>1, <3>2, <3>4, <3>5
  <2>2. CASE ~backlog
    <3>1. q = <<>> /\ <<>> \in Seq(Bytes) /\ Len(<<>>) = 0
      BY <2>2 DEF Unread
    <3> QED BY <2>2, <3>1
  <2> QED BY <2>1, <2>2
<1> HIDE DEF q
<1>3. Depth(u) = FIFOLEN
  BY DEF Depth
<1>4. Len(q) <= Level /\ Len(q) \in Nat /\ Len(q) <= FIFOLEN
  BY <1>1, <1>2
<1>5. u \in UartStates
  BY <1>2, <1>3, <1>4 DEF UartStates
<1>6. ~Mid(u)
  BY <1>1, <1>4 DEF Mid
<1>7. backlog => UartCanReceive(u) = 0
  BY <1>1, <1>2 DEF UartCanReceive
<1> QED BY <1>5, <1>6, <1>7 DEF q

\* Whatever is configured, and whatever the guest has left unread.
LEMMA InitSound ==
  ASSUME Init
  PROVE  CharInv
<1>1. PICK k \in Kinds, m \in BOOLEAN, backlog \in Backlogs :
         /\ kind = k /\ muxed = m
         /\ mux = [focus |-> UART, escaped |-> FALSE,
                   ring |-> [f \in FrontEnds |-> IF f = UART THEN Backlog(m, backlog) ELSE <<>>]]
         /\ uart = [fe |-> TRUE, fifo |-> Unread(backlog)]
         /\ peer = [up |-> kind \in {"udp", "fd"}, knocks |-> FALSE, pipe |-> <<>>, sent |-> 0]
         /\ hist = [raw |-> Backlog(m, backlog), passed |-> Calls(Backlog(m, backlog)),
                    first |-> 0, clean |-> TRUE,
                    got |-> [f \in FrontEnds |-> <<>>], stale |-> [f \in FrontEnds |-> FALSE],
                    shrunk |-> FALSE, lost |-> "no", guest |-> 0]
         /\ base = [Opened(k) EXCEPT !.size = BeCanWrite(State)]
         /\ loop = [at |-> "wait", fd |-> Asked(base) /\ base.size > 0]
  BY DEF Init, Backlog, Unread, Calls
<1>1a. backlog \in BOOLEAN
  BY CharAssumption
<1> DEFINE q == Backlog(m, backlog)
<1> DEFINE s == State
<1>2. q \in Seq(Bytes) /\ Keys(q) /\ Len(q) = IF m /\ backlog THEN MUX_BUFFER_SIZE ELSE 0
  BY <1>1a, BacklogType
<1>3. /\ s.mux = mux /\ s.uart = uart /\ s.hist = hist
      /\ s = [mux |-> mux, uart |-> uart, hist |-> hist]
  BY DEF State
<1> HIDE DEF q, s
<1>4. s \in FrontStates
  <2>1. uart \in UartStates
    BY <1>1, <1>1a, UnreadType
  <2>2. mux \in MuxStates
    <3>1. <<>> \in Seq(Bytes)
      OBVIOUS
    <3>2. mux = [focus |-> UART, escaped |-> FALSE,
                 ring |-> [f \in FrontEnds |-> IF f = UART THEN q ELSE <<>>]]
      BY <1>1 DEF q
    <3> QED BY <1>2, <3>1, <3>2, FrontEndsAre DEF MuxStates
  <2>3. hist \in Histories
    <3>1. Calls(q) \in Seq(Bytes \X BOOLEAN) /\ <<>> \in Seq(Bytes)
      <4>1. Calls(q) \in Seq(Tagged)
        BY <1>2, CallsType
      <4>2. Tagged = Bytes \X BOOLEAN
        BY DEF Tagged
      <4> QED BY <4>1, <4>2
    <3>2. hist = [raw |-> q, passed |-> Calls(q), first |-> 0, clean |-> TRUE,
                  got |-> [f \in FrontEnds |-> <<>>], stale |-> [f \in FrontEnds |-> FALSE],
                  shrunk |-> FALSE, lost |-> "no", guest |-> 0]
      BY <1>1 DEF q
    <3> DEFINE c == Calls(q)
    <3> HIDE DEF c
    <3>3. hist = [raw |-> q, passed |-> c, first |-> 0, clean |-> TRUE,
                  got |-> [f \in FrontEnds |-> <<>>], stale |-> [f \in FrontEnds |-> FALSE],
                  shrunk |-> FALSE, lost |-> "no", guest |-> 0]
          /\ c \in Seq(Bytes \X BOOLEAN)
      BY <3>1, <3>2 DEF c
    <3> QED BY <1>2, <3>1, <3>3 DEF Histories
  <2> QED BY <1>3, <2>1, <2>2, <2>3 DEF FrontStates
<1>5. /\ s.mux.focus = UART /\ s.mux.escaped = FALSE /\ s.mux.ring[UART] = q
      /\ s.mux.ring[MONITOR] = <<>> /\ s.hist.lost = "no" /\ s.hist.shrunk = FALSE
      /\ s.hist.got[UART] = <<>> /\ s.hist.got[MONITOR] = <<>>
      /\ s.hist.passed = Calls(q) /\ s.hist.raw = q /\ s.hist.first = 0
  BY <1>1, <1>3, FrontEndsAre DEF q
<1>6. (~muxed => q = <<>>) /\ (~backlog => q = <<>>)
  BY <1>1 DEF q, Backlog
<1>7. FrontInv(s)
  <2>1. RingsUsed(s)
    BY <1>5, <1>6 DEF RingsUsed
  <2>2. ~Mid(s.uart) /\ (backlog => UartCanReceive(s.uart) = 0)
    BY <1>1, <1>1a, <1>3, UnreadType
  <2>3. Held(s)
    <3>1. RingLen(s) <= MUX_BUFFER_SIZE
      <4>1. MUX_BUFFER_SIZE \in Nat
        BY CharAssumption
      <4> QED BY <1>2, <1>5, <4>1 DEF RingLen
    <3> QED BY <1>5, <2>2, <3>1, FrontEndsAre DEF Held
  <2>4. Awake(s)
    <3> SUFFICES ASSUME NEW f \in FrontEnds
                 PROVE  s.mux.ring[f] = <<>> \/ (f = s.mux.focus /\ FrontEndCanRead(s, f) = 0)
      BY DEF Awake
    <3>1. CASE f = UART
      BY <1>5, <1>6, <2>2, <3>1 DEF FrontEndCanRead
    <3>2. CASE f # UART
      BY <1>5, <3>2, FrontEndsAre
    <3> QED BY <3>1, <3>2
  <2>5. RoutesLike(s, Routing(s.hist.passed))
    <3> DEFINE a == Routing(Calls(q))
    <3>1. a.focus = UART /\ a.escaped = FALSE /\ a.to[UART] = q /\ a.to[MONITOR] = <<>>
      BY <1>2, KeysRouted
    <3> HIDE DEF a
    <3>2. <<>> \o q = q /\ <<>> \o <<>> = <<>>
      BY <1>2, ConcatEmptySeq
    <3>3. \A f \in FrontEnds : s.hist.got[f] \o s.mux.ring[f] = a.to[f]
      BY <1>5, <3>1, <3>2, FrontEndsAre
    <3>4. Routing(s.hist.passed) = a
      BY <1>5 DEF a
    <3> QED BY <1>5, <3>1, <3>3, <3>4 DEF RoutesLike
  <2>6. ~muxed => s.hist.got[UART] = Bare(s.hist.passed)
    BY <1>2, <1>5, <1>6, CallsType
  <2> QED BY <2>1, <2>3, <2>4, <2>5, <2>6 DEF FrontInv, RoutedSoFar
<1>8. BeCanWrite(s) \in 0..FIFOLEN /\ Room(s, BeCanWrite(s))
  BY <1>4, <1>7, AskRoom
<1> DEFINE n == BeCanWrite(s)
<1>9. base = [Opened(kind) EXCEPT !.size = n] /\ kind \in {"telnet", "pty", "udp", "fd"}
  BY <1>1, CharAssumption DEF s
<1> HIDE DEF n
<1>10. base \in BaseStates /\ base.size = n /\ base.buf = <<>> /\ base.connected = FALSE
  <2>1. n \in 0..FIFOLEN /\ <<>> \in Seq(Bytes)
    BY <1>8 DEF n
  <2> DEFINE Fresh(h, t, p, tm, o) ==
        [connected |-> FALSE, handler |-> h, telnetopt |-> t, size |-> n, polling |-> p,
         timer |-> tm, buf |-> <<>>, opened |-> FALSE, openTimer |-> o]
  <2>2. \E h, p, o \in BOOLEAN, t \in {0, 1}, tm \in {"off", "short"} : base = Fresh(h, t, p, tm, o)
    <3>1. CASE kind = "telnet"
      <4>1. base = Fresh(FALSE, 1, FALSE, "off", FALSE)
        BY <1>9, <3>1 DEF Opened, Pristine
      <4> HIDE DEF Fresh
      <4> QED BY <4>1
    <3>2. CASE kind = "pty"
      <4>1. base = Fresh(TRUE, 0, TRUE, "short", FALSE)
        BY <1>9, <3>2 DEF Opened, Pristine, PtyUpdateReadHandler
      <4> HIDE DEF Fresh
      <4> QED BY <4>1
    <3>3. CASE kind = "udp"
      <4>1. base = Fresh(TRUE, 0, FALSE, "off", FALSE)
        BY <1>9, <3>3 DEF Opened, Pristine
      <4> HIDE DEF Fresh
      <4> QED BY <4>1
    <3>4. CASE kind = "fd"
      <4>1. base = Fresh(TRUE, 0, FALSE, "off", TRUE)
        BY <1>9, <3>4 DEF Opened, Pristine, GenericOpen
      <4> HIDE DEF Fresh
      <4> QED BY <4>1
    <3> QED BY <1>9, <3>1, <3>2, <3>3, <3>4
  <2>3. PICK h \in BOOLEAN, p \in BOOLEAN, o \in BOOLEAN, t \in {0, 1}, tm \in {"off", "short"} :
          base = Fresh(h, t, p, tm, o)
    BY <2>2
  <2>4. t \in 0..3
    OBVIOUS
  <2> QED BY <2>1, <2>3, <2>4 DEF BaseStates
<1>11. loop \in LoopStates /\ peer \in PeerStates
  <2>1. MaxKeys \in Nat /\ <<>> \in Seq(Chunked)
    BY CharAssumption
  <2>2. 0 \in 0..MaxKeys
    BY <2>1
  <2>3. (Asked(base) /\ base.size > 0) \in BOOLEAN
    BY DEF Asked
  <2>4. loop \in LoopStates
    BY <1>1, <2>3 DEF LoopStates
  <2>5. peer \in PeerStates
    BY <1>1, <2>1, <2>2 DEF PeerStates
  <2> QED BY <2>4, <2>5
<1>12. WaitOk(s, base, loop)
  <2>1. loop.fd = (Asked(base) /\ base.size > 0)
    BY <1>1
  <2> QED BY <1>8, <1>10, <2>1 DEF WaitOk, n
<1>13. LinkOk(base, loop, peer)
  <2>1. loop.at = "wait" /\ peer.up = (kind \in {"udp", "fd"})
    BY <1>1
  <2>2. base.polling = (kind = "pty" /\ base.handler)
    BY <1>9 DEF Opened, Pristine, PtyUpdateReadHandler, GenericOpen
  <2>3. (kind # "pty" => base.timer = "off") /\ (kind = "telnet" => base.telnetopt = 1)
    BY <1>9 DEF Opened, Pristine, PtyUpdateReadHandler, GenericOpen
  <2>4. kind = "telnet" => base.opened = FALSE /\ base.openTimer = FALSE
    BY <1>9 DEF Opened, Pristine
  <2>5. base.connected => base.handler
    BY <1>10
  <2>6. kind \in {"udp", "fd"} => ~base.connected
    BY <1>10
  <2>7. kind = "udp" => peer.up
    BY <2>1
  <2>8. kind = "telnet" => base.telnetopt \in 1..3
    BY <2>3
  <2>9. kind = "telnet" => (base.opened <=> base.connected) /\ ~base.openTimer
    BY <1>10, <2>4
  <2>10. kind # "udp" => base.buf = <<>>
    BY <1>10
  <2>11. loop.at # "timers"
    BY <2>1
  <2> QED BY <2>2, <2>3, <2>5, <2>6, <2>7, <2>8, <2>9, <2>10, <2>11 DEF LinkOk
<1>14. DecodedSoFar(s.hist, base)
  <2>1. Len(Calls(q)) = Len(q) /\ Len(q) \in Nat /\ Bare(Calls(q)) = q
    BY <1>2, CallsType
  <2>2. Given(s.hist) = q
    <3>1. SubSeq(q, 0 + 1, Len(q)) = q
      BY <1>2, SubSeqFull
    <3> QED BY <1>5, <2>1, <3>1 DEF Given
  <2>3. Parsed(1, q).out = q /\ Parsed(1, q).opt = 1
    BY <1>2, KeysParsed
  <2>4. kind = "telnet" => base.telnetopt = 1
    BY <1>9 DEF Opened, Pristine
  <2>5. q \o <<>> = q
    BY <1>2, ConcatEmptySeq
  <2>6. s.hist.first <= Len(s.hist.passed)
    BY <1>5, <2>1
  <2> QED BY <1>5, <1>10, <2>1, <2>2, <2>3, <2>4, <2>5, <2>6 DEF DecodedSoFar
<1>15. kind \in Kinds /\ muxed \in BOOLEAN
  BY <1>1
<1> QED BY <1>4, <1>7, <1>10, <1>11, <1>12, <1>13, <1>14, <1>15 DEF CharInv, Sound, s

-----------------------------------------------------------------------------
(* The handlers of the descriptors.                                        *)

\* What the kernel hands out is no more than was asked for.
LEMMA ChunkType ==
  ASSUME CharInv, peer.pipe # <<>>
  PROVE  /\ Chunk \in Seq(Bytes) /\ Rest \in Seq(Chunked) /\ Len(Chunk) \in Nat
         /\ kind # "udp" => Len(Chunk) <= base.size
         /\ kind = "udp" => Chunk # <<>>
<1> DEFINE q == peer.pipe
<1>1. q \in Seq(Chunked) /\ q # <<>> /\ base.size \in Nat
  <2>1. FIFOLEN \in Nat
    BY CharAssumption
  <2> QED BY <2>1 DEF CharInv, Sound, PeerStates, BaseStates
<1>2. CASE kind = "udp"
  <2>1. Chunk = Head(q) /\ Rest = Tail(q)
    BY <1>2 DEF Chunk, Rest
  <2> HIDE DEF q
  <2>2. Head(q) \in Chunked /\ Tail(q) \in Seq(Chunked)
    BY <1>1, HeadTailProperties
  <2>3. Head(q) \in Seq(Bytes) /\ Head(q) # <<>>
    BY <2>2 DEF Chunked
  <2>4. Len(Head(q)) \in Nat
    BY <2>3
  <2> QED BY <1>2, <2>1, <2>2, <2>3, <2>4
<1>3. CASE kind # "udp"
  <2> DEFINE n == least(base.size, Len(q))
  <2> DEFINE c == [i \in 1..n |-> q[i][1]]
  <2>1. Chunk = c /\ Rest = SubSeq(q, Len(Chunk) + 1, Len(q))
    BY <1>3 DEF Chunk, Rest
  <2> HIDE DEF q
  <2>2. \A i \in 1..Len(q) : q[i] \in Chunked
    BY <1>1, ElementOfSeq
  <2>3. n \in Nat /\ n <= base.size /\ n <= Len(q) /\ Len(q) \in Nat
    BY <1>1 DEF least
  <2> HIDE DEF n
  <2>4. \A i \in 1..n : q[i][1] \in Bytes
    <3> SUFFICES ASSUME NEW i \in 1..n PROVE q[i][1] \in Bytes
      OBVIOUS
    <3>1. i \in 1..Len(q)
      BY <2>3
    <3>2. q[i] \in Seq(Bytes) /\ Len(q[i]) = 1
      BY <1>3, <2>2, <3>1 DEF Chunked
    <3>3. 1 \in 1..Len(q[i])
      BY <3>2
    <3> QED BY <3>2, <3>3, ElementOfSeq
  <2>5. c \in [1..n -> Bytes]
    BY <2>4
  <2> HIDE DEF c
  <2>6. c \in Seq(Bytes)
    BY <2>3, <2>5, SeqDef
  <2>7. Len(c) = n
    <3>1. 1..Len(c) = 1..n /\ Len(c) \in Nat
      BY <2>5, <2>6, LenProperties
    <3> QED BY <2>3, <3>1
  <2> DEFINE k == n + 1
  <2> DEFINE l == Len(q)
  <2>8. k \in Int /\ l \in Int /\ \A i \in k..l : q[i] \in Chunked
    BY <2>2, <2>3
  <2> HIDE DEF k, l
  <2>9. SubSeq(q, k, l) \in Seq(Chunked)
    BY <2>8, SubSeqProperties
  <2> QED BY <1>3, <2>1, <2>3, <2>6, <2>7, <2>9 DEF k, l
<1> QED BY <1>2, <1>3

\* Bytes that are read from the descriptor.
Hear(s, c) == [s EXCEPT !.hist.raw = @ \o c]

\* What is read counts as read before it is handed on.
LEMMA HearKeeps ==
  ASSUME NEW s \in FrontStates, FrontInv(s), NEW c \in Seq(Bytes)
  PROVE  LET t == Hear(s, c)
         IN  /\ t \in FrontStates /\ FrontInv(t)
             /\ t.hist.raw = s.hist.raw \o c /\ t.hist.passed = s.hist.passed
             /\ t.hist.first = s.hist.first /\ t.hist.clean = s.hist.clean
             /\ \A n \in Nat : Room(s, n) => Room(t, n)
<1> DEFINE t == Hear(s, c)
<1> DEFINE x == s.hist.raw \o c
<1>1. x \in Seq(Bytes)
  <2> DEFINE r == s.hist.raw
  <2>1. r \in Seq(Bytes)
    BY FrontTypes
  <2> HIDE DEF r
  <2>2. r \o c \in Seq(Bytes)
    BY <2>1, ConcatProperties
  <2> QED BY <2>2 DEF r
<1>2. t = [s EXCEPT !.hist.raw = x]
  BY DEF Hear
<1> HIDE DEF t, x
<1>3. /\ t \in FrontStates /\ t.mux = s.mux /\ t.uart = s.uart /\ t.hist.raw = x
      /\ t.hist.passed = s.hist.passed
      /\ t.hist.first = s.hist.first /\ t.hist.clean = s.hist.clean
      /\ t.hist.shrunk = s.hist.shrunk /\ t.hist.guest = s.hist.guest
      /\ t.hist.got = s.hist.got /\ t.hist.lost = s.hist.lost /\ t.hist.stale = s.hist.stale
  BY <1>1, <1>2 DEF FrontStates, Histories
<1>4. RingsUsed(t) /\ Awake(t) /\ RoutedSoFar(t) /\ Held(t)
  <2>1. RingsUsed(t)
    BY <1>3 DEF FrontInv, RingsUsed
  <2>2. Awake(t)
    BY <1>3 DEF FrontInv, Awake, Stale, FrontEndCanRead
  <2>3. RoutedSoFar(t)
    BY <1>3 DEF FrontInv, RoutedSoFar, RoutesLike
  <2>4. Held(t)
    BY <1>3 DEF FrontInv, Held, RingLen
  <2> QED BY <2>1, <2>2, <2>3, <2>4
<1>5. \A n \in Nat : Room(s, n) => Room(t, n)
  BY <1>3 DEF Room, RingLen
<1> QED BY <1>3, <1>4, <1>5 DEF FrontInv, t, x

\* Behind a back end that does not look at them, bytes are passed on as they come.
LEMMA PlainDecoded ==
  ASSUME NEW h \in Histories, NEW g, NEW d, NEW e, NEW c \in Seq(Bytes), kind # "telnet",
         DecodedSoFar(h, d), d.buf = <<>>, e.buf = <<>>,
         g.first = h.first, g.raw = h.raw \o c, g.passed = h.passed \o Tag(c)
  PROVE  DecodedSoFar(g, e)
<1> DEFINE p == h.passed
<1>1. p \in Seq(Tagged)
  BY DEF Histories, Tagged
<1>2. h.first = 0 /\ h.raw = Bare(p) \o <<>>
  BY DEF DecodedSoFar
<1> HIDE DEF p
<1> DEFINE b == Bare(p)
<1>3. b \in Seq(Bytes) /\ Bare(p \o Tag(c)) = b \o c
  BY <1>1, BareGrows
<1> HIDE DEF b
<1>4. b \o <<>> = b /\ (b \o c) \o <<>> = b \o c
  <2>1. b \o c \in Seq(Bytes)
    BY <1>3, ConcatProperties
  <2> DEFINE x == b \o c
  <2> HIDE DEF x
  <2>2. x \o <<>> = x
    BY <2>1, ConcatEmptySeq DEF x
  <2> QED BY <1>3, <2>2, ConcatEmptySeq DEF x
<1>5. g.raw = Bare(g.passed) \o <<>>
  BY <1>2, <1>3, <1>4 DEF b, p
<1>6. g.first <= Len(g.passed)
  BY <1>2, GivenGrows DEF DecodedSoFar
<1> QED BY <1>2, <1>5, <1>6 DEF DecodedSoFar

\* The handler of a readable descriptor, and what it may not leave behind.
Timing == [loop EXCEPT !.at = "timers"]
\* What a handler leads to.
HandlerOk ==
    /\ After \in FrontStates /\ FrontInv(After) /\ base' \in BaseStates
    /\ DecodedSoFar(After.hist, base') /\ LinkOk(base', Timing, peer)

\* A read of the bytes that fit.
LEMMA PlainRead ==
  ASSUME CharInv, loop.at = "wait", Readable, kind \in {"pty", "fd"}, peer.pipe # <<>>,
         Become(BeWrite(Heard, Chunk)), base'.buf = <<>>
  PROVE  After \in FrontStates /\ FrontInv(After) /\ DecodedSoFar(After.hist, base')
<1> DEFINE s == State
<1> DEFINE c == Chunk
<1> DEFINE u == Hear(s, c)
<1> DEFINE t == BeWrite(u, c)
<1>1. /\ c \in Seq(Bytes) /\ Len(c) \in Nat /\ Len(c) <= base.size
  BY ChunkType
<1>2. /\ s \in FrontStates /\ FrontInv(s) /\ Room(s, base.size) /\ DecodedSoFar(s.hist, base)
      /\ base.buf = <<>> /\ base.size \in Nat
  <2>1. FIFOLEN \in Nat
    BY CharAssumption
  <2> QED BY <2>1 DEF CharInv, Sound, WaitOk, Readable, BaseStates
<1>3. t = BeWrite(Heard, Chunk)
  BY DEF Hear, Heard
<1> HIDE DEF s, c
<1>4. /\ u \in FrontStates /\ FrontInv(u) /\ Room(u, base.size)
      /\ u.hist.raw = s.hist.raw \o c /\ u.hist.passed = s.hist.passed
      /\ u.hist.first = s.hist.first /\ u.hist.clean = s.hist.clean
  BY <1>1, <1>2, HearKeeps
<1> HIDE DEF u
<1>5. Room(u, Len(c))
  <2>1. Len(c) \in 0..base.size
    BY <1>1, <1>2
  <2> QED BY <1>2, <1>4, <2>1, RoomForLess
<1>6. t \in FrontStates /\ FrontInv(t) /\ Passes(u, t, c)
  BY <1>1, <1>4, <1>5, WriteKeeps
<1> HIDE DEF t
<1>7. After = t
  BY <1>3, <1>6, Became
<1>8. DecodedSoFar(t.hist, base')
  <2>1. s.hist \in Histories
    BY <1>2, FrontTypes
  <2>2. t.hist.first = s.hist.first /\ t.hist.raw = s.hist.raw \o c
        /\ t.hist.passed = s.hist.passed \o Tag(c)
    BY <1>4, <1>6 DEF Passes
  <2> QED BY <1>1, <1>2, <2>1, <2>2, PlainDecoded
<1> QED BY <1>6, <1>7, <1>8

\* What the invariant says while the main loop waits for a descriptor that is ready.
LEMMA ReadyFacts ==
  ASSUME CharInv, loop.at = "wait", Readable
  PROVE  /\ State \in FrontStates /\ FrontInv(State) /\ Room(State, base.size)
         /\ base \in BaseStates /\ base.size \in Nat /\ base.size > 0 /\ base.buf = <<>>
         /\ DecodedSoFar(State.hist, base) /\ LinkOk(base, loop, peer) /\ Asked(base)
         /\ loop.fd = TRUE /\ (peer.pipe # <<>> \/ ~peer.up)
         /\ State.hist \in Histories
<1>1. FIFOLEN \in Nat
  BY CharAssumption
<1>2. State \in FrontStates
  BY DEF CharInv, Sound
<1>3. State.hist \in Histories
  BY <1>2, FrontTypes
<1>4. loop.fd = TRUE
  BY DEF Readable, CharInv, Sound, LoopStates
<1>5. base \in BaseStates
  BY DEF CharInv, Sound
<1>6. base.size \in Nat
  BY <1>1, <1>5 DEF BaseStates
<1> QED BY <1>2, <1>3, <1>4, <1>5, <1>6 DEF CharInv, Sound, WaitOk, Readable

\* A read of the telnet server: breaks first, then the bytes that are no command.
LEMMA TelnetParse ==
  ASSUME NEW s \in FrontStates, FrontInv(s), NEW opt \in 1..3, NEW c \in Seq(Bytes),
         Room(s, Len(c))
  PROVE  LET r == Parsed(opt, c)
             u == Hear(s, c)
             v == Breaks(u, r.breaks)
             t == IF r.out = <<>> THEN v ELSE BeWrite(v, r.out)
         IN  /\ t \in FrontStates /\ FrontInv(t) /\ r.opt \in 1..3 /\ r.out \in Seq(Bytes)
             /\ t.hist.raw = s.hist.raw \o c /\ t.hist.passed = s.hist.passed \o Tag(r.out)
             /\ t.hist.first = s.hist.first /\ t.hist.clean = s.hist.clean
<1> DEFINE r == Parsed(opt, c)
<1> DEFINE o == r.out
<1> DEFINE n == r.breaks
<1> DEFINE k == Len(o)
<1> DEFINE u == Hear(s, c)
<1> DEFINE v == Breaks(u, n)
<1> DEFINE t == IF o = <<>> THEN v ELSE BeWrite(v, o)
<1>1. /\ r.opt \in 1..3 /\ o \in Seq(Bytes) /\ n \in Nat /\ k \in Nat
      /\ n + k <= Len(c) /\ Len(c) \in Nat
  <2>1. r \in IacStates
    BY ParsedLength
  <2>2. r.opt \in 1..3 /\ Len(r.out) \in Nat /\ Len(c) \in Nat /\ r.breaks + Len(r.out) <= Len(c)
    BY ParsedLength
  <2> HIDE DEF r
  <2> QED BY <2>1, <2>2 DEF IacStates
<1> HIDE DEF r
<1>2. /\ u \in FrontStates /\ FrontInv(u) /\ Room(u, Len(c))
      /\ u.hist.raw = s.hist.raw \o c /\ u.hist.passed = s.hist.passed
      /\ u.hist.first = s.hist.first /\ u.hist.clean = s.hist.clean
  BY <1>1, HearKeeps
<1> HIDE DEF u, n, k
<1>3. Room(u, n + k)
  <2>1. n + k \in 0..Len(c)
    BY <1>1
  <2> DEFINE j == n + k
  <2> HIDE DEF j
  <2>2. Room(u, j)
    BY <1>1, <1>2, <2>1, RoomForLess DEF j
  <2> QED BY <2>2 DEF j
<1>4. v \in FrontStates /\ FrontInv(v) /\ SameHist(u, v) /\ Room(v, k)
  BY <1>1, <1>2, <1>3, BreaksKeep
<1> HIDE DEF v, o
<1>5. CASE o = <<>>
  <2>1. t = v
    BY <1>5
  <2>2. v.hist.passed = v.hist.passed \o Tag(o)
    <3> DEFINE p == v.hist.passed
    <3>1. Tag(o) = <<>>
      BY <1>5 DEF Tag
    <3>2. p \in Seq(Tagged)
      BY <1>4, FrontTypes DEF Tagged
    <3> HIDE DEF p
    <3>3. p \o <<>> = p
      BY <3>2, ConcatEmptySeq
    <3> QED BY <3>1, <3>3 DEF p
  <2> HIDE DEF t
  <2> QED BY <1>1, <1>2, <1>4, <2>1, <2>2 DEF SameHist, t, v, u, n, o, r
<1>6. CASE o # <<>>
  <2>1. t = BeWrite(v, o)
    BY <1>6
  <2> DEFINE w == BeWrite(v, o)
  <2>2. w \in FrontStates /\ FrontInv(w) /\ Passes(v, w, o)
    BY <1>1, <1>4, WriteKeeps DEF k
  <2> HIDE DEF t, w
  <2>3. t \in FrontStates /\ FrontInv(t) /\ Passes(v, t, o)
    BY <2>1, <2>2 DEF w
  <2>4. /\ t.hist.raw = s.hist.raw \o c /\ t.hist.passed = s.hist.passed \o Tag(o)
        /\ t.hist.first = s.hist.first /\ t.hist.clean = s.hist.clean
    BY <1>2, <1>4, <2>3 DEF SameHist, Passes
  <2> QED BY <1>1, <2>3, <2>4 DEF t, v, u, n, o, r
<1> QED BY <1>5, <1>6

\* tcp_chr_read keeps the position in a command across reads.
LEMMA ReadTelnetOk ==
  ASSUME CharInv, loop.at = "wait", Readable, ReadTelnet
  PROVE  HandlerOk
<1> DEFINE s == State
<1> DEFINE c == Chunk
<1> DEFINE r == Parsed(base.telnetopt, c)
<1> DEFINE v == Breaks(Hear(s, c), r.breaks)
<1> DEFINE t == IF r.out = <<>> THEN v ELSE BeWrite(v, r.out)
<1>1. kind = "telnet" /\ peer.pipe # <<>> /\ base' = [base EXCEPT !.telnetopt = r.opt] /\ Become(t)
  BY DEF ReadTelnet, Process, ProcessIac, Parsed, Scanner, Hear, Heard
<1>2. /\ s \in FrontStates /\ FrontInv(s) /\ Room(s, base.size)
      /\ base \in BaseStates /\ base.size \in Nat /\ base.buf = <<>>
      /\ DecodedSoFar(s.hist, base) /\ LinkOk(base, loop, peer) /\ s.hist \in Histories
  BY ReadyFacts
<1>3. c \in Seq(Bytes) /\ Len(c) \in Nat /\ Len(c) <= base.size
  BY <1>1, ChunkType
<1>4. base.telnetopt \in 1..3
  BY <1>1, <1>2 DEF LinkOk
<1> HIDE DEF s, c
<1>5. Room(s, Len(c))
  <2>1. Len(c) \in 0..base.size
    BY <1>2, <1>3
  <2> QED BY <1>2, <2>1, RoomForLess
<1>6. /\ t \in FrontStates /\ FrontInv(t) /\ r.opt \in 1..3 /\ r.out \in Seq(Bytes)
      /\ t.hist.raw = s.hist.raw \o c /\ t.hist.passed = s.hist.passed \o Tag(r.out)
      /\ t.hist.first = s.hist.first /\ t.hist.clean = s.hist.clean
  BY <1>2, <1>3, <1>4, <1>5, TelnetParse
<1> DEFINE o == r.opt
<1> DEFINE q == r.out
<1>7. o \in 1..3 /\ q \in Seq(Bytes) /\ base' = [base EXCEPT !.telnetopt = o]
      /\ t.hist.passed = s.hist.passed \o Tag(q)
  BY <1>1, <1>6
<1> HIDE DEF t, o, q
<1>8. After = t
  BY <1>1, <1>6, Became
<1>9. /\ base' \in BaseStates /\ base'.telnetopt = o /\ base'.buf = base.buf
      /\ base'.connected = base.connected /\ base'.handler = base.handler
      /\ base'.polling = base.polling /\ base'.timer = base.timer
      /\ base'.opened = base.opened /\ base'.openTimer = base.openTimer
  <2>1. o \in 0..3
    BY <1>7
  <2> QED BY <1>2, <1>7, <2>1 DEF BaseStates
<1>10. DecodedSoFar(t.hist, base')
  <2> DEFINE h == s.hist
  <2> DEFINE g == t.hist
  <2>1. h.first <= Len(h.passed)
    BY <1>2 DEF DecodedSoFar
  <2>2. h \in Histories /\ g.first = h.first /\ g.passed = h.passed \o Tag(q)
        /\ g.raw = h.raw \o c /\ g.clean = h.clean
    BY <1>2, <1>6, <1>7
  <2> HIDE DEF h, g
  <2>3. Given(g) = Given(h) \o q /\ g.first <= Len(g.passed)
    BY <1>7, <2>1, <2>2, GivenGrows
  <2>4. ASSUME g.clean
        PROVE  Parsed(1, g.raw).out = Given(g) /\ Parsed(1, g.raw).opt = o
    <3> DEFINE a == Parsed(1, h.raw)
    <3>1. a.out = Given(h) /\ a.opt = base.telnetopt
      BY <1>1, <1>2, <2>2, <2>4 DEF DecodedSoFar, h
    <3>2. h.raw \in Seq(Bytes)
      BY <2>2 DEF Histories
    <3> DEFINE w == h.raw
    <3>3. Parsed(1, w \o c).opt = Parsed(a.opt, c).opt
          /\ Parsed(1, w \o c).out = a.out \o Parsed(a.opt, c).out
      BY <1>3, <3>2, ParsedGoesOn
    <3> HIDE DEF a
    <3>4. Parsed(a.opt, c).opt = o /\ Parsed(a.opt, c).out = q
      BY <3>1 DEF o, q
    <3> QED BY <2>2, <2>3, <3>1, <3>3, <3>4
  <2>5. base'.telnetopt = o
    BY <1>9
  <2> QED BY <1>1, <2>3, <2>4, <2>5 DEF DecodedSoFar, g
<1>11. LinkOk(base', Timing, peer)
  <2>1. Timing.at = "timers" /\ Timing.fd = loop.fd /\ loop \in LoopStates
    BY DEF Timing, CharInv, Sound, LoopStates
  <2> QED BY <1>1, <1>2, <1>7, <1>9, <2>1 DEF LinkOk
<1> QED BY <1>6, <1>8, <1>9, <1>10, <1>11 DEF HandlerOk

\* A handler that does not touch the front ends.
LEMMA FrontAlone ==
  ASSUME CharInv, UNCHANGED <<mux, uart, hist>>
  PROVE  After = State /\ After \in FrontStates /\ FrontInv(After)
<1>1. After = State
  BY DEF After, State
<1> QED BY <1>1 DEF CharInv, Sound

\* Nothing is read, and the position in a command and the datagram are kept.
LEMMA StillDecoded ==
  ASSUME NEW h, NEW d, NEW e, DecodedSoFar(h, d), e.telnetopt = d.telnetopt, e.buf = d.buf
  PROVE  DecodedSoFar(h, e)
BY DEF DecodedSoFar

\* The wait is over.
LEMMA TimingFacts ==
  ASSUME CharInv
  PROVE  Timing \in LoopStates /\ Timing.at = "timers" /\ Timing.fd = loop.fd
BY DEF Timing, CharInv, Sound, LoopStates

\* tcp_chr_read at the end of a connection: CLOSED, and no timer is left to say OPENED.
LEMMA EofTelnetOk ==
  ASSUME CharInv, loop.at = "wait", Readable, EofTelnet
  PROVE  HandlerOk
<1>1. kind = "telnet" /\ base' = TcpDisconnect(base) /\ UNCHANGED <<mux, uart, hist>>
  BY DEF EofTelnet
<1>2. base \in BaseStates /\ DecodedSoFar(State.hist, base) /\ LinkOk(base, loop, peer)
  BY ReadyFacts
<1>3. /\ base' \in BaseStates /\ base'.telnetopt = base.telnetopt /\ base'.buf = base.buf
      /\ base'.connected = FALSE /\ base'.handler = FALSE
      /\ base'.polling = base.polling /\ base'.timer = base.timer
      /\ base'.opened = FALSE /\ base'.openTimer = base.openTimer
  BY <1>1, <1>2 DEF BaseStates, TcpDisconnect, Closed
<1>4. LinkOk(base', Timing, peer)
  BY <1>1, <1>2, <1>3, TimingFacts DEF LinkOk
<1>5. DecodedSoFar(State.hist, base')
  BY <1>2, <1>3, StillDecoded
<1> QED BY <1>1, <1>3, <1>4, <1>5, FrontAlone DEF HandlerOk

\* pty_chr_read with bytes: somebody is there.
LEMMA ReadPtyOk ==
  ASSUME CharInv, loop.at = "wait", Readable, ReadPty
  PROVE  HandlerOk
<1>1. kind = "pty" /\ peer.pipe # <<>> /\ base' = PtyState(base, TRUE)
      /\ Become(BeWrite(Heard, Chunk))
  BY DEF ReadPty
<1>2. base \in BaseStates /\ LinkOk(base, loop, peer) /\ base.buf = <<>> /\ base.handler = TRUE
  BY ReadyFacts DEF Asked, BaseStates
<1>3. /\ base' \in BaseStates /\ base'.telnetopt = base.telnetopt /\ base'.buf = base.buf
      /\ base'.connected = TRUE /\ base'.handler = base.handler
      /\ base'.polling = base.polling /\ base'.timer = base.timer
  <2>1. CASE base.connected
    BY <1>1, <1>2, <2>1 DEF BaseStates, PtyState
  <2>2. CASE ~base.connected
    BY <1>1, <1>2, <2>2 DEF BaseStates, PtyState, GenericOpen
  <2> QED BY <2>1, <2>2
<1>4. LinkOk(base', Timing, peer)
  BY <1>1, <1>2, <1>3, TimingFacts DEF LinkOk
<1>5. After \in FrontStates /\ FrontInv(After) /\ DecodedSoFar(After.hist, base')
  BY <1>1, <1>2, <1>3, PlainRead
<1> QED BY <1>3, <1>4, <1>5 DEF HandlerOk

\* pty_chr_read without: nobody is.
LEMMA EofPtyOk ==
  ASSUME CharInv, loop.at = "wait", Readable, EofPty
  PROVE  HandlerOk
<1>1. kind = "pty" /\ base' = PtyState(base, FALSE) /\ UNCHANGED <<mux, uart, hist>>
  BY DEF EofPty
<1>2. base \in BaseStates /\ DecodedSoFar(State.hist, base) /\ LinkOk(base, loop, peer)
  BY ReadyFacts
<1>3. /\ base' \in BaseStates /\ base'.telnetopt = base.telnetopt /\ base'.buf = base.buf
      /\ base'.connected = FALSE /\ base'.handler = FALSE /\ base'.polling = FALSE
  BY <1>1, <1>2 DEF BaseStates, PtyState
<1>4. LinkOk(base', Timing, peer)
  BY <1>1, <1>2, <1>3, TimingFacts DEF LinkOk
<1>5. DecodedSoFar(State.hist, base')
  BY <1>2, <1>3, StillDecoded
<1> QED BY <1>1, <1>3, <1>4, <1>5, FrontAlone DEF HandlerOk

\* fd_chr_read with bytes,
LEMMA ReadFdOk ==
  ASSUME CharInv, loop.at = "wait", Readable, ReadFd
  PROVE  HandlerOk
<1>1. kind = "fd" /\ peer.pipe # <<>> /\ base' = base /\ Become(BeWrite(Heard, Chunk))
  BY DEF ReadFd
<1>2. base \in BaseStates /\ LinkOk(base, loop, peer) /\ base.buf = <<>>
  BY ReadyFacts
<1>3. base'.buf = <<>>
  BY <1>1, <1>2
<1>4. LinkOk(base', Timing, peer)
  BY <1>1, <1>2, TimingFacts DEF LinkOk
<1>5. After \in FrontStates /\ FrontInv(After) /\ DecodedSoFar(After.hist, base')
  BY <1>1, <1>3, PlainRead
<1> QED BY <1>1, <1>2, <1>4, <1>5 DEF HandlerOk

\* and at the end.
LEMMA EofFdOk ==
  ASSUME CharInv, loop.at = "wait", Readable, EofFd
  PROVE  HandlerOk
<1>1. kind = "fd" /\ base' = Closed([base EXCEPT !.handler = FALSE])
      /\ UNCHANGED <<mux, uart, hist>>
  BY DEF EofFd
<1>2. base \in BaseStates /\ DecodedSoFar(State.hist, base) /\ LinkOk(base, loop, peer)
  BY ReadyFacts
<1>3. /\ base' \in BaseStates /\ base'.telnetopt = base.telnetopt /\ base'.buf = base.buf
      /\ base'.connected = base.connected /\ base'.handler = FALSE
      /\ base'.polling = base.polling /\ base'.timer = base.timer
  BY <1>1, <1>2 DEF BaseStates, Closed
<1>4. LinkOk(base', Timing, peer)
  BY <1>1, <1>2, <1>3, TimingFacts DEF LinkOk
<1>5. DecodedSoFar(State.hist, base')
  BY <1>2, <1>3, StillDecoded
<1> QED BY <1>1, <1>3, <1>4, <1>5, FrontAlone DEF HandlerOk

\* udp_chr_read: the first byte of the datagram fits, and what does not is kept.
LEMMA ReadUdpOk ==
  ASSUME CharInv, loop.at = "wait", Readable, ReadUdp
  PROVE  HandlerOk
<1> DEFINE s == State
<1> DEFINE c == Chunk
<1> DEFINE b == Head(c)
<1> DEFINE q == Tail(c)
<1> DEFINE u == Hear(s, c)
<1> DEFINE w == BeWrite(u, <<b>>)
<1> DEFINE p == Stray(w, q)
<1>1. kind = "udp" /\ peer.pipe # <<>> /\ base' = [base EXCEPT !.buf = p.buf] /\ Become(p.s)
  BY DEF ReadUdp, Kept, Hear, Heard
<1>2. /\ s \in FrontStates /\ FrontInv(s) /\ Room(s, base.size)
      /\ base \in BaseStates /\ base.size \in Nat /\ base.size > 0 /\ base.buf = <<>>
      /\ DecodedSoFar(s.hist, base) /\ LinkOk(base, loop, peer) /\ s.hist \in Histories
  BY ReadyFacts
<1>3. c \in Seq(Bytes) /\ c # <<>>
  BY <1>1, ChunkType
<1> HIDE DEF s, c
<1>4. b \in Bytes /\ q \in Seq(Bytes)
  BY <1>3, HeadTailProperties
<1>5. /\ u \in FrontStates /\ FrontInv(u) /\ Room(u, base.size)
      /\ u.hist.raw = s.hist.raw \o c /\ u.hist.passed = s.hist.passed
      /\ u.hist.first = s.hist.first /\ u.hist.clean = s.hist.clean
  BY <1>2, <1>3, HearKeeps
<1> HIDE DEF u
<1>6. Room(u, 1)
  <2>1. 1 \in 0..base.size
    BY <1>2
  <2> QED BY <1>2, <1>5, <2>1, RoomForLess
<1> DEFINE e == Bare(u.hist.passed)
<1> HIDE DEF b, q
<1>7. /\ w \in FrontStates /\ FrontInv(w) /\ e \in Seq(Bytes)
      /\ Bare(w.hist.passed) = Append(e, b) /\ HandsOn(u, <<b>>, w, <<>>)
  BY <1>4, <1>5, <1>6, WriteOne
<1> HIDE DEF w, e
<1>8. p \in StrayStates /\ HandsOn(w, q, p.s, p.buf)
  BY <1>4, <1>7, StrayKeeps
<1> HIDE DEF p
<1>9. p.s \in FrontStates /\ p.buf \in Seq(Bytes) /\ FrontInv(p.s)
  BY <1>8 DEF StrayStates
<1> DEFINE x == p.buf
<1> DEFINE t == p.s
<1>10. x \in Seq(Bytes) /\ t \in FrontStates /\ FrontInv(t) /\ HandsOn(w, q, t, x)
       /\ base' = [base EXCEPT !.buf = x] /\ Become(t)
  BY <1>1, <1>8, <1>9
<1> HIDE DEF t, x
<1>11. After = t
  BY <1>10, Became
<1>12. /\ base' \in BaseStates /\ base'.buf = x /\ base'.connected = base.connected
       /\ base'.handler = base.handler /\ base'.polling = base.polling
       /\ base'.timer = base.timer
  BY <1>2, <1>10 DEF BaseStates
<1>13. Bare(t.hist.passed) \o x = e \o c
  <2>1. Bare(t.hist.passed) \o x = Append(e, b) \o q
    BY <1>7, <1>10 DEF HandsOn
  <2>2. Append(e, b) \o q = e \o c
    BY <1>3, <1>7, AppendTail DEF b, q
  <2> QED BY <2>1, <2>2
<1>14. s.hist.raw = e /\ s.hist.first = 0
  <2> DEFINE h == s.hist
  <2>1. h.raw = Bare(h.passed) \o base.buf /\ h.first = 0
    BY <1>1, <1>2 DEF DecodedSoFar
  <2>2. Bare(h.passed) = e
    BY <1>5 DEF e
  <2>3. e \o <<>> = e
    BY <1>7, ConcatEmptySeq
  <2> QED BY <1>2, <2>1, <2>2, <2>3
<1>15. t.hist.raw = e \o c /\ t.hist.first = 0
  <2>1. t.hist.raw = w.hist.raw /\ w.hist.raw = u.hist.raw
        /\ t.hist.first = w.hist.first /\ w.hist.first = u.hist.first
    BY <1>7, <1>10 DEF HandsOn
  <2> QED BY <1>5, <1>14, <2>1
<1>16. DecodedSoFar(t.hist, base')
  <2>1. Len(t.hist.passed) \in Nat
    <3>1. t.hist.passed \in Seq(Tagged)
      BY <1>10, FrontTypes DEF Tagged
    <3> DEFINE y == t.hist.passed
    <3> HIDE DEF y
    <3>2. y \in Seq(Tagged) => Len(y) \in Nat
      OBVIOUS
    <3> QED BY <3>1, <3>2 DEF y
  <2>2. t.hist.first <= Len(t.hist.passed)
    BY <1>15, <2>1
  <2> QED BY <1>1, <1>12, <1>13, <1>15, <2>2 DEF DecodedSoFar
<1>17. LinkOk(base', Timing, peer)
  BY <1>1, <1>2, <1>12, TimingFacts DEF LinkOk
<1> QED BY <1>10, <1>11, <1>12, <1>16, <1>17 DEF HandlerOk

-----------------------------------------------------------------------------
(* The steps of the main loop.                                             *)

\* A descriptor that is ready: its handler runs, and the timers are next.
LEMMA DispatchStep ==
  ASSUME CharInv, Dispatch
  PROVE  CharInv'
<1>1. /\ loop.at = "wait" /\ Readable /\ loop' = Timing /\ UNCHANGED <<kind, muxed>>
      /\ peer' = IF peer.pipe = <<>> THEN peer ELSE [peer EXCEPT !.pipe = Rest]
  BY DEF Dispatch, Handled, Timing
<1>2. HandlerOk
  <2>1. CASE ReadTelnet
    BY <1>1, <2>1, ReadTelnetOk
  <2>2. CASE EofTelnet
    BY <1>1, <2>2, EofTelnetOk
  <2>3. CASE ReadPty
    BY <1>1, <2>3, ReadPtyOk
  <2>4. CASE EofPty
    BY <1>1, <2>4, EofPtyOk
  <2>5. CASE ReadUdp
    BY <1>1, <2>5, ReadUdpOk
  <2>6. CASE ReadFd
    BY <1>1, <2>6, ReadFdOk
  <2>7. CASE EofFd
    BY <1>1, <2>7, EofFdOk
  <2> QED BY <2>1, <2>2, <2>3, <2>4, <2>5, <2>6, <2>7 DEF Dispatch
<1>3. peer' \in PeerStates /\ peer'.up = peer.up
  <2>1. peer \in PeerStates
    BY DEF CharInv, Sound
  <2>2. CASE peer.pipe = <<>>
    BY <1>1, <2>1, <2>2
  <2>3. CASE peer.pipe # <<>>
    <3>1. Rest \in Seq(Chunked)
      BY <2>3, ChunkType
    <3>2. peer' = [peer EXCEPT !.pipe = Rest]
      BY <1>1, <2>3
    <3> QED BY <2>1, <3>1, <3>2 DEF PeerStates
  <2> QED BY <2>2, <2>3
<1>4. LinkOk(base', loop', peer')
  BY <1>1, <1>2, <1>3 DEF HandlerOk, LinkOk
<1>5. loop' \in LoopStates /\ WaitOk(After, base', loop')
  BY <1>1, TimingFacts DEF WaitOk
<1>6. Sound(After, base', loop', peer')
  BY <1>2, <1>3, <1>4, <1>5 DEF HandlerOk, Sound
<1> QED BY <1>1, <1>6, SoundAfter

\* A connection begins: nothing read and nothing passed yet, and the scanner where it was left.
LEMMA AcceptStep ==
  ASSUME CharInv, Accept
  PROVE  CharInv'
<1> DEFINE h == hist
<1> DEFINE n == Len(h.passed)
<1>1. /\ loop.at = "wait" /\ loop' = Timing /\ UNCHANGED <<kind, muxed, mux, uart>>
      /\ kind = "telnet" /\ base.connected = FALSE
      /\ base' = TcpConnect(base) /\ peer' = [peer EXCEPT !.knocks = FALSE]
      /\ hist' = [h EXCEPT !.raw = <<>>, !.first = n, !.clean = (base.telnetopt = 1)]
  BY DEF Accept, Handled, Timing, Knocking, CharInv, Sound, BaseStates
<1>2. /\ State \in FrontStates /\ FrontInv(State) /\ base \in BaseStates /\ peer \in PeerStates
      /\ LinkOk(base, loop, peer)
  BY DEF CharInv, Sound
<1>3. h \in Histories /\ h = State.hist /\ mux = State.mux /\ uart = State.uart
      /\ mux \in MuxStates /\ uart \in UartStates
  BY <1>2, FrontTypes DEF State
<1>4. h.passed \in Seq(Tagged) /\ n \in Nat
  <2> DEFINE p == h.passed
  <2>1. p \in Seq(Tagged)
    BY <1>3 DEF Histories, Tagged
  <2> HIDE DEF p
  <2>2. Len(p) \in Nat
    BY <2>1
  <2> QED BY <2>1, <2>2 DEF p
<1> HIDE DEF h, n
<1>5. /\ hist' \in Histories /\ hist'.passed = h.passed /\ hist'.got = h.got
      /\ hist'.stale = h.stale /\ hist'.shrunk = h.shrunk /\ hist'.lost = h.lost
      /\ hist'.raw = <<>> /\ hist'.first = n /\ hist'.clean = (base.telnetopt = 1)
  <2>1. <<>> \in Seq(Bytes) /\ (base.telnetopt = 1) \in BOOLEAN
    OBVIOUS
  <2> QED BY <1>1, <1>3, <1>4, <2>1 DEF Histories
<1> DEFINE s == State
<1> DEFINE t == After
<1>6. /\ t.mux = s.mux /\ t.uart = s.uart /\ t.hist.passed = s.hist.passed
      /\ t.hist.got = s.hist.got /\ t.hist.stale = s.hist.stale
      /\ t.hist.shrunk = s.hist.shrunk /\ t.hist.lost = s.hist.lost
      /\ t.hist = hist' /\ t \in FrontStates
  BY <1>1, <1>3, <1>5 DEF After, FrontStates
<1> HIDE DEF s, t
<1>7. FrontInv(t)
  <2>1. RingsUsed(t)
    BY <1>2, <1>6 DEF FrontInv, RingsUsed, s
  <2>2. Awake(t)
    BY <1>2, <1>6 DEF FrontInv, Awake, Stale, FrontEndCanRead, s
  <2>3. RoutedSoFar(t)
    BY <1>2, <1>6 DEF FrontInv, RoutedSoFar, RoutesLike, s
  <2>4. Held(t)
    BY <1>2, <1>6 DEF FrontInv, Held, RingLen, s
  <2> QED BY <2>1, <2>2, <2>3, <2>4 DEF FrontInv
<1>8. /\ base' \in BaseStates /\ base'.connected = TRUE /\ base'.handler = TRUE
      /\ base'.openTimer = TRUE /\ base'.telnetopt = base.telnetopt /\ base'.buf = base.buf
      /\ base'.polling = base.polling /\ base'.timer = base.timer
  BY <1>1, <1>2 DEF BaseStates, TcpConnect, GenericOpen
<1>9. peer' \in PeerStates /\ peer'.up = peer.up
  BY <1>1, <1>2 DEF PeerStates
<1>10. LinkOk(base', loop', peer')
  BY <1>1, <1>2, <1>8, <1>9, TimingFacts DEF LinkOk
<1>11. DecodedSoFar(t.hist, base')
  <2>1. Parsed(1, <<>>).out = <<>> /\ Parsed(1, <<>>).opt = 1
    <3>1. <<>> \in Seq(Bytes) /\ Len(<<>>) = 0
      OBVIOUS
    <3>2. Parsed(1, <<>>) = Scanner(1)
      BY <3>1, ParsedNothing
    <3> QED BY <3>2 DEF Scanner
  <2>2. Given(t.hist) = <<>>
    <3> DEFINE e == Bare(h.passed)
    <3>1. SubSeq(e, n + 1, n) = <<>>
      <4>1. n + 1 > n /\ n + 1 \in Int /\ n \in Int
        BY <1>4
      <4> HIDE DEF e
      <4> DEFINE k == n + 1
      <4> HIDE DEF k
      <4>2. SubSeq(e, k, n) = <<>>
        BY <4>1, SubSeqEmpty DEF k
      <4> QED BY <4>2 DEF k
    <3>2. t.hist.passed = h.passed /\ t.hist.first = n
      BY <1>5, <1>6
    <3> QED BY <3>1, <3>2 DEF Given, n
  <2>3. t.hist.first <= Len(t.hist.passed)
    BY <1>4, <1>5, <1>6 DEF n
  <2>4. t.hist.clean => base.telnetopt = 1
    BY <1>5, <1>6
  <2>5. t.hist.raw = <<>>
    BY <1>5, <1>6
  <2> QED BY <1>1, <1>8, <2>1, <2>2, <2>3, <2>4, <2>5 DEF DecodedSoFar
<1>12. loop' \in LoopStates /\ WaitOk(t, base', loop')
  BY <1>1, TimingFacts DEF WaitOk
<1>13. Sound(After, base', loop', peer')
  BY <1>6, <1>7, <1>8, <1>9, <1>10, <1>11, <1>12 DEF Sound, t
<1> QED BY <1>1, <1>13, SoundAfter

\* Nothing was to be read: a pseudo terminal that was waited for has somebody at it.
LEMMA NothingStep ==
  ASSUME CharInv, Nothing
  PROVE  CharInv'
<1>1. /\ loop.at = "wait" /\ ~Readable /\ loop' = Timing
      /\ UNCHANGED <<kind, muxed, base, mux, uart, peer, hist>>
  BY DEF Nothing, Handled, Timing
<1>2. After = State /\ After \in FrontStates /\ FrontInv(After)
  BY <1>1, FrontAlone
<1>3. /\ base \in BaseStates /\ peer \in PeerStates /\ LinkOk(base, loop, peer)
      /\ DecodedSoFar(State.hist, base)
  BY DEF CharInv, Sound
<1>4. loop.fd => peer.up
  BY <1>1 DEF Readable
<1>5. LinkOk(base', loop', peer')
  BY <1>1, <1>3, <1>4, TimingFacts DEF LinkOk
<1>6. loop' \in LoopStates /\ WaitOk(After, base', loop')
  BY <1>1, TimingFacts DEF WaitOk
<1>7. Sound(After, base', loop', peer')
  BY <1>1, <1>2, <1>3, <1>5, <1>6 DEF Sound
<1> QED BY <1>1, <1>7, SoundAfter

-----------------------------------------------------------------------------
(* The timers, and the poll of the next round.                             *)

\* The poll keeps the invariant: what is asked for is room there is, and a datagram that is
\* not handed on whole is not followed by another.
LEMMA PollStep ==
  ASSUME CharInv, loop.at = "timers", UNCHANGED <<kind, muxed, peer>>,
         NEW d \in BaseStates, NEW l, l.at = "wait", LinkOk(d, l, peer),
         d.buf = base.buf, d.telnetopt = base.telnetopt, Poll(d)
  PROVE  CharInv'
<1> DEFINE s == State
<1> DEFINE p == IF kind = "udp" THEN UdpPoll(State, d.buf) ELSE [s |-> State, buf |-> d.buf]
<1> DEFINE u == p.s
<1> DEFINE x == p.buf
<1> DEFINE n == BeCanWrite(u)
<1> DEFINE e == [d EXCEPT !.buf = x]
<1> DEFINE t == Forget(u)
<1>1. /\ loop' = [at |-> "wait", fd |-> Asked(e) /\ n > 0]
      /\ base' = [e EXCEPT !.size = IF Asked(e) THEN n ELSE @]
      /\ Become(t)
  BY DEF Poll, PollWith, WaitFor, Forget
<1>2. /\ s \in FrontStates /\ FrontInv(s) /\ DecodedSoFar(s.hist, base) /\ peer \in PeerStates
      /\ s.hist \in Histories
  <2>1. State \in FrontStates
    BY DEF CharInv, Sound
  <2>2. State.hist \in Histories
    BY <2>1, FrontTypes
  <2> QED BY <2>1, <2>2 DEF CharInv, Sound
<1>3. d.buf \in Seq(Bytes)
  BY DEF BaseStates
<1>4. /\ u \in FrontStates /\ FrontInv(u) /\ x \in Seq(Bytes)
      /\ kind = "udp" => HandsOn(s, d.buf, u, x)
      /\ kind # "udp" => u = s /\ x = d.buf
      /\ x = <<>> \/ n = 0
  <2>1. CASE kind = "udp"
    <3> DEFINE y == d.buf
    <3> DEFINE q == Stray(s, y)
    <3>1. p = q
      BY <2>1 DEF UdpPoll
    <3>2. y \in Seq(Bytes)
      BY <1>3
    <3> HIDE DEF s, y, p
    <3>3. /\ q \in StrayStates /\ HandsOn(s, y, q.s, q.buf)
          /\ q.buf = <<>> \/ BeCanWrite(q.s) = 0
      BY <1>2, <3>2, StrayKeeps
    <3> HIDE DEF q
    <3>4. q.s \in FrontStates /\ FrontInv(q.s) /\ q.buf \in Seq(Bytes)
      BY <3>3 DEF StrayStates
    <3> QED BY <2>1, <3>1, <3>3, <3>4 DEF y
  <2>2. CASE kind # "udp"
    <3>1. p.s = s /\ p.buf = d.buf
      BY <2>2
    <3>2. d.buf = <<>>
      BY <2>2 DEF LinkOk
    <3> HIDE DEF p, s
    <3> QED BY <1>2, <1>3, <2>2, <3>1, <3>2
  <2> QED BY <2>1, <2>2
<1> HIDE DEF s, p, u, x
<1>5. /\ t \in FrontStates /\ FrontInv(t) /\ t.hist.raw = u.hist.raw
      /\ t.hist.passed = u.hist.passed /\ t.hist.first = u.hist.first
      /\ t.hist.clean = u.hist.clean /\ BeCanWrite(t) = n
  BY <1>4, ForgetKeeps
<1> HIDE DEF t, n
<1>6. n \in 0..FIFOLEN /\ Room(t, n)
  BY <1>5, AskRoom
<1>7. After = t
  BY <1>1, <1>5, Became
<1>8. e \in BaseStates /\ e.buf = x /\ Asked(e) = Asked(d) /\ Asked(d) \in BOOLEAN
      /\ e.size = d.size
  BY <1>4 DEF BaseStates, Asked
<1> DEFINE m == IF Asked(e) THEN n ELSE e.size
<1>9. base' = [e EXCEPT !.size = m] /\ m \in 0..FIFOLEN
  BY <1>1, <1>6, <1>8 DEF BaseStates
<1>10. /\ base' \in BaseStates /\ base'.buf = x /\ base'.size = m
       /\ base'.connected = d.connected /\ base'.handler = d.handler
       /\ base'.telnetopt = d.telnetopt /\ base'.polling = d.polling /\ base'.timer = d.timer
       /\ base'.opened = d.opened /\ base'.openTimer = d.openTimer
  <2> HIDE DEF m
  <2>1. /\ base' \in BaseStates /\ base'.buf = e.buf /\ base'.size = m
        /\ base'.connected = e.connected /\ base'.handler = e.handler
        /\ base'.telnetopt = e.telnetopt /\ base'.polling = e.polling /\ base'.timer = e.timer
        /\ base'.opened = e.opened /\ base'.openTimer = e.openTimer
    <3> HIDE DEF e
    <3> QED BY <1>8, <1>9 DEF BaseStates
  <2>2. /\ e.connected = d.connected /\ e.handler = d.handler
        /\ e.telnetopt = d.telnetopt /\ e.polling = d.polling /\ e.timer = d.timer
        /\ e.opened = d.opened /\ e.openTimer = d.openTimer
    BY DEF BaseStates
  <2> HIDE DEF e
  <2> QED BY <1>8, <2>1, <2>2
<1> HIDE DEF e
<1>11. loop'.at = "wait" /\ loop'.fd = (Asked(d) /\ n > 0) /\ loop' \in LoopStates
  <2>1. (Asked(d) /\ n > 0) \in BOOLEAN
    BY <1>8
  <2>2. loop' = [at |-> "wait", fd |-> Asked(d) /\ n > 0]
    BY <1>1, <1>8
  <2> QED BY <2>1, <2>2 DEF LoopStates
<1>12. LinkOk(base', loop', peer)
  <2>1. kind # "udp" => x = <<>>
    BY <1>4 DEF LinkOk
  <2> QED BY <1>10, <1>11, <2>1 DEF LinkOk
<1>13. WaitOk(t, base', loop')
  <2> SUFFICES ASSUME loop'.fd
               PROVE  Asked(base') /\ base'.size > 0 /\ base'.buf = <<>> /\ Room(t, base'.size)
    BY DEF WaitOk
  <2>1. Asked(d) /\ n > 0
    BY <1>11
  <2>2. Asked(base')
    BY <1>10, <2>1 DEF Asked
  <2>3. m = n
    BY <1>8, <2>1
  <2>4. x = <<>>
    BY <1>4, <2>1
  <2> QED BY <1>6, <1>10, <2>1, <2>2, <2>3, <2>4
<1>14. DecodedSoFar(t.hist, base')
  <2>1. CASE kind = "telnet"
    <3>1. u = s /\ kind # "udp"
      BY <1>4, <2>1
    <3>2. Given(t.hist) = Given(s.hist)
      BY <1>5, <3>1 DEF Given
    <3> QED BY <1>2, <1>5, <1>10, <2>1, <3>1, <3>2 DEF DecodedSoFar
  <2>2. CASE kind = "udp"
    <3>1. HandsOn(s, d.buf, u, x)
      BY <1>4, <2>2
    <3>2. s.hist.first = 0 /\ s.hist.raw = Bare(s.hist.passed) \o base.buf
      BY <1>2, <2>2 DEF DecodedSoFar
    <3>3. t.hist.raw = Bare(t.hist.passed) \o x /\ t.hist.first = 0
      BY <1>5, <3>1, <3>2 DEF HandsOn
    <3>4. Len(t.hist.passed) \in Nat
      <4> DEFINE y == t.hist.passed
      <4>1. y \in Seq(Tagged)
        BY <1>5, FrontTypes DEF Tagged
      <4> HIDE DEF y
      <4>2. Len(y) \in Nat
        BY <4>1
      <4> QED BY <4>2 DEF y
    <3>5. t.hist.first <= Len(t.hist.passed)
      BY <3>3, <3>4
    <3> QED BY <1>10, <2>2, <3>3, <3>5 DEF DecodedSoFar
  <2>3. CASE kind \notin {"telnet", "udp"}
    <3>1. u = s /\ x = base.buf
      BY <1>4, <2>3
    <3> QED BY <1>2, <1>5, <1>10, <2>3, <3>1 DEF DecodedSoFar
  <2> QED BY <2>1, <2>2, <2>3
<1>15. peer' \in PeerStates /\ LinkOk(base', loop', peer')
  BY <1>2, <1>12
<1>16. Sound(After, base', loop', peer')
  BY <1>5, <1>7, <1>10, <1>11, <1>13, <1>14, <1>15 DEF Sound
<1> QED BY <1>16, SoundAfter

\* The timer that opens the back end is due at once.
LEMMA FireOpenEffect ==
  ASSUME NEW d \in BaseStates
  PROVE  LET e == FireOpen(d)
         IN  /\ e \in BaseStates /\ e.opened = (d.opened \/ d.openTimer) /\ e.openTimer = FALSE
             /\ e.connected = d.connected /\ e.handler = d.handler /\ e.telnetopt = d.telnetopt
             /\ e.polling = d.polling /\ e.timer = d.timer /\ e.buf = d.buf
<1>1. CASE d.openTimer
  BY <1>1 DEF FireOpen, BaseStates
<1>2. CASE ~d.openTimer
  BY <1>2 DEF FireOpen, BaseStates
<1> QED BY <1>1, <1>2

\* A main loop that waits.
Waiting == [at |-> "wait", fd |-> FALSE]

\* A round in which no timer of the pseudo terminal expires.
LEMMA TimersStep ==
  ASSUME CharInv, Timers
  PROVE  CharInv'
<1> DEFINE d == FireOpen(base)
<1>1. loop.at = "timers" /\ UNCHANGED <<kind, muxed, peer>> /\ Poll(d)
  BY DEF Timers
<1>2. base \in BaseStates /\ LinkOk(base, loop, peer)
  BY DEF CharInv, Sound
<1>3. /\ d \in BaseStates /\ d.opened = (base.opened \/ base.openTimer) /\ d.openTimer = FALSE
      /\ d.connected = base.connected /\ d.handler = base.handler
      /\ d.telnetopt = base.telnetopt
      /\ d.polling = base.polling /\ d.timer = base.timer /\ d.buf = base.buf
  BY <1>2, FireOpenEffect
<1> HIDE DEF d
<1>4. LinkOk(d, Waiting, peer) /\ Waiting.at = "wait"
  BY <1>1, <1>2, <1>3 DEF LinkOk, Waiting
<1> QED BY <1>1, <1>3, <1>4, PollStep

\* The timer of the pseudo terminal.
LEMMA PtyTimerEffect ==
  ASSUME NEW d \in BaseStates, kind = "pty", d.polling = d.handler, d.connected => d.handler
  PROVE  LET e == PtyTimer(d)
         IN  /\ e \in BaseStates /\ e.telnetopt = d.telnetopt /\ e.buf = d.buf
             /\ e.polling = e.handler /\ (e.connected => e.handler)
             /\ e.connected /\ ~d.connected => d.polling
<1> DEFINE t == [d EXCEPT !.timer = "off"]
<1>1. /\ t \in BaseStates /\ t.connected = d.connected /\ t.handler = d.handler
      /\ t.telnetopt = d.telnetopt /\ t.buf = d.buf /\ t.polling = d.polling
  BY DEF BaseStates
<1>2. PtyTimer(d) = IF d.connected THEN t
                    ELSE IF d.polling THEN PtyState(t, TRUE) ELSE PtyUpdateReadHandler(t)
  BY DEF PtyTimer
<1> HIDE DEF t
<1>3. CASE d.connected
  BY <1>1, <1>2, <1>3
<1>4. CASE ~d.connected /\ d.polling
  <2>1. PtyTimer(d) = [GenericOpen(t) EXCEPT !.connected = TRUE]
    BY <1>1, <1>2, <1>4 DEF PtyState
  <2> QED BY <1>1, <1>4, <2>1 DEF BaseStates, GenericOpen
<1>5. CASE ~d.connected /\ ~d.polling
  <2>1. PtyTimer(d) = PtyUpdateReadHandler(t)
    BY <1>2, <1>5
  <2> DEFINE u == PtyUpdateReadHandler(t)
  <2>2. u = [t EXCEPT !.handler = TRUE, !.polling = TRUE, !.timer = "short"]
    BY DEF PtyUpdateReadHandler
  <2> HIDE DEF u
  <2>3. u = [connected |-> t.connected, handler |-> TRUE, telnetopt |-> t.telnetopt,
             size |-> t.size, polling |-> TRUE, timer |-> "short", buf |-> t.buf,
             opened |-> t.opened, openTimer |-> t.openTimer]
    BY <1>1, <2>2 DEF BaseStates
  <2>4. /\ t.connected \in BOOLEAN /\ t.telnetopt \in 0..3 /\ t.size \in 0..FIFOLEN
        /\ t.buf \in Seq(Bytes) /\ t.opened \in BOOLEAN /\ t.openTimer \in BOOLEAN
    BY <1>1 DEF BaseStates
  <2>5. u \in BaseStates /\ u.telnetopt = t.telnetopt /\ u.buf = t.buf
        /\ u.polling = u.handler /\ u.handler = TRUE /\ u.connected = t.connected
    BY <2>3, <2>4 DEF BaseStates
  <2>6. PtyTimer(d) = u
    BY <2>1 DEF u
  <2> QED BY <1>1, <1>5, <2>5, <2>6
<1> QED BY <1>3, <1>4, <1>5

\* It expires; it takes nobody for somebody where the descriptor was waited for.
LEMMA TimersExpireStep ==
  ASSUME CharInv, TimersExpire
  PROVE  CharInv' /\ (base'.connected /\ ~base.connected /\ loop.fd => peer.up)
<1> DEFINE c == PtyTimer(base)
<1> DEFINE d == FireOpen(c)
<1>1. /\ loop.at = "timers" /\ base.timer # "off" /\ UNCHANGED <<kind, muxed, peer>>
      /\ Poll(d)
  BY DEF TimersExpire
<1>2. base \in BaseStates /\ LinkOk(base, loop, peer)
  BY DEF CharInv, Sound
<1>3. kind = "pty"
  BY <1>1, <1>2 DEF LinkOk
<1>4. /\ c \in BaseStates /\ c.telnetopt = base.telnetopt /\ c.buf = base.buf
      /\ c.polling = c.handler /\ (c.connected => c.handler)
      /\ c.connected /\ ~base.connected => base.polling
  <2>1. base.polling = base.handler /\ (base.connected => base.handler)
    BY <1>2, <1>3 DEF LinkOk, BaseStates
  <2> QED BY <1>2, <1>3, <2>1, PtyTimerEffect
<1> HIDE DEF c
<1>5. /\ d \in BaseStates /\ d.connected = c.connected /\ d.handler = c.handler
      /\ d.telnetopt = c.telnetopt /\ d.polling = c.polling /\ d.buf = c.buf
  BY <1>4, FireOpenEffect
<1> HIDE DEF d
<1>6. LinkOk(d, Waiting, peer) /\ Waiting.at = "wait"
  BY <1>2, <1>3, <1>4, <1>5 DEF LinkOk, Waiting, BaseStates
<1>7. CharInv'
  BY <1>1, <1>4, <1>5, <1>6, PollStep
<1>8. base'.connected = d.connected
  <2>1. \E x, m : base' = [[d EXCEPT !.buf = x] EXCEPT !.size = m]
    BY <1>1 DEF Poll, PollWith, WaitFor
  <2> QED BY <1>5, <2>1 DEF BaseStates
<1>9. base'.connected /\ ~base.connected /\ loop.fd => peer.up
  BY <1>1, <1>2, <1>3, <1>4, <1>5, <1>8 DEF LinkOk
<1> QED BY <1>7, <1>9

-----------------------------------------------------------------------------
(* The guest and the peer, while the main loop waits.                       *)

\* A step of the guest that leaves the connection and the room that was asked for alone.
LEMMA GuestKeeps ==
  ASSUME CharInv, UNCHANGED <<kind, muxed, base, loop, peer>>, NEW t \in FrontStates, Become(t),
         FrontInv(t), \A n \in Nat : Room(State, n) => Room(t, n),
         t.hist.raw = hist.raw, t.hist.passed = hist.passed, t.hist.first = hist.first,
         t.hist.clean = hist.clean
  PROVE  CharInv'
<1>1. After = t
  BY Became
<1>2. /\ base \in BaseStates /\ loop \in LoopStates /\ peer \in PeerStates
      /\ LinkOk(base, loop, peer) /\ DecodedSoFar(State.hist, base) /\ WaitOk(State, base, loop)
  BY DEF CharInv, Sound
<1>3. State.hist = hist
  BY DEF State
<1>4. DecodedSoFar(t.hist, base)
  BY <1>2, <1>3 DEF DecodedSoFar, Given
<1>5. WaitOk(t, base, loop)
  <2>1. base.size \in Nat
    <3>1. FIFOLEN \in Nat
      BY CharAssumption
    <3> QED BY <1>2, <3>1 DEF BaseStates
  <2> QED BY <1>2, <2>1 DEF WaitOk
<1>6. Sound(After, base', loop', peer')
  BY <1>1, <1>2, <1>4, <1>5 DEF Sound
<1> QED BY <1>6, SoundAfter

\* The guest takes a byte, and the multiplexer is offered the room.
TakeByte(s) == [s EXCEPT !.uart.fifo = Tail(@)]

\* The room that was asked for is still there.
LEMMA TakeByteEffect ==
  ASSUME NEW s \in FrontStates, FrontInv(s), s.uart.fifo # <<>>
  PROVE  LET t == TakeByte(s)
         IN  /\ t \in FrontStates /\ t.mux = s.mux /\ t.hist = s.hist
             /\ \A n \in Nat : Room(s, n) => Room(t, n)
             /\ muxed => Acceptable(t)
             /\ ~muxed => FrontInv(t)
<1> DEFINE t == TakeByte(s)
<1> DEFINE u == s.uart
<1> DEFINE v == t.uart
<1> DEFINE q == u.fifo
<1>1. u \in UartStates /\ q \in Seq(Bytes) /\ q # <<>> /\ u.fe \in BOOLEAN
      /\ Len(q) \in Nat /\ Len(q) <= Depth(u)
  BY FrontTypes
<1> DEFINE r == Tail(q)
<1>2. r \in Seq(Bytes) /\ Len(r) = Len(q) - 1 /\ Len(q) >= 1
  <2> HIDE DEF q
  <2> QED BY <1>1, TailType
<1>3. t = [s EXCEPT !.uart.fifo = r]
  BY DEF TakeByte
<1> HIDE DEF t, r, q
<1>4. v.fe = u.fe /\ v.fifo = r /\ t.mux = s.mux /\ t.hist = s.hist
      /\ v = [fe |-> u.fe, fifo |-> r] /\ t = [mux |-> s.mux, uart |-> v, hist |-> s.hist]
  <2>1. s = [mux |-> s.mux, uart |-> s.uart, hist |-> s.hist]
        /\ s.uart = [fe |-> s.uart.fe, fifo |-> s.uart.fifo]
    BY FrontTypes
  <2> QED BY <1>3, <2>1
<1> HIDE DEF v
<1>5. v \in UartStates /\ Depth(v) = Depth(u)
  <2>1. Depth(v) = Depth(u)
    BY <1>4 DEF Depth
  <2>2. Depth(u) \in Nat
    BY <1>1, UartFacts
  <2>3. Len(v.fifo) <= Depth(v)
    BY <1>1, <1>2, <1>4, <2>1, <2>2
  <2>4. v \in [fe : BOOLEAN, fifo : Seq(Bytes)]
    BY <1>1, <1>2, <1>4
  <2> QED BY <2>1, <2>3, <2>4 DEF UartStates
<1>6. t \in FrontStates
  BY <1>4, <1>5, FrontTypes DEF FrontStates
<1>7. SafeTake(v) >= SafeTake(u) /\ SafeTake(v) \in Nat /\ SafeTake(u) \in Nat
  <2>1. u.fe = v.fe /\ Len(u.fifo) \in {Len(v.fifo), Len(v.fifo) + 1}
    BY <1>1, <1>2, <1>4 DEF q
  <2>2. SafeTake(u) <= SafeTake(v)
    BY <1>1, <1>5, <2>1, SafeTakeStep
  <2>3. SafeTake(v) \in Nat
    BY <1>5, SafeFacts
  <2>4. SafeTake(u) \in Nat
    BY <1>1, SafeFacts
  <2> QED BY <2>2, <2>3, <2>4
<1>8. ASSUME NEW n \in Nat, Room(s, n) PROVE Room(t, n)
  <2>1. RingLen(t) = RingLen(s) /\ RingLen(s) \in Nat
    BY <1>4, RingLenType DEF RingLen
  <2>2. Len(v.fifo) = Len(u.fifo) - 1 /\ Len(u.fifo) \in Nat /\ Depth(u) \in Nat
    <3>1. Depth(u) \in Nat
      BY <1>1, UartFacts
    <3> QED BY <1>1, <1>2, <1>4, <3>1 DEF q
  <2>3. MUX_BUFFER_SIZE \in Nat
    BY CharAssumption
  <2> DEFINE a == SafeTake(u)
  <2> DEFINE c == SafeTake(v)
  <2> DEFINE d == RingLen(s)
  <2> DEFINE i == Len(u.fifo)
  <2> DEFINE j == Len(v.fifo)
  <2> DEFINE k == Depth(u)
  <2>4. /\ a \in Nat /\ c \in Nat /\ c >= a /\ d \in Nat /\ i \in Nat /\ j = i - 1 /\ k \in Nat
    BY <1>7, <2>1, <2>2
  <2>5. ~s.hist.shrunk =>
          /\ muxed /\ s.mux.focus = UART => d + n <= MUX_BUFFER_SIZE + a
          /\ ~muxed => i + n <= k
    BY <1>8 DEF Room
  <2> HIDE DEF a, c, d, i, j, k
  <2>6. ~s.hist.shrunk =>
          /\ muxed /\ s.mux.focus = UART => d + n <= MUX_BUFFER_SIZE + c
          /\ ~muxed => j + n <= k
    BY <2>3, <2>4, <2>5
  <2>7. RingLen(t) = d /\ SafeTake(t.uart) = c /\ Len(t.uart.fifo) = j /\ Depth(t.uart) = k
    BY <1>5, <2>1 DEF d, c, j, k, v
  <2> QED BY <1>4, <2>6, <2>7 DEF Room
<1>9. RingsUsed(t) /\ t.hist.lost # "self"
  BY <1>4 DEF FrontInv, RingsUsed, Held
<1>10. ASSUME muxed PROVE Acceptable(t)
  <2>1. \A f \in FrontEnds : f # t.mux.focus => t.mux.ring[f] = <<>> \/ Stale(t, f)
    BY <1>4 DEF FrontInv, Awake, Stale
  <2>2. RingLen(t) = RingLen(s)
    BY <1>4 DEF RingLen
  <2>3. ~t.hist.shrunk =>
          /\ RingLen(t) <= MUX_BUFFER_SIZE
          /\ t.mux.focus = MONITOR => RingLen(t) < MUX_BUFFER_SIZE
    BY <1>4, <1>10, <2>2 DEF FrontInv, Held
  <2> QED BY <1>9, <2>1, <2>3 DEF Acceptable
<1>11. ASSUME ~muxed PROVE FrontInv(t)
  <2>1. Held(t)
    BY <1>9, <1>11 DEF Held
  <2>2. t.mux.ring[MONITOR] = <<>> /\ t.mux.ring[UART] = <<>>
    BY <1>9, <1>11 DEF RingsUsed
  <2>3. Awake(t)
    BY <2>2, FrontEndsAre DEF Awake
  <2>4. RoutedSoFar(t)
    BY <1>4, <1>11 DEF FrontInv, RoutedSoFar
  <2> QED BY <1>9, <2>1, <2>3, <2>4 DEF FrontInv
<1> QED BY <1>4, <1>6, <1>8, <1>10, <1>11 DEF t

\* From history h to n, the guest has upset its FIFO, and that is marked.
Upset(h, n) ==
    /\ n \in Histories /\ n.shrunk = TRUE /\ n.stale[UART] = TRUE
    /\ n.lost = h.lost /\ n.got = h.got /\ n.raw = h.raw /\ n.passed = h.passed
    /\ n.first = h.first /\ n.clean = h.clean

\* What the guest upsets is marked, so that nothing is promised of it.
LEMMA GuestUpsets ==
  ASSUME CharInv, UNCHANGED <<kind, muxed, base, mux, loop, peer>>, uart' \in UartStates,
         Upset(hist, hist')
  PROVE  CharInv'
<1> DEFINE s == State
<1> DEFINE h == hist
<1> DEFINE t == After
<1>2. /\ s \in FrontStates /\ FrontInv(s) /\ s.mux = mux /\ s.hist = h
  BY DEF CharInv, Sound, State
<1>3. mux \in MuxStates /\ h \in Histories
  BY <1>2, FrontTypes
<1> HIDE DEF h
<1>4. /\ hist' \in Histories /\ hist'.shrunk = TRUE /\ hist'.lost = h.lost /\ hist'.got = h.got
      /\ hist'.raw = h.raw /\ hist'.passed = h.passed /\ hist'.first = h.first
      /\ hist'.clean = h.clean /\ hist'.stale[UART] = TRUE
  BY DEF Upset, h
<1>6. t.mux = mux /\ t.uart = uart' /\ t.hist = hist' /\ t \in FrontStates
  BY <1>3, <1>4 DEF After, FrontStates
<1>7. Become(t)
  BY <1>6 DEF Become
<1> HIDE DEF s, t
<1>8. RingsUsed(t)
  BY <1>2, <1>6 DEF FrontInv, RingsUsed
<1>9. Held(t) /\ \A n \in Nat : Room(t, n)
  BY <1>2, <1>4, <1>6 DEF FrontInv, Held, Room
<1>10. Awake(t)
  <2>1. t.hist.stale[UART] = TRUE /\ t.mux.ring[MONITOR] = <<>>
    BY <1>4, <1>6, <1>8 DEF RingsUsed
  <2> QED BY <2>1, FrontEndsAre DEF Awake, Stale
<1>11. RoutedSoFar(t)
  <2>1. /\ t.mux = s.mux /\ t.hist.passed = s.hist.passed /\ t.hist.got = s.hist.got
        /\ t.hist.lost = s.hist.lost
    BY <1>2, <1>4, <1>6
  <2>2. RoutedSoFar(s)
    BY <1>2 DEF FrontInv
  <2> QED BY <2>1, <2>2 DEF RoutedSoFar, RoutesLike
<1>12. FrontInv(t)
  BY <1>8, <1>9, <1>10, <1>11 DEF FrontInv
<1>13. /\ t.hist.raw = hist.raw /\ t.hist.passed = hist.passed /\ t.hist.first = hist.first
       /\ t.hist.clean = hist.clean
  BY <1>4, <1>6 DEF h
<1> QED BY <1>6, <1>7, <1>9, <1>12, <1>13, GuestKeeps

\* The guest reads RBR.
LEMMA GuestReadRbrStep ==
  ASSUME CharInv, GuestReadRbr
  PROVE  CharInv'
<1> DEFINE o == State
<1> DEFINE s == TakeByte(o)
<1> DEFINE t == IF ~muxed THEN s ELSE IF loopback THEN Unheard(s) ELSE MuxAcceptInput(s)
<1>1. /\ uart.fifo # <<>> /\ UNCHANGED <<kind, muxed, base, loop, peer>> /\ Become(t)
  BY DEF GuestReadRbr, TakeByte
<1>2. o \in FrontStates /\ FrontInv(o) /\ o.uart = uart /\ o.hist = hist /\ muxed \in BOOLEAN
  BY DEF CharInv, Sound, State
<1> HIDE DEF o
<1>3. /\ s \in FrontStates /\ s.mux = o.mux /\ s.hist = o.hist
      /\ \A n \in Nat : Room(o, n) => Room(s, n)
      /\ muxed => Acceptable(s)
      /\ ~muxed => FrontInv(s)
  BY <1>1, <1>2, TakeByteEffect
<1> HIDE DEF s
<1>4. CASE muxed /\ ~loopback
  <2> DEFINE w == MuxAcceptInput(s)
  <2>1. /\ w \in FrontStates /\ RingsUsed(w) /\ Awake(w) /\ Held(w) /\ SameHist(s, w)
        /\ \A a : RoutesLike(s, a) => RoutesLike(w, a)
        /\ \A n \in Nat : Room(s, n) => Room(w, n)
    BY <1>3, <1>4, AcceptKeeps
  <2>2. t = w
    BY <1>4
  <2> HIDE DEF w, t
  <2>3. RoutesLike(s, Routing(s.hist.passed))
    BY <1>2, <1>3, <1>4 DEF FrontInv, RoutedSoFar, RoutesLike
  <2>4. RoutesLike(w, Routing(w.hist.passed))
    <3>1. w.hist.passed = s.hist.passed
      BY <2>1 DEF SameHist
    <3> QED BY <2>1, <2>3, <3>1
  <2>5. FrontInv(w)
    BY <1>4, <2>1, <2>4 DEF FrontInv, RoutedSoFar
  <2>6. \A n \in Nat : Room(State, n) => Room(w, n)
    BY <1>3, <2>1 DEF o
  <2>7. w.hist.raw = hist.raw /\ w.hist.passed = hist.passed /\ w.hist.first = hist.first
        /\ w.hist.clean = hist.clean
    BY <1>2, <1>3, <2>1 DEF SameHist
  <2> QED BY <1>1, <2>1, <2>2, <2>5, <2>6, <2>7, GuestKeeps
<1>5. CASE ~muxed
  <2>1. t = s
    BY <1>5
  <2> HIDE DEF t
  <2>2. \A n \in Nat : Room(State, n) => Room(s, n)
    BY <1>3 DEF o
  <2>3. s.hist.raw = hist.raw /\ s.hist.passed = hist.passed /\ s.hist.first = hist.first
        /\ s.hist.clean = hist.clean
    BY <1>2, <1>3
  <2> QED BY <1>1, <1>3, <1>5, <2>1, <2>2, <2>3, GuestKeeps
<1>6. CASE muxed /\ loopback
  <2> DEFINE w == Unheard(s)
  <2>1. t = w
    BY <1>6
  <2> HIDE DEF t
  <2>2. s.hist = hist /\ s.hist \in Histories /\ s.mux = mux /\ s.uart \in UartStates
        /\ s = [mux |-> s.mux, uart |-> s.uart, hist |-> s.hist]
    <3>1. o.mux = mux
      BY DEF o, State
    <3> QED BY <1>2, <1>3, <3>1, FrontTypes
  <2>3. w.mux = s.mux /\ w.uart = s.uart
        /\ w.hist = [s.hist EXCEPT !.stale[UART] = TRUE, !.shrunk = TRUE]
    BY <2>2 DEF Unheard
  <2> HIDE DEF w
  <2>4. uart' \in UartStates /\ mux' = mux
        /\ hist' = [hist EXCEPT !.stale[UART] = TRUE, !.shrunk = TRUE]
    BY <1>1, <2>1, <2>2, <2>3 DEF Become
  <2>5. Upset(hist, hist')
    <3>1. UART \in FrontEnds
      BY FrontEndsAre
    <3>2. hist \in Histories /\ hist.stale \in [FrontEnds -> BOOLEAN]
      BY <2>2 DEF Histories
    <3> DEFINE v == [hist.stale EXCEPT ![UART] = TRUE]
    <3>3. hist' = [hist EXCEPT !.stale = v, !.shrunk = TRUE]
      BY <2>4, <3>2 DEF Histories
    <3>4. v \in [FrontEnds -> BOOLEAN] /\ v[UART] = TRUE
      BY <3>1, <3>2
    <3> HIDE DEF v
    <3> QED BY <3>2, <3>3, <3>4 DEF Upset, Histories
  <2> QED BY <1>1, <2>4, <2>5, GuestUpsets
<1> QED BY <1>2, <1>4, <1>5, <1>6

\* The guest resets, refills or changes its FIFO.
LEMMA GuestSetsFifoStep ==
  ASSUME CharInv, NEW u \in UartStates, GuestSetsFifo(u)
  PROVE  CharInv'
<1> DEFINE h == hist
<1>1. /\ uart' = u /\ hist' = [h EXCEPT !.guest = @ + 1, !.shrunk = TRUE, !.stale[UART] = TRUE]
      /\ UNCHANGED <<kind, muxed, base, mux, loop, peer>>
  BY DEF GuestSetsFifo
<1>2. State \in FrontStates /\ State.hist = h
  BY DEF CharInv, Sound, State
<1>3. h \in Histories /\ h.stale \in [FrontEnds -> BOOLEAN] /\ UART \in FrontEnds
  BY <1>2, FrontTypes, FrontEndsAre
<1>4. Upset(h, hist')
  <2> HIDE DEF h
  <2> DEFINE n == h.guest + 1
  <2> DEFINE v == [h.stale EXCEPT ![UART] = TRUE]
  <2>1. n \in Nat
    BY <1>3 DEF Histories
  <2>2. v \in [FrontEnds -> BOOLEAN] /\ v[UART] = TRUE
    BY <1>3
  <2>3. hist' = [h EXCEPT !.guest = n, !.shrunk = TRUE, !.stale = v]
    BY <1>1, <1>3 DEF Histories
  <2> HIDE DEF n, v
  <2> QED BY <1>3, <2>1, <2>2, <2>3 DEF Upset, Histories
<1> QED BY <1>1, <1>4, GuestUpsets

\* The guest writes FCR.
LEMMA GuestWriteFcrStep ==
  ASSUME CharInv, GuestWriteFcr
  PROVE  CharInv'
<1>1. PICK fe \in BOOLEAN : GuestSetsFifo([fe |-> fe, fifo |-> <<>>])
  BY DEF GuestWriteFcr
<1> DEFINE u == [fe |-> fe, fifo |-> <<>>]
<1>2. u \in UartStates
  <2>1. <<>> \in Seq(Bytes) /\ Len(<<>>) = 0
    OBVIOUS
  <2>2. u \in [fe : BOOLEAN, fifo : Seq(Bytes)] /\ u.fifo = <<>>
    BY <2>1
  <2> HIDE DEF u
  <2>3. Depth(u) \in Nat
    BY CharAssumption DEF Depth
  <2>4. 0 <= Depth(u)
    BY <2>3
  <2> QED BY <2>1, <2>2, <2>4 DEF UartStates
<1> QED BY <1>1, <1>2, GuestSetsFifoStep

\* The guest writes THR in loopback.
LEMMA GuestLoopsBackStep ==
  ASSUME CharInv, GuestLoopsBack
  PROVE  CharInv'
<1>1. State \in FrontStates /\ State.uart = uart
  BY DEF CharInv, Sound, State
<1>2. uart \in UartStates
  BY <1>1, FrontTypes
<1>3. UartPut(uart, BREAK) \in UartStates
  BY <1>2, BreakIsByte, UartPutEffect
<1> QED BY <1>3, GuestSetsFifoStep DEF GuestLoopsBack

\* The guest writes MCR: it has written once more.
LEMMA GuestWriteMcrStep ==
  ASSUME CharInv, GuestWriteMcr
  PROVE  CharInv'
<1> DEFINE s == State
<1> DEFINE h == hist
<1> DEFINE t == After
<1>1. hist' = [h EXCEPT !.guest = @ + 1] /\ UNCHANGED <<kind, muxed, base, mux, uart, loop, peer>>
  BY DEF GuestWriteMcr
<1>2. s \in FrontStates /\ FrontInv(s) /\ s.mux = mux /\ s.uart = uart /\ s.hist = h
  BY DEF CharInv, Sound, State
<1>3. mux \in MuxStates /\ uart \in UartStates /\ h \in Histories
  BY <1>2, FrontTypes
<1> HIDE DEF h
<1>4. /\ hist' \in Histories /\ hist'.shrunk = h.shrunk /\ hist'.lost = h.lost
      /\ hist'.got = h.got /\ hist'.stale = h.stale
      /\ hist'.raw = h.raw /\ hist'.passed = h.passed /\ hist'.first = h.first
      /\ hist'.clean = h.clean
  <2>1. h.guest + 1 \in Nat
    BY <1>3 DEF Histories
  <2> QED BY <1>1, <1>3, <2>1 DEF Histories
<1>5. t.mux = mux /\ t.uart = uart /\ t.hist = hist' /\ t \in FrontStates
  BY <1>1, <1>3, <1>4 DEF After, FrontStates
<1>5a. Become(t)
  BY <1>1, <1>5 DEF Become
<1> HIDE DEF s, t
<1>6. /\ t.mux = s.mux /\ t.uart = s.uart /\ t.hist.passed = s.hist.passed
      /\ t.hist.got = s.hist.got /\ t.hist.stale = s.hist.stale
      /\ t.hist.shrunk = s.hist.shrunk /\ t.hist.lost = s.hist.lost
  BY <1>2, <1>4, <1>5
<1>7. FrontInv(t)
  <2>1. RingsUsed(t)
    BY <1>2, <1>6 DEF FrontInv, RingsUsed
  <2>2. Awake(t)
    BY <1>2, <1>6 DEF FrontInv, Awake, Stale, FrontEndCanRead
  <2>3. RoutedSoFar(t)
    BY <1>2, <1>6 DEF FrontInv, RoutedSoFar, RoutesLike
  <2>4. Held(t)
    BY <1>2, <1>6 DEF FrontInv, Held, RingLen
  <2> QED BY <2>1, <2>2, <2>3, <2>4 DEF FrontInv
<1>8. \A n \in Nat : Room(State, n) => Room(t, n)
  BY <1>6 DEF Room, RingLen, s
<1>9. /\ t.hist.raw = hist.raw /\ t.hist.passed = hist.passed /\ t.hist.first = hist.first
      /\ t.hist.clean = hist.clean
  BY <1>4, <1>5 DEF h
<1> QED BY <1>1, <1>5, <1>5a, <1>7, <1>8, <1>9, GuestKeeps

\* The guest writes to a pseudo terminal nobody is connected to.
LEMMA GuestWriteThrStep ==
  ASSUME CharInv, GuestWriteThr
  PROVE  CharInv'
<1> DEFINE s == State
<1> DEFINE h == hist
<1> DEFINE t == After
<1>1. /\ loop.at = "wait" /\ kind = "pty" /\ base.connected = FALSE
      /\ base' = PtyUpdateReadHandler(base) /\ hist' = [h EXCEPT !.guest = @ + 1]
      /\ UNCHANGED <<kind, muxed, mux, uart, loop, peer>>
  BY DEF GuestWriteThr, CharInv, Sound, BaseStates
<1>2. /\ s \in FrontStates /\ FrontInv(s) /\ s.mux = mux /\ s.uart = uart /\ s.hist = h
      /\ base \in BaseStates /\ loop \in LoopStates /\ peer \in PeerStates
      /\ LinkOk(base, loop, peer) /\ WaitOk(s, base, loop) /\ DecodedSoFar(h, base)
  BY DEF CharInv, Sound, State
<1>3. mux \in MuxStates /\ uart \in UartStates /\ h \in Histories
  BY <1>2, FrontTypes
<1> HIDE DEF h
<1>4. /\ hist' \in Histories /\ hist'.shrunk = h.shrunk /\ hist'.lost = h.lost
      /\ hist'.got = h.got /\ hist'.stale = h.stale
      /\ hist'.raw = h.raw /\ hist'.passed = h.passed /\ hist'.first = h.first
      /\ hist'.clean = h.clean
  <2>1. h.guest + 1 \in Nat
    BY <1>3 DEF Histories
  <2> QED BY <1>1, <1>3, <2>1 DEF Histories
<1>5. t.mux = mux /\ t.uart = uart /\ t.hist = hist' /\ t \in FrontStates
  BY <1>1, <1>3, <1>4 DEF After, FrontStates
<1> HIDE DEF s, t
<1>6. /\ t.mux = s.mux /\ t.uart = s.uart /\ t.hist.passed = s.hist.passed
      /\ t.hist.got = s.hist.got /\ t.hist.stale = s.hist.stale
      /\ t.hist.shrunk = s.hist.shrunk /\ t.hist.lost = s.hist.lost
  BY <1>2, <1>4, <1>5
<1>7. FrontInv(t)
  <2>1. RingsUsed(t)
    BY <1>2, <1>6 DEF FrontInv, RingsUsed
  <2>2. Awake(t)
    BY <1>2, <1>6 DEF FrontInv, Awake, Stale, FrontEndCanRead
  <2>3. RoutedSoFar(t)
    BY <1>2, <1>6 DEF FrontInv, RoutedSoFar, RoutesLike
  <2>4. Held(t)
    BY <1>2, <1>6 DEF FrontInv, Held, RingLen
  <2> QED BY <2>1, <2>2, <2>3, <2>4 DEF FrontInv
<1>8. /\ base' \in BaseStates /\ base'.handler = TRUE /\ base'.polling = TRUE
      /\ base'.connected = base.connected /\ base'.buf = base.buf /\ base'.size = base.size
      /\ base'.telnetopt = base.telnetopt
  BY <1>1, <1>2 DEF BaseStates, PtyUpdateReadHandler
<1>9. LinkOk(base', loop', peer')
  BY <1>1, <1>2, <1>8 DEF LinkOk
<1>10. WaitOk(t, base', loop')
  <2>1. \A n : Room(s, n) => Room(t, n)
    BY <1>6 DEF Room, RingLen
  <2> QED BY <1>1, <1>2, <1>8, <2>1 DEF WaitOk, Asked
<1>11. DecodedSoFar(t.hist, base')
  <2>1. Given(t.hist) = Given(h)
    BY <1>4, <1>5 DEF Given
  <2> QED BY <1>2, <1>4, <1>5, <1>8, <2>1 DEF DecodedSoFar
<1>12. Sound(After, base', loop', peer')
  BY <1>1, <1>2, <1>5, <1>7, <1>8, <1>9, <1>10, <1>11 DEF Sound, t
<1> QED BY <1>1, <1>12, SoundAfter

\* A step of the peer.
LEMMA PeerKeeps ==
  ASSUME CharInv, UNCHANGED <<kind, muxed, base, mux, uart, loop, hist>>,
         peer' \in PeerStates, LinkOk(base, loop, peer')
  PROVE  CharInv'
<1>1. After = State
  BY FrontAlone
<1>2. Sound(After, base', loop', peer')
  BY <1>1 DEF CharInv, Sound
<1> QED BY <1>2, SoundAfter

\* What the peer writes in one go.
LEMMA ChunksType ==
  ASSUME NEW n \in Nat, NEW c \in Chunks(n), n + Len(c) <= MaxKeys
  PROVE  c \in Chunked /\ n + Len(c) \in 0..MaxKeys
<1>1. MaxKeys \in Nat /\ MUX_BUFFER_SIZE \in Nat /\ "key" \in Alphabet
  BY CharAssumption DEF Alphabet
<1>2. CASE kind = "udp"
  <2>1. PICK a \in Alphabet \intersect Letters[kind] : c = <<<<"key", n + 1>>, <<a, n + 2>>>>
    BY <1>2 DEF Chunks
  <2>2. Len(c) = 2
    BY <2>1
  <2>3. n + 1 \in -MUX_BUFFER_SIZE..MaxKeys /\ n + 2 \in -MUX_BUFFER_SIZE..MaxKeys
    BY <1>1, <2>2
  <2> DEFINE x == <<"key", n + 1>>
  <2> DEFINE y == <<a, n + 2>>
  <2>4. x \in Bytes /\ y \in Bytes
    BY <1>1, <2>3 DEF Bytes
  <2>5. c = <<x, y>>
    BY <2>1
  <2> HIDE DEF x, y
  <2>6. c \in Seq(Bytes) /\ c # <<>>
    BY <2>4, <2>5
  <2>7. n + Len(c) \in 0..MaxKeys
    BY <1>1, <2>2
  <2> QED BY <1>2, <2>6, <2>7 DEF Chunked
<1>3. CASE kind # "udp"
  <2>1. PICK a \in Alphabet \intersect Letters[kind] : c = <<<<a, n + 1>>>>
    BY <1>3 DEF Chunks
  <2>2. Len(c) = 1
    BY <2>1
  <2>3. n + 1 \in -MUX_BUFFER_SIZE..MaxKeys
    BY <1>1, <2>2
  <2> DEFINE x == <<a, n + 1>>
  <2>4. x \in Bytes
    BY <1>1, <2>3 DEF Bytes
  <2>5. c = <<x>>
    BY <2>1
  <2> HIDE DEF x
  <2>6. c \in Seq(Bytes) /\ c # <<>>
    BY <2>4, <2>5
  <2>7. n + Len(c) \in 0..MaxKeys
    BY <1>1, <2>2
  <2> QED BY <2>2, <2>6, <2>7 DEF Chunked
<1> QED BY <1>2, <1>3

\* The peer sends, comes and goes.
LEMMA PeerSteps ==
  ASSUME CharInv, PeerSends \/ PeerOpens \/ PeerCloses
  PROVE  CharInv'
<1>1. peer \in PeerStates /\ LinkOk(base, loop, peer)
  BY DEF CharInv, Sound
<1>2. CASE PeerSends
  <2>1. PICK c \in Chunks(peer.sent) :
          /\ peer.sent + Len(c) <= MaxKeys
          /\ peer' = [peer EXCEPT !.pipe = Append(@, c), !.sent = @ + Len(c)]
    BY <1>2, Zenon DEF PeerSends
  <2>2. peer.sent \in Nat /\ peer.pipe \in Seq(Chunked)
    <3>1. MaxKeys \in Nat
      BY CharAssumption
    <3> QED BY <1>1, <3>1 DEF PeerStates
  <2>3. c \in Chunked /\ peer.sent + Len(c) \in 0..MaxKeys
    BY <2>1, <2>2, ChunksType
  <2>4. Append(peer.pipe, c) \in Seq(Chunked)
    <3> DEFINE q == peer.pipe
    <3> HIDE DEF q
    <3>1. q \in Seq(Chunked) => Append(q, c) \in Seq(Chunked)
      BY <2>3, AppendProperties
    <3> QED BY <2>2, <3>1 DEF q
  <2> DEFINE x == Append(peer.pipe, c)
  <2> DEFINE y == peer.sent + Len(c)
  <2>5. peer' = [peer EXCEPT !.pipe = x, !.sent = y] /\ x \in Seq(Chunked) /\ y \in 0..MaxKeys
    BY <1>1, <2>1, <2>3, <2>4 DEF PeerStates
  <2> HIDE DEF x, y
  <2>6. peer' \in PeerStates /\ peer'.up = peer.up
    BY <1>1, <2>5 DEF PeerStates
  <2>7. LinkOk(base, loop, peer')
    BY <1>1, <2>6 DEF LinkOk
  <2>8. UNCHANGED <<kind, muxed, base, mux, uart, loop, hist>>
    BY <1>2, Zenon DEF PeerSends
  <2> QED BY <2>6, <2>7, <2>8, PeerKeeps
<1>3. CASE PeerOpens
  <2>1. /\ loop.at = "wait" /\ UNCHANGED <<kind, muxed, base, mux, uart, loop, hist>>
        /\ peer' = [peer EXCEPT !.up = TRUE, !.knocks = (kind = "telnet")]
    BY <1>3 DEF PeerOpens
  <2>2. peer' \in PeerStates /\ peer'.up = TRUE
    BY <1>1, <2>1 DEF PeerStates
  <2>3. LinkOk(base, loop, peer')
    BY <1>1, <2>1, <2>2 DEF LinkOk
  <2> QED BY <2>1, <2>2, <2>3, PeerKeeps
<1>4. CASE PeerCloses
  <2>1. /\ loop.at = "wait" /\ kind # "udp"
        /\ UNCHANGED <<kind, muxed, base, mux, uart, loop, hist>>
        /\ peer' = [peer EXCEPT !.up = FALSE]
    BY <1>4 DEF PeerCloses
  <2>2. peer' \in PeerStates
    BY <1>1, <2>1 DEF PeerStates
  <2>3. LinkOk(base, loop, peer')
    BY <1>1, <2>1 DEF LinkOk
  <2> QED BY <2>1, <2>2, <2>3, PeerKeeps
<1> QED BY <1>2, <1>3, <1>4

-----------------------------------------------------------------------------
(* The theorems.                                                           *)

\* The invariant is inductive.
LEMMA CharNext ==
  ASSUME CharInv, [Next]_charVars
  PROVE  CharInv'
<1>1. CASE UNCHANGED charVars
  <2>1. /\ UNCHANGED <<kind, muxed, base, mux, uart, loop, hist>> /\ peer' = peer
    BY <1>1 DEF charVars
  <2>2. peer' \in PeerStates /\ LinkOk(base, loop, peer')
    BY <2>1 DEF CharInv, Sound
  <2> QED BY <2>1, <2>2, PeerKeeps
<1>2. CASE Dispatch
  BY <1>2, DispatchStep
<1>3. CASE Accept
  BY <1>3, AcceptStep
<1>4. CASE Nothing
  BY <1>4, NothingStep
<1>5. CASE Timers
  BY <1>5, TimersStep
<1>6. CASE TimersExpire
  BY <1>6, TimersExpireStep
<1>7. CASE GuestReadRbr
  BY <1>7, GuestReadRbrStep
<1>8. CASE GuestWriteFcr
  BY <1>8, GuestWriteFcrStep
<1>9. CASE GuestWriteThr
  BY <1>9, GuestWriteThrStep
<1>10. CASE PeerSends \/ PeerOpens \/ PeerCloses
  BY <1>10, PeerSteps
<1>11. CASE GuestWriteMcr
  BY <1>11, GuestWriteMcrStep
<1>12. CASE GuestLoopsBack
  BY <1>12, GuestLoopsBackStep
<1> QED BY <1>1, <1>2, <1>3, <1>4, <1>5, <1>6, <1>7, <1>8, <1>9, <1>10, <1>11, <1>12 DEF Next

\* The invariant implies what the properties say of a state.
LEMMA CharInvFits ==
  ASSUME CharInv, loopback \in BOOLEAN
  PROVE  Fits
<1> DEFINE s == State
<1>1. /\ s \in FrontStates /\ FrontInv(s) /\ s.mux = mux /\ s.uart = uart /\ s.hist = hist
      /\ base \in BaseStates /\ loop \in LoopStates /\ LinkOk(base, loop, peer)
  BY DEF CharInv, Sound, State
<1> HIDE DEF s
<1>2. /\ mux.focus \in FrontEnds /\ mux.escaped \in BOOLEAN
      /\ mux.ring \in [FrontEnds -> Seq(Bytes)]
      /\ uart.fifo \in Seq(Bytes) /\ Len(uart.fifo) <= Depth(uart)
      /\ hist.lost \in {"no", "guest", "self"} /\ hist.shrunk \in BOOLEAN
  BY <1>1, FrontTypes
<1>3. TypeOK
  <2>1. \A f \in FrontEnds : mux.ring[f] \in Seq(Bytes)
    BY <1>2
  <2>2. base.polling = (kind = "pty" /\ base.handler) /\ (base.connected => base.handler)
    BY <1>1 DEF LinkOk
  <2>3. /\ base.size \in 0..FIFOLEN /\ base.telnetopt \in 0..3
        /\ base.timer \in {"off", "short", "long"} /\ base.buf \in Seq(Bytes)
        /\ loop.at \in {"wait", "timers"} /\ loop.fd \in BOOLEAN
    BY <1>1 DEF BaseStates, LoopStates
  <2> QED BY <1>2, <2>1, <2>2, <2>3 DEF TypeOK
<1>4. AskedForFits
  <2>1. hist.lost # "self"
    BY <1>1 DEF FrontInv, Held
  <2>2. MUX_BUFFER_SIZE \in Nat
    BY CharAssumption
  <2>3. mux.ring[MONITOR] = <<>> /\ (~muxed => mux.ring[UART] = <<>>)
    BY <1>1 DEF FrontInv, RingsUsed
  <2>4. muxed /\ ~hist.shrunk => Len(mux.ring[UART]) <= MUX_BUFFER_SIZE
    BY <1>1 DEF FrontInv, Held, RingLen
  <2>5. Len(<<>>) <= MUX_BUFFER_SIZE
    BY <2>2
  <2> QED BY <2>1, <2>3, <2>4, <2>5, FrontEndsAre DEF AskedForFits
<1> QED BY <1>3, <1>4 DEF Fits

\* What is given is what the reference decoder says, or what came.
LEMMA CharInvDecoded ==
  ASSUME CharInv
  PROVE  Decoded
<1>1. State \in FrontStates /\ State.hist = hist /\ DecodedSoFar(hist, base)
      /\ base \in BaseStates /\ LinkOk(base, loop, peer)
  BY DEF CharInv, Sound, State
<1>2. hist \in Histories
  BY <1>1, FrontTypes
<1>3. Given(hist) = SubSeq(Bare(hist.passed), hist.first + 1, Len(hist.passed))
  BY DEF Given
<1>4. CASE kind = "telnet"
  <2>1. hist.raw \in Seq(Bytes)
    BY <1>2 DEF Histories
  <2>2. hist.clean => Given(hist) = Decode(hist.raw)
    BY <1>1, <1>4, <2>1, DecodeRight DEF DecodedSoFar
  <2> QED BY <1>3, <1>4, <2>2 DEF Decoded
<1>5. CASE kind # "telnet"
  <2>1. hist.first = 0 /\ hist.raw = Bare(hist.passed) \o base.buf
    BY <1>1, <1>5 DEF DecodedSoFar
  <2>2. Given(hist) = Bare(hist.passed)
    <3> DEFINE p == hist.passed
    <3> DEFINE e == Bare(p)
    <3>1. p \in Seq(Tagged) /\ <<>> \in Seq(Bytes)
      BY <1>2 DEF Histories, Tagged
    <3> HIDE DEF p
    <3>2. e \in Seq(Bytes) /\ Len(e) = Len(p)
      BY <3>1, BareGrows
    <3> HIDE DEF e
    <3>3. SubSeq(e, 1, Len(e)) = e
      BY <3>2, SubSeqFull
    <3>4. 0 + 1 = 1
      OBVIOUS
    <3> QED BY <1>3, <2>1, <3>2, <3>3, <3>4 DEF p, e
  <2> QED BY <1>3, <1>5, <2>1, <2>2 DEF Decoded
<1> QED BY <1>4, <1>5

\* The rest are parts of the invariant.
LEMMA CharInvRest ==
  ASSUME CharInv
  PROVE  Routed /\ NoStall /\ OpenedTruth
<1> DEFINE s == State
<1>1. /\ s \in FrontStates /\ FrontInv(s) /\ s.mux = mux /\ s.uart = uart /\ s.hist = hist
      /\ LinkOk(base, loop, peer)
  BY DEF CharInv, Sound, State
<1> HIDE DEF s
<1>2. Routed
  BY <1>1 DEF FrontInv, RoutedSoFar, RoutesLike, Routed, Route
<1>3. NoStall
  <2>1. mux.focus \in FrontEnds
    BY <1>1, FrontTypes
  <2>2. \A f \in FrontEnds :
           mux.ring[f] = <<>> \/ hist.stale[f] = TRUE \/ FrontEndCanRead(s, f) = 0
    BY <1>1 DEF FrontInv, Awake, Stale
  <2> QED BY <2>1, <2>2 DEF NoStall, s
<1>4. OpenedTruth
  BY <1>1 DEF LinkOk, OpenedTruth
<1> QED BY <1>2, <1>3, <1>4

\* The invariant always holds.
LEMMA CharInvAlways == Spec => []CharInv
<1>1. Init => CharInv
  BY InitSound
<1>2. CharInv /\ [Next]_charVars => CharInv'
  BY CharNext
<1> QED BY <1>1, <1>2, PTL DEF Spec

\* Loopback is on or off.
LoopbackType == loopback \in BOOLEAN
LEMMA LoopbackAlways == Spec => []LoopbackType
<1>1. Init => LoopbackType
  <2> SUFFICES ASSUME Init PROVE loopback \in BOOLEAN
    BY DEF LoopbackType
  <2>1. PICK backlog \in Backlogs : loopback \in {FALSE, backlog}
    BY DEF Init
  <2> QED BY <2>1, CharAssumption
<1>2. LoopbackType /\ [Next]_charVars => LoopbackType'
  <2> SUFFICES ASSUME loopback \in BOOLEAN, [Next]_charVars PROVE loopback' \in BOOLEAN
    BY DEF LoopbackType
  <2>1. CASE PeerSends \/ PeerOpens \/ PeerCloses
    <3>1. UNCHANGED <<kind, muxed, base, mux, uart, loopback, loop, hist>>
      BY <2>1, Zenon DEF PeerSends, PeerOpens, PeerCloses
    <3> QED BY <3>1
  <2>2. CASE GuestWriteMcr
    BY <2>2 DEF GuestWriteMcr
  <2>3. CASE GuestReadRbr \/ GuestWriteFcr \/ GuestLoopsBack \/ GuestWriteThr
    BY <2>3 DEF GuestReadRbr, GuestWriteFcr, GuestLoopsBack, GuestSetsFifo, GuestWriteThr
  <2>4. CASE Dispatch \/ Accept \/ Nothing
    BY <2>4 DEF Dispatch, Accept, Nothing
  <2>5. CASE Timers \/ TimersExpire
    BY <2>5 DEF Timers, TimersExpire
  <2>6. CASE UNCHANGED charVars
    BY <2>6 DEF charVars
  <2> QED BY <2>1, <2>2, <2>3, <2>4, <2>5, <2>6 DEF Next
<1> QED BY <1>1, <1>2, PTL DEF Spec

\* What qemu_chr_be_can_write says before the wait still fits in qemu_chr_be_write after it:
\* no byte runs over the UART's FIFO or over the ring of the multiplexer, unless the guest has
\* changed or filled its FIFO or read it in loopback; and every variable keeps its type.
THEOREM FitsAlways == Spec => []Fits
<1>1. CharInv /\ LoopbackType => Fits
  BY CharInvFits DEF LoopbackType
<1> QED BY <1>1, CharInvAlways, LoopbackAlways, PTL

\* tcp_chr_process_IAC_bytes, read after read, gives what the whole telnet stream says; and the
\* other back ends, udp_chr_read and udp_chr_poll among them, give what came, in order and once.
THEOREM DecodedAlways == Spec => []Decoded
<1>1. CharInv => Decoded
  BY CharInvDecoded
<1> QED BY <1>1, CharInvAlways, PTL

\* Each front end gets from mux_chr_read and mux_chr_accept_input the bytes that are for it, in
\* order, or has them waiting in its ring.
THEOREM RoutedAlways == Spec => []Routed
<1>1. CharInv => Routed
  BY CharInvRest
<1> QED BY <1>1, CharInvAlways, PTL

\* After mux_chr_accept_input no byte waits that the front end in focus would take, until the
\* focus leaves, the guest upsets its FIFO, reads it in loopback, or a break comes.
THEOREM NoStallAlways == Spec => []NoStall
<1>1. CharInv => NoStall
  BY CharInvRest
<1> QED BY <1>1, CharInvAlways, PTL

\* The telnet server's front end has heard OPENED exactly if somebody is connected.
THEOREM OpenedTruthAlways == Spec => []OpenedTruth
<1>1. CharInv => OpenedTruth
  BY CharInvRest
<1> QED BY <1>1, CharInvAlways, PTL

\* pty_chr_timer takes nobody for somebody where the descriptor was waited for.
THEOREM ConnectedIsRealAlways == Spec => ConnectedIsReal
<1>1. CharInv /\ [Next]_charVars
        => [TimersExpire /\ base'.connected /\ ~base.connected /\ loop.fd => peer.up]_charVars
  BY TimersExpireStep
<1> QED BY <1>1, CharInvAlways, PTL DEF Spec, ConnectedIsReal
=============================================================================
