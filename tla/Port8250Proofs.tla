-------------------------- MODULE Port8250Proofs --------------------------
(***************************************************************************)
(* Proofs about Port8250, for every FIFO, ring and number of events.       *)
(*                                                                         *)
(* PortInv is the invariant: the types with an idle transmitter (Types),   *)
(* who holds the lock and where the threads then stand (Locks), the mask   *)
(* and its shadow (Shadow), the characters on the line and in the ring     *)
(* (Out), the transmit interrupt that is due (Sending), the receive FIFO   *)
(* (Receiving), the break (BreakKept), CTS (CtsKept) and the test of the   *)
(* transmit interrupt (Blame).                                             *)
(*                                                                         *)
(* The proof goes from the registers up: what a register access does to a  *)
(* device that is not sending (Calm), what a register sequence of the      *)
(* driver does to the record of an operation (Carries), and then a lemma   *)
(* for each action.                                                        *)
(***************************************************************************)
EXTENDS Port8250, Uart16550Proofs

(* The types.  Events number the characters of uart_write.                 *)
Starting == {"cleared", "linked", "txen", "tested", "drained"}
Phases == {"unknown", "closed", "startup", "speed", "ready", "closing", "closing2", "unlink"}
          \cup Starting
Holding == {"rx", "rxlsr", "msr", "cts", "tx", "xclear"}
Events == 1 .. MaxEvents

Ups ==
  [type : {"unknown", "16550A"}, ier : SUBSET All, saved : SUBSET LsrSave, bugs : SUBSET {"THRE", "TXEN"}]
Ttys ==
  [stopped : BOOLEAN, hwStopped : BOOLEAN, throttled : BOOLEAN, xchar : {NUL, STOP, START}]
Pcs == {"idle", "iir", "lsr", "push"} \cup Holding
Handlers == [pc : Pcs, status : SUBSET LsrBits, cts : BOOLEAN]
Hists ==
  {x \in [events : 0 .. MaxEvents, written : Nat, queued : Seq(Chars), got : Seq(Chars),
          accepted : Seq(Chars), owed : BOOLEAN, ghosts : Nat, flips : Nat, taken : BOOLEAN] :
     x.written <= x.events}

(* An operation sees a device whose identification register is right, that *)
(* is not in loopback, and that has nothing to send: the back end accepts  *)
(* every character at once.                                                *)
Pack(p) ==
  /\ p = [d |-> p.d, up |-> p.up, xmit |-> p.xmit, tty |-> p.tty]
  /\ p.d \in Dev /\ Quiet(p.d) /\ Right(p.d) /\ "LOOP" \notin p.d.mcr
  /\ p.up \in Ups
  /\ "THRE" \in p.up.bugs => mode = "backup"
  /\ p.xmit \in Seq(Events) /\ Len(p.xmit) <= XMIT_SIZE
  /\ p.tty \in Ttys

Types ==
  /\ Pack(Here) /\ lines \in SUBSET Lines /\ mode \in {"irq", "backup", "polled"}
  /\ phase \in Phases /\ lock \in {"none", "irq", "con", "open"}
  /\ h \in Handlers
  /\ con \in [pc : {"idle", "put", "end"}, ier : SUBSET All]
  /\ wr \in {"idle", "start"} /\ th \in {"idle", "start", "clear"}
  /\ hist \in Hists

(* The handler holds the lock from its status read to the push or the end, *)
(* the console for its whole write, and an open for its test.  A port that *)
(* is not linked has no handler.                                           *)
Locks ==
  /\ (lock = "irq") = (h.pc \in Holding)
  /\ (lock = "con") = (con.pc # "idle")
  /\ (lock = "open") = (phase = "txen")
  /\ phase \in {"unknown", "closed", "cleared"} => h.pc = "idle"
  /\ phase = "unknown" => con.pc = "idle"
  /\ phase # "ready" => wr = "idle" /\ th = "idle"
  /\ phase # "unknown" => up.type = "16550A"

(* From set_termios to shutdown the mask in the device is the shadow, but  *)
(* while the console has it cleared, and but for the transmit bit that the *)
(* backup timer restores.  The end of startup writes it beside the lock.   *)
Live == phase \in {"speed", "ready"}
Shadowed(a, b) == a = b \/ (mode = "backup" /\ a = b \cup {"THRI"})
Shadow ==
  Live => IF lock = "con" THEN d.ier = {} /\ Shadowed(con.ier, up.ier) ELSE Shadowed(d.ier, up.ier)

(* The characters on the line, then those in the ring, are those queued.   *)
Session == phase \in Starting \cup {"startup", "speed", "ready"}
Out ==
  /\ Session => UserChars(d.out) \o xmit = hist.queued
  /\ phase \in {"unknown", "closed", "startup", "speed"} \cup Starting => xmit = <<>>

(* With something to send the transmit interrupt is on, unless uart_write  *)
(* is about to ask for it, and it is pending, unless the handler has read  *)
(* the identification and will see the transmitter idle in the status.     *)
(* What serial8250_startup reads may take it, before it sets the mask.     *)
Going(p) == p.xmit # <<>> /\ ~Stopped(p) => "THRI" \in p.up.ier
Pending(p) == "THRI" \in p.up.ier => p.d.thrPending
Sending ==
  /\ phase = "ready" /\ wr = "idle" => Going(Here)
  /\ phase \notin Starting /\ h.pc \in {"idle", "iir", "xclear"} => Pending(Here)
  /\ h.pc \in Holding \cup {"push"} => "THRE" \in h.status

(* The FIFO is on from set_termios to shutdown; a data-ready bit over an   *)
(* empty FIFO (Ghost) is left from the change of mode and is read once.    *)
Enabled == {"speed", "ready", "closing", "closing2"}
Ghost == (h.pc = "rx" /\ "DR" \in h.status) \/ "DR" \in d.lsr
Receiving ==
  /\ phase \in Enabled => d.fcr.fe
  /\ phase \in {"closed", "startup", "unlink"} \cup Starting => ~d.fcr.fe
  /\ Open => hist.got \o d.recv = hist.accepted
  /\ hist.ghosts <= hist.flips
  /\ phase \in Enabled /\ d.recv = <<>> /\ Ghost => hist.ghosts < hist.flips

(* A break that came after the status was read (Late) is not cleared by    *)
(* the read of the character before it: there is another one behind that.  *)
Late == h.pc = "rx" /\ "DR" \in h.status /\ "BI" \in d.lsr /\ "BI" \notin h.status \cup up.saved
BreakKept ==
  /\ Open /\ hist.flips = 0 /\ Late => Len(d.recv) > 1
  /\ BreakNotLost

(* CTS stops the transmitter from the moment the port looks at it.  Before *)
(* that it may be down unseen, but nobody is stopped for a CTS that is up. *)
CtsKept ==
  /\ ~Open => "MSI" \notin up.ier
  /\ phase \in Starting \cup {"startup"} => ~tty.hwStopped /\ h.pc # "cts"
  /\ CtsFlow /\ Open => "MSI" \in up.ier
  /\ CtsFlow /\ Open /\ "DCTS" \notin d.msr =>
      IF h.pc = "cts" THEN h.cts = ("CTS" \in d.msr)
      ELSE /\ tty.hwStopped => "CTS" \notin d.msr
           /\ phase = "ready" => tty.hwStopped = ("CTS" \notin d.msr)

(* While the test runs, the interrupt it asked for is pending, unless the  *)
(* handler took it; only then does the test find it missing.               *)
Blame ==
  /\ phase = "txen" => hist.taken \/ (d.ier = {"THRI"} /\ d.thrPending)
  /\ "TXEN" \in up.bugs /\ phase # "txen" => hist.taken

(* The invariant.                                                          *)
PortInv ==
  Types /\ Locks /\ Shadow /\ Out /\ Sending /\ Receiving /\ BreakKept /\ CtsKept /\ Blame

-----------------------------------------------------------------------------
(* A set of naturals that holds 0, and n + 1 with n, holds all up to N.    *)
LEMMA Climb ==
  ASSUME NEW N \in Nat, NEW S, 0 \in S, \A n \in 0 .. N - 1 : n \in S => n + 1 \in S
  PROVE  0 .. N \subseteq S
<1> DEFINE T == (0 .. N) \ S
<1> SUFFICES ASSUME T # {} PROVE FALSE
  OBVIOUS
<1>1. IsWellFoundedOn(OpToRel(<, Nat), Nat)
  BY NatLessThanWellFounded, Zenon
<1>2. T \subseteq Nat /\ \A n \in T : n \in 0 .. N /\ n \notin S
  OBVIOUS
<1>3. PICK n \in T : \A m \in T : ~(<<m, n>> \in OpToRel(<, Nat))
  <2> HIDE DEF T
  <2> QED BY <1>1, <1>2, WFMin, Zenon
<1>4. n \in Nat /\ n # 0 /\ n - 1 \in 0 .. N - 1 /\ n - 1 \in 0 .. N /\ n - 1 < n
  BY <1>2
<1>5. n - 1 \in S
  <2>1. n - 1 \in T => <<n - 1, n>> \in OpToRel(<, Nat)
    BY <1>4 DEF OpToRel
  <2>2. n - 1 \notin T
    BY <1>3, <2>1
  <2> QED BY <1>4, <2>2
<1> QED BY <1>2, <1>4, <1>5

(* f is computed from v by F, step by step up to N.                        *)
Chain(f, v, F, N) == f[0] = v /\ \A i \in 1 .. N : f[i] = F[<<f[i - 1], i>>]

(* A function on 0 .. N can be computed step by step.                      *)
LEMMA Computed ==
  ASSUME NEW N \in Nat, NEW V, NEW v \in V, NEW F \in [V \X (1 .. N) -> V]
  PROVE  \E f \in [0 .. N -> V] : Chain(f, v, F, N)
<1> DEFINE Upto(n) == {f \in [0 .. n -> V] : /\ f[0] = v
                                            /\ \A i \in 1 .. n : f[i] = F[<<f[i - 1], i>>]}
           S == {n \in 0 .. N : Upto(n) # {}}
<1>1. 0 \in S
  <2>1. [i \in 0 .. 0 |-> v] \in Upto(0)
    OBVIOUS
  <2> QED BY <2>1
<1>2. ASSUME NEW n \in 0 .. N - 1, n \in S PROVE n + 1 \in S
  <2>1. PICK f \in Upto(n) : TRUE
    BY <1>2
  <2> DEFINE g == [i \in 0 .. n + 1 |-> IF i = n + 1 THEN F[<<f[n], n + 1>>] ELSE f[i]]
  <2>2. f \in [0 .. n -> V] /\ n + 1 \in 1 .. N /\ n \in 0 .. n
    BY <2>1
  <2>3. F[<<f[n], n + 1>>] \in V
    BY <2>2
  <2>4. g \in [0 .. n + 1 -> V]
    BY <2>2, <2>3
  <2>5. g[0] = v
    BY <2>1
  <2>6. \A i \in 1 .. n + 1 : g[i] = F[<<g[i - 1], i>>]
    <3> TAKE i \in 1 .. n + 1
    <3>1. CASE i = n + 1
      BY <3>1, <2>2, SMTT(30)
    <3>2. CASE i \in 1 .. n
      BY <3>2, <2>1
    <3> QED BY <3>1, <3>2
  <2>7. g \in Upto(n + 1)
    BY <2>4, <2>5, <2>6
  <2>8. n + 1 \in 0 .. N /\ Upto(n + 1) # {}
    BY <2>2, <2>7, n + 1 \in 0 .. N
  <2> QED BY <2>8
<1>3. N \in S
  <2> HIDE DEF S
  <2>1. 0 .. N \subseteq S
    BY <1>1, <1>2, Climb
  <2> QED BY <2>1
<1>4. PICK f \in Upto(N) : TRUE
  BY <1>3
<1> QED BY <1>4 DEF Chain

(* The recursion of UserChars.                                             *)
LEMMA UserFcn ==
  ASSUME NEW S, NEW q \in Seq(S)
  PROVE  \E f \in [0 .. Len(q) -> Seq(S)] :
    /\ f[0] = <<>>
    /\ \A i \in 1 .. Len(q) : f[i] = IF IsUser(q[i]) THEN Append(f[i - 1], q[i]) ELSE f[i - 1]
    /\ UserChars(q) = f[Len(q)]
<1> DEFINE N == Len(q)
           Next1(x, i) == IF IsUser(q[i]) THEN Append(x, q[i]) ELSE x
           Def(f) == [i \in 0 .. N |-> IF i = 0 THEN <<>> ELSE Next1(f[i - 1], i)]
           F == [x \in Seq(S) \X (1 .. N) |-> Next1(x[1], x[2])]
           c == CHOOSE f : f = Def(f)
<1>0. UserChars(q) = c[N]
  BY DEF UserChars
<1>1. N \in Nat /\ N = Len(q) /\ <<>> \in Seq(S) /\ \A i \in 1 .. N : q[i] \in S
  OBVIOUS
<1> HIDE DEF N
<1>2. \A x \in Seq(S), i \in 1 .. N : Next1(x, i) \in Seq(S)
  BY <1>1
<1> HIDE DEF Next1
<1>3. F \in [Seq(S) \X (1 .. N) -> Seq(S)] /\ \A x \in Seq(S), i \in 1 .. N : F[<<x, i>>] = Next1(x, i)
  BY <1>2
<1> HIDE DEF F
<1>4. PICK g \in [0 .. N -> Seq(S)] : g[0] = <<>> /\ \A i \in 1 .. N : g[i] = F[<<g[i - 1], i>>]
  <2> DEFINE V == Seq(S)
             v == <<>>
  <2>1. N \in Nat /\ v \in V /\ F \in [V \X (1 .. N) -> V]
    BY <1>1, <1>3
  <2> HIDE DEF V, v
  <2>2. \E g \in [0 .. N -> V] : Chain(g, v, F, N)
    BY <2>1, Computed
  <2> QED BY <2>2 DEF V, v, Chain
<1>5. \A i \in 1 .. N : i - 1 \in 0 .. N /\ g[i - 1] \in Seq(S)
  <2>1. \A i \in 1 .. N : i - 1 \in 0 .. N
    BY <1>1
  <2> QED BY <1>4, <2>1
<1>6. \A i \in 0 .. N : i # 0 => i \in 1 .. N
  BY <1>1
<1>7. g = Def(g)
  BY <1>3, <1>4, <1>5, <1>6
<1>8. c = Def(c)
  BY <1>7
<1> HIDE DEF c
<1>9. c[0] = <<>> /\ \A i \in 1 .. N : c[i] = Next1(c[i - 1], i)
  BY <1>1, <1>8
<1> DEFINE T == {n \in 0 .. N : c[n] \in Seq(S)}
<1>10. 0 \in T
  <2>1. 0 \in 0 .. N
    BY <1>1
  <2> QED BY <1>1, <1>9, <2>1
<1>11. ASSUME NEW n \in 0 .. N - 1, n \in T PROVE n + 1 \in T
  <2>1. n + 1 \in 1 .. N /\ n + 1 \in 0 .. N /\ c[n] \in Seq(S) /\ n + 1 - 1 = n
    BY <1>1, <1>11
  <2>2. c[n + 1] = Next1(c[n], n + 1)
    BY <1>9, <2>1
  <2> QED BY <1>2, <2>1, <2>2
<1>12. 0 .. N \subseteq T
  <2> HIDE DEF T
  <2> QED BY <1>1, <1>10, <1>11, Climb
<1>13. c \in [0 .. N -> Seq(S)]
  BY <1>8, <1>12
<1> QED BY <1>0, <1>1, <1>9, <1>13 DEF Next1

(* What a character adds to the characters of uart_write.                  *)
LEMMA UserAppend ==
  ASSUME NEW S, NEW q \in Seq(S), NEW c \in S
  PROVE  /\ UserChars(q) \in Seq(S)
         /\ UserChars(Append(q, c)) = IF IsUser(c) THEN Append(UserChars(q), c) ELSE UserChars(q)
<1> DEFINE r == Append(q, c)
           N == Len(q)
           Step(x, y) == IF IsUser(y) THEN Append(x, y) ELSE x
<1>1. r \in Seq(S) /\ Len(r) = N + 1 /\ N \in Nat /\ r[N + 1] = c /\ \A i \in 1 .. N : r[i] = q[i]
  BY AppendProperties, LenProperties
<1>2. PICK f \in [0 .. N -> Seq(S)] :
        /\ f[0] = <<>> /\ UserChars(q) = f[N]
        /\ \A i \in 1 .. N : f[i] = Step(f[i - 1], q[i])
  BY UserFcn
<1> HIDE DEF r
<1>3. PICK g \in [0 .. N + 1 -> Seq(S)] :
        /\ g[0] = <<>> /\ UserChars(r) = g[N + 1]
        /\ \A i \in 1 .. N + 1 : g[i] = Step(g[i - 1], r[i])
  <2>1. \E g \in [0 .. Len(r) -> Seq(S)] :
          /\ g[0] = <<>>
          /\ \A i \in 1 .. Len(r) : g[i] = IF IsUser(r[i]) THEN Append(g[i - 1], r[i]) ELSE g[i - 1]
          /\ UserChars(r) = g[Len(r)]
    BY <1>1, UserFcn
  <2> QED BY <1>1, <2>1
<1> HIDE DEF Step, N
<1> DEFINE T == {n \in 0 .. N : f[n] = g[n]}
<1>4. 0 \in T
  BY <1>1, <1>2, <1>3
<1>5. ASSUME NEW n \in 0 .. N - 1, n \in T PROVE n + 1 \in T
  <2>1. n + 1 \in 1 .. N /\ n + 1 \in 1 .. N + 1 /\ n + 1 \in 0 .. N /\ n + 1 - 1 = n
    BY <1>1
  <2>2. f[n + 1] = Step(f[n], q[n + 1]) /\ g[n + 1] = Step(g[n], r[n + 1])
    BY <1>2, <1>3, <2>1
  <2> QED BY <1>1, <1>5, <2>1, <2>2
<1>6. 0 .. N \subseteq T
  <2> HIDE DEF T
  <2> QED BY <1>1, <1>4, <1>5, Climb
<1>7. f[N] = g[N]
  BY <1>1, <1>6
<1>8. g[N + 1] = Step(g[N], c)
  <2>1. N + 1 \in 1 .. N + 1 /\ N + 1 - 1 = N
    BY <1>1
  <2> QED BY <1>1, <1>3, <2>1
<1>9. f[N] \in Seq(S)
  BY <1>1, <1>2
<1> QED BY <1>2, <1>3, <1>7, <1>8, <1>9 DEF Step, r, N

(* A device whose transmitter is idle.                                     *)
Calm(s) == s \in Dev /\ Quiet(s)

(* One character that the back end accepts is written.                     *)
Write1(s, c) == WriteThr(s, c, TRUE)

(* serial_ioport_write of THR, in and out of loopback.                     *)
LEMMA Write1Facts ==
  ASSUME NEW s, Calm(s), NEW c \in Chars, NEW t, t = Write1(s, c)
  PROVE  /\ Calm(t) /\ Right(t) /\ t.thrPending
         /\ Same(s, t, {"rbr", "lsr", "recv", "fifoTimer", "iir", "irq", "retry", "out",
                        "thr", "tsr", "xmit", "thrPending"})
         /\ "LOOP" \in s.mcr => Received(s, t, c) /\ t.out = s.out
         /\ "LOOP" \notin s.mcr => NotReceived(s, t) /\ t.out = Append(s.out, c)
<1> DEFINE ok == TRUE
<1>1. ok \in BOOLEAN /\ t = WriteThr(s, c, ok)
  BY DEF Write1
<1>2. s \in Dev /\ Quiet(s)
  BY DEF Calm
<1>3. ok
  OBVIOUS
<1> HIDE DEF ok
<1>4. /\ t \in Dev /\ Right(t) /\ Quiet(t) /\ t.thrPending
      /\ Same(s, t, {"rbr", "lsr", "recv", "fifoTimer", "iir", "irq", "retry", "out",
                     "thr", "tsr", "xmit", "thrPending"})
      /\ "LOOP" \in s.mcr => Received(s, t, c) /\ t.out = s.out
      /\ "LOOP" \notin s.mcr =>
           NotReceived(s, t) /\ t.out = IF ok THEN Append(s.out, c) ELSE s.out
  BY <1>1, <1>2, WriteThrFacts
<1> QED BY <1>3, <1>4 DEF Calm

(* f counts the steps of WriteAll.                                         *)
Written(f, s, q, n) ==
  /\ f[0] = s /\ WriteAll(s, q, n) = f[n]
  /\ \A i \in 0 .. n : Calm(f[i])
  /\ \A i \in 1 .. n : f[i] = Write1(f[i - 1], q[i])

(* The recursion of WriteAll.                                              *)
LEMMA WriteFcn ==
  ASSUME NEW s, Calm(s), NEW q \in Seq(Chars), NEW n \in 0 .. Len(q)
  PROVE  \E f : Written(f, s, q, n)
<1> DEFINE V == {x \in Dev : Quiet(x)}
           Step(x, i) == Write1(x, q[i])
           Def(f) == [i \in 0 .. n |-> IF i = 0 THEN s ELSE Step(f[i - 1], i)]
           F == [x \in V \X (1 .. n) |-> Step(x[1], x[2])]
           c == CHOOSE f : f = Def(f)
<1>0. WriteAll(s, q, n) = c[n]
  BY DEF WriteAll, Write1
<1>1. n \in Nat /\ s \in V /\ \A i \in 1 .. n : q[i] \in Chars
  BY LenProperties DEF Calm
<1>2. \A x \in V, i \in 1 .. n : Step(x, i) \in V
  <2> TAKE x \in V, i \in 1 .. n
  <2>1. Calm(x) /\ q[i] \in Chars
    BY <1>1 DEF Calm
  <2>2. Calm(Step(x, i))
    BY <2>1, Write1Facts
  <2> QED BY <2>2 DEF Calm
<1>a. \A x \in V : Calm(x)
  BY DEF Calm
<1> HIDE DEF Step, V
<1>3. F \in [V \X (1 .. n) -> V] /\ \A x \in V, i \in 1 .. n : F[<<x, i>>] = Step(x, i)
  BY <1>2
<1> HIDE DEF F
<1>4. PICK g \in [0 .. n -> V] : g[0] = s /\ \A i \in 1 .. n : g[i] = F[<<g[i - 1], i>>]
  <2>1. \E g \in [0 .. n -> V] : Chain(g, s, F, n)
    BY <1>1, <1>3, Computed
  <2> QED BY <2>1 DEF Chain
<1>5. \A i \in 1 .. n : i - 1 \in 0 .. n /\ g[i - 1] \in V
  <2>1. \A i \in 1 .. n : i - 1 \in 0 .. n
    BY <1>1
  <2> QED BY <1>4, <2>1
<1>6. \A i \in 0 .. n : i # 0 => i \in 1 .. n
  BY <1>1
<1>7. g = Def(g)
  BY <1>3, <1>4, <1>5, <1>6
<1>8. c = Def(c)
  BY <1>7
<1> HIDE DEF c
<1>9. c[0] = s /\ \A i \in 1 .. n : c[i] = Step(c[i - 1], i)
  BY <1>1, <1>8
<1> DEFINE T == {k \in 0 .. n : c[k] \in V}
<1>10. 0 \in T
  BY <1>1, <1>9
<1>11. ASSUME NEW k \in 0 .. n - 1, k \in T PROVE k + 1 \in T
  <2>1. k + 1 \in 1 .. n /\ k + 1 \in 0 .. n /\ c[k] \in V /\ k + 1 - 1 = k
    BY <1>1, <1>11
  <2>2. c[k + 1] = Step(c[k], k + 1)
    BY <1>9, <2>1
  <2> QED BY <1>2, <2>1, <2>2
<1>12. 0 .. n \subseteq T
  <2> HIDE DEF T
  <2> QED BY <1>1, <1>10, <1>11, Climb
<1>13. \A k \in 0 .. n : Calm(c[k])
  BY <1>12, <1>a
<1> QED BY <1>0, <1>9, <1>13 DEF Step, Written

(* Characters written on a line that is not looped back go to the back end *)
(* in order.                                                               *)
LEMMA WriteAllFacts ==
  ASSUME NEW s, Calm(s), "LOOP" \notin s.mcr, NEW q \in Seq(Events), Events \subseteq Chars,
         \A i \in Events : IsUser(i), NEW n \in 1 .. Len(q), NEW t, t = WriteAll(s, q, n)
  PROVE  /\ Calm(t) /\ Right(t) /\ t.thrPending /\ NotReceived(s, t)
         /\ Same(s, t, {"lsr", "iir", "irq", "retry", "out", "thr", "tsr", "xmit", "thrPending"})
         /\ UserChars(t.out) \o SubSeq(q, n + 1, Len(q)) = UserChars(s.out) \o q
<1> DEFINE F == {"lsr", "iir", "irq", "retry", "out", "thr", "tsr", "xmit", "thrPending"}
           L == Len(q)
           Ok(k, x) ==
             /\ k > 0 => Right(x) /\ x.thrPending
             /\ NotReceived(s, x) /\ Same(s, x, F)
             /\ UserChars(x.out) \o SubSeq(q, k + 1, L) = UserChars(s.out) \o q
<1>1. q \in Seq(Chars) /\ n \in 0 .. L /\ n \in Nat /\ n > 0 /\ L \in Nat
  <2>1. \A i \in 1 .. Len(q) : q[i] \in Chars
    BY LenProperties, ElementOfSeq
  <2> QED BY <2>1, LenProperties
<1>a. PICK f : Written(f, s, q, n)
  BY <1>1, WriteFcn
<1>2. /\ f[0] = s /\ t = f[n]
      /\ \A i \in 0 .. n : Calm(f[i])
      /\ \A i \in 1 .. n : f[i] = Write1(f[i - 1], q[i])
  BY <1>a DEF Written
<1> DEFINE T == {k \in 0 .. n : Ok(k, f[k])}
<1>3. 0 \in T
  <2>1. SubSeq(q, 0 + 1, L) = q
    BY SubSeqFull
  <2>2. Ok(0, s)
    <3>1. NotReceived(s, s) /\ Same(s, s, F)
      BY DEF NotReceived, Same
    <3>2. UserChars(s.out) \o SubSeq(q, 0 + 1, L) = UserChars(s.out) \o q
      BY <2>1, Zenon
    <3>3. ~(0 > 0)
      OBVIOUS
    <3> QED BY <3>1, <3>2, <3>3, Zenon
  <2>3. Ok(0, f[0])
    BY <1>2, <2>2
  <2> HIDE DEF Ok
  <2> QED BY <1>1, <2>3
<1>4. ASSUME NEW k \in 0 .. n - 1, k \in T PROVE k + 1 \in T
  <2> DEFINE x == f[k]
             y == f[k + 1]
             c == q[k + 1]
  <2>1. /\ k + 1 \in 1 .. n /\ k + 1 \in 0 .. n /\ k + 1 - 1 = k /\ k \in 0 .. n
        /\ k + 1 \in 1 .. L /\ k + 1 > 0
    BY <1>1
  <2>2. y = Write1(x, c) /\ Calm(x) /\ Ok(k, x) /\ Calm(y)
    <3>1. Ok(k, x)
      BY <1>4
    <3> HIDE DEF Ok, T
    <3>2. f[k + 1] = Write1(f[k + 1 - 1], q[k + 1])
      BY <1>2, <2>1
    <3> QED BY <1>2, <2>1, <3>1, <3>2
  <2>3. c \in Chars /\ IsUser(c) /\ c \in Events
    BY <2>1, ElementOfSeq
  <2> HIDE DEF x, y, c, F
  <2>4. "LOOP" \notin x.mcr
    BY <2>2 DEF Same, Fields, F
  <2>5. /\ y \in Dev /\ Right(y) /\ Quiet(y) /\ y.thrPending
        /\ Same(x, y, {"rbr", "lsr", "recv", "fifoTimer", "iir", "irq", "retry", "out",
                       "thr", "tsr", "xmit", "thrPending"})
        /\ NotReceived(x, y) /\ y.out = Append(x.out, c)
    BY <2>2, <2>3, <2>4, Write1Facts DEF Calm
  <2>6. NotReceived(s, y)
    BY <2>2, <2>5 DEF NotReceived
  <2>7. Same(s, y, F)
    <3>1. \A e \in Fields \ F : y[e] = x[e]
      BY <2>5 DEF F, Same, NotReceived, Fields
    <3> QED BY <2>2, <3>1 DEF Same
  <2>8. UserChars(y.out) \o SubSeq(q, k + 2, L) = UserChars(s.out) \o q
    <3> DEFINE u == UserChars(x.out)
               r == SubSeq(q, k + 2, L)
    <3>1. x.out \in Seq(Chars)
      BY <2>2 DEF Calm, Dev
    <3>2. u \in Seq(Chars) /\ UserChars(y.out) = Append(u, c)
      BY <2>3, <2>5, <3>1, UserAppend
    <3>3. SubSeq(q, k + 1, L) = <<c>> \o r
      <4>1. L \in k + 1 .. L /\ L \in Nat
        BY <1>1, <2>1
      <4>2. SubSeq(q, k + 1, L) = <<q[k + 1]>> \o SubSeq(q, k + 1 + 1, L)
        BY <2>1, <4>1, SubSeqRecursiveFirst
      <4>3. k + 1 + 1 = k + 2
        BY <2>1
      <4> QED BY <4>2, <4>3 DEF c
    <3>4. r \in Seq(Chars)
      BY <1>1, <2>1
    <3> HIDE DEF u, r
    <3>5. Append(u, c) \o r = u \o (<<c>> \o r)
      BY <2>3, <3>2, <3>4
    <3> QED BY <2>2, <3>2, <3>3, <3>5 DEF u, r
  <2>9. k + 1 + 1 = k + 2
    BY <2>1
  <2>10. Ok(k + 1, y)
    BY <2>5, <2>6, <2>7, <2>8, <2>9
  <2> QED BY <2>1, <2>10 DEF y
<1>5. Ok(n, f[n])
  <2> HIDE DEF T, Ok
  <2>1. 0 .. n \subseteq T
    BY <1>1, <1>3, <1>4, Climb
  <2> QED BY <1>1, <2>1 DEF T
<1>6. Calm(t)
  BY <1>1, <1>2
<1> QED BY <1>1, <1>2, <1>5, <1>6

(* There is a highest trigger level.                                       *)
LEMMA MaxLevelType == MaxLevel \in Levels
<1> DEFINE T == {n \in Nat : \A m \in Levels : m <= n}
<1>1. Levels \subseteq 1 .. FIFOLEN /\ FIFOLEN \in Nat /\ Levels \subseteq Nat /\ Levels # {}
  BY FifoAssumption
<1>2. IsWellFoundedOn(OpToRel(<, Nat), Nat)
  BY NatLessThanWellFounded, Zenon
<1>3. FIFOLEN \in T /\ T \subseteq Nat
  BY <1>1
<1>4. PICK n \in T : \A m \in T : ~(<<m, n>> \in OpToRel(<, Nat))
  <2> HIDE DEF T
  <2> QED BY <1>2, <1>3, WFMin, Zenon
<1>5. n \in Nat /\ \A m \in Levels : m <= n /\ m \in Nat /\ m >= 1
  BY <1>1
<1>6. n \in Levels
  <2> SUFFICES ASSUME n \notin Levels PROVE FALSE
    OBVIOUS
  <2>1. PICK m \in Levels : TRUE
    BY <1>1
  <2>2. n - 1 \in Nat /\ n - 1 < n
    BY <1>5, <2>1
  <2>3. n - 1 \in T
    BY <1>5, <2>2
  <2> QED BY <1>4, <2>2, <2>3 DEF OpToRel
<1>7. \A m \in Levels : n >= m
  BY <1>5
<1> QED BY <1>6, <1>7 DEF MaxLevel

(* f counts the steps of ReadAll.                                          *)
Emptied(f, s) ==
  /\ f[0] = [dev |-> s, n |-> 0] /\ ReadAll(s) = f[FIFOLEN + 1]
  /\ \A i \in 1 .. FIFOLEN + 1 : f[i] = ReadOne(f[i - 1])

(* One read of the data, when there is any.                                *)
LEMMA ReadOneFacts ==
  ASSUME NEW p, Calm(p.dev), NEW t, t = ReadOne(p), p = [dev |-> p.dev, n |-> p.n]
  PROVE  /\ t = [dev |-> t.dev, n |-> t.n] /\ Calm(t.dev) /\ t.dev.fcr = p.dev.fcr
         /\ t.n = IF "DR" \in p.dev.lsr THEN p.n + 1 ELSE p.n
         /\ "DR" \in p.dev.lsr /\ p.dev.fcr.fe =>
              /\ t.dev.recv = Rest(p.dev.recv)
              /\ ("DR" \in t.dev.lsr) = (t.dev.recv # <<>>)
         /\ "DR" \notin p.dev.lsr => t.dev.recv = p.dev.recv /\ "DR" \notin t.dev.lsr
<1> DEFINE s == p.dev
           a == ReadLsr(s).dev
           b == ReadRbr(a).dev
<1>1. t = IF "DR" \in s.lsr THEN [dev |-> b, n |-> p.n + 1] ELSE [dev |-> a, n |-> p.n]
  <2>1. ReadLsr(s).val = s.lsr
    BY DEF ReadLsr
  <2>2. [p EXCEPT !.dev = a] = [dev |-> a, n |-> p.n]
    OBVIOUS
  <2> HIDE DEF a, s
  <2> QED BY <2>1, <2>2 DEF ReadOne, a, s
<1>2. s \in Dev /\ Quiet(s)
  BY DEF Calm
<1> HIDE DEF a, s
<1>3. a \in Dev /\ Same(s, a, {"lsr", "iir", "irq"}) /\ a.lsr = s.lsr \ {"BI", "OE"}
  BY <1>2, ReadLsrFacts DEF a
<1>4. Quiet(a) /\ a.fcr = s.fcr /\ a.recv = s.recv
  BY <1>2, <1>3 DEF Quiet, Same, Fields
<1> HIDE DEF b
<1>5. /\ b \in Dev /\ Same(a, b, {"recv", "toPending", "lsr", "fifoTimer", "iir", "irq"})
      /\ a.lsr \ {"DR", "BI"} \subseteq b.lsr
      /\ a.fcr.fe => /\ b.recv = Rest(a.recv)
                     /\ b.lsr = IF b.recv = <<>> THEN a.lsr \ {"DR", "BI"} ELSE a.lsr
  BY <1>3, ReadRbrFacts, ZenonT(40) DEF b
<1>6. Quiet(b) /\ b.fcr = s.fcr
  BY <1>4, <1>5 DEF Quiet, Same, Fields
<1>7. CASE "DR" \in s.lsr
  <2>1. t.dev = b /\ t.n = p.n + 1 /\ t = [dev |-> b, n |-> p.n + 1]
    BY <1>1, <1>7
  <2>2. s.fcr.fe => ("DR" \in b.lsr) = (b.recv # <<>>)
    BY <1>3, <1>4, <1>5, <1>7
  <2> QED BY <1>4, <1>5, <1>6, <1>7, <2>1, <2>2 DEF Calm, s
<1>8. CASE "DR" \notin s.lsr
  <2>1. t.dev = a /\ t.n = p.n /\ t = [dev |-> a, n |-> p.n]
    BY <1>1, <1>8
  <2> QED BY <1>3, <1>4, <1>8, <2>1 DEF Calm, s
<1> QED BY <1>7, <1>8

(* The recursion of ReadAll.                                               *)
LEMMA ReadFcn ==
  ASSUME NEW s, Calm(s)
  PROVE  \E f : Emptied(f, s)
<1> DEFINE D == {x \in Dev : Quiet(x)}
           V == [dev : D, n : Nat]
           N == FIFOLEN + 1
           v == [dev |-> s, n |-> 0]
           Def(f) == [i \in 0 .. N |-> IF i = 0 THEN v ELSE ReadOne(f[i - 1])]
           F == [x \in V \X (1 .. N) |-> ReadOne(x[1])]
           c == CHOOSE f : f = Def(f)
<1>0. ReadAll(s) = c[N]
  BY DEF ReadAll
<1>1. N \in Nat /\ v \in V
  BY FifoAssumption DEF Calm
<1>2. \A x \in V : ReadOne(x) \in V
  <2> TAKE x \in V
  <2>1. Calm(x.dev) /\ x = [dev |-> x.dev, n |-> x.n] /\ x.n \in Nat
    BY DEF Calm
  <2> DEFINE t == ReadOne(x)
  <2> HIDE DEF t
  <2>2. t = [dev |-> t.dev, n |-> t.n] /\ Calm(t.dev) /\ (t.n = x.n + 1 \/ t.n = x.n)
    BY <2>1, ReadOneFacts DEF t
  <2>3. t.dev \in D /\ t.n \in Nat
    BY <2>1, <2>2 DEF Calm
  <2> QED BY <2>2, <2>3 DEF t
<1> HIDE DEF V, N, v
<1>3. F \in [V \X (1 .. N) -> V] /\ \A x \in V, i \in 1 .. N : F[<<x, i>>] = ReadOne(x)
  BY <1>2
<1> HIDE DEF F
<1>4. PICK g \in [0 .. N -> V] : g[0] = v /\ \A i \in 1 .. N : g[i] = F[<<g[i - 1], i>>]
  <2>1. \E g \in [0 .. N -> V] : Chain(g, v, F, N)
    BY <1>1, <1>3, Computed
  <2> QED BY <2>1 DEF Chain
<1>5. \A i \in 1 .. N : i - 1 \in 0 .. N /\ g[i - 1] \in V
  <2>1. \A i \in 1 .. N : i - 1 \in 0 .. N
    BY <1>1
  <2> QED BY <1>4, <2>1
<1>6. \A i \in 0 .. N : i # 0 => i \in 1 .. N
  BY <1>1
<1>7. g = Def(g)
  BY <1>3, <1>4, <1>5, <1>6
<1>8. c = Def(c)
  BY <1>7
<1> HIDE DEF c
<1>9. c[0] = v /\ \A i \in 1 .. N : c[i] = ReadOne(c[i - 1])
  BY <1>1, <1>8
<1> QED BY <1>0, <1>9 DEF Emptied, N, v

(* A full FIFO is read until it is empty, and every character is counted.  *)
LEMMA ReadAllFacts ==
  ASSUME NEW s, Calm(s), s.fcr.fe, Len(s.recv) = FIFOLEN, "DR" \in s.lsr,
         NEW t, t = ReadAll(s)
  PROVE  Calm(t.dev) /\ t.n = FIFOLEN
<1> DEFINE N == FIFOLEN
           Ok(k, p) ==
             /\ p = [dev |-> p.dev, n |-> p.n] /\ Calm(p.dev) /\ p.dev.fcr.fe
             /\ p.n = (IF k <= N THEN k ELSE N) /\ Len(p.dev.recv) = N - p.n
             /\ ("DR" \in p.dev.lsr) = (p.dev.recv # <<>>)
<1>1. N \in Nat /\ N > 0 /\ N + 1 \in Nat
  BY FifoAssumption
<1>a. PICK f : Emptied(f, s)
  BY ReadFcn
<1>2. /\ f[0] = [dev |-> s, n |-> 0] /\ t = f[N + 1]
      /\ \A i \in 1 .. N + 1 : f[i] = ReadOne(f[i - 1])
  BY <1>a DEF Emptied
<1> DEFINE T == {k \in 0 .. N + 1 : Ok(k, f[k])}
<1>3. 0 \in T
  <2>1. f[0].dev = s /\ f[0].n = 0
    BY <1>2
  <2>2. s.recv # <<>>
    BY <1>1
  <2>3. Ok(0, f[0])
    BY <1>1, <1>2, <2>1, <2>2
  <2> HIDE DEF Ok
  <2> QED BY <1>1, <2>3
<1>4. ASSUME NEW k \in 0 .. N + 1 - 1, k \in T PROVE k + 1 \in T
  <2> DEFINE x == f[k]
             y == f[k + 1]
  <2>1. k + 1 \in 1 .. N + 1 /\ k + 1 \in 0 .. N + 1 /\ k + 1 - 1 = k /\ k <= N /\ k \in Nat
    BY <1>1
  <2>2. y = ReadOne(x) /\ Ok(k, x)
    <3>1. Ok(k, x)
      BY <1>4
    <3> HIDE DEF Ok, T
    <3>2. f[k + 1] = ReadOne(f[k + 1 - 1])
      BY <1>2, <2>1
    <3> QED BY <2>1, <3>1, <3>2
  <2> HIDE DEF x, y
  <2>3. /\ y = [dev |-> y.dev, n |-> y.n] /\ Calm(y.dev) /\ y.dev.fcr = x.dev.fcr
        /\ y.n = IF "DR" \in x.dev.lsr THEN x.n + 1 ELSE x.n
        /\ "DR" \in x.dev.lsr /\ x.dev.fcr.fe =>
             /\ y.dev.recv = Rest(x.dev.recv)
             /\ ("DR" \in y.dev.lsr) = (y.dev.recv # <<>>)
        /\ "DR" \notin x.dev.lsr => y.dev.recv = x.dev.recv /\ "DR" \notin y.dev.lsr
    BY <2>2, ReadOneFacts
  <2>4. x.dev.recv \in Seq(Chars) /\ x.n = k /\ Len(x.dev.recv) = N - k
    <3>1. x.dev.recv \in Fifo
      BY <2>2 DEF Calm, Dev
    <3> QED BY <2>1, <2>2, <3>1 DEF Fifo
  <2>5. CASE x.dev.recv # <<>>
    <3>1. "DR" \in x.dev.lsr /\ x.dev.fcr.fe
      BY <2>2, <2>5
    <3>2. Len(Rest(x.dev.recv)) = N - k - 1 /\ k < N
      <4>1. Len(Tail(x.dev.recv)) = Len(x.dev.recv) - 1
        BY <2>4, <2>5, HeadTailProperties
      <4>2. Len(x.dev.recv) # 0
        BY <2>4, <2>5, EmptySeq
      <4> QED BY <1>1, <2>1, <2>4, <2>5, <4>1, <4>2 DEF Rest
    <3>3. y.n = k + 1 /\ Len(y.dev.recv) = N - (k + 1)
      BY <1>1, <2>1, <2>3, <2>4, <3>1, <3>2
    <3>4. Ok(k + 1, y)
      BY <1>1, <2>1, <2>2, <2>3, <3>1, <3>2, <3>3
    <3> HIDE DEF Ok
    <3> QED BY <2>1, <3>4 DEF y
  <2>6. CASE x.dev.recv = <<>>
    <3>1. k = N
      <4>1. Len(x.dev.recv) = 0
        BY <2>6
      <4> QED BY <1>1, <2>1, <2>4, <4>1
    <3>2. "DR" \notin x.dev.lsr
      BY <2>2, <2>6
    <3>3. y.n = N /\ y.dev.recv = <<>> /\ "DR" \notin y.dev.lsr
      BY <2>3, <2>4, <2>6, <3>1, <3>2
    <3>4. Len(y.dev.recv) = N - y.n
      BY <1>1, <3>3
    <3>5. Ok(k + 1, y)
      BY <1>1, <2>1, <2>2, <2>3, <3>1, <3>3, <3>4
    <3> HIDE DEF Ok
    <3> QED BY <2>1, <3>5 DEF y
  <2> QED BY <2>5, <2>6
<1>5. Ok(N + 1, f[N + 1])
  <2> HIDE DEF T, Ok
  <2>1. 0 .. N + 1 \subseteq T
    BY <1>1, <1>3, <1>4, Climb
  <2> QED BY <1>1, <2>1 DEF T
<1> QED BY <1>1, <1>2, <1>5

(* Characters written in loopback mode fill the receive FIFO.              *)
LEMMA FillFacts ==
  ASSUME NEW s, Calm(s), "LOOP" \in s.mcr, s.fcr.fe, s.recv = <<>>,
         NEW q \in Seq(Chars), Len(q) = FIFOLEN + 1,
         NEW t, t = WriteAll(s, q, FIFOLEN + 1)
  PROVE  Calm(t) /\ t.fcr.fe /\ Len(t.recv) = FIFOLEN /\ "DR" \in t.lsr
<1> DEFINE N == FIFOLEN
           Ok(k, x) ==
             /\ x.fcr.fe /\ "LOOP" \in x.mcr /\ Len(x.recv) = (IF k <= N THEN k ELSE N)
             /\ k > 0 => "DR" \in x.lsr
<1>1. N \in Nat /\ N > 0 /\ N + 1 \in Nat /\ N + 1 \in 0 .. Len(q)
  BY FifoAssumption
<1>a. PICK f : Written(f, s, q, N + 1)
  BY <1>1, WriteFcn
<1>2. /\ f[0] = s /\ t = f[N + 1]
      /\ \A i \in 0 .. N + 1 : Calm(f[i])
      /\ \A i \in 1 .. N + 1 : f[i] = Write1(f[i - 1], q[i])
  BY <1>a DEF Written
<1> DEFINE T == {k \in 0 .. N + 1 : Ok(k, f[k])}
<1>3. 0 \in T
  <2>1. Len(s.recv) = 0
    OBVIOUS
  <2>2. Ok(0, f[0])
    BY <1>1, <1>2, <2>1
  <2> HIDE DEF Ok
  <2> QED BY <1>1, <2>2
<1>4. ASSUME NEW k \in 0 .. N + 1 - 1, k \in T PROVE k + 1 \in T
  <2> DEFINE x == f[k]
             y == f[k + 1]
             c == q[k + 1]
  <2>1. /\ k + 1 \in 1 .. N + 1 /\ k + 1 \in 0 .. N + 1 /\ k + 1 - 1 = k /\ k <= N /\ k \in Nat
        /\ k \in 0 .. N + 1
    BY <1>1
  <2>2. y = Write1(x, c) /\ Ok(k, x) /\ Calm(x)
    <3>1. Ok(k, x)
      BY <1>4
    <3> HIDE DEF Ok, T
    <3>2. f[k + 1] = Write1(f[k + 1 - 1], q[k + 1])
      BY <1>2, <2>1
    <3> QED BY <1>2, <2>1, <3>1, <3>2
  <2>3. c \in Chars
    BY <2>1, ElementOfSeq
  <2> HIDE DEF x, y, c
  <2>4. /\ Same(x, y, {"rbr", "lsr", "recv", "fifoTimer", "iir", "irq", "retry", "out",
                       "thr", "tsr", "xmit", "thrPending"})
        /\ Received(x, y, c)
    BY <2>2, <2>3, Write1Facts
  <2>5. y.fcr = x.fcr /\ y.mcr = x.mcr
    BY <2>4 DEF Same, Fields
  <2>6. "DR" \in y.lsr /\ y.recv = IF Len(x.recv) < N THEN Append(x.recv, c) ELSE x.recv
    BY <2>2, <2>4 DEF Received
  <2>7. Len(x.recv) = k /\ x.recv \in Seq(Chars)
    <3>1. x.recv \in Fifo
      BY <2>2 DEF Calm, Dev
    <3> QED BY <2>1, <2>2, <3>1 DEF Fifo
  <2>8. Len(y.recv) = IF k + 1 <= N THEN k + 1 ELSE N
    <3>1. Len(Append(x.recv, c)) = k + 1
      BY <2>3, <2>7, AppendProperties
    <3>2. CASE k < N
      BY <1>1, <2>1, <2>6, <2>7, <3>1, <3>2
    <3>3. CASE k = N
      BY <1>1, <2>1, <2>6, <2>7, <3>3
    <3> QED BY <1>1, <2>1, <3>2, <3>3
  <2>9. Ok(k + 1, y)
    BY <2>2, <2>5, <2>6, <2>8
  <2> HIDE DEF Ok
  <2> QED BY <2>1, <2>9 DEF y
<1>5. Ok(N + 1, f[N + 1])
  <2> HIDE DEF T, Ok, N
  <2>1. 0 .. N + 1 \subseteq T
    BY <1>1, <1>3, <1>4, Climb, SMTT(30)
  <2> QED BY <1>1, <2>1 DEF T
<1>6. Calm(t)
  BY <1>1, <1>2
<1> QED BY <1>1, <1>2, <1>5, <1>6

(* The handlers of the registers on a calm device.                         *)
LEMMA CalmFcr ==
  ASSUME NEW s, Calm(s), NEW fe \in BOOLEAN, NEW level \in Levels,
         NEW clearR \in BOOLEAN, NEW clearX \in BOOLEAN,
         NEW t, t = WriteFcr(s, fe, level, clearR, clearX)
  PROVE  /\ Calm(t) /\ (Right(s) => Right(t)) /\ t.fcr.fe = fe
         /\ Same(s, t, {"fifoTimer", "toPending", "recv", "xmit", "fifoBits", "itl", "fcr",
                        "iir", "irq"})
         /\ fe # s.fcr.fe \/ clearR => t.recv = <<>>
         /\ fe = s.fcr.fe /\ ~clearR => t.recv = s.recv
         /\ fe /\ ~s.fcr.fe => t.fifoBits
<1>1. s \in Dev /\ Quiet(s)
  BY DEF Calm
<1>2. /\ t \in Dev
      /\ Right(t) \/ (t = s /\ s.fcr = [fe |-> fe, level |-> level])
      /\ Same(s, t, {"fifoTimer", "toPending", "recv", "xmit", "fifoBits", "itl", "fcr",
                     "iir", "irq"})
      /\ t.fcr = [fe |-> fe, level |-> level]
      /\ t.recv = IF clearR \/ fe # s.fcr.fe THEN <<>> ELSE s.recv
      /\ s.xmit = <<>> => t.xmit = <<>>
      /\ fe # s.fcr.fe => t.fifoBits = fe
  BY <1>1, WriteFcrFacts
<1>3. Quiet(t)
  BY <1>1, <1>2 DEF Quiet, Same, Fields
<1>4. t.fcr.fe = fe
  BY <1>2
<1>5. fe /\ ~s.fcr.fe => t.fifoBits
  BY <1>2
<1> QED BY <1>2, <1>3, <1>4, <1>5 DEF Calm

(* serial_ioport_write of IER on a device that is not sending.             *)
LEMMA CalmIer ==
  ASSUME NEW s, Calm(s), NEW bits \in SUBSET IerBits, lines \in SUBSET Lines,
         NEW t, t = WriteIer(s, bits, lines)
  PROVE  /\ Calm(t) /\ Right(t) /\ t.ier = bits /\ t.thrPending /\ CtsSeen(s, t)
         /\ Same(s, t, {"ier", "msr", "mslTimer", "poll", "thrPending", "iir", "irq"})
<1>1. s \in Dev /\ Quiet(s)
  BY DEF Calm
<1>2. /\ t \in Dev /\ Right(t)
      /\ Same(s, t, {"ier", "msr", "mslTimer", "poll", "thrPending", "iir", "irq"})
      /\ t.ier = bits /\ t.thrPending /\ CtsSeen(s, t)
  BY <1>1, WriteIerFacts
<1>3. Quiet(t)
  BY <1>1, <1>2 DEF Quiet, Same, Fields
<1> QED BY <1>2, <1>3 DEF Calm

(* serial_ioport_write of MCR, likewise.                                   *)
LEMMA CalmMcr ==
  ASSUME NEW s, Calm(s), NEW bits \in SUBSET McrBits, NEW t, t = WriteMcr(s, bits)
  PROVE  /\ Calm(t) /\ (Right(s) => Right(t)) /\ t.mcr = bits
         /\ Same(s, t, {"mcr", "mslTimer"})
<1>1. s \in Dev /\ Quiet(s)
  BY DEF Calm
<1>2. t \in Dev /\ Heard(s, t) /\ Same(s, t, {"mcr", "mslTimer"}) /\ t.mcr = bits
  BY <1>1, WriteMcrFacts
<1>3. Quiet(t)
  BY <1>1, <1>2 DEF Quiet, Same, Fields
<1> QED BY <1>2, <1>3, HeardTold DEF Calm

(* serial_ioport_read of IIR, likewise.                                    *)
LEMMA CalmIir ==
  ASSUME NEW s, Calm(s), NEW t, t = ReadIir(s).dev
  PROVE  /\ Calm(t) /\ (Right(s) => Right(t)) /\ Same(s, t, {"thrPending", "iir", "irq"})
         /\ s.iir # "THRI" => t = s
<1>1. s \in Dev /\ Quiet(s)
  BY DEF Calm
<1>2. t \in Dev /\ Heard(s, t) /\ Same(s, t, {"thrPending", "iir", "irq"}) /\ (s.iir # "THRI" => t = s)
  BY <1>1, ReadIirFacts
<1>3. Quiet(t)
  BY <1>1, <1>2 DEF Quiet, Same, Fields
<1> QED BY <1>2, <1>3, HeardTold DEF Calm

(* serial_ioport_read of MSR: what it returns of CTS is what it leaves.    *)
LEMMA CalmMsr ==
  ASSUME NEW s, Calm(s), lines \in SUBSET Lines, NEW t, t = ReadMsr(s, lines).dev
  PROVE  /\ Calm(t) /\ (Right(s) => Right(t))
         /\ Same(s, t, {"msr", "mslTimer", "poll", "iir", "irq"})
         /\ "LOOP" \notin s.mcr =>
              /\ ("CTS" \in ReadMsr(s, lines).val) = ("CTS" \in t.msr) /\ "DCTS" \notin t.msr
              /\ "DCTS" \notin ReadMsr(s, lines).val =>
                   "DCTS" \notin s.msr /\ ("CTS" \in t.msr) = ("CTS" \in s.msr)
<1>1. s \in Dev /\ Quiet(s)
  BY DEF Calm
<1>2. /\ t \in Dev /\ Heard(s, t) /\ Same(s, t, {"msr", "mslTimer", "poll", "iir", "irq"})
      /\ "LOOP" \notin s.mcr =>
           /\ ("CTS" \in ReadMsr(s, lines).val) = ("CTS" \in t.msr) /\ "DCTS" \notin t.msr
           /\ "DCTS" \notin ReadMsr(s, lines).val =>
                "DCTS" \notin s.msr /\ ("CTS" \in t.msr) = ("CTS" \in s.msr)
  BY <1>1, ReadMsrFacts
<1>3. Quiet(t)
  BY <1>1, <1>2 DEF Quiet, Same, Fields
<1> QED BY <1>2, <1>3, HeardTold DEF Calm

(* serial_ioport_read of LSR clears the error flags.                       *)
LEMMA CalmLsr ==
  ASSUME NEW s, Calm(s), NEW t, t = ReadLsr(s).dev
  PROVE  /\ Calm(t) /\ (Right(s) => Right(t)) /\ t.lsr = s.lsr \ {"BI", "OE"}
         /\ Same(s, t, {"lsr", "iir", "irq"})
<1>1. s \in Dev /\ Quiet(s)
  BY DEF Calm
<1>2. /\ t \in Dev /\ Heard(s, t) /\ Same(s, t, {"lsr", "iir", "irq"})
      /\ t.lsr = s.lsr \ {"BI", "OE"}
  BY <1>1, ReadLsrFacts
<1>3. Quiet(t)
  BY <1>1, <1>2 DEF Quiet, Same, Fields
<1> QED BY <1>2, <1>3, HeardTold DEF Calm

(* serial_ioport_read of RBR takes a character out of the FIFO.            *)
LEMMA CalmRbr ==
  ASSUME NEW s, Calm(s), NEW t, t = ReadRbr(s).dev
  PROVE  /\ Calm(t) /\ Right(t)
         /\ Same(s, t, {"recv", "toPending", "lsr", "fifoTimer", "iir", "irq"})
         /\ t.lsr \subseteq s.lsr /\ s.lsr \ {"DR", "BI"} \subseteq t.lsr
         /\ s.fcr.fe => /\ t.recv = Rest(s.recv)
                        /\ t.lsr = IF t.recv = <<>> THEN s.lsr \ {"DR", "BI"} ELSE s.lsr
         /\ ~s.fcr.fe => t.recv = s.recv
<1>1. s \in Dev /\ Quiet(s)
  BY DEF Calm
<1>2. /\ t \in Dev /\ Right(t)
      /\ Same(s, t, {"recv", "toPending", "lsr", "fifoTimer", "iir", "irq"})
      /\ t.lsr \subseteq s.lsr /\ s.lsr \ {"DR", "BI"} \subseteq t.lsr
      /\ s.fcr.fe => /\ t.recv = Rest(s.recv)
                     /\ t.lsr = IF t.recv = <<>> THEN s.lsr \ {"DR", "BI"} ELSE s.lsr
      /\ ~s.fcr.fe => t.recv = s.recv
  BY <1>1, ReadRbrFacts
<1>3. Quiet(t)
  BY <1>1, <1>2 DEF Quiet, Same, Fields
<1> QED BY <1>2, <1>3 DEF Calm

(* serial_ioport_write of LCR with the divisor latch closed.               *)
LEMMA CalmLcr ==
  ASSUME NEW s, Calm(s), NEW bits, bits = {}, NEW t, t = WriteLcr(s, bits)
  PROVE  t = s
<1>1. s.lcr = {}
  BY DEF Calm, Dev
<1>2. t = [s EXCEPT !.lcr = s.lcr]
  BY <1>1 DEF WriteLcr
<1> QED BY <1>2 DEF Calm, Dev

(* Neither the FIFO mode nor what went out changes, nor the modem control. *)
Kept(s, t) == Calm(t) /\ t.mcr = s.mcr /\ t.fcr = s.fcr /\ t.out = s.out /\ t.ier = s.ier

(* The three writes that empty the FIFOs leave them off.                   *)
LEMMA ClearFifosFacts ==
  ASSUME NEW s, Calm(s), NEW t, t = ClearFifos(s)
  PROVE  /\ Calm(t) /\ (Right(s) => Right(t)) /\ ~t.fcr.fe
         /\ Same(s, t, {"fifoTimer", "toPending", "recv", "xmit", "fifoBits", "itl", "fcr",
                        "iir", "irq"})
<1> DEFINE yes == TRUE
           no == FALSE
           level == None.level
           a == WriteFcr(s, yes, level, no, no)
           b == WriteFcr(a, yes, level, yes, yes)
<1>1. level \in Levels
  BY NoneType
<1>2. yes \in BOOLEAN /\ no \in BOOLEAN /\ t = WriteFcr(b, no, level, no, no)
  BY DEF ClearFifos
<1>3. no = FALSE
  OBVIOUS
<1> HIDE DEF yes, no, level
<1> DEFINE F == {"fifoTimer", "toPending", "recv", "xmit", "fifoBits", "itl", "fcr", "iir", "irq"}
<1>4. Calm(a) /\ (Right(s) => Right(a)) /\ Same(s, a, F)
  BY <1>1, <1>2, CalmFcr
<1> HIDE DEF a
<1>5. Calm(b) /\ (Right(a) => Right(b)) /\ Same(a, b, F)
  BY <1>1, <1>2, <1>4, CalmFcr
<1> HIDE DEF b
<1>6. Calm(t) /\ (Right(b) => Right(t)) /\ Same(b, t, F) /\ t.fcr.fe = no
  BY <1>1, <1>2, <1>5, CalmFcr
<1>7. Same(s, t, F)
  BY <1>4, <1>5, <1>6 DEF Same
<1> QED BY <1>3, <1>4, <1>5, <1>6, <1>7

(* The four reads that clear what is pending.                              *)
LEMMA ClearInterruptsFacts ==
  ASSUME NEW s, Calm(s), lines \in SUBSET Lines, NEW t, t = ClearInterrupts(s)
  PROVE  Kept(s, t) /\ Right(t)
<1> DEFINE a == ReadLsr(s).dev
           b == ReadRbr(a).dev
           c == ReadIir(b).dev
<1>1. t = ReadMsr(c, lines).dev
  BY DEF ClearInterrupts
<1>2. Calm(a) /\ Same(s, a, {"lsr", "iir", "irq"})
  BY CalmLsr
<1> HIDE DEF a
<1>3. Calm(b) /\ Right(b) /\ Same(a, b, {"recv", "toPending", "lsr", "fifoTimer", "iir", "irq"})
  BY <1>2, CalmRbr
<1> HIDE DEF b
<1>4. Calm(c) /\ Right(c) /\ Same(b, c, {"thrPending", "iir", "irq"})
  BY <1>3, CalmIir
<1> HIDE DEF c
<1>5. Calm(t) /\ Right(t) /\ Same(c, t, {"msr", "mslTimer", "poll", "iir", "irq"})
  BY <1>1, <1>4, CalmMsr
<1> QED BY <1>2, <1>3, <1>4, <1>5 DEF Same, Fields, Kept

(* Enabling the transmit interrupt of an idle transmitter raises it.       *)
LEMMA ThriFacts ==
  ASSUME NEW s, Calm(s), lines \in SUBSET Lines, NEW t, t = Thri(s)
  PROVE  /\ t.val = "THRI" /\ Calm(t.dev)
         /\ t.dev.mcr = s.mcr /\ t.dev.fcr = s.fcr /\ t.dev.out = s.out
<1> DEFINE bits == {"THRI"}
           a == WriteIer(s, bits, lines)
<1>1. bits \in SUBSET IerBits
  BY DEF IerBits
<1>2. t.val = a.iir /\ t.dev = ReadIir(a).dev
  BY DEF Thri, ReadIir
<1>3. "THRI" \in bits /\ "RDI" \notin bits /\ "RLSI" \notin bits
  OBVIOUS
<1> HIDE DEF bits
<1>4. /\ Calm(a) /\ Right(a) /\ a.ier = bits /\ a.thrPending
      /\ Same(s, a, {"ier", "msr", "mslTimer", "poll", "thrPending", "iir", "irq"})
  BY <1>1, CalmIer
<1> HIDE DEF a
<1>5. Cause(a) = "THRI"
  BY <1>3, <1>4 DEF Cause
<1>6. Calm(t.dev) /\ Same(a, t.dev, {"thrPending", "iir", "irq"})
  BY <1>2, <1>4, CalmIir
<1> QED BY <1>2, <1>4, <1>5, <1>6 DEF Right, Same, Fields

(* The test of the FIFO's size.                                            *)
LEMMA SizeFifoFacts ==
  ASSUME NEW s, Calm(s), NEW t, t = SizeFifo(s)
  PROVE  Calm(t.dev) /\ t.size = FIFOLEN
<1> DEFINE yes == TRUE
           no == FALSE
           level == None.level
           a == ReadIir(s).dev
           b == WriteFcr(a, yes, level, yes, yes)
           on == WriteMcr(b, {"LOOP"})
           q == [i \in 1 .. FIFOLEN + 1 |-> i]
           full == WriteAll(on, q, FIFOLEN + 1)
           end == ReadAll(full)
           v == ReadIir(s).val = "NONE"
           e == WriteFcr(end.dev, v, MaxLevel, no, no)
<1>1. t = [dev |-> WriteMcr(e, s.mcr), size |-> end.n]
  BY DEF SizeFifo
<1>2. level \in Levels /\ MaxLevel \in Levels /\ yes \in BOOLEAN /\ no \in BOOLEAN /\ v \in BOOLEAN
  BY NoneType, MaxLevelType
<1>3. yes
  OBVIOUS
<1>4. q \in Seq(Chars) /\ Len(q) = FIFOLEN + 1
  <2>1. FIFOLEN + 1 \in Nat /\ \A i \in 1 .. FIFOLEN + 1 : i \in Chars
    BY FifoAssumption, PortAssumption DEF PortAssumption
  <2>2. q \in [1 .. FIFOLEN + 1 -> Chars]
    BY <2>1
  <2> QED BY <2>1, <2>2
<1>5. {"LOOP"} \in SUBSET McrBits
  BY DEF McrBits
<1> HIDE DEF yes, no, level, q, v
<1>6. Calm(a)
  BY CalmIir
<1> HIDE DEF a
<1>7. Calm(b) /\ b.fcr.fe = yes /\ b.recv = <<>>
  <2>1. Calm(b) /\ b.fcr.fe = yes /\ (yes # a.fcr.fe \/ yes => b.recv = <<>>)
    BY <1>2, <1>6, CalmFcr
  <2> QED BY <1>3, <2>1
<1> HIDE DEF b
<1>8. Calm(on) /\ on.mcr = {"LOOP"} /\ Same(b, on, {"mcr", "mslTimer"})
  BY <1>5, <1>7, CalmMcr
<1> HIDE DEF on
<1>9. "LOOP" \in on.mcr /\ on.fcr.fe /\ on.recv = <<>>
  BY <1>3, <1>7, <1>8 DEF Same, Fields
<1>10. Calm(full) /\ full.fcr.fe /\ Len(full.recv) = FIFOLEN /\ "DR" \in full.lsr
  BY <1>4, <1>8, <1>9, FillFacts
<1> HIDE DEF full
<1>11. Calm(end.dev) /\ end.n = FIFOLEN
  BY <1>10, ReadAllFacts
<1> HIDE DEF end
<1>12. Calm(e)
  BY <1>2, <1>11, CalmFcr
<1> HIDE DEF e
<1>13. s.mcr \in SUBSET McrBits
  BY DEF Calm, Dev
<1>14. Calm(WriteMcr(e, s.mcr))
  BY <1>12, <1>13, CalmMcr
<1> QED BY <1>1, <1>11, <1>14

(* Whatever state the device was left in, it is taken for a 16550A.        *)
LEMMA AutoconfigFacts ==
  ASSUME NEW s, Calm(s), lines \in SUBSET Lines, NEW t, t = Autoconfig(s)
  PROVE  /\ t.type = "16550A" /\ Calm(t.dev) /\ Right(t.dev)
         /\ t.dev.mcr = s.mcr /\ ~t.dev.fcr.fe /\ t.dev.ier = {} /\ t.dev.thrPending
<1> DEFINE none == {}
           bits == {"LOOP", "OUT2", "RTS"}
           ier0 == WriteIer(s, none, lines)
           ier1 == WriteIer(ier0, All, lines)
           back == WriteIer(ier1, s.ier, lines)
           on   == WriteMcr(back, bits)
           loop == ReadMsr(on, lines)
           off  == WriteMcr(loop.dev, s.mcr)
<1>1. /\ none \in SUBSET IerBits /\ All \in SUBSET IerBits /\ s.ier \in SUBSET IerBits
      /\ bits \in SUBSET McrBits /\ s.mcr \in SUBSET McrBits /\ s.lcr = {}
  BY DEF All, IerBits, McrBits, Calm, Dev
<1>2. t = IF ier0.ier # {} \/ ier1.ier # All \/ loop.val # {"DCD", "CTS"}
          THEN [dev |-> off, type |-> "unknown"]
          ELSE Settled(s, Typed(ReadIir(Identify(off)).dev))
  BY DEF Autoconfig
<1>3. loop.val = {"DCD", "CTS"}
  <2>1. on.mcr = bits
    <3> HIDE DEF bits, back
    <3>1. back.mcr = back.mcr
      OBVIOUS
    <3>2. Calm(ier0)
      <4> HIDE DEF none
      <4> QED BY <1>1, CalmIer
    <3> HIDE DEF ier0
    <3>3. Calm(ier1)
      BY <1>1, <3>2, CalmIer
    <3> HIDE DEF ier1
    <3>4. Calm(back)
      BY <1>1, <3>3, CalmIer DEF back
    <3> QED BY <1>1, <3>4, CalmMcr
  <2>2. loop.val = {l \in Lines : \/ l = "DCD" /\ "OUT2" \in on.mcr
                                  \/ l = "RI"  /\ "OUT1" \in on.mcr
                                  \/ l = "CTS" /\ "RTS" \in on.mcr
                                  \/ l = "DSR" /\ "DTR" \in on.mcr}
    <3> HIDE DEF on
    <3>1. "LOOP" \in on.mcr
      BY <2>1
    <3> QED BY <3>1 DEF ReadMsr
  <2> HIDE DEF on, loop
  <2> QED BY <2>1, <2>2 DEF Lines
<1> HIDE DEF none, bits
<1>4. Calm(ier0) /\ ier0.ier = none
  BY <1>1, CalmIer
<1> HIDE DEF ier0
<1>5. Calm(ier1) /\ ier1.ier = All
  BY <1>1, <1>4, CalmIer
<1> HIDE DEF ier1
<1>6. Calm(back)
  BY <1>1, <1>5, CalmIer
<1> HIDE DEF back
<1>7. Calm(on)
  BY <1>1, <1>6, CalmMcr
<1>8. Calm(loop.dev)
  <2> HIDE DEF on
  <2> QED BY <1>7, CalmMsr
<1> HIDE DEF loop, on
<1>9. Calm(off)
  BY <1>1, <1>8, CalmMcr
<1> HIDE DEF off
<1> DEFINE no == FALSE
           yes == TRUE
           level == None.level
           cleared == WriteFcr(off, no, level, no, no)
           enabled == WriteFcr(cleared, yes, level, no, no)
           read == ReadIir(enabled).dev
<1>10. level \in Levels /\ no \in BOOLEAN /\ yes \in BOOLEAN /\ yes # no
  BY NoneType
<1>11. Identify(off) = enabled
  BY DEF Identify
<1>12. yes = TRUE
  OBVIOUS
<1> HIDE DEF no, yes, level
<1>13. Calm(cleared) /\ cleared.fcr.fe = no
  BY <1>9, <1>10, CalmFcr
<1> HIDE DEF cleared
<1>14. Calm(enabled) /\ enabled.fifoBits
  <2>1. Calm(enabled) /\ (yes /\ ~cleared.fcr.fe => enabled.fifoBits)
    BY <1>10, <1>13, CalmFcr
  <2>2. ~cleared.fcr.fe
    BY <1>13 DEF no
  <2> QED BY <1>12, <2>1, <2>2
<1> HIDE DEF enabled
<1>15. Calm(read) /\ read.fifoBits = enabled.fifoBits
  <2>1. Calm(read) /\ Same(enabled, read, {"thrPending", "iir", "irq"})
    BY <1>14, CalmIir
  <2> QED BY <2>1 DEF Same, Fields
<1> HIDE DEF read
<1>16. Typed(read) = Autoconfig16550a(read)
  BY <1>12, <1>14, <1>15 DEF Typed
<1> DEFINE tested == Autoconfig16550a(read)
<1>17. Calm(tested.dev) /\ tested.type = "16550A"
  <2> DEFINE a == ReadIir(read).dev
             b == WriteMcr(a, read.mcr \cup {"LOOP"})
             c == WriteMcr(b, read.mcr)
             e == WriteIer(c, read.ier, lines)
             f == SizeFifo(e)
  <2>1. tested = Sized(f)
    BY DEF Autoconfig16550a
  <2>2. /\ read.mcr \cup {"LOOP"} \in SUBSET McrBits /\ read.mcr \in SUBSET McrBits
        /\ read.ier \in SUBSET IerBits
    BY <1>15 DEF Calm, Dev, McrBits
  <2>3. Calm(a)
    BY <1>15, CalmIir
  <2> HIDE DEF a
  <2>4. Calm(b)
    BY <2>2, <2>3, CalmMcr
  <2> HIDE DEF b
  <2>5. Calm(c)
    BY <2>2, <2>4, CalmMcr
  <2> HIDE DEF c
  <2>6. Calm(e)
    BY <2>2, <2>5, CalmIer
  <2> HIDE DEF e
  <2>7. Calm(f.dev) /\ f.size = FIFOLEN
    BY <2>6, SizeFifoFacts
  <2> HIDE DEF f, tested
  <2>8. f.size # 64
    BY <2>7, PortAssumption DEF PortAssumption
  <2> QED BY <2>1, <2>7, <2>8 DEF Sized
<1>18. t = Settled(s, tested)
  <2> HIDE DEF tested
  <2> QED BY <1>2, <1>3, <1>4, <1>5, <1>11, <1>16 DEF none, read, tested
<1> HIDE DEF tested
<1> DEFINE line == WriteLcr(tested.dev, s.lcr)
           reset == WriteMcr(line, s.mcr)
           clear == ClearFifos(reset)
           empty == ReadRbr(clear).dev
           last == WriteIer(empty, none, lines)
<1>19. t = [dev |-> last, type |-> "16550A"]
  BY <1>17, <1>18 DEF Settled, none
<1>20. line = tested.dev
  BY <1>1, <1>17, CalmLcr
<1> HIDE DEF line
<1>21. Calm(reset) /\ reset.mcr = s.mcr
  BY <1>1, <1>17, <1>20, CalmMcr
<1> HIDE DEF reset
<1>22. Calm(clear) /\ ~clear.fcr.fe /\ clear.mcr = s.mcr
  <2>1. /\ Calm(clear) /\ ~clear.fcr.fe
        /\ Same(reset, clear, {"fifoTimer", "toPending", "recv", "xmit", "fifoBits", "itl",
                               "fcr", "iir", "irq"})
    BY <1>21, ClearFifosFacts
  <2> QED BY <1>21, <2>1 DEF Same, Fields
<1> HIDE DEF clear
<1>23. Calm(empty) /\ ~empty.fcr.fe /\ empty.mcr = s.mcr
  <2>1. Calm(empty) /\ Same(clear, empty, {"recv", "toPending", "lsr", "fifoTimer", "iir", "irq"})
    BY <1>22, CalmRbr
  <2> QED BY <1>22, <2>1 DEF Same, Fields
<1> HIDE DEF empty
<1>24. /\ Calm(last) /\ Right(last) /\ last.ier = none /\ last.thrPending
       /\ Same(empty, last, {"ier", "msr", "mslTimer", "poll", "thrPending", "iir", "irq"})
  BY <1>1, <1>23, CalmIer
<1> HIDE DEF last
<1>25. last.mcr = s.mcr /\ ~last.fcr.fe
  BY <1>23, <1>24 DEF Same, Fields
<1> QED BY <1>19, <1>24, <1>25 DEF none

(* What every operation on an open port respects: the receiver is left     *)
(* alone, a break that it clears is saved, characters go from the ring to  *)
(* the line in order, and a pending transmit interrupt stays pending.      *)
Carries(p, q) ==
  /\ Pack(q) /\ q.up.type = p.up.type /\ q.up.bugs = p.up.bugs
  /\ q.d.recv = p.d.recv /\ q.d.fcr.fe = p.d.fcr.fe /\ ("DR" \in q.d.lsr) = ("DR" \in p.d.lsr)
  /\ "BI" \in p.d.lsr \cup p.up.saved => "BI" \in q.d.lsr \cup q.up.saved
  /\ UserChars(q.d.out) \o q.xmit = UserChars(p.d.out) \o p.xmit
  /\ p.d.thrPending => q.d.thrPending

(* The mask in the device is the driver's, or neither has changed.         *)
Follows(p, q) == q.d.ier = q.up.ier \/ (q.d.ier = p.d.ier /\ q.up.ier = p.up.ier)

(* Characters may have left: the ring and x_char.                          *)
Kicked(p, q) ==
  /\ q.tty = p.tty \/ q.tty = [p.tty EXCEPT !.xchar = NUL]
  /\ p.xmit = <<>> => q.xmit = <<>>

(* The ring and the requests of the tty layer are as they were.            *)
SameTty(p, q) == q.xmit = p.xmit /\ q.tty = p.tty

(* What the types of an operation's record say of its parts.               *)
LEMMA PackCalm ==
  ASSUME NEW p, Pack(p)
  PROVE  /\ Calm(p.d) /\ Right(p.d) /\ p.up.ier \in SUBSET IerBits /\ p.d.ier \in SUBSET IerBits
         /\ "LOOP" \notin p.d.mcr
         /\ p.d.out \in Seq(Chars) /\ UserChars(p.d.out) \in Seq(Chars)
         /\ p.xmit \in Seq(Events) /\ Len(p.xmit) \in Nat /\ p.d.recv \in Seq(Chars)
<1>1. /\ p.d \in Dev /\ Quiet(p.d) /\ Right(p.d) /\ "LOOP" \notin p.d.mcr
      /\ p.up.ier \in SUBSET All /\ p.xmit \in Seq(Events)
  BY DEF Pack, Ups
<1>2. p.d.out \in Seq(Chars) /\ p.d.ier \in SUBSET IerBits /\ p.d.recv \in Seq(Chars)
  BY <1>1 DEF Dev, Fifo
<1>3. UserChars(p.d.out) \in Seq(Chars)
  <2> DEFINE q == p.d.out
  <2>1. q \in Seq(Chars) /\ 0 \in Chars
    BY <1>2, FifoAssumption
  <2> HIDE DEF q
  <2>2. UserChars(q) \in Seq(Chars)
    BY <2>1, UserAppend
  <2> QED BY <2>2 DEF q
<1> QED BY <1>1, <1>2, <1>3, LenProperties DEF Calm, All, IerBits

(* A pack with another device and another shadow is one.                   *)
LEMMA PackOf ==
  ASSUME NEW p, Pack(p), NEW dev, Calm(dev), Right(dev), dev.mcr = p.d.mcr,
         NEW u \in Ups, u.bugs = p.up.bugs,
         NEW q, q = [d |-> dev, up |-> u, xmit |-> p.xmit, tty |-> p.tty]
  PROVE  Pack(q) /\ q.d = dev /\ q.up = u /\ SameTty(p, q)
<1>1. q.d = dev /\ q.up = u /\ SameTty(p, q)
  BY DEF SameTty
<1>2. Pack(q)
  BY <1>1 DEF Pack, Calm, SameTty
<1> QED BY <1>1, <1>2

(* The mask is written to the device and to its shadow.                    *)
LEMMA SetIerFacts ==
  ASSUME NEW p, Pack(p), lines \in SUBSET Lines, NEW ier \in SUBSET All,
         NEW q, q = SetIer(p, ier)
  PROVE  /\ Carries(p, q) /\ SameTty(p, q) /\ CtsSeen(p.d, q.d)
         /\ q.up.ier = ier /\ q.d.ier = ier /\ q.d.thrPending
<1> DEFINE dev == WriteIer(p.d, ier, lines)
           u == [p.up EXCEPT !.ier = ier]
<1>1. /\ Calm(dev) /\ Right(dev) /\ dev.ier = ier /\ dev.thrPending /\ CtsSeen(p.d, dev)
      /\ Same(p.d, dev, {"ier", "msr", "mslTimer", "poll", "thrPending", "iir", "irq"})
  <2>1. ier \in SUBSET IerBits
    BY DEF All, IerBits
  <2> QED BY <2>1, PackCalm, CalmIer
<1>2. p = [d |-> p.d, up |-> p.up, xmit |-> p.xmit, tty |-> p.tty] /\ p.up \in Ups
  BY DEF Pack
<1>3. q = [p EXCEPT !.up.ier = ier, !.d = dev]
  BY DEF SetIer
<1> HIDE DEF dev
<1>4. q = [d |-> dev, up |-> u, xmit |-> p.xmit, tty |-> p.tty]
  BY <1>2, <1>3
<1>5. u \in Ups /\ u.ier = ier /\ u.saved = p.up.saved /\ u.type = p.up.type /\ u.bugs = p.up.bugs
  BY <1>2 DEF Ups
<1> HIDE DEF u
<1>6. dev.mcr = p.d.mcr /\ dev.recv = p.d.recv /\ dev.fcr = p.d.fcr /\ dev.lsr = p.d.lsr
      /\ dev.out = p.d.out
  BY <1>1 DEF Same, Fields
<1>7. Pack(q) /\ q.d = dev /\ q.up = u /\ SameTty(p, q)
  BY <1>1, <1>4, <1>5, <1>6, PackOf
<1> QED BY <1>1, <1>5, <1>6, <1>7 DEF Carries, SameTty

(* Operations that carry the port on can be composed.                      *)
LEMMA CarriesTrans ==
  ASSUME NEW p, NEW q, NEW r, Carries(p, q), Carries(q, r)
  PROVE  Carries(p, r)
BY DEF Carries

(* Doing nothing carries the port on.                                      *)
LEMMA CarriesSelf == ASSUME NEW p, Pack(p) PROVE Carries(p, p) /\ CtsSeen(p.d, p.d)
BY DEF Carries, CtsSeen

(* serial8250_stop_tx.                                                     *)
LEMMA StopTxFacts ==
  ASSUME NEW p, Pack(p), lines \in SUBSET Lines, NEW q, q = StopTx(p)
  PROVE  /\ Carries(p, q) /\ SameTty(p, q) /\ CtsSeen(p.d, q.d) /\ Follows(p, q)
         /\ q.up.ier = p.up.ier \ {"THRI"}
<1>1. CASE "THRI" \in p.up.ier
  <2> DEFINE ier == p.up.ier \ {"THRI"}
  <2>1. ier \in SUBSET All /\ q = SetIer(p, ier)
    BY <1>1 DEF Pack, Ups, StopTx
  <2> HIDE DEF ier
  <2>2. /\ Carries(p, q) /\ SameTty(p, q) /\ CtsSeen(p.d, q.d)
        /\ q.up.ier = ier /\ q.d.ier = ier
    BY <2>1, SetIerFacts
  <2> QED BY <2>2 DEF Follows, ier
<1>2. CASE "THRI" \notin p.up.ier
  <2>1. q = p
    BY <1>2 DEF StopTx
  <2> QED BY <1>2, <2>1, CarriesSelf DEF Follows, SameTty
<1> QED BY <1>1, <1>2

(* serial8250_tx_empty.                                                    *)
LEMMA TxEmptyFacts ==
  ASSUME NEW p, Pack(p), NEW q, q = TxEmpty(p)
  PROVE  /\ Carries(p, q) /\ SameTty(p, q) /\ q.up.ier = p.up.ier
         /\ Same(p.d, q.d, {"lsr", "iir", "irq"})
<1> DEFINE dev == ReadLsr(p.d).dev
           saved == p.up.saved \cup (p.d.lsr \cap LsrSave)
           u == [p.up EXCEPT !.saved = saved]
<1>1. ReadLsr(p.d).val = p.d.lsr
  BY DEF ReadLsr
<1>2. q = [p EXCEPT !.d = dev, !.up.saved = saved]
  BY <1>1 DEF TxEmpty
<1>3. /\ Calm(dev) /\ (Right(p.d) => Right(dev)) /\ dev.lsr = p.d.lsr \ {"BI", "OE"}
      /\ Same(p.d, dev, {"lsr", "iir", "irq"})
  BY PackCalm, CalmLsr
<1>4. p = [d |-> p.d, up |-> p.up, xmit |-> p.xmit, tty |-> p.tty] /\ p.up \in Ups
  BY DEF Pack
<1>5. saved \in SUBSET LsrSave /\ ("BI" \in p.d.lsr => "BI" \in saved) /\ p.up.saved \subseteq saved
  BY <1>4 DEF Ups, LsrSave
<1> HIDE DEF dev, saved
<1>6. q = [d |-> dev, up |-> u, xmit |-> p.xmit, tty |-> p.tty]
  BY <1>2, <1>4
<1>7. u \in Ups /\ u.ier = p.up.ier /\ u.saved = saved /\ u.type = p.up.type /\ u.bugs = p.up.bugs
  BY <1>4, <1>5 DEF Ups
<1> HIDE DEF u
<1>8. dev.mcr = p.d.mcr /\ dev.recv = p.d.recv /\ dev.fcr = p.d.fcr /\ dev.out = p.d.out
      /\ dev.thrPending = p.d.thrPending
  BY <1>3 DEF Same, Fields
<1>9. Right(dev)
  BY <1>3, PackCalm
<1>10. Pack(q) /\ q.d = dev /\ q.up = u /\ SameTty(p, q)
  BY <1>3, <1>6, <1>7, <1>8, <1>9, PackOf
<1>11. ("DR" \in dev.lsr) = ("DR" \in p.d.lsr)
  BY <1>3
<1>12. "BI" \in p.d.lsr \cup p.up.saved => "BI" \in q.d.lsr \cup q.up.saved
  BY <1>5, <1>7, <1>10
<1> QED BY <1>3, <1>7, <1>8, <1>10, <1>11, <1>12 DEF Carries, SameTty

(* A character is written from the ring, or beside it.                     *)
LEMMA LoadedFacts ==
  ASSUME NEW p, Pack(p), NEW n \in 1 .. Len(p.xmit), NEW q, q = Loaded(p, n)
  PROVE  /\ Carries(p, q) /\ q.tty = p.tty /\ CtsSeen(p.d, q.d)
         /\ q.up = p.up /\ q.d.ier = p.d.ier /\ q.d.thrPending
<1> DEFINE dev == WriteAll(p.d, p.xmit, n)
           rest == SubSeq(p.xmit, n + 1, Len(p.xmit))
<1>1. q = [p EXCEPT !.d = dev, !.xmit = rest]
  BY DEF Loaded
<1>2. Events \subseteq Chars /\ \A i \in Events : IsUser(i)
  BY PortAssumption DEF PortAssumption, Events, IsUser, CON
<1>3. /\ Calm(dev) /\ Right(dev) /\ dev.thrPending /\ NotReceived(p.d, dev)
      /\ Same(p.d, dev, {"lsr", "iir", "irq", "retry", "out", "thr", "tsr", "xmit", "thrPending"})
      /\ UserChars(dev.out) \o SubSeq(p.xmit, n + 1, Len(p.xmit)) = UserChars(p.d.out) \o p.xmit
  BY <1>2, PackCalm, WriteAllFacts
<1>4. rest \in Seq(Events) /\ Len(rest) <= XMIT_SIZE
  <2> DEFINE L == Len(p.xmit)
  <2>1. p.xmit \in Seq(Events) /\ L \in Nat /\ L <= XMIT_SIZE /\ n \in 1 .. L
    BY PackCalm DEF Pack
  <2>2. \A i \in n + 1 .. L : p.xmit[i] \in Events
    BY <2>1, ElementOfSeq
  <2>3. n + 1 \in Int /\ L \in Int
    BY <2>1
  <2> HIDE DEF L
  <2>4. /\ SubSeq(p.xmit, n + 1, L) \in Seq(Events)
        /\ Len(SubSeq(p.xmit, n + 1, L)) = IF n + 1 <= L THEN L - (n + 1) + 1 ELSE 0
    BY <2>2, <2>3, SubSeqProperties
  <2>5. XMIT_SIZE \in Nat
    BY PortAssumption DEF PortAssumption
  <2> QED BY <2>1, <2>4, <2>5 DEF L
<1> HIDE DEF dev, rest
<1>5. p = [d |-> p.d, up |-> p.up, xmit |-> p.xmit, tty |-> p.tty]
  BY DEF Pack
<1>6. q = [d |-> dev, up |-> p.up, xmit |-> rest, tty |-> p.tty]
  BY <1>1, <1>5
<1>7. q.d = dev /\ q.up = p.up /\ q.xmit = rest /\ q.tty = p.tty
  BY <1>6
<1>8. dev.mcr = p.d.mcr /\ dev.fcr = p.d.fcr /\ dev.ier = p.d.ier /\ dev.msr = p.d.msr
  BY <1>3 DEF Same, Fields
<1>9. Pack(q)
  BY <1>3, <1>4, <1>6, <1>7, <1>8 DEF Pack, Calm
<1>10. dev.recv = p.d.recv /\ ("DR" \in dev.lsr) = ("DR" \in p.d.lsr)
       /\ ("BI" \in dev.lsr) = ("BI" \in p.d.lsr)
  BY <1>3 DEF NotReceived
<1> QED BY <1>3, <1>7, <1>8, <1>9, <1>10 DEF Carries, CtsSeen, rest

(* x_char is written beside the ring.                                      *)
LEMMA XcharFacts ==
  ASSUME NEW p, Pack(p), NEW c \in {STOP, START, CON},
         NEW dev, dev = Write1(p.d, c),
         NEW q, q = [p EXCEPT !.d = dev]
  PROVE  /\ Carries(p, q) /\ SameTty(p, q) /\ CtsSeen(p.d, q.d) /\ q.d = dev
         /\ q.up = p.up /\ q.d.ier = p.d.ier /\ q.d.thrPending
<1>1. c \in Chars /\ ~IsUser(c)
  BY PortAssumption DEF PortAssumption, IsUser, STOP, START, CON
<1>3. /\ Calm(dev) /\ Right(dev) /\ dev.thrPending /\ NotReceived(p.d, dev)
      /\ dev.out = Append(p.d.out, c)
      /\ Same(p.d, dev, {"rbr", "lsr", "recv", "fifoTimer", "iir", "irq", "retry", "out",
                         "thr", "tsr", "xmit", "thrPending"})
  <2>1. Calm(p.d) /\ "LOOP" \notin p.d.mcr
    BY PackCalm
  <2> QED BY <1>1, <2>1, Write1Facts
<1>4. UserChars(dev.out) = UserChars(p.d.out)
  BY <1>1, <1>3, PackCalm, UserAppend
<1>5. p = [d |-> p.d, up |-> p.up, xmit |-> p.xmit, tty |-> p.tty]
  BY DEF Pack
<1>6. q = [d |-> dev, up |-> p.up, xmit |-> p.xmit, tty |-> p.tty]
  BY <1>5
<1>7. q.d = dev /\ q.up = p.up /\ q.xmit = p.xmit /\ q.tty = p.tty
  BY <1>6
<1>8. dev.mcr = p.d.mcr /\ dev.fcr = p.d.fcr /\ dev.ier = p.d.ier /\ dev.msr = p.d.msr
  BY <1>3 DEF Same, Fields
<1>9. Pack(q)
  BY <1>3, <1>6, <1>7, <1>8 DEF Pack, Calm
<1>10. dev.recv = p.d.recv /\ ("DR" \in dev.lsr) = ("DR" \in p.d.lsr)
       /\ ("BI" \in dev.lsr) = ("BI" \in p.d.lsr)
  BY <1>3 DEF NotReceived
<1> QED BY <1>3, <1>4, <1>7, <1>8, <1>9, <1>10 DEF Carries, CtsSeen, SameTty

(* The shadow of the mask loses the transmit interrupt when there is       *)
(* nothing to send, and otherwise stays.                                   *)
Sent(p, q) ==
  /\ q.up.ier = p.up.ier \/ (q.up.ier = p.up.ier \ {"THRI"} /\ (Stopped(p) \/ q.xmit = <<>>))
  /\ p.xmit = <<>> => q.xmit = <<>>

(* serial8250_tx_chars: it sends, and then the interrupt is pending, or    *)
(* it has nothing to send, and turns the interrupt off.                    *)
LEMMA TxCharsFacts ==
  ASSUME NEW p, Pack(p), lines \in SUBSET Lines, NEW q, q = TxChars(p)
  PROVE  /\ Carries(p, q) /\ q.tty = p.tty /\ CtsSeen(p.d, q.d) /\ Follows(p, q)
         /\ Sent(p, q) /\ Pending(q)
<1>1. CASE Stopped(p) \/ p.xmit = <<>>
  <2>1. q = StopTx(p)
    BY <1>1 DEF TxChars
  <2>2. /\ Carries(p, q) /\ SameTty(p, q) /\ CtsSeen(p.d, q.d) /\ Follows(p, q)
        /\ q.up.ier = p.up.ier \ {"THRI"}
    BY <2>1, StopTxFacts
  <2> QED BY <1>1, <2>2 DEF SameTty, Sent, Pending
<1>2. CASE ~(Stopped(p) \/ p.xmit = <<>>)
  <2> DEFINE n == IF Len(p.xmit) < LoadSize THEN Len(p.xmit) ELSE LoadSize
             r == Loaded(p, n)
  <2>1. q = StopWhenEmpty(r)
    BY <1>2 DEF TxChars
  <2>2. n \in 1 .. Len(p.xmit)
    <3>1. p.xmit \in Seq(Events) /\ p.xmit # <<>> /\ Len(p.xmit) \in Nat
      BY <1>2, PackCalm
    <3>2. Len(p.xmit) # 0
      BY <3>1, EmptySeq
    <3>3. LoadSize \in 1 .. FIFOLEN /\ FIFOLEN \in Nat
      BY PortAssumption, FifoAssumption DEF PortAssumption
    <3> QED BY <3>1, <3>2, <3>3
  <2> HIDE DEF n
  <2>3. /\ Carries(p, r) /\ r.tty = p.tty /\ CtsSeen(p.d, r.d)
        /\ r.up = p.up /\ r.d.ier = p.d.ier /\ r.d.thrPending
    BY <2>2, LoadedFacts
  <2> HIDE DEF r
  <2>4. CASE r.xmit = <<>>
    <3>1. q = StopTx(r)
      BY <2>1, <2>4 DEF StopWhenEmpty
    <3>2. /\ Carries(r, q) /\ SameTty(r, q) /\ CtsSeen(r.d, q.d) /\ Follows(r, q)
          /\ q.up.ier = r.up.ier \ {"THRI"}
      BY <2>3, <3>1, StopTxFacts DEF Carries
    <3>3. Carries(p, q)
      BY <2>3, <3>2, CarriesTrans
    <3> QED BY <1>2, <2>3, <2>4, <3>2, <3>3 DEF SameTty, Sent, Pending, Follows, CtsSeen
  <2>5. CASE r.xmit # <<>>
    <3>1. q = r
      BY <2>1, <2>5 DEF StopWhenEmpty
    <3> QED BY <1>2, <2>3, <3>1 DEF Sent, Pending, Follows
  <2> QED BY <2>4, <2>5
<1> QED BY <1>1, <1>2

(* The tty layer's flags may be set: the rest is as it was.                *)
LEMMA TtyFacts ==
  ASSUME NEW p, Pack(p), NEW y, NEW q, q = [d |-> p.d, up |-> p.up, xmit |-> p.xmit, tty |-> y],
         y \in Ttys
  PROVE  /\ Carries(p, q) /\ CtsSeen(p.d, q.d)
         /\ q.d = p.d /\ q.up = p.up /\ q.xmit = p.xmit /\ q.tty = y
<1>1. q.d = p.d /\ q.up = p.up /\ q.xmit = p.xmit /\ q.tty = y
  OBVIOUS
<1>2. Pack(q)
  BY <1>1 DEF Pack
<1> QED BY <1>1, <1>2 DEF Carries, CtsSeen

(* serial8250_tx_chars where x_char goes first.                            *)
LEMMA TxCharsHighFacts ==
  ASSUME NEW p, Pack(p), lines \in SUBSET Lines, NEW q, q = TxCharsHigh(p)
  PROVE  /\ Carries(p, q) /\ CtsSeen(p.d, q.d) /\ Follows(p, q)
         /\ Sent(p, q) /\ Kicked(p, q) /\ Pending(q)
<1>1. CASE p.tty.xchar # NUL
  <2> DEFINE c == p.tty.xchar
             dev == Write1(p.d, c)
             y == [p.tty EXCEPT !.xchar = NUL]
             r == [p EXCEPT !.d = dev]
  <2>1. q = [p EXCEPT !.d = dev, !.tty = y]
    BY <1>1 DEF Write1, TxCharsHigh
  <2>2. c \in {STOP, START, CON}
    BY <1>1 DEF Pack, Ttys
  <2>3. p = [d |-> p.d, up |-> p.up, xmit |-> p.xmit, tty |-> p.tty]
    BY DEF Pack
  <2>4. y \in Ttys
    BY DEF Pack, Ttys
  <2> HIDE DEF c, dev, y, r
  <2>5. /\ Carries(p, r) /\ SameTty(p, r) /\ CtsSeen(p.d, r.d) /\ r.d = dev
        /\ r.up = p.up /\ r.d.ier = p.d.ier /\ r.d.thrPending
    BY <2>2, XcharFacts DEF r, dev
  <2>6. q = [d |-> r.d, up |-> r.up, xmit |-> r.xmit, tty |-> y]
    BY <2>1, <2>3, <2>5 DEF SameTty
  <2>7. /\ Carries(r, q) /\ CtsSeen(r.d, q.d)
        /\ q.d = r.d /\ q.up = r.up /\ q.xmit = r.xmit /\ q.tty = y
    <3>1. Pack(r)
      BY <2>5 DEF Carries
    <3> QED BY <2>4, <2>6, <3>1, TtyFacts
  <2>8. Carries(p, q)
    BY <2>5, <2>7, CarriesTrans
  <2> QED BY <2>5, <2>7, <2>8 DEF SameTty, CtsSeen, Sent, Kicked, Pending, Follows, y
<1>2. CASE p.tty.xchar = NUL
  <2>1. q = TxChars(p)
    BY <1>2 DEF TxCharsHigh
  <2> QED BY <2>1, TxCharsFacts DEF Sent, Kicked
<1> QED BY <1>1, <1>2

(* serial8250_start_tx after it has set the mask: with UART_BUG_TXEN it    *)
(* looks whether the transmitter is idle, and sends.                       *)
LEMMA TxKickFacts ==
  ASSUME NEW p, Pack(p), lines \in SUBSET Lines, NEW q, q = TxKick(p),
         "THRI" \in p.up.ier, p.d.ier = p.up.ier, p.d.thrPending
  PROVE  /\ Carries(p, q) /\ Kicked(p, q) /\ CtsSeen(p.d, q.d) /\ q.d.ier = q.up.ier
         /\ q.up.ier \in {p.up.ier, p.up.ier \ {"THRI"}} /\ Going(q) /\ q.d.thrPending
<1> DEFINE e == TxEmpty(p)
<1>1. q = p \/ q = e \/ q = TxCharsHigh(e)
  BY DEF TxKick
<1>2. CASE q = p
  BY <1>2, CarriesSelf DEF Kicked, Going
<1>3. /\ Carries(p, e) /\ SameTty(p, e) /\ e.up.ier = p.up.ier /\ CtsSeen(p.d, e.d)
      /\ e.d.ier = p.d.ier /\ e.d.thrPending
  <2>1. /\ Carries(p, e) /\ SameTty(p, e) /\ e.up.ier = p.up.ier
        /\ Same(p.d, e.d, {"lsr", "iir", "irq"})
    BY TxEmptyFacts
  <2> HIDE DEF e
  <2> QED BY <2>1 DEF Same, Fields, CtsSeen
<1> HIDE DEF e
<1>4. CASE q = e
  BY <1>3, <1>4 DEF Kicked, Going, SameTty
<1>5. CASE q = TxCharsHigh(e)
  <2>1. /\ Carries(e, q) /\ CtsSeen(e.d, q.d) /\ Follows(e, q)
        /\ Sent(e, q) /\ Kicked(e, q)
    BY <1>3, <1>5, TxCharsHighFacts DEF Carries
  <2>2. Carries(p, q)
    BY <1>3, <2>1, CarriesTrans
  <2>3. q.d.thrPending
    BY <1>3, <2>1 DEF Carries
  <2>4. Stopped(e) => Stopped(q)
    <3>1. e.tty \in Ttys
      BY <1>3 DEF Carries, Pack
    <3>2. q.tty.stopped = e.tty.stopped /\ q.tty.hwStopped = e.tty.hwStopped
      BY <2>1, <3>1 DEF Kicked, Ttys
    <3> QED BY <3>2 DEF Stopped
  <2>5. Going(q)
    BY <1>3, <2>1, <2>4 DEF Sent, Going
  <2>6. Kicked(p, q) /\ CtsSeen(p.d, q.d)
    BY <1>3, <2>1 DEF Kicked, SameTty, CtsSeen
  <2> QED BY <1>3, <2>1, <2>2, <2>3, <2>5, <2>6 DEF Follows, Sent
<1> QED BY <1>1, <1>2, <1>4, <1>5

(* serial8250_start_tx.                                                    *)
LEMMA StartTxFacts ==
  ASSUME NEW p, Pack(p), lines \in SUBSET Lines, NEW q, q = StartTx(p)
  PROVE  /\ Carries(p, q) /\ Kicked(p, q) /\ CtsSeen(p.d, q.d) /\ Follows(p, q)
         /\ q.up.ier \in {p.up.ier, p.up.ier \cup {"THRI"}}
         /\ Going(q) /\ (Pending(p) => Pending(q))
<1>1. CASE "THRI" \in p.up.ier
  <2>1. q = p
    BY <1>1 DEF StartTx
  <2> QED BY <1>1, <2>1, CarriesSelf DEF Follows, Kicked, Going
<1>2. CASE "THRI" \notin p.up.ier
  <2> DEFINE ier == p.up.ier \cup {"THRI"}
             r == SetIer(p, ier)
  <2>1. ier \in SUBSET All /\ q = TxKick(r)
    BY <1>2 DEF Pack, Ups, All, StartTx
  <2>2. ier \ {"THRI"} = p.up.ier /\ "THRI" \in ier
    BY <1>2
  <2> HIDE DEF ier
  <2>3. /\ Carries(p, r) /\ SameTty(p, r) /\ CtsSeen(p.d, r.d)
        /\ r.up.ier = ier /\ r.d.ier = ier /\ r.d.thrPending
    BY <2>1, SetIerFacts
  <2> HIDE DEF r
  <2>4. /\ Carries(r, q) /\ Kicked(r, q) /\ CtsSeen(r.d, q.d) /\ q.d.ier = q.up.ier
        /\ q.up.ier \in {r.up.ier, r.up.ier \ {"THRI"}} /\ Going(q) /\ q.d.thrPending
    <3>1. Pack(r)
      BY <2>3 DEF Carries
    <3>2. "THRI" \in r.up.ier /\ r.d.ier = r.up.ier
      BY <2>2, <2>3
    <3> QED BY <2>1, <2>3, <3>1, <3>2, TxKickFacts
  <2>5. Carries(p, q)
    BY <2>3, <2>4, CarriesTrans
  <2>6. Kicked(p, q) /\ CtsSeen(p.d, q.d)
    BY <2>3, <2>4 DEF Kicked, SameTty, CtsSeen
  <2> QED BY <2>2, <2>3, <2>4, <2>5, <2>6 DEF Follows, Pending, ier
<1> QED BY <1>1, <1>2

(* uart_start.                                                             *)
LEMMA UartStartFacts ==
  ASSUME NEW p, Pack(p), lines \in SUBSET Lines, NEW q, q = UartStart(p)
  PROVE  /\ Carries(p, q) /\ Kicked(p, q) /\ CtsSeen(p.d, q.d) /\ Follows(p, q)
         /\ q.up.ier \in {p.up.ier, p.up.ier \cup {"THRI"}} /\ Going(q) /\ (Pending(p) => Pending(q))
<1>1. CASE p.xmit # <<>> /\ ~Stopped(p)
  <2>1. q = StartTx(p)
    BY <1>1 DEF UartStart
  <2> QED BY <2>1, StartTxFacts
<1>2. CASE ~(p.xmit # <<>> /\ ~Stopped(p))
  <2>1. q = p
    BY <1>2 DEF UartStart
  <2> QED BY <1>2, <2>1, CarriesSelf DEF Follows, Kicked, Going
<1> QED BY <1>1, <1>2

(* uart_handle_cts_change: the transmitter is stopped while CTS is down.   *)
LEMMA CtsChangeFacts ==
  ASSUME NEW p, Pack(p), lines \in SUBSET Lines, NEW cts \in BOOLEAN, NEW q, q = CtsChange(p, cts)
  PROVE  /\ Carries(p, q) /\ (p.xmit = <<>> => q.xmit = <<>>)
         /\ CtsSeen(p.d, q.d) /\ Follows(p, q)
         /\ q.up.ier \in {p.up.ier, p.up.ier \cup {"THRI"}, p.up.ier \ {"THRI"}}
         /\ q.tty.hwStopped = IF CtsFlow THEN ~cts ELSE p.tty.hwStopped
         /\ (Pending(p) => Pending(q)) /\ (Going(p) => Going(q))
<1> DEFINE up1 == [p EXCEPT !.tty.hwStopped = FALSE]
           dn1 == [p EXCEPT !.tty.hwStopped = TRUE]
           T == Ttys
<1>1. p = [d |-> p.d, up |-> p.up, xmit |-> p.xmit, tty |-> p.tty] /\ p.tty \in T
  BY DEF Pack
<1>2. CASE ~CtsFlow \/ (p.tty.hwStopped <=> ~cts)
  <2>1. q = p
    BY <1>2 DEF CtsChange
  <2>2. p.tty.hwStopped = IF CtsFlow THEN ~cts ELSE p.tty.hwStopped
    <3>1. p.tty.hwStopped \in BOOLEAN
      BY <1>1 DEF Ttys
    <3> QED BY <1>2, <3>1
  <2> QED BY <2>1, <2>2, CarriesSelf DEF Follows
<1>3. CASE CtsFlow /\ p.tty.hwStopped /\ cts
  <2> DEFINE y == [p.tty EXCEPT !.hwStopped = FALSE]
  <2>0. y \in T /\ y.hwStopped = FALSE
    BY <1>1 DEF Ttys
  <2>1. up1 = [d |-> p.d, up |-> p.up, xmit |-> p.xmit, tty |-> y]
    <3>1. up1 = [p EXCEPT !.tty = y]
      OBVIOUS
    <3> HIDE DEF y, T, up1
    <3> QED BY <1>1, <3>1
  <2>2. q = StartTx(up1)
    BY <1>3 DEF CtsChange
  <2> HIDE DEF y, up1
  <2>4. /\ Carries(p, up1) /\ CtsSeen(p.d, up1.d)
        /\ up1.d = p.d /\ up1.up = p.up /\ up1.xmit = p.xmit /\ up1.tty = y
    BY <2>0, <2>1, TtyFacts
  <2>5. /\ Carries(up1, q) /\ Kicked(up1, q) /\ CtsSeen(up1.d, q.d) /\ Follows(up1, q)
        /\ q.up.ier \in {up1.up.ier, up1.up.ier \cup {"THRI"}}
        /\ Going(q) /\ (Pending(up1) => Pending(q))
    BY <2>2, <2>4, StartTxFacts DEF Carries
  <2>6. Carries(p, q)
    BY <2>4, <2>5, CarriesTrans
  <2>7. q.tty.hwStopped = FALSE
    BY <2>0, <2>4, <2>5 DEF Kicked, Ttys
  <2>8. q.tty.hwStopped = IF CtsFlow THEN ~cts ELSE p.tty.hwStopped
    BY <1>3, <2>7
  <2>9. (Pending(p) => Pending(q)) /\ (p.xmit = <<>> => q.xmit = <<>>) /\ Follows(p, q)
        /\ CtsSeen(p.d, q.d) /\ q.up.ier \in {p.up.ier, p.up.ier \cup {"THRI"}}
    BY <2>4, <2>5 DEF Pending, Kicked, Follows, CtsSeen
  <2> QED BY <2>5, <2>6, <2>8, <2>9
<1>4. CASE CtsFlow /\ ~p.tty.hwStopped /\ ~cts
  <2> DEFINE y == [p.tty EXCEPT !.hwStopped = TRUE]
  <2>0. y \in T /\ y.hwStopped = TRUE
    BY <1>1 DEF Ttys
  <2>1. dn1 = [d |-> p.d, up |-> p.up, xmit |-> p.xmit, tty |-> y]
    <3>1. dn1 = [p EXCEPT !.tty = y]
      OBVIOUS
    <3> HIDE DEF y, T, dn1
    <3> QED BY <1>1, <3>1
  <2>2. q = StopTx(dn1)
    BY <1>4 DEF CtsChange
  <2> HIDE DEF y, dn1
  <2>4. /\ Carries(p, dn1) /\ CtsSeen(p.d, dn1.d)
        /\ dn1.d = p.d /\ dn1.up = p.up /\ dn1.xmit = p.xmit /\ dn1.tty = y
    BY <2>0, <2>1, TtyFacts
  <2>5. /\ Carries(dn1, q) /\ SameTty(dn1, q) /\ CtsSeen(dn1.d, q.d) /\ Follows(dn1, q)
        /\ q.up.ier = dn1.up.ier \ {"THRI"}
    BY <2>2, <2>4, StopTxFacts DEF Carries
  <2>6. Carries(p, q)
    BY <2>4, <2>5, CarriesTrans
  <2>7. Going(q) /\ Pending(q)
    BY <2>0, <2>4, <2>5 DEF SameTty, Going, Pending, Stopped
  <2>8. q.tty.hwStopped = IF CtsFlow THEN ~cts ELSE p.tty.hwStopped
    BY <1>4, <2>0, <2>4, <2>5 DEF SameTty
  <2>9. (p.xmit = <<>> => q.xmit = <<>>) /\ Follows(p, q) /\ CtsSeen(p.d, q.d)
        /\ q.up.ier = p.up.ier \ {"THRI"}
    BY <2>4, <2>5 DEF SameTty, Follows, CtsSeen
  <2> QED BY <2>6, <2>7, <2>8, <2>9
<1> QED BY <1>1, <1>2, <1>3, <1>4

(* serial8250_modem_status reads the lines.                                *)
LEMMA ModemReadFacts ==
  ASSUME NEW p, Pack(p), lines \in SUBSET Lines, NEW m, m = ModemRead(p)
  PROVE  /\ Carries(p, m.p) /\ SameTty(p, m.p) /\ m.p.up = p.up /\ m.p.d.ier = p.d.ier
         /\ m.cts = ("CTS" \in m.p.d.msr) /\ "DCTS" \notin m.p.d.msr
         /\ m.handle => "MSI" \in p.up.ier
         /\ ~m.handle /\ "MSI" \in p.up.ier =>
              "DCTS" \notin p.d.msr /\ ("CTS" \in m.p.d.msr) = ("CTS" \in p.d.msr)
<1> DEFINE r == ReadMsr(p.d, lines)
           dev == r.dev
<1>1. /\ m.p = [p EXCEPT !.d = dev] /\ m.cts = ("CTS" \in r.val)
      /\ m.handle = ("DCTS" \in r.val /\ "MSI" \in p.up.ier)
  BY DEF ModemRead
<1>2. /\ Calm(dev) /\ Right(dev)
      /\ Same(p.d, dev, {"msr", "mslTimer", "poll", "iir", "irq"})
      /\ ("CTS" \in r.val) = ("CTS" \in dev.msr) /\ "DCTS" \notin dev.msr
      /\ "DCTS" \notin r.val =>
           "DCTS" \notin p.d.msr /\ ("CTS" \in dev.msr) = ("CTS" \in p.d.msr)
  <2>1. Calm(p.d) /\ Right(p.d) /\ "LOOP" \notin p.d.mcr
    BY PackCalm
  <2> QED BY <2>1, CalmMsr
<1> HIDE DEF dev, r
<1>3. p = [d |-> p.d, up |-> p.up, xmit |-> p.xmit, tty |-> p.tty] /\ p.up \in Ups
  BY DEF Pack
<1>4. m.p = [d |-> dev, up |-> p.up, xmit |-> p.xmit, tty |-> p.tty]
  BY <1>1, <1>3
<1>5. dev.mcr = p.d.mcr /\ dev.recv = p.d.recv /\ dev.fcr = p.d.fcr /\ dev.out = p.d.out
      /\ dev.thrPending = p.d.thrPending /\ dev.ier = p.d.ier /\ dev.lsr = p.d.lsr
  BY <1>2 DEF Same, Fields
<1>6. Pack(m.p) /\ m.p.d = dev /\ m.p.up = p.up /\ SameTty(p, m.p)
  BY <1>2, <1>3, <1>4, <1>5, PackOf
<1>7. Carries(p, m.p)
  BY <1>5, <1>6 DEF Carries, SameTty
<1> QED BY <1>1, <1>2, <1>5, <1>6, <1>7

(* The mask is written to the device alone.                                *)
LEMMA MaskFacts ==
  ASSUME NEW p, Pack(p), lines \in SUBSET Lines, NEW ier \in SUBSET All,
         NEW dev, dev = WriteIer(p.d, ier, lines), NEW q, q = [p EXCEPT !.d = dev]
  PROVE  /\ Carries(p, q) /\ SameTty(p, q) /\ CtsSeen(p.d, q.d)
         /\ q.up = p.up /\ q.d = dev /\ q.d.ier = ier /\ q.d.thrPending /\ q.d.lsr = p.d.lsr
<1>1. /\ Calm(dev) /\ Right(dev) /\ dev.ier = ier /\ dev.thrPending /\ CtsSeen(p.d, dev)
      /\ Same(p.d, dev, {"ier", "msr", "mslTimer", "poll", "thrPending", "iir", "irq"})
  <2>1. ier \in SUBSET IerBits
    BY DEF All, IerBits
  <2> QED BY <2>1, PackCalm, CalmIer
<1>2. p = [d |-> p.d, up |-> p.up, xmit |-> p.xmit, tty |-> p.tty] /\ p.up \in Ups
  BY DEF Pack
<1>3. q = [d |-> dev, up |-> p.up, xmit |-> p.xmit, tty |-> p.tty]
  BY <1>2
<1>4. dev.mcr = p.d.mcr /\ dev.recv = p.d.recv /\ dev.fcr = p.d.fcr /\ dev.lsr = p.d.lsr
      /\ dev.out = p.d.out
  BY <1>1 DEF Same, Fields
<1>5. Pack(q) /\ q.d = dev /\ q.up = p.up /\ SameTty(p, q)
  BY <1>1, <1>2, <1>3, <1>4, PackOf
<1> QED BY <1>1, <1>4, <1>5 DEF Carries, SameTty

(* serial8250_modem_status: the change that the read clears is handled.    *)
LEMMA ModemStatusFacts ==
  ASSUME NEW p, Pack(p), lines \in SUBSET Lines, NEW q, q = ModemStatus(p)
  PROVE  /\ Carries(p, q) /\ (p.xmit = <<>> => q.xmit = <<>>) /\ Follows(p, q)
         /\ q.up.ier \in {p.up.ier, p.up.ier \cup {"THRI"}, p.up.ier \ {"THRI"}}
         /\ (Pending(p) => Pending(q)) /\ (Going(p) => Going(q))
         /\ "MSI" \in p.up.ier /\ CtsFlow /\ "DCTS" \notin q.d.msr =>
              \/ q.tty.hwStopped = ("CTS" \notin q.d.msr)
              \/ /\ q.tty = p.tty /\ "DCTS" \notin p.d.msr
                 /\ ("CTS" \in q.d.msr) = ("CTS" \in p.d.msr)
<1> DEFINE m == ModemRead(p)
           r == m.p
<1>1. q = IF m.handle THEN CtsChange(r, m.cts) ELSE r
  BY DEF ModemStatus, ModemHandle
<1>2. /\ Carries(p, r) /\ SameTty(p, r) /\ r.up = p.up /\ r.d.ier = p.d.ier
      /\ m.cts = ("CTS" \in r.d.msr) /\ "DCTS" \notin r.d.msr
      /\ ~m.handle /\ "MSI" \in p.up.ier =>
           "DCTS" \notin p.d.msr /\ ("CTS" \in r.d.msr) = ("CTS" \in p.d.msr)
  BY ModemReadFacts
<1> HIDE DEF m
<1>3. CASE m.handle
  <2> DEFINE cts == m.cts
  <2>1. cts \in BOOLEAN /\ q = CtsChange(r, cts) /\ Pack(r) /\ (cts <=> "CTS" \in r.d.msr)
    <3>1. cts = ("CTS" \in r.d.msr)
      BY <1>2
    <3>2. cts \in BOOLEAN /\ (cts <=> "CTS" \in r.d.msr)
      <4> HIDE DEF cts, r
      <4>1. CASE "CTS" \in r.d.msr
        BY <3>1, <4>1
      <4>2. CASE "CTS" \notin r.d.msr
        <5>1. ("CTS" \in r.d.msr) = FALSE
          BY <4>2
        <5>2. cts = FALSE
          BY <3>1, <5>1, Zenon
        <5> QED BY <4>2, <5>2
      <4> QED BY <4>1, <4>2
    <3> QED BY <1>1, <1>2, <1>3, <3>2 DEF Carries
  <2> HIDE DEF r, cts
  <2>2. /\ Carries(r, q) /\ (r.xmit = <<>> => q.xmit = <<>>) /\ CtsSeen(r.d, q.d) /\ Follows(r, q)
        /\ q.up.ier \in {r.up.ier, r.up.ier \cup {"THRI"}, r.up.ier \ {"THRI"}}
        /\ q.tty.hwStopped = IF CtsFlow THEN ~cts ELSE r.tty.hwStopped
        /\ (Pending(r) => Pending(q)) /\ (Going(r) => Going(q))
    BY <2>1, CtsChangeFacts
  <2>3. Carries(p, q)
    BY <1>2, <2>2, CarriesTrans DEF r
  <2>4. CtsFlow => (q.tty.hwStopped <=> ~cts)
    BY <2>1, <2>2
  <2>5. CtsFlow /\ "DCTS" \notin q.d.msr => (q.tty.hwStopped <=> "CTS" \notin q.d.msr)
    BY <2>1, <2>2, <2>4 DEF CtsSeen
  <2>6. q.tty.hwStopped \in BOOLEAN
    BY <2>2 DEF Carries, Pack, Ttys
  <2>7. (Pending(p) => Pending(r)) /\ (Going(p) => Going(r))
    BY <1>2 DEF r, Pending, Going, SameTty, Carries, Stopped
  <2> QED BY <1>2, <2>2, <2>3, <2>5, <2>6, <2>7 DEF r, SameTty, Follows
<1>4. CASE ~m.handle
  <2>1. q = r
    BY <1>1, <1>4
  <2> HIDE DEF r
  <2>2. (Pending(p) => Pending(r)) /\ (Going(p) => Going(r))
    BY <1>2 DEF Pending, Going, SameTty, Carries, Stopped
  <2> QED BY <1>2, <1>4, <2>1, <2>2 DEF SameTty, Follows
<1> QED BY <1>3, <1>4

(* The characters of the FIFO outlive a change of the trigger level.       *)
LEMMA SetTermiosFacts ==
  ASSUME NEW p, Pack(p), lines \in SUBSET Lines, NEW q, q = SetTermios(p)
  PROVE  /\ Pack(q) /\ SameTty(p, q) /\ CtsSeen(p.d, q.d)
         /\ q.up.type = p.up.type /\ q.up.bugs = p.up.bugs /\ q.up.saved = p.up.saved
         /\ q.up.ier = (p.up.ier \ {"MSI"}) \cup (IF CtsFlow THEN {"MSI"} ELSE {})
         /\ q.d.ier = q.up.ier /\ q.d.thrPending
         /\ q.d.fcr.fe /\ q.d.lsr = p.d.lsr /\ q.d.out = p.d.out
         /\ q.d.recv = IF p.d.fcr.fe THEN p.d.recv ELSE <<>>
         /\ p.d.fcr.fe => Carries(p, q)
<1> DEFINE ier == (p.up.ier \ {"MSI"}) \cup (IF CtsFlow THEN {"MSI"} ELSE {})
           r == SetIer(p, ier)
           yes == TRUE
           no == FALSE
           level == None.level
           a == WriteFcr(r.d, yes, level, no, no)
           b == WriteFcr(a, yes, Trig, no, no)
           dev == WriteMcr(b, b.mcr)
<1>1. ier \in SUBSET All
  BY DEF Pack, Ups, All
<1>2. q = [r EXCEPT !.d = dev]
  BY DEF SetTermios
<1>3. level \in Levels /\ Trig \in Levels /\ yes \in BOOLEAN /\ no \in BOOLEAN
  BY NoneType, PortAssumption DEF PortAssumption
<1>30. yes /\ ~no
  OBVIOUS
<1>4. ier = (p.up.ier \ {"MSI"}) \cup (IF CtsFlow THEN {"MSI"} ELSE {})
  OBVIOUS
<1> HIDE DEF ier, yes, no, level
<1>5. /\ Carries(p, r) /\ SameTty(p, r) /\ CtsSeen(p.d, r.d)
      /\ r.up.ier = ier /\ r.d.ier = ier /\ r.d.thrPending
  BY <1>1, SetIerFacts
<1>50. r.d.recv = p.d.recv /\ r.d.fcr = p.d.fcr /\ r.d.lsr = p.d.lsr /\ r.d.out = p.d.out
       /\ r.up.saved = p.up.saved
  <2> DEFINE x == WriteIer(p.d, ier, lines)
  <2>1. ier \in SUBSET IerBits /\ Calm(p.d)
    BY <1>1, PackCalm DEF All, IerBits
  <2>2. Same(p.d, x, {"ier", "msr", "mslTimer", "poll", "thrPending", "iir", "irq"})
    BY <2>1, CalmIer
  <2>3. p = [d |-> p.d, up |-> p.up, xmit |-> p.xmit, tty |-> p.tty] /\ p.up \in Ups
    BY DEF Pack
  <2>4. r = [p EXCEPT !.up.ier = ier, !.d = x]
    BY DEF SetIer
  <2> HIDE DEF x, r
  <2>5. r.d = x /\ r.up = [p.up EXCEPT !.ier = ier]
    BY <2>3, <2>4
  <2>6. r.up.saved = p.up.saved
    BY <2>3, <2>5 DEF Ups
  <2> QED BY <2>2, <2>5, <2>6 DEF Same, Fields
<1> HIDE DEF r
<1> DEFINE F == {"fifoTimer", "toPending", "recv", "xmit", "fifoBits", "itl", "fcr", "iir", "irq"}
<1>6. /\ Calm(a) /\ Right(a) /\ Same(r.d, a, F) /\ a.fcr.fe = yes
      /\ yes # r.d.fcr.fe => a.recv = <<>>
      /\ yes = r.d.fcr.fe => a.recv = r.d.recv
  <2>1. Calm(r.d) /\ Right(r.d)
    BY <1>5, PackCalm DEF Carries
  <2>2. /\ Calm(a) /\ (Right(r.d) => Right(a)) /\ Same(r.d, a, F) /\ a.fcr.fe = yes
        /\ yes # r.d.fcr.fe \/ no => a.recv = <<>>
        /\ yes = r.d.fcr.fe /\ ~no => a.recv = r.d.recv
    BY <1>3, <2>1, CalmFcr, SMTT(30)
  <2> QED BY <1>30, <2>1, <2>2
<1> HIDE DEF a
<1>7. /\ Calm(b) /\ Right(b) /\ Same(a, b, F) /\ b.fcr.fe = yes /\ b.recv = a.recv
  <2>1. /\ Calm(b) /\ (Right(a) => Right(b)) /\ Same(a, b, F) /\ b.fcr.fe = yes
        /\ yes # a.fcr.fe \/ no => b.recv = <<>>
        /\ yes = a.fcr.fe /\ ~no => b.recv = a.recv
    BY <1>3, <1>6, CalmFcr, SMTT(30)
  <2> QED BY <1>30, <1>6, <2>1
<1> HIDE DEF b
<1>8. Calm(dev) /\ Right(dev) /\ Same(b, dev, {"mcr", "mslTimer"}) /\ dev.mcr = b.mcr
  <2>1. b.mcr \in SUBSET McrBits
    BY <1>7 DEF Calm, Dev
  <2> QED BY <1>7, <2>1, CalmMcr
<1> HIDE DEF dev
<1>9. r.d.fcr.fe \in BOOLEAN
  BY <1>5 DEF Carries, Pack, Dev
<1>10. /\ dev.mcr = r.d.mcr /\ dev.lsr = r.d.lsr /\ dev.out = r.d.out /\ dev.ier = r.d.ier
       /\ dev.thrPending = r.d.thrPending /\ dev.msr = r.d.msr
       /\ dev.fcr.fe = yes /\ dev.recv = b.recv
  BY <1>6, <1>7, <1>8 DEF Same, Fields
<1>11. dev.recv = IF p.d.fcr.fe THEN p.d.recv ELSE <<>>
  <2>1. yes = TRUE
    BY DEF yes
  <2>2. CASE r.d.fcr.fe = TRUE
    BY <1>50, <1>6, <1>7, <1>10, <2>1, <2>2
  <2>3. CASE r.d.fcr.fe = FALSE
    BY <1>50, <1>6, <1>7, <1>10, <2>1, <2>3
  <2> QED BY <1>9, <2>2, <2>3
<1>12. Pack(q) /\ q.d = dev /\ q.up = r.up /\ SameTty(r, q)
  <2>1. r = [d |-> r.d, up |-> r.up, xmit |-> r.xmit, tty |-> r.tty] /\ r.up \in Ups /\ Pack(r)
    BY <1>5 DEF Carries, Pack
  <2>2. q = [d |-> dev, up |-> r.up, xmit |-> r.xmit, tty |-> r.tty]
    BY <1>2, <2>1
  <2> QED BY <1>8, <1>10, <2>1, <2>2, PackOf
<1>13. p.d.fcr.fe => Carries(p, q)
  <2>1. p.d.fcr.fe => dev.recv = p.d.recv /\ dev.fcr.fe = p.d.fcr.fe
    BY <1>30, <1>9, <1>10, <1>11, <1>50
  <2> QED BY <1>5, <1>10, <1>12, <1>50, <2>1 DEF Carries, SameTty
<1>14. q.d.fcr.fe
  BY <1>30, <1>10, <1>12
<1> QED BY <1>4, <1>5, <1>10, <1>11, <1>12, <1>13, <1>14, <1>50, ZenonT(40) DEF SameTty, CtsSeen, Carries

(* What serial8250_startup does to the device sends nothing, and leaves    *)
(* the FIFOs off.                                                          *)
Started(s, t) == Calm(t) /\ t.out = s.out /\ t.mcr = s.mcr /\ (~s.fcr.fe => ~t.fcr.fe)

(* The first test finds the interrupt a second time.                       *)
LEMMA ThreTestFacts ==
  ASSUME NEW s, Calm(s), lines \in SUBSET Lines, NEW t, t = ThreTest(s)
  PROVE  ~t.bad /\ Started(s, t.dev) /\ Right(t.dev)
<1> DEFINE none == {}
           a == ReadLsr(s).dev
           one == Thri(a)
           b == WriteIer(one.dev, none, lines)
           two == Thri(b)
           c == WriteIer(two.dev, none, lines)
<1>1. t.dev = c /\ (two.val # "NONE" => ~t.bad) /\ none \in SUBSET IerBits
  BY DEF ThreTest
<1> HIDE DEF none
<1>2. Calm(a) /\ Same(s, a, {"lsr", "iir", "irq"})
  BY CalmLsr
<1> HIDE DEF a
<1>3. Calm(one.dev) /\ one.dev.mcr = a.mcr /\ one.dev.fcr = a.fcr /\ one.dev.out = a.out
  BY <1>2, ThriFacts
<1> HIDE DEF one
<1>4. Calm(b) /\ Same(one.dev, b, {"ier", "msr", "mslTimer", "poll", "thrPending", "iir", "irq"})
  BY <1>1, <1>3, CalmIer
<1> HIDE DEF b
<1>5. two.val = "THRI" /\ Calm(two.dev)
      /\ two.dev.mcr = b.mcr /\ two.dev.fcr = b.fcr /\ two.dev.out = b.out
  BY <1>4, ThriFacts
<1> HIDE DEF two
<1>6. /\ Calm(c) /\ Right(c)
      /\ Same(two.dev, c, {"ier", "msr", "mslTimer", "poll", "thrPending", "iir", "irq"})
  BY <1>1, <1>5, CalmIer
<1> HIDE DEF c
<1>7. a.mcr = s.mcr /\ a.fcr = s.fcr /\ a.out = s.out
  BY <1>2 DEF Same, Fields
<1>8. b.mcr = one.dev.mcr /\ b.fcr = one.dev.fcr /\ b.out = one.dev.out
  BY <1>4 DEF Same, Fields
<1>9. c.mcr = two.dev.mcr /\ c.fcr = two.dev.fcr /\ c.out = two.dev.out
  BY <1>6 DEF Same, Fields
<1>10. t.dev = c /\ ~t.bad
  BY <1>1, <1>5
<1> QED BY <1>3, <1>5, <1>6, <1>7, <1>8, <1>9, <1>10 DEF Started

(* The second test asks for the interrupt, and it is pending at once.      *)
LEMMA TxenOnFacts ==
  ASSUME NEW s, Calm(s), Right(s), lines \in SUBSET Lines, NEW t, t = TxenOn(s)
  PROVE  /\ Calm(t) /\ Right(t) /\ t.out = s.out /\ t.fcr = s.fcr /\ "LOOP" \notin t.mcr
         /\ t.ier = {"THRI"} /\ t.thrPending
<1> DEFINE none == {}
           bits == IF mode = "polled" THEN {} ELSE {"OUT2"}
           ask == {"THRI"}
           a == WriteLcr(s, none)
           b == WriteMcr(a, bits)
<1>1. /\ t = WriteIer(b, ask, lines) /\ none = {} /\ ask \in SUBSET IerBits /\ ask = {"THRI"}
      /\ bits \in SUBSET McrBits /\ "LOOP" \notin bits
  BY DEF TxenOn, IerBits, McrBits
<1> HIDE DEF none, bits, ask
<1>2. a = s
  BY <1>1, CalmLcr
<1> HIDE DEF a
<1>3. Calm(b) /\ b.mcr = bits /\ Same(s, b, {"mcr", "mslTimer"})
  BY <1>1, <1>2, CalmMcr
<1> HIDE DEF b
<1>4. /\ Calm(t) /\ Right(t) /\ t.ier = ask /\ t.thrPending
      /\ Same(b, t, {"ier", "msr", "mslTimer", "poll", "thrPending", "iir", "irq"})
  BY <1>1, <1>3, CalmIer
<1>5. b.out = s.out /\ b.fcr = s.fcr /\ t.out = b.out /\ t.fcr = b.fcr /\ t.mcr = b.mcr
  BY <1>3, <1>4 DEF Same, Fields
<1> QED BY <1>1, <1>3, <1>4, <1>5

(* With the interrupt pending the test finds it.                           *)
LEMMA TxenOffFacts ==
  ASSUME NEW s, Calm(s), Right(s), lines \in SUBSET Lines, NEW t, t = TxenOff(s)
  PROVE  /\ Started(s, t.dev) /\ Right(t.dev)
         /\ s.ier = {"THRI"} /\ s.thrPending => ~t.silent
<1> DEFINE none == {}
           lsr == ReadLsr(s)
           a == lsr.dev
           iir == ReadIir(a)
           b == iir.dev
           c == WriteIer(b, none, lines)
<1>1. /\ t = [dev |-> c, silent |-> "TEMT" \in lsr.val /\ iir.val = "NONE"]
      /\ none \in SUBSET IerBits
  BY DEF TxenOff
<1>2. iir.val = a.iir
  BY DEF ReadIir
<1> HIDE DEF none
<1>3. Calm(a) /\ Right(a) /\ Same(s, a, {"lsr", "iir", "irq"})
  BY CalmLsr
<1>4. Calm(b) /\ Same(a, b, {"thrPending", "iir", "irq"})
  <2> HIDE DEF lsr
  <2> QED BY <1>3, CalmIir
<1>5. /\ Calm(c) /\ Right(c)
      /\ Same(b, c, {"ier", "msr", "mslTimer", "poll", "thrPending", "iir", "irq"})
  <2> HIDE DEF iir
  <2> QED BY <1>1, <1>4, CalmIer
<1> HIDE DEF lsr, iir, c
<1>6. t.dev = c /\ t.silent = ("TEMT" \in lsr.val /\ a.iir = "NONE")
  BY <1>1, <1>2
<1> HIDE DEF a, b
<1>7. /\ a.mcr = s.mcr /\ a.fcr = s.fcr /\ a.out = s.out /\ a.ier = s.ier
      /\ a.thrPending = s.thrPending
  BY <1>3 DEF Same, Fields
<1>8. b.mcr = a.mcr /\ b.fcr = a.fcr /\ b.out = a.out
  BY <1>4 DEF Same, Fields
<1>9. c.mcr = b.mcr /\ c.fcr = b.fcr /\ c.out = b.out
  BY <1>5 DEF Same, Fields
<1>10. s.ier = {"THRI"} /\ s.thrPending => a.iir # "NONE"
  BY <1>3, <1>7 DEF Right, Cause
<1> QED BY <1>5, <1>6, <1>7, <1>8, <1>9, <1>10 DEF Started

(* What the backup timer may send.                                         *)
LEMMA BackupSendFacts ==
  ASSUME NEW p, Pack(p), lines \in SUBSET Lines, NEW iir, NEW lsr,
         iir = "NONE", NEW q, q = BackupSend(p, iir, lsr)
  PROVE  /\ Carries(p, q) /\ CtsSeen(p.d, q.d) /\ Sent(p, q)
         /\ q.tty \in {p.tty, [p.tty EXCEPT !.xchar = NUL]}
<1>1. q = p \/ q = TxCharsHigh(p)
  BY DEF BackupSend
<1>2. CASE q = p
  BY <1>2, CarriesSelf DEF Sent
<1>3. CASE q = TxCharsHigh(p)
  BY <1>3, TxCharsHighFacts DEF Kicked
<1> QED BY <1>1, <1>2, <1>3

(* serial8250_backup_timeout: the mask of the device is restored, whatever *)
(* has become of its shadow.                                               *)
LEMMA BackupKickFacts ==
  ASSUME NEW p, Pack(p), lines \in SUBSET Lines, NEW q, q = BackupKick(p)
  PROVE  /\ Carries(p, q) /\ CtsSeen(p.d, q.d) /\ Sent(p, q)
         /\ q.tty \in {p.tty, [p.tty EXCEPT !.xchar = NUL]}
         /\ q.d.ier = p.d.ier /\ q.d.thrPending
<1> DEFINE none == {}
           a == WriteIer(p.d, none, lines)
           r == [p EXCEPT !.d = a]
           e == TxEmpty(r)
           lsr == ReadLsr(a).val
           val == "NONE"
           sent == BackupSend(e, val, lsr)
           dev == WriteIer(sent.d, p.d.ier, lines)
<1>0. none \in SUBSET All /\ p.d.ier \in SUBSET All /\ none = {} /\ val = "NONE"
  BY PackCalm DEF All, IerBits
<1>1. ReadIir(WriteIer(p.d, {}, lines)) = [val |-> a.iir, dev |-> ReadIir(a).dev]
  BY DEF ReadIir
<1>2. LET x == ReadIir(a).dev
      IN  q = [BackupSend(TxEmpty([p EXCEPT !.d = x]), a.iir, ReadLsr(x).val)
                 EXCEPT !.d = WriteIer(@, p.d.ier, lines)]
  BY <1>1 DEF BackupKick
<1> HIDE DEF none, val
<1>3. Calm(a) /\ Right(a) /\ a.ier = none
  <2>1. none \in SUBSET IerBits
    BY <1>0 DEF All, IerBits
  <2> QED BY <2>1, PackCalm, CalmIer
<1>4. /\ Carries(p, r) /\ SameTty(p, r) /\ CtsSeen(p.d, r.d)
      /\ r.up = p.up /\ r.d = a
  <2>1. none \in SUBSET All
    BY <1>0
  <2> QED BY <2>1, MaskFacts
<1> HIDE DEF a
<1>5. a.iir = val
  BY <1>0, <1>3, NoCause DEF Right
<1>6. ReadIir(a).dev = a
  BY <1>0, <1>3, <1>5, CalmIir
<1> HIDE DEF lsr
<1>7. q = [sent EXCEPT !.d = dev]
  BY <1>2, <1>5, <1>6 DEF lsr
<1> HIDE DEF r
<1>8. Carries(r, e) /\ SameTty(r, e) /\ e.up.ier = r.up.ier /\ CtsSeen(r.d, e.d)
  <2>1. /\ Carries(r, e) /\ SameTty(r, e) /\ e.up.ier = r.up.ier
        /\ Same(r.d, e.d, {"lsr", "iir", "irq"})
    BY <1>4, TxEmptyFacts DEF Carries
  <2> QED BY <2>1 DEF Same, Fields, CtsSeen
<1> HIDE DEF e
<1>9. /\ Carries(e, sent) /\ CtsSeen(e.d, sent.d) /\ Sent(e, sent)
      /\ sent.tty \in {e.tty, [e.tty EXCEPT !.xchar = NUL]}
  BY <1>0, <1>8, BackupSendFacts DEF Carries
<1> HIDE DEF sent
<1>10. /\ Carries(sent, q) /\ SameTty(sent, q) /\ CtsSeen(sent.d, q.d)
       /\ q.up = sent.up /\ q.d.ier = p.d.ier /\ q.d.thrPending
  <2>1. Pack(sent)
    BY <1>9 DEF Carries
  <2>2. p.d.ier \in SUBSET All
    BY <1>0
  <2> QED BY <1>7, <2>1, <2>2, MaskFacts, SMTT(30)
<1>11. Carries(p, q)
  BY <1>4, <1>8, <1>9, <1>10, CarriesTrans
<1>12. CtsSeen(p.d, q.d)
  BY <1>4, <1>8, <1>9, <1>10 DEF CtsSeen
<1>13. Sent(p, q) /\ q.tty \in {p.tty, [p.tty EXCEPT !.xchar = NUL]}
  BY <1>4, <1>8, <1>9, <1>10 DEF Sent, SameTty, Stopped
<1> QED BY <1>10, <1>11, <1>12, <1>13

(* What an operation leaves behind is what is there next.                  *)
LEMMA PutPack ==
  ASSUME NEW q, Pack(q), Put(q), mode' = mode
  PROVE  Here' = q /\ Pack(Here)'
<1>1. Here' = q
  BY DEF Here, Put, Pack
<1>2. Pack(Here)'
  BY <1>1 DEF Pack, Calm
<1> QED BY <1>1, <1>2

(* The history of the receiver and of the ring is not touched.             *)
Logged ==
  /\ hist' \in Hists
  /\ \A f \in {"queued", "got", "accepted", "owed", "ghosts", "flips", "taken"} : hist'[f] = hist[f]

(* A step outside the history.                                             *)
LEMMA LoggedSame == ASSUME hist \in Hists, hist' = hist PROVE Logged
BY DEF Logged

(* An event that is only counted.                                          *)
LEMMA LoggedSpent == ASSUME hist \in Hists, Request, hist' = Spent PROVE Logged
<1>1. MaxEvents \in Nat
  BY PortAssumption DEF PortAssumption
<1>2. /\ hist \in [events : 0 .. MaxEvents, written : Nat, queued : Seq(Chars), got : Seq(Chars),
                    accepted : Seq(Chars), owed : BOOLEAN, ghosts : Nat, flips : Nat, taken : BOOLEAN]
      /\ hist.written <= hist.events /\ hist.events < MaxEvents
  BY DEF Hists, Request
<1> DEFINE e == hist.events + 1
<1>3. e \in 0 .. MaxEvents /\ hist.events <= e /\ hist' = [hist EXCEPT !.events = e]
  BY <1>1, <1>2 DEF Spent
<1> HIDE DEF e
<1>4. hist' \in Hists
  <2>1. hist.written <= e
    BY <1>1, <1>2, <1>3
  <2>2. hist'.written = hist.written /\ hist'.events = e
    BY <1>2, <1>3
  <2>3. hist' \in [events : 0 .. MaxEvents, written : Nat, queued : Seq(Chars), got : Seq(Chars),
                   accepted : Seq(Chars), owed : BOOLEAN, ghosts : Nat, flips : Nat, taken : BOOLEAN]
    BY <1>2, <1>3
  <2> QED BY <2>1, <2>2, <2>3 DEF Hists
<1>5. \A f \in {"queued", "got", "accepted", "owed", "ghosts", "flips", "taken"} : hist'[f] = hist[f]
  BY <1>2, <1>3
<1> QED BY <1>4, <1>5 DEF Logged

(* A step that is not a turn of the receive loop, and does not touch the   *)
(* receiver but for a flag that it saves.                                  *)
LEMMA ReceiverKept ==
  ASSUME Types, Receiving, BreakKept, phase' = phase, hist' \in Hists,
         d'.fcr.fe = d.fcr.fe, d'.recv = d.recv, ("DR" \in d'.lsr) = ("DR" \in d.lsr),
         "BI" \in d.lsr \cup up.saved => "BI" \in d'.lsr \cup up'.saved,
         \A f \in {"got", "accepted", "owed", "ghosts", "flips"} : hist'[f] = hist[f],
         \/ h.pc # "rx" /\ h'.pc # "rx"
         \/ h' = h /\ d'.lsr = d.lsr /\ up'.saved = up.saved
  PROVE  Receiving' /\ BreakKept'
<1>1. /\ hist'.got = hist.got /\ hist'.accepted = hist.accepted /\ hist'.owed = hist.owed
      /\ hist'.ghosts = hist.ghosts /\ hist'.flips = hist.flips
  OBVIOUS
<1>2. Ghost' => Ghost
  BY DEF Ghost
<1>3. Receiving'
  BY <1>1, <1>2 DEF Receiving, Open
<1>4. Late' => Late
  BY DEF Late
<1>5. BreakNotLost'
  BY <1>1 DEF BreakKept, BreakNotLost, Open
<1> QED BY <1>1, <1>3, <1>4, <1>5 DEF BreakKept, Open

(* A step that lets a change of CTS be seen and stops nobody for it.       *)
LEMMA CtsSame ==
  ASSUME CtsKept, phase' = phase, CtsSeen(d, d'), tty'.hwStopped = tty.hwStopped,
         ("MSI" \in up'.ier) = ("MSI" \in up.ier),
         h' = h \/ (h.pc # "cts" /\ h'.pc # "cts")
  PROVE  CtsKept'
<1>1. "DCTS" \notin d'.msr => "DCTS" \notin d.msr /\ (("CTS" \in d'.msr) <=> ("CTS" \in d.msr))
  BY DEF CtsSeen
<1>2. CtsFlow /\ Open' => CtsFlow /\ Open
  BY DEF Open
<1>3. CASE h' = h
  BY <1>1, <1>2, <1>3 DEF CtsKept, Open, Starting
<1>4. CASE h.pc # "cts" /\ h'.pc # "cts"
  BY <1>1, <1>2, <1>4 DEF CtsKept, Open, Starting
<1> QED BY <1>3, <1>4

(* An operation that some thread runs between two passes of the handler,   *)
(* or in one of its gaps.                                                  *)
LEMMA OperationStep ==
  ASSUME PortInv, NEW q, Put(q), Carries(Here, q), Elsewhere, Logged,
         Free, h.pc # "rx", wr' \in {"idle", "start"}, th' \in {"idle", "start", "clear"},
         phase # "ready" => wr' = "idle" /\ th' = "idle",
         lock # "con", Shadowed(d.ier, up.ier) => Shadowed(q.d.ier, q.up.ier),
         xmit = <<>> => q.xmit = <<>>,
         phase = "ready" /\ wr' = "idle" => Going(q),
         Pending(Here) => Pending(q)
  PROVE  Types' /\ Locks' /\ Shadow' /\ Out' /\ Sending' /\ Receiving' /\ BreakKept' /\ Blame'
<1>1. UNCHANGED <<lines, mode, phase, lock, h, con>>
  BY DEF Elsewhere
<1>2. Here' = q /\ Pack(Here)'
  BY <1>1, PutPack DEF Carries
<1>3. d' = q.d /\ up' = q.up /\ xmit' = q.xmit /\ tty' = q.tty
  BY DEF Put
<1>4. Here.d = d /\ Here.up = up /\ Here.xmit = xmit
  BY DEF Here
<1>5. Types'
  BY <1>1, <1>2 DEF PortInv, Types, Logged
<1>6. Locks'
  BY <1>1, <1>3, <1>4 DEF PortInv, Locks, Carries
<1>7. Shadow'
  <2>1. Shadowed(d.ier, up.ier) => Shadowed(d.ier, up.ier)'
    BY <1>1, <1>3 DEF Shadowed
  <2> QED BY <1>1, <2>1 DEF PortInv, Shadow, Live
<1>8. Out'
  <2>1. UserChars(d'.out) \o xmit' = UserChars(d.out) \o xmit /\ hist'.queued = hist.queued
    BY <1>3, <1>4 DEF Carries, Logged
  <2> QED BY <1>1, <1>3, <2>1 DEF PortInv, Out, Session
<1>9. Sending'
  <2>1. Going(q) => Going(Here)'
    BY <1>2 DEF Going, Stopped
  <2>2. Pending(q) => Pending(Here)'
    BY <1>2 DEF Pending
  <2> QED BY <1>1, <2>1, <2>2 DEF PortInv, Sending
<1>10. Receiving' /\ BreakKept'
  <2>1. hist' \in Hists /\ \A f \in {"got", "accepted", "owed", "ghosts", "flips", "taken"} : hist'[f] = hist[f]
    BY DEF Logged
  <2>2. /\ d'.fcr.fe = d.fcr.fe /\ d'.recv = d.recv /\ ("DR" \in d'.lsr) = ("DR" \in d.lsr)
        /\ "BI" \in d.lsr \cup up.saved => "BI" \in d'.lsr \cup up'.saved
    BY <1>3, <1>4 DEF Carries
  <2>3. phase' = phase /\ h'.pc # "rx"
    BY <1>1
  <2> QED BY <2>1, <2>2, <2>3, ReceiverKept DEF PortInv
<1>11. Blame'
  <2>1. phase # "txen"
    BY DEF PortInv, Locks, Free
  <2>2. phase' = phase /\ up'.bugs = up.bugs /\ hist'.taken = hist.taken
    BY <1>1, <1>3, <1>4 DEF Carries, Logged
  <2> QED BY <2>1, <2>2 DEF PortInv, Blame
<1> QED BY <1>5, <1>6, <1>7, <1>8, <1>9, <1>10, <1>11

(* The request of a thread that changes neither the device nor its shadow. *)
LEMMA RequestStep ==
  ASSUME PortInv, d' = d, up' = up, Elsewhere, hist' \in Hists,
         \A f \in {"got", "accepted", "owed", "ghosts", "flips", "taken"} : hist'[f] = hist[f],
         wr' \in {"idle", "start"}, th' \in {"idle", "start", "clear"},
         phase = "ready", xmit' \in Seq(Events), Len(xmit') <= XMIT_SIZE, tty' \in Ttys,
         tty'.hwStopped = tty.hwStopped,
         UserChars(d.out) \o xmit' = hist'.queued,
         wr' = "idle" => Going(Here)'
  PROVE  PortInv'
<1>1. UNCHANGED <<lines, mode, phase, lock, h, con, d, up>>
  BY DEF Elsewhere
<1>2. Pack(Here)'
  BY <1>1 DEF PortInv, Types, Pack, Here, Calm
<1>3. Types'
  BY <1>1, <1>2 DEF PortInv, Types
<1>4. Locks'
  BY <1>1 DEF PortInv, Locks
<1>5. Shadow'
  BY <1>1 DEF PortInv, Shadow, Shadowed, Live
<1>6. Out'
  BY <1>1 DEF PortInv, Out, Session, Starting
<1>7. Sending'
  BY <1>1 DEF PortInv, Sending, Pending, Here
<1>8. Receiving' /\ BreakKept'
  BY <1>1, ReceiverKept DEF PortInv
<1>9. CtsKept'
  BY <1>1, CtsSame DEF PortInv, CtsSeen
<1>10. Blame'
  BY <1>1 DEF PortInv, Blame
<1> QED BY <1>3, <1>4, <1>5, <1>6, <1>7, <1>8, <1>9, <1>10 DEF PortInv

(* The types of what a step of the handler reads.                          *)
LEMMA HereFacts ==
  ASSUME PortInv
  PROVE  /\ Pack(Here) /\ lines \in SUBSET Lines /\ hist \in Hists /\ h \in Handlers
         /\ con \in [pc : {"idle", "put", "end"}, ier : SUBSET All] /\ lock \in {"none", "irq", "con", "open"}
         /\ Here.d = d /\ Here.up = up /\ Here.xmit = xmit /\ Here.tty = tty
         /\ Here = [d |-> d, up |-> up, xmit |-> xmit, tty |-> tty]
         /\ d \in Dev /\ Calm(d) /\ Right(d) /\ "LOOP" \notin d.mcr /\ up \in Ups /\ tty \in Ttys
BY DEF PortInv, Types, Here, Pack, Calm

(* Nobody holds the lock.                                                  *)
LEMMA FreeFacts ==
  ASSUME PortInv, Free
  PROVE  /\ Pack(Here) /\ lines \in SUBSET Lines /\ hist \in Hists
         /\ lock # "con" /\ h.pc # "rx" /\ h.pc # "cts" /\ con.pc = "idle" /\ phase # "txen"
         /\ Live => Shadowed(d.ier, up.ier)
         /\ Here.d = d /\ Here.up = up /\ Here.xmit = xmit /\ Here.tty = tty
BY DEF PortInv, Types, Locks, Shadow, Free, Holding, Here

(* The mask and its shadow move together.                                  *)
LEMMA FollowsShadow ==
  ASSUME NEW p, NEW q, Follows(p, q)
  PROVE  Shadowed(p.d.ier, p.up.ier) => Shadowed(q.d.ier, q.up.ier)
BY DEF Follows, Shadowed

(* uart_write fills the ring, the interrupt to be asked for.               *)
LEMMA TtyWriteStep == ASSUME PortInv, TtyWrite PROVE PortInv'
<1> DEFINE c == hist.written + 1
<1>1. /\ phase = "ready" /\ Request /\ HasRoom /\ wr' = "start" /\ Elsewhere
      /\ xmit' = Append(xmit, c) /\ hist' = [Spent EXCEPT !.written = c, !.queued = Append(@, c)]
      /\ UNCHANGED <<d, up, tty, th>>
  BY DEF TtyWrite
<1>2. /\ xmit \in Seq(Events) /\ tty \in Ttys /\ hist \in Hists /\ th \in {"idle", "start", "clear"}
      /\ UserChars(d.out) \o xmit = hist.queued /\ UserChars(d.out) \in Seq(Chars)
  <2>1. Pack(Here) /\ hist \in Hists /\ th \in {"idle", "start", "clear"}
        /\ UserChars(d.out) \o xmit = hist.queued
    BY <1>1 DEF PortInv, Types, Out, Session
  <2>2. UserChars(Here.d.out) \in Seq(Chars)
    BY <2>1, PackCalm
  <2> QED BY <2>1, <2>2 DEF Pack, Here
<1>3. MaxEvents \in Nat /\ XMIT_SIZE \in Nat /\ Events \subseteq Chars
  BY PortAssumption DEF PortAssumption, Events
<1> DEFINE e == hist.events + 1
<1>4. c \in Events /\ c \in Nat /\ c <= e /\ e \in 0 .. MaxEvents
  BY <1>1, <1>2, <1>3, SMTT(30) DEF Hists, Request, Events
<1>5. hist' = [[hist EXCEPT !.events = e] EXCEPT !.written = c, !.queued = Append(hist.queued, c)]
  BY <1>1, <1>2 DEF Spent, Hists
<1> HIDE DEF c, e
<1>6. xmit' \in Seq(Events) /\ Len(xmit') <= XMIT_SIZE
  BY <1>1, <1>2, <1>3, <1>4, AppendProperties, LenProperties DEF HasRoom
<1>7. Append(hist.queued, c) \in Seq(Chars)
  BY <1>2, <1>3, <1>4, AppendProperties DEF Hists
<1>8. hist' \in Hists
  BY <1>2, <1>4, <1>5, <1>7 DEF Hists
<1>9. \A f \in {"got", "accepted", "owed", "ghosts", "flips", "taken"} : hist'[f] = hist[f]
  BY <1>2, <1>5 DEF Hists
<1>10. UserChars(d.out) \o xmit' = hist'.queued
  <2>1. hist'.queued = Append(hist.queued, c)
    BY <1>2, <1>5 DEF Hists
  <2> DEFINE u == UserChars(d.out)
  <2>2. xmit \in Seq(Chars) /\ c \in Chars
    BY <1>2, <1>3, <1>4, SeqMonotonic
  <2>3. u \in Seq(Chars) /\ u \o xmit = hist.queued
    BY <1>2
  <2> HIDE DEF u
  <2>4. u \o Append(xmit, c) = Append(u \o xmit, c)
    <3>1. u \o (xmit \o <<c>>) = (u \o xmit) \o <<c>>
      BY <2>2, <2>3, ConcatAssociative, SMTT(30)
    <3>2. Append(xmit, c) = xmit \o <<c>>
      BY <2>2, AppendIsConcat
    <3>3. u \o xmit \in Seq(Chars)
      BY <2>2, <2>3, ConcatProperties
    <3>4. Append(u \o xmit, c) = (u \o xmit) \o <<c>>
      BY <2>2, <3>3, AppendIsConcat
    <3> QED BY <3>1, <3>2, <3>4
  <2> QED BY <1>1, <2>1, <2>3, <2>4 DEF u
<1> QED BY <1>1, <1>2, <1>6, <1>8, <1>9, <1>10, RequestStep

(* uart_flush_buffer forgets what was not sent.                            *)
LEMMA TtyFlushStep == ASSUME PortInv, TtyFlush PROVE PortInv'
<1> DEFINE u == UserChars(d.out)
           e == hist.events + 1
           empty == <<>>
<1>1. /\ phase = "ready" /\ Request /\ Elsewhere
      /\ xmit' = empty /\ hist' = [Spent EXCEPT !.queued = u]
      /\ UNCHANGED <<d, up, tty, wr, th>>
  BY DEF TtyFlush
<1>2. /\ tty \in Ttys /\ hist \in Hists /\ th \in {"idle", "start", "clear"} /\ wr \in {"idle", "start"}
      /\ u \in Seq(Chars)
  <2>1. Pack(Here) /\ hist \in Hists /\ th \in {"idle", "start", "clear"} /\ wr \in {"idle", "start"}
    BY <1>1 DEF PortInv, Types
  <2>2. UserChars(Here.d.out) \in Seq(Chars)
    BY <2>1, PackCalm
  <2> QED BY <2>1, <2>2 DEF Pack, Here
<1> HIDE DEF u
<1>3. MaxEvents \in Nat /\ XMIT_SIZE \in Nat
  BY PortAssumption DEF PortAssumption
<1>4. e \in 0 .. MaxEvents /\ hist.written <= e
  BY <1>1, <1>2, <1>3 DEF Hists, Request
<1>5. hist' = [[hist EXCEPT !.events = e] EXCEPT !.queued = u]
  BY <1>1, <1>2 DEF Spent, Hists
<1> HIDE DEF e
<1>6. hist' \in Hists
  BY <1>2, <1>4, <1>5 DEF Hists
<1>7. \A f \in {"got", "accepted", "owed", "ghosts", "flips", "taken"} : hist'[f] = hist[f]
  BY <1>2, <1>5 DEF Hists
<1>8. hist'.queued = u
  BY <1>2, <1>5 DEF Hists
<1>9. u \o empty = u /\ empty \in Seq(Events) /\ Len(empty) = 0
  BY <1>2
<1>10. Going(Here)'
  BY <1>1 DEF Going, Here
<1> HIDE DEF empty
<1> QED BY <1>1, <1>2, <1>3, <1>6, <1>7, <1>8, <1>9, <1>10, RequestStep DEF u

(* uart_throttle and uart_unthrottle set x_char without the lock.          *)
LEMMA TtyThrottleStep == ASSUME PortInv, TtyThrottle PROVE PortInv'
<1>1. /\ phase = "ready" /\ Request /\ Elsewhere /\ hist' = Spent
      /\ UNCHANGED <<d, up, xmit, wr>> /\ th' \in {"start", "clear"}
      /\ \E b \in BOOLEAN, c \in {tty.xchar, STOP, START} : tty' = [tty EXCEPT !.throttled = b, !.xchar = c]
  <2>1. tty \in Ttys
    BY DEF PortInv, Types, Pack, Here
  <2>2. \A b : [tty EXCEPT !.throttled = b] = [tty EXCEPT !.throttled = b, !.xchar = tty.xchar]
    BY <2>1 DEF Ttys
  <2> QED BY <2>2 DEF TtyThrottle
<1>2. /\ tty \in Ttys /\ hist \in Hists /\ wr \in {"idle", "start"}
      /\ xmit \in Seq(Events) /\ Len(xmit) <= XMIT_SIZE
      /\ UserChars(d.out) \o xmit = hist.queued
  BY <1>1 DEF PortInv, Types, Pack, Here, Out, Session
<1>3. tty' \in Ttys /\ tty'.hwStopped = tty.hwStopped /\ tty'.stopped = tty.stopped
  BY <1>1, <1>2 DEF Ttys
<1>4. Logged
  BY <1>1, <1>2, LoggedSpent
<1>5. wr' = "idle" => Going(Here)'
  BY <1>1, <1>3 DEF PortInv, Sending, Going, Here, Stopped
<1> QED BY <1>1, <1>2, <1>3, <1>4, <1>5, RequestStep DEF Logged

(* The parts of the invariant are the invariant.                           *)
LEMMA Together ==
  ASSUME Types' /\ Locks' /\ Shadow' /\ Out' /\ Sending' /\ Receiving' /\ BreakKept' /\ Blame', CtsKept'
  PROVE  PortInv'
BY DEF PortInv

(* uart_write asks for the transmit interrupt.                             *)
LEMMA TtyWriteStartStep == ASSUME PortInv, TtyWriteStart PROVE PortInv'
<1> DEFINE q == UartStart(Here)
<1>1. Free /\ Put(q) /\ wr' = "idle" /\ UNCHANGED <<th, hist>> /\ Elsewhere
  BY DEF TtyWriteStart
<1>2. /\ Carries(Here, q) /\ Kicked(Here, q) /\ CtsSeen(Here.d, q.d) /\ Follows(Here, q)
      /\ q.up.ier \in {Here.up.ier, Here.up.ier \cup {"THRI"}} /\ Going(q)
      /\ (Pending(Here) => Pending(q))
  BY <1>1, FreeFacts, UartStartFacts
<1> HIDE DEF q
<1>3. Shadowed(d.ier, up.ier) => Shadowed(q.d.ier, q.up.ier)
  BY <1>1, <1>2, FreeFacts, FollowsShadow
<1>4. (xmit = <<>> => q.xmit = <<>>) /\ Logged /\ th \in {"idle", "start", "clear"} /\ (phase # "ready" => th = "idle")
  BY <1>1, <1>2, FreeFacts, LoggedSame DEF Kicked, PortInv, Types, Locks
<1>5. Types' /\ Locks' /\ Shadow' /\ Out' /\ Sending' /\ Receiving' /\ BreakKept' /\ Blame'
  BY <1>1, <1>2, <1>3, <1>4, FreeFacts, OperationStep
<1>6. CtsKept'
  <2>1. CtsSeen(d, q.d) /\ q.tty.hwStopped = tty.hwStopped /\ (("MSI" \in q.up.ier) <=> ("MSI" \in up.ier))
    BY <1>1, <1>2, FreeFacts, HereFacts DEF Kicked, Ttys
  <2> QED BY <1>1, <2>1, CtsSame DEF Put, Elsewhere, PortInv
<1> QED BY <1>5, <1>6, Together

(* uart_stop.                                                              *)
LEMMA TtyStopStep == ASSUME PortInv, TtyStop PROVE PortInv'
<1> DEFINE y == [tty EXCEPT !.stopped = TRUE]
           p == [Here EXCEPT !.tty.stopped = TRUE]
           q == StopTx(p)
<1>1. Free /\ Request /\ Put(q) /\ hist' = Spent /\ UNCHANGED <<wr, th>> /\ Elsewhere
  BY DEF TtyStop, Tty
<1>2. y \in Ttys /\ y.stopped /\ y.hwStopped = tty.hwStopped
  BY FreeFacts, <1>1 DEF Pack, Ttys
<1>3. p = [d |-> Here.d, up |-> Here.up, xmit |-> Here.xmit, tty |-> y]
  <2>1. Here = [d |-> d, up |-> up, xmit |-> xmit, tty |-> tty]
    BY DEF Here
  <2>2. p = [Here EXCEPT !.tty = y]
    BY <2>1
  <2> HIDE DEF y, p
  <2> QED BY <2>1, <2>2
<1> HIDE DEF y, p
<1>4. /\ Carries(Here, p) /\ CtsSeen(Here.d, p.d)
      /\ p.d = d /\ p.up = up /\ p.xmit = xmit /\ p.tty = y
  BY <1>1, <1>2, <1>3, FreeFacts, TtyFacts
<1>5. /\ Carries(p, q) /\ SameTty(p, q) /\ CtsSeen(p.d, q.d) /\ Follows(p, q)
      /\ q.up.ier = p.up.ier \ {"THRI"}
  <2>1. Pack(p)
    BY <1>4 DEF Carries
  <2> QED BY <1>1, <2>1, FreeFacts, StopTxFacts
<1> HIDE DEF q
<1>6. Carries(Here, q)
  BY <1>4, <1>5, CarriesTrans
<1>7. Shadowed(d.ier, up.ier) => Shadowed(q.d.ier, q.up.ier)
  BY <1>4, <1>5, FollowsShadow
<1>8. /\ q.xmit = xmit /\ Logged /\ th \in {"idle", "start", "clear"} /\ wr \in {"idle", "start"}
      /\ (phase # "ready" => wr = "idle" /\ th = "idle")
  BY <1>1, <1>4, <1>5, FreeFacts, LoggedSpent DEF SameTty, PortInv, Types, Locks
<1>9. Going(q) /\ Pending(q)
  BY <1>2, <1>4, <1>5 DEF Going, Pending, SameTty, Stopped
<1>10. Types' /\ Locks' /\ Shadow' /\ Out' /\ Sending' /\ Receiving' /\ BreakKept' /\ Blame'
  BY <1>1, <1>6, <1>7, <1>8, <1>9, FreeFacts, OperationStep
<1>11. CtsKept'
  <2>1. CtsSeen(d, q.d) /\ q.tty.hwStopped = tty.hwStopped /\ (("MSI" \in q.up.ier) <=> ("MSI" \in up.ier))
    BY <1>1, <1>2, <1>4, <1>5, FreeFacts DEF SameTty, CtsSeen
  <2> QED BY <1>1, <2>1, CtsSame DEF Put, Elsewhere, PortInv
<1> QED BY <1>10, <1>11, Together

(* uart_start.                                                             *)
LEMMA TtyStartStep == ASSUME PortInv, TtyStart PROVE PortInv'
<1> DEFINE y == [tty EXCEPT !.stopped = FALSE]
           p == [Here EXCEPT !.tty.stopped = FALSE]
           q == UartStart(p)
<1>1. Free /\ Put(q) /\ UNCHANGED <<wr, th, hist>> /\ Elsewhere
  BY DEF TtyStart
<1>2. y \in Ttys /\ y.hwStopped = tty.hwStopped
  BY FreeFacts, <1>1 DEF Pack, Ttys
<1>3. p = [d |-> Here.d, up |-> Here.up, xmit |-> Here.xmit, tty |-> y]
  <2>1. Here = [d |-> d, up |-> up, xmit |-> xmit, tty |-> tty]
    BY DEF Here
  <2>2. p = [Here EXCEPT !.tty = y]
    BY <2>1
  <2> HIDE DEF y, p
  <2> QED BY <2>1, <2>2
<1> HIDE DEF y, p
<1>4. /\ Carries(Here, p) /\ CtsSeen(Here.d, p.d)
      /\ p.d = d /\ p.up = up /\ p.xmit = xmit /\ p.tty = y
  BY <1>1, <1>2, <1>3, FreeFacts, TtyFacts
<1>5. /\ Carries(p, q) /\ Kicked(p, q) /\ CtsSeen(p.d, q.d) /\ Follows(p, q)
      /\ q.up.ier \in {p.up.ier, p.up.ier \cup {"THRI"}} /\ Going(q) /\ (Pending(p) => Pending(q))
  <2>1. Pack(p)
    BY <1>4 DEF Carries
  <2> QED BY <1>1, <2>1, FreeFacts, UartStartFacts
<1> HIDE DEF q
<1>6. Carries(Here, q)
  BY <1>4, <1>5, CarriesTrans
<1>7. Shadowed(d.ier, up.ier) => Shadowed(q.d.ier, q.up.ier)
  BY <1>4, <1>5, FollowsShadow
<1>8. /\ (xmit = <<>> => q.xmit = <<>>) /\ Logged /\ th \in {"idle", "start", "clear"} /\ wr \in {"idle", "start"}
      /\ (phase # "ready" => wr = "idle" /\ th = "idle")
  BY <1>1, <1>4, <1>5, FreeFacts, LoggedSame DEF Kicked, PortInv, Types, Locks
<1>9. Pending(Here) => Pending(q)
  BY <1>1, <1>4, <1>5, FreeFacts DEF Pending
<1>10. Types' /\ Locks' /\ Shadow' /\ Out' /\ Sending' /\ Receiving' /\ BreakKept' /\ Blame'
  BY <1>1, <1>5, <1>6, <1>7, <1>8, <1>9, FreeFacts, OperationStep
<1>11. CtsKept'
  <2>1. CtsSeen(d, q.d) /\ q.tty.hwStopped = tty.hwStopped /\ (("MSI" \in q.up.ier) <=> ("MSI" \in up.ier))
    BY <1>1, <1>2, <1>4, <1>5, FreeFacts DEF Kicked, Ttys, CtsSeen
  <2> QED BY <1>1, <2>1, CtsSame DEF Put, Elsewhere, PortInv
<1> QED BY <1>10, <1>11, Together

(* uart_send_xchar ends with the interrupt asked for, or x_char cleared.   *)
LEMMA TtyThrottleEndStep == ASSUME PortInv, TtyThrottleEnd PROVE PortInv'
<1>1. CASE th = "clear" /\ Put([Here EXCEPT !.tty.xchar = NUL])
  <2>1. /\ d' = d /\ up' = up /\ xmit' = xmit /\ tty' = [tty EXCEPT !.xchar = NUL]
        /\ th' = "idle" /\ UNCHANGED <<wr, hist>> /\ Elsewhere
    BY <1>1 DEF TtyThrottleEnd, Put, Here
  <2>2. /\ tty \in Ttys /\ hist \in Hists /\ wr \in {"idle", "start"} /\ phase = "ready"
        /\ xmit \in Seq(Events) /\ Len(xmit) <= XMIT_SIZE
        /\ UserChars(d.out) \o xmit = hist.queued
    BY <1>1 DEF PortInv, Types, Pack, Here, Out, Session, Locks
  <2>3. tty' \in Ttys /\ tty'.hwStopped = tty.hwStopped /\ tty'.stopped = tty.stopped
    BY <2>1, <2>2 DEF Ttys
  <2>4. wr' = "idle" => Going(Here)'
    BY <2>1, <2>2, <2>3 DEF PortInv, Sending, Going, Here, Stopped
  <2> QED BY <2>1, <2>2, <2>3, <2>4, RequestStep
<1>2. CASE th = "start" /\ Free /\ Put(StartTx(Here))
  <2> DEFINE q == StartTx(Here)
  <2>1. Free /\ Put(q) /\ th' = "idle" /\ UNCHANGED <<wr, hist>> /\ Elsewhere
    BY <1>2 DEF TtyThrottleEnd
  <2>2. /\ Carries(Here, q) /\ Kicked(Here, q) /\ CtsSeen(Here.d, q.d) /\ Follows(Here, q)
        /\ q.up.ier \in {Here.up.ier, Here.up.ier \cup {"THRI"}}
        /\ Going(q) /\ (Pending(Here) => Pending(q))
    BY <2>1, FreeFacts, StartTxFacts
  <2> HIDE DEF q
  <2>3. Shadowed(d.ier, up.ier) => Shadowed(q.d.ier, q.up.ier)
    BY <2>1, <2>2, FreeFacts, FollowsShadow
  <2>4. (xmit = <<>> => q.xmit = <<>>) /\ Logged /\ wr \in {"idle", "start"} /\ (phase # "ready" => wr = "idle")
    BY <2>1, <2>2, FreeFacts, LoggedSame DEF Kicked, PortInv, Types, Locks
  <2>6. Types' /\ Locks' /\ Shadow' /\ Out' /\ Sending' /\ Receiving' /\ BreakKept' /\ Blame'
    BY <2>1, <2>2, <2>3, <2>4, FreeFacts, OperationStep
  <2>7. CtsKept'
    <3>1. CtsSeen(d, q.d) /\ q.tty.hwStopped = tty.hwStopped /\ (("MSI" \in q.up.ier) <=> ("MSI" \in up.ier))
      BY <2>1, <2>2, FreeFacts, HereFacts DEF Kicked, Ttys
    <3> QED BY <2>1, <3>1, CtsSame DEF Put, Elsewhere, PortInv
  <2> QED BY <2>6, <2>7, Together
<1> QED BY <1>1, <1>2 DEF TtyThrottleEnd

(* serial8250_tx_empty for the tty layer.                                  *)
LEMMA TtyTxEmptyStep == ASSUME PortInv, TtyTxEmpty PROVE PortInv'
<1> DEFINE q == TxEmpty(Here)
<1>1. phase = "ready" /\ Free /\ Request /\ Put(q) /\ hist' = Spent /\ UNCHANGED <<wr, th>> /\ Elsewhere
  BY DEF TtyTxEmpty, Tty
<1>2. /\ Carries(Here, q) /\ SameTty(Here, q) /\ q.up.ier = Here.up.ier
      /\ Same(Here.d, q.d, {"lsr", "iir", "irq"})
  BY <1>1, FreeFacts, TxEmptyFacts
<1> HIDE DEF q
<1>3. /\ q.d.ier = d.ier /\ q.up.ier = up.ier /\ q.d.thrPending = d.thrPending /\ q.d.msr = d.msr
      /\ q.xmit = xmit /\ q.tty = tty
  BY <1>1, <1>2, FreeFacts DEF Same, Fields, SameTty
<1>4. /\ Logged /\ th \in {"idle", "start", "clear"} /\ wr \in {"idle", "start"}
  BY <1>1, FreeFacts, LoggedSpent DEF PortInv, Types
<1>5. wr = "idle" => Going(q)
  BY <1>1, <1>3, FreeFacts DEF PortInv, Sending, Going, Stopped
<1>6. Pending(Here) => Pending(q)
  BY <1>1, <1>3, FreeFacts DEF Pending
<1>7. Types' /\ Locks' /\ Shadow' /\ Out' /\ Sending' /\ Receiving' /\ BreakKept' /\ Blame'
  BY <1>1, <1>2, <1>3, <1>4, <1>5, <1>6, FreeFacts, OperationStep
<1>8. CtsKept'
  BY <1>1, <1>3, CtsSame DEF Put, Elsewhere, PortInv, CtsSeen
<1> QED BY <1>7, <1>8, Together

(* serial8250_get_mctrl for the tty layer.                                 *)
LEMMA TtyGetMctrlStep == ASSUME PortInv, TtyGetMctrl PROVE PortInv'
<1> DEFINE q == ModemStatus(Here)
<1>1. phase = "ready" /\ Free /\ Request /\ Put(q) /\ hist' = Spent /\ UNCHANGED <<wr, th>> /\ Elsewhere
  BY DEF TtyGetMctrl, Tty, GetMctrl
<1>2. /\ Carries(Here, q) /\ (xmit = <<>> => q.xmit = <<>>) /\ Follows(Here, q)
      /\ q.up.ier \in {up.ier, up.ier \cup {"THRI"}, up.ier \ {"THRI"}}
      /\ (Pending(Here) => Pending(q)) /\ (Going(Here) => Going(q))
      /\ "MSI" \in up.ier /\ CtsFlow /\ "DCTS" \notin q.d.msr =>
           \/ q.tty.hwStopped = ("CTS" \notin q.d.msr)
           \/ /\ q.tty = tty /\ "DCTS" \notin d.msr
              /\ ("CTS" \in q.d.msr) = ("CTS" \in d.msr)
  <2>1. Pack(Here) /\ lines \in SUBSET Lines
    BY <1>1, FreeFacts
  <2>2. /\ Carries(Here, q) /\ (Here.xmit = <<>> => q.xmit = <<>>) /\ Follows(Here, q)
        /\ q.up.ier \in {Here.up.ier, Here.up.ier \cup {"THRI"}, Here.up.ier \ {"THRI"}}
        /\ (Pending(Here) => Pending(q)) /\ (Going(Here) => Going(q))
        /\ "MSI" \in Here.up.ier /\ CtsFlow /\ "DCTS" \notin q.d.msr =>
             \/ q.tty.hwStopped = ("CTS" \notin q.d.msr)
             \/ /\ q.tty = Here.tty /\ "DCTS" \notin Here.d.msr
                /\ ("CTS" \in q.d.msr) = ("CTS" \in Here.d.msr)
    BY <2>1, ModemStatusFacts
  <2> HIDE DEF q
  <2> QED BY <1>1, <2>2, FreeFacts
<1> HIDE DEF q
<1>3. Shadowed(d.ier, up.ier) => Shadowed(q.d.ier, q.up.ier)
  BY <1>1, <1>2, FreeFacts, FollowsShadow
<1>4. /\ Logged /\ th \in {"idle", "start", "clear"} /\ wr \in {"idle", "start"}
  BY <1>1, FreeFacts, LoggedSpent DEF PortInv, Types
<1>5. wr = "idle" => Going(q)
  BY <1>1, <1>2 DEF PortInv, Sending
<1>6. Types' /\ Locks' /\ Shadow' /\ Out' /\ Sending' /\ Receiving' /\ BreakKept' /\ Blame'
  BY <1>1, <1>2, <1>3, <1>4, <1>5, FreeFacts, OperationStep
<1>7. CtsKept'
  <2>1. /\ phase' = "ready" /\ h' = h /\ h.pc # "cts"
        /\ d' = q.d /\ up' = q.up /\ tty' = q.tty
    BY <1>1, FreeFacts DEF Put, Elsewhere
  <2>2. CtsFlow => "MSI" \in up.ier
    BY <1>1 DEF PortInv, CtsKept, Open
  <2>3. "MSI" \in up.ier => "MSI" \in q.up.ier
    BY <1>2
  <2>4. CtsFlow /\ "DCTS" \notin d.msr => tty.hwStopped = ("CTS" \notin d.msr)
    BY <1>1, <2>1 DEF PortInv, CtsKept, Open
  <2>5. CtsFlow /\ "DCTS" \notin q.d.msr => (q.tty.hwStopped = ("CTS" \notin q.d.msr))
    BY <1>2, <2>2, <2>4
  <2> QED BY <2>1, <2>2, <2>3, <2>5 DEF CtsKept, Open, Starting
<1> QED BY <1>6, <1>7, Together

(* serial8250_set_termios on an open port.                                 *)
LEMMA TtySetTermiosStep == ASSUME PortInv, TtySetTermios PROVE PortInv'
<1> DEFINE q == SetTermios(Here)
<1>1. phase = "ready" /\ Free /\ Request /\ Put(q) /\ hist' = Spent /\ UNCHANGED <<wr, th>> /\ Elsewhere
  BY DEF TtySetTermios, Tty
<1>2. /\ SameTty(Here, q) /\ CtsSeen(Here.d, q.d)
      /\ q.up.ier = (Here.up.ier \ {"MSI"}) \cup (IF CtsFlow THEN {"MSI"} ELSE {})
      /\ q.d.ier = q.up.ier /\ q.d.thrPending
      /\ Here.d.fcr.fe => Carries(Here, q)
  BY <1>1, FreeFacts, SetTermiosFacts
<1> HIDE DEF q
<1>3. Carries(Here, q)
  BY <1>1, <1>2, FreeFacts DEF PortInv, Receiving, Enabled
<1>4. /\ Logged /\ th \in {"idle", "start", "clear"} /\ wr \in {"idle", "start"}
  BY <1>1, FreeFacts, LoggedSpent DEF PortInv, Types
<1>5. wr = "idle" => Going(q)
  BY <1>1, <1>2, FreeFacts DEF PortInv, Sending, Going, SameTty, Stopped
<1>6. Pending(q) /\ Shadowed(q.d.ier, q.up.ier) /\ q.xmit = xmit
  BY <1>1, <1>2, FreeFacts DEF Pending, Shadowed, SameTty
<1>7. Types' /\ Locks' /\ Shadow' /\ Out' /\ Sending' /\ Receiving' /\ BreakKept' /\ Blame'
  BY <1>1, <1>3, <1>4, <1>5, <1>6, FreeFacts, OperationStep
<1>8. CtsKept'
  <2>1. /\ phase' = "ready" /\ h' = h /\ h.pc # "cts"
        /\ d' = q.d /\ up' = q.up /\ tty' = tty
    BY <1>1, <1>2, FreeFacts DEF Put, Elsewhere, SameTty
  <2>2. CtsFlow => "MSI" \in q.up.ier
    BY <1>2
  <2>3. CtsFlow /\ "DCTS" \notin d.msr => tty.hwStopped = ("CTS" \notin d.msr)
    BY <1>1, <2>1 DEF PortInv, CtsKept, Open
  <2>4. "DCTS" \notin q.d.msr => "DCTS" \notin d.msr /\ (("CTS" \in q.d.msr) <=> ("CTS" \in d.msr))
    BY <1>1, <1>2, FreeFacts DEF CtsSeen
  <2> QED BY <2>1, <2>2, <2>3, <2>4 DEF CtsKept, Open, Starting
<1> QED BY <1>7, <1>8, Together

(* serial8250_backup_timeout.                                              *)
LEMMA BackupTimeoutStep == ASSUME PortInv, BackupTimeout PROVE PortInv'
<1> DEFINE q == BackupKick(Here)
<1>1. mode = "backup" /\ Free /\ Put(q) /\ UNCHANGED <<wr, th, hist>> /\ Elsewhere
  BY DEF BackupTimeout, Elsewhere, Threads
<1>2. /\ Carries(Here, q) /\ CtsSeen(Here.d, q.d) /\ Sent(Here, q)
      /\ q.tty \in {Here.tty, [Here.tty EXCEPT !.xchar = NUL]}
      /\ q.d.ier = Here.d.ier /\ q.d.thrPending
  BY <1>1, FreeFacts, BackupKickFacts
<1> HIDE DEF q
<1>3. q.tty.hwStopped = tty.hwStopped /\ q.tty.stopped = tty.stopped
  BY <1>1, <1>2, FreeFacts DEF Pack, Ttys
<1>4. Shadowed(d.ier, up.ier) => Shadowed(q.d.ier, q.up.ier)
  <2>1. \A a : \/ a \ {"THRI"} = a
               \/ (a \ {"THRI"}) \cup {"THRI"} = a /\ a \cup {"THRI"} = a
    <3> TAKE a
    <3>1. CASE "THRI" \in a
      BY <3>1
    <3>2. CASE "THRI" \notin a
      BY <3>2
    <3> QED BY <3>1, <3>2
  <2>2. q.up.ier = up.ier \/ q.up.ier = up.ier \ {"THRI"}
    BY <1>1, <1>2, FreeFacts DEF Sent
  <2>3. q.d.ier = d.ier
    BY <1>1, <1>2, FreeFacts
  <2>4. up.ier \ {"THRI"} = up.ier
        \/ ((up.ier \ {"THRI"}) \cup {"THRI"} = up.ier /\ up.ier \cup {"THRI"} = up.ier)
    BY <2>1
  <2> QED BY <1>1, <2>2, <2>3, <2>4 DEF Shadowed
<1>5. /\ Logged /\ th \in {"idle", "start", "clear"} /\ wr \in {"idle", "start"}
      /\ (phase # "ready" => wr = "idle" /\ th = "idle")
  BY <1>1, FreeFacts, LoggedSame DEF PortInv, Types, Locks
<1>6. Going(Here) => Going(q)
  BY <1>1, <1>2, <1>3, FreeFacts DEF Going, Stopped, Sent
<1>7. phase = "ready" /\ wr = "idle" => Going(q)
  BY <1>6 DEF PortInv, Sending
<1>8. Pending(q) /\ (xmit = <<>> => q.xmit = <<>>)
  BY <1>1, <1>2, FreeFacts DEF Pending, Sent
<1>9. Types' /\ Locks' /\ Shadow' /\ Out' /\ Sending' /\ Receiving' /\ BreakKept' /\ Blame'
  BY <1>1, <1>2, <1>4, <1>5, <1>7, <1>8, FreeFacts, OperationStep
<1>10. CtsKept'
  <2>1. CtsSeen(d, q.d) /\ (("MSI" \in q.up.ier) <=> ("MSI" \in up.ier))
    BY <1>1, <1>2, FreeFacts DEF Sent
  <2> QED BY <1>1, <1>3, <2>1, CtsSame DEF Put, Elsewhere, PortInv
<1> QED BY <1>9, <1>10, Together

(* A step of a thread that carries the port on from Here to q: what does   *)
(* not depend on where the threads stand.                                  *)
LEMMA PassStep ==
  ASSUME PortInv, NEW q, Put(q), Carries(Here, q), Logged, lines' \in SUBSET Lines, mode' = mode,
         phase' = phase, lock' \in {"none", "irq", "con", "open"}, h' \in Handlers,
         con' \in [pc : {"idle", "put", "end"}, ier : SUBSET All],
         wr' = wr, th' = th, h.pc # "rx", h'.pc # "rx", xmit = <<>> => q.xmit = <<>>,
         phase # "txen" \/ q.d = d
  PROVE  /\ Types' /\ Out' /\ Receiving' /\ BreakKept' /\ Blame'
         /\ Here' = q /\ d' = q.d /\ up' = q.up /\ xmit' = q.xmit /\ tty' = q.tty
         /\ up'.type = up.type
<1>1. Here' = q /\ Pack(Here)'
  BY PutPack DEF Carries
<1>2. d' = q.d /\ up' = q.up /\ xmit' = q.xmit /\ tty' = q.tty
  BY DEF Put
<1>3. Here.d = d /\ Here.up = up /\ Here.xmit = xmit
  BY DEF Here
<1>4. Types'
  BY <1>1 DEF PortInv, Types, Logged
<1>5. Out'
  <2>1. UserChars(d'.out) \o xmit' = UserChars(d.out) \o xmit /\ hist'.queued = hist.queued
    BY <1>2, <1>3 DEF Carries, Logged
  <2> QED BY <1>2, <2>1 DEF PortInv, Out, Session
<1>6. Receiving' /\ BreakKept'
  <2>1. hist' \in Hists /\ \A f \in {"got", "accepted", "owed", "ghosts", "flips", "taken"} : hist'[f] = hist[f]
    BY DEF Logged
  <2>2. /\ d'.fcr.fe = d.fcr.fe /\ d'.recv = d.recv /\ ("DR" \in d'.lsr) = ("DR" \in d.lsr)
        /\ "BI" \in d.lsr \cup up.saved => "BI" \in d'.lsr \cup up'.saved
    BY <1>2, <1>3 DEF Carries
  <2> QED BY <2>1, <2>2, ReceiverKept DEF PortInv
<1>7. up'.type = up.type
  BY <1>2, <1>3 DEF Carries
<1>8. Blame'
  <2>1. up'.bugs = up.bugs /\ hist'.taken = hist.taken /\ (phase = "txen" => d' = d)
    BY <1>2, <1>3 DEF Carries, Logged
  <2> QED BY <2>1 DEF PortInv, Blame
<1> QED BY <1>1, <1>2, <1>4, <1>5, <1>6, <1>7, <1>8

(* The handler holds the lock.                                             *)
LEMMA HeldFacts ==
  ASSUME PortInv, h.pc \in Holding
  PROVE  /\ lock = "irq" /\ con.pc = "idle" /\ "THRE" \in h.status
         /\ phase \notin {"unknown", "closed", "cleared", "txen"} /\ (Live => Shadowed(d.ier, up.ier))
BY DEF PortInv, Locks, Shadow, Sending, Holding

(* serial8250_rx_chars takes the lock again.                               *)
LEMMA RelockStep == ASSUME PortInv, Relock PROVE PortInv'
<1>1. /\ h.pc = "push" /\ Free /\ lock' = "irq" /\ h' = [h EXCEPT !.pc = "msr"]
      /\ UNCHANGED <<d, lines, mode, phase, up, tty, xmit, con, wr, th, hist>>
  BY DEF Relock, Goto
<1>2. h' \in Handlers /\ h'.pc = "msr" /\ h'.status = h.status
  BY <1>1, HereFacts DEF Handlers, Pcs, Holding
<1>3. Put(Here) /\ Carries(Here, Here) /\ CtsSeen(d, d)
  BY <1>1, HereFacts, CarriesSelf DEF Put
<1>4. /\ Types' /\ Out' /\ Receiving' /\ BreakKept' /\ Blame' /\ Here' = Here /\ up'.type = up.type
  BY <1>1, <1>2, <1>3, HereFacts, FreeFacts, LoggedSame, PassStep
<1>5. Locks'
  BY <1>1, <1>2, <1>4 DEF PortInv, Locks, Holding, Free
<1>6. Shadow'
  BY <1>1, FreeFacts DEF Shadow, Live, Shadowed
<1>7. Sending'
  BY <1>1, <1>2, <1>4 DEF PortInv, Sending, Going, Pending, Stopped, Holding
<1>8. CtsKept'
  BY <1>1, <1>2, <1>3, CtsSame DEF PortInv
<1> QED BY <1>4, <1>5, <1>6, <1>7, <1>8, Together

(* The handler reads the modem status.                                     *)
LEMMA ModemStep == ASSUME PortInv, Modem PROVE PortInv'
<1> DEFINE m == ModemRead(Here)
           q == m.p
<1>1. /\ h.pc = "msr" /\ d' = q.d /\ h' = [h EXCEPT !.cts = m.cts, !.pc = IF m.handle THEN "cts" ELSE "tx"]
      /\ UNCHANGED <<lines, mode, phase, up, tty, xmit, lock, con, wr, th, hist>>
  BY DEF Modem, ModemSeen
<1>2. /\ Carries(Here, q) /\ SameTty(Here, q) /\ q.up = up /\ q.d.ier = d.ier
      /\ m.cts = ("CTS" \in q.d.msr) /\ "DCTS" \notin q.d.msr
      /\ m.handle => "MSI" \in up.ier
      /\ ~m.handle /\ "MSI" \in up.ier =>
           "DCTS" \notin d.msr /\ ("CTS" \in q.d.msr) = ("CTS" \in d.msr)
  <2>1. Pack(Here) /\ lines \in SUBSET Lines
    BY HereFacts
  <2>2. /\ Carries(Here, q) /\ SameTty(Here, q) /\ q.up = Here.up /\ q.d.ier = Here.d.ier
        /\ m.cts = ("CTS" \in q.d.msr) /\ "DCTS" \notin q.d.msr
        /\ m.handle => "MSI" \in Here.up.ier
        /\ ~m.handle /\ "MSI" \in Here.up.ier =>
             "DCTS" \notin Here.d.msr /\ ("CTS" \in q.d.msr) = ("CTS" \in Here.d.msr)
    BY <2>1, ModemReadFacts
  <2> HIDE DEF m
  <2> QED BY <2>2, HereFacts
<1> HIDE DEF m
<1>3. m.cts \in BOOLEAN /\ (m.cts <=> "CTS" \in q.d.msr)
  <2> DEFINE x == m.cts
             y == ("CTS" \in q.d.msr)
  <2>1. x = y /\ y \in BOOLEAN
    BY <1>2
  <2> HIDE DEF x, y
  <2>2. x \in BOOLEAN /\ (x <=> y)
    BY <2>1
  <2> QED BY <2>2 DEF x, y
<1> HIDE DEF q
<1>4. /\ h' \in Handlers /\ h'.pc = (IF m.handle THEN "cts" ELSE "tx") /\ h'.status = h.status
      /\ h'.cts = m.cts
  BY <1>1, <1>3, HereFacts DEF Handlers, Pcs, Holding
<1>5. Put(q)
  BY <1>1, <1>2, HereFacts DEF Put, SameTty
<1>6. q.xmit = xmit /\ h'.pc # "rx"
  BY <1>2, <1>4, HereFacts DEF SameTty
<1>7. /\ Types' /\ Out' /\ Receiving' /\ BreakKept' /\ Blame' /\ Here' = q /\ up'.type = up.type
  <2>1. lines' \in SUBSET Lines /\ Logged /\ lock' \in {"none", "irq", "con", "open"} /\ h.pc # "rx"
        /\ con' \in [pc : {"idle", "put", "end"}, ier : SUBSET All]
    BY <1>1, HereFacts, LoggedSame
  <2>2. phase # "txen"
    BY <1>1, HeldFacts DEF Holding
  <2> QED BY <1>1, <1>2, <1>4, <1>5, <1>6, <2>1, <2>2, PassStep
<1>8. h.pc \in Holding /\ h'.pc \in Holding /\ h'.pc \in {"cts", "tx"}
  BY <1>1, <1>4 DEF Holding
<1>9. Locks'
  BY <1>1, <1>7, <1>8, HeldFacts DEF PortInv, Locks
<1>10. Shadow'
  BY <1>1, <1>2, <1>8, HeldFacts DEF Shadow, Live, Shadowed
<1>11. Sending'
  <2>1. Going(Here) => Going(Here)'
    BY <1>1 DEF Going, Here, Stopped
  <2> QED BY <1>1, <1>4, <1>8, <2>1, HeldFacts DEF PortInv, Sending
<1>12. CtsKept'
  <2>1. m.handle => Open
    BY <1>2 DEF PortInv, CtsKept
  <2>2. CASE m.handle
    <3>1. h'.pc = "cts" /\ (h'.cts = ("CTS" \in d'.msr)) /\ Open
      BY <1>1, <1>2, <1>4, <2>1, <2>2
    <3> QED BY <1>1, <3>1 DEF PortInv, CtsKept, Open, Starting
  <2>3. CASE ~m.handle
    <3>1. h'.pc = "tx"
      BY <1>4, <2>3
    <3>2. "MSI" \in up.ier => "DCTS" \notin d.msr /\ (("CTS" \in d'.msr) <=> ("CTS" \in d.msr))
      BY <1>1, <1>2, <2>3
    <3> QED BY <1>1, <3>1, <3>2 DEF PortInv, CtsKept, Open
  <2> QED BY <2>2, <2>3
<1> QED BY <1>7, <1>9, <1>10, <1>11, <1>12, Together

(* The handler handles the change of CTS it has read.                      *)
LEMMA ModemChangeStep == ASSUME PortInv, ModemChange PROVE PortInv'
<1> DEFINE cts == h.cts
           q == CtsChange(Here, cts)
<1>1. /\ h.pc = "cts" /\ Put(q) /\ h' = [h EXCEPT !.pc = "tx"]
      /\ UNCHANGED <<lines, mode, phase, lock, con, wr, th, hist>>
  BY DEF ModemChange, Goto
<1>2. cts \in BOOLEAN /\ h' \in Handlers /\ h'.pc = "tx" /\ h'.status = h.status
  BY <1>1, HereFacts DEF Handlers, Pcs, Holding
<1> HIDE DEF cts
<1>3. /\ Carries(Here, q) /\ (Here.xmit = <<>> => q.xmit = <<>>) /\ CtsSeen(Here.d, q.d) /\ Follows(Here, q)
      /\ q.up.ier \in {Here.up.ier, Here.up.ier \cup {"THRI"}, Here.up.ier \ {"THRI"}}
      /\ q.tty.hwStopped = IF CtsFlow THEN ~cts ELSE Here.tty.hwStopped
      /\ (Going(Here) => Going(q))
  BY <1>2, HereFacts, CtsChangeFacts
<1> HIDE DEF q
<1>4. /\ Types' /\ Out' /\ Receiving' /\ BreakKept' /\ Blame' /\ Here' = q /\ up'.type = up.type
      /\ d' = q.d /\ up' = q.up /\ tty' = q.tty
  <2>1. lines' \in SUBSET Lines /\ Logged /\ lock' \in {"none", "irq", "con", "open"} /\ h.pc # "rx"
        /\ con' \in [pc : {"idle", "put", "end"}, ier : SUBSET All]
    BY <1>1, HereFacts, LoggedSame
  <2>2. h'.pc # "rx" /\ (xmit = <<>> => q.xmit = <<>>) /\ phase # "txen"
    BY <1>1, <1>2, <1>3, HereFacts, HeldFacts DEF Holding
  <2> QED BY <1>1, <1>2, <1>3, <2>1, <2>2, PassStep
<1>5. h.pc \in Holding /\ h'.pc \in Holding
  BY <1>1, <1>2 DEF Holding
<1>6. Locks'
  BY <1>1, <1>4, <1>5, HeldFacts DEF PortInv, Locks
<1>7. Shadow'
  <2>1. Shadowed(d.ier, up.ier) => Shadowed(q.d.ier, q.up.ier)
    BY <1>3, HereFacts, FollowsShadow
  <2> QED BY <1>1, <1>4, <1>5, <2>1, HeldFacts DEF Shadow, Live, Shadowed
<1>8. Sending'
  BY <1>1, <1>2, <1>3, <1>4, <1>5, HeldFacts DEF PortInv, Sending, Holding
<1>9. CtsKept'
  <2>1. phase \notin Starting \cup {"startup"} /\ (~Open => "MSI" \notin up'.ier)
    BY <1>1, <1>3, <1>4, HereFacts DEF PortInv, CtsKept
  <2>2. "MSI" \in up.ier => "MSI" \in up'.ier
    BY <1>3, <1>4, HereFacts
  <2>3. CtsFlow /\ Open /\ "DCTS" \notin d.msr => (cts <=> "CTS" \in d.msr)
    BY <1>1, <1>2 DEF PortInv, CtsKept, cts
  <2>4. "DCTS" \notin d'.msr => "DCTS" \notin d.msr /\ (("CTS" \in d'.msr) <=> ("CTS" \in d.msr))
    BY <1>3, <1>4, HereFacts DEF CtsSeen
  <2>5. CtsFlow => (tty'.hwStopped = ~cts)
    BY <1>3, <1>4, HereFacts
  <2>6. CtsFlow /\ Open' /\ "DCTS" \notin d'.msr => (tty'.hwStopped = ("CTS" \notin d'.msr))
    BY <1>1, <1>2, <2>3, <2>4, <2>5 DEF Open
  <2>7. phase' = phase /\ h'.pc = "tx"
    BY <1>1, <1>2
  <2> QED BY <2>1, <2>2, <2>6, <2>7 DEF PortInv, CtsKept, Open
<1> QED BY <1>4, <1>6, <1>7, <1>8, <1>9, Together

(* The handler is done with the port.                                      *)
LEMMA DoneFacts ==
  ASSUME HandlerDone
  PROVE  lock' = "none" /\ h' \in Handlers /\ h'.pc \in {"idle", "iir"}
BY DEF HandlerDone, Idle, Handlers, Pcs

(* serial8250_tx_chars in the handler.                                     *)
LEMMA TxCharsStepStep == ASSUME PortInv, TxCharsStep PROVE PortInv'
<1>1. /\ h.pc = "tx" /\ UNCHANGED <<lines, mode, phase, con, wr, th, hist>>
      /\ h.pc \in Holding
  BY DEF TxCharsStep, Holding
<1>2. CASE tty.xchar # NUL
  <2> DEFINE c == tty.xchar
             dev == Write1(d, c)
             q == [Here EXCEPT !.d = dev]
  <2>1. d' = dev /\ h' = [h EXCEPT !.pc = "xclear"] /\ UNCHANGED <<up, tty, xmit, lock>>
    BY <1>1, <1>2, HeldFacts DEF TxCharsStep, Goto, Write1
  <2>2. c \in {STOP, START, CON}
    BY <1>2, HereFacts DEF Ttys
  <2>3. h' \in Handlers /\ h'.pc = "xclear" /\ h'.status = h.status
    BY <2>1, HereFacts DEF Handlers, Pcs, Holding
  <2> HIDE DEF c
  <2>4. /\ Carries(Here, q) /\ SameTty(Here, q) /\ CtsSeen(Here.d, q.d) /\ q.d = dev
        /\ q.up = Here.up /\ q.d.ier = Here.d.ier /\ q.d.thrPending
    <3>1. dev = Write1(Here.d, c) /\ Pack(Here)
      BY HereFacts
    <3> HIDE DEF dev
    <3> QED BY <2>2, <3>1, XcharFacts
  <2> HIDE DEF q, dev
  <2>5. Put(q) /\ q.xmit = xmit /\ q.tty = tty /\ q.up = up /\ q.d.ier = d.ier
    BY <2>1, <2>4, HereFacts DEF Put, SameTty
  <2>6. /\ Types' /\ Out' /\ Receiving' /\ BreakKept' /\ Blame' /\ Here' = q /\ up'.type = up.type
    <3>1. lines' \in SUBSET Lines /\ Logged /\ lock' \in {"none", "irq", "con", "open"} /\ h.pc # "rx"
          /\ con' \in [pc : {"idle", "put", "end"}, ier : SUBSET All]
      BY <1>1, <2>1, HereFacts, LoggedSame
    <3>2. h'.pc # "rx" /\ phase # "txen"
      BY <1>1, <2>3, HeldFacts
    <3> QED BY <1>1, <2>3, <2>4, <2>5, <3>1, <3>2, PassStep
  <2>7. h'.pc \in Holding
    BY <2>3 DEF Holding
  <2>8. Locks'
    BY <1>1, <2>1, <2>6, <2>7, HeldFacts DEF PortInv, Locks
  <2>9. Shadow'
    BY <1>1, <2>1, <2>4, <2>5, HeldFacts DEF Shadow, Live, Shadowed
  <2>10. Sending'
    <3>1. Going(Here) => Going(Here)'
      BY <2>1 DEF Going, Here, Stopped
    <3>2. Pending(Here)'
      BY <2>4, <2>6 DEF Pending
    <3> QED BY <1>1, <2>3, <2>7, <3>1, <3>2, HeldFacts DEF PortInv, Sending
  <2>11. CtsKept'
    BY <1>1, <2>1, <2>3, <2>4, HereFacts, CtsSame DEF PortInv
  <2> QED BY <2>6, <2>8, <2>9, <2>10, <2>11, Together
<1>3. CASE tty.xchar = NUL
  <2> DEFINE q == TxChars(Here)
  <2>1. Put(q) /\ HandlerDone
    BY <1>1, <1>3, HeldFacts DEF TxCharsStep
  <2>2. /\ Carries(Here, q) /\ q.tty = Here.tty /\ CtsSeen(Here.d, q.d) /\ Follows(Here, q)
        /\ Sent(Here, q) /\ Pending(q)
    BY HereFacts, TxCharsFacts
  <2> HIDE DEF q
  <2>3. lock' = "none" /\ h' \in Handlers /\ h'.pc \in {"idle", "iir"}
    BY <2>1, DoneFacts
  <2>4. /\ Types' /\ Out' /\ Receiving' /\ BreakKept' /\ Blame' /\ Here' = q /\ up'.type = up.type
        /\ d' = q.d /\ up' = q.up /\ tty' = q.tty
    <3>1. lines' \in SUBSET Lines /\ Logged /\ lock' \in {"none", "irq", "con", "open"} /\ h.pc # "rx"
          /\ con' \in [pc : {"idle", "put", "end"}, ier : SUBSET All]
      BY <1>1, <2>3, HereFacts, LoggedSame
    <3>2. h'.pc # "rx" /\ (xmit = <<>> => q.xmit = <<>>) /\ phase # "txen"
      BY <1>1, <2>2, <2>3, HereFacts, HeldFacts DEF Sent
    <3> QED BY <1>1, <2>1, <2>2, <2>3, <3>1, <3>2, PassStep
  <2>5. Locks'
    BY <1>1, <2>3, <2>4, HeldFacts DEF PortInv, Locks, Holding
  <2>6. Shadow'
    <3>1. Shadowed(d.ier, up.ier) => Shadowed(q.d.ier, q.up.ier)
      BY <2>2, HereFacts, FollowsShadow
    <3> QED BY <1>1, <2>3, <2>4, <3>1, HeldFacts DEF Shadow, Live, Shadowed
  <2>7. Sending'
    <3>1. Going(Here) => Going(q)
      BY <2>2, HereFacts DEF Going, Sent, Stopped
    <3> QED BY <1>1, <2>2, <2>3, <2>4, <3>1 DEF PortInv, Sending, Holding
  <2>8. CtsKept'
    <3>1. ("MSI" \in q.up.ier) <=> ("MSI" \in up.ier)
      BY <2>2, HereFacts DEF Sent
    <3> QED BY <1>1, <2>2, <2>3, <2>4, <3>1, HereFacts, CtsSame DEF PortInv
  <2> QED BY <2>4, <2>5, <2>6, <2>7, <2>8, Together
<1> QED BY <1>2, <1>3

(* The handler clears the x_char it has sent.                              *)
LEMMA XcharClearStep == ASSUME PortInv, XcharClear PROVE PortInv'
<1> DEFINE y == [tty EXCEPT !.xchar = NUL]
           q == [d |-> Here.d, up |-> Here.up, xmit |-> Here.xmit, tty |-> y]
<1>1. /\ h.pc = "xclear" /\ tty' = y /\ HandlerDone /\ h.pc \in Holding
      /\ UNCHANGED <<d, lines, mode, phase, up, xmit, con, wr, th, hist>>
  BY DEF XcharClear, Holding
<1>2. y \in Ttys /\ y.stopped = tty.stopped /\ y.hwStopped = tty.hwStopped
  BY HereFacts DEF Ttys
<1> HIDE DEF y
<1>3. /\ Carries(Here, q) /\ CtsSeen(Here.d, q.d)
      /\ q.d = d /\ q.up = up /\ q.xmit = xmit /\ q.tty = y
  BY <1>2, HereFacts, TtyFacts
<1> HIDE DEF q
<1>4. lock' = "none" /\ h' \in Handlers /\ h'.pc \in {"idle", "iir"}
  BY <1>1, DoneFacts
<1>5. /\ Types' /\ Out' /\ Receiving' /\ BreakKept' /\ Blame' /\ Here' = q /\ up'.type = up.type
  <2>1. lines' \in SUBSET Lines /\ Logged /\ lock' \in {"none", "irq", "con", "open"} /\ h.pc # "rx"
        /\ con' \in [pc : {"idle", "put", "end"}, ier : SUBSET All]
    BY <1>1, <1>4, HereFacts, LoggedSame
  <2>2. h'.pc # "rx" /\ Put(q)
    BY <1>1, <1>3, <1>4 DEF Put
  <2> QED BY <1>1, <1>3, <1>4, <2>1, <2>2, PassStep
<1>6. Locks'
  BY <1>1, <1>4, <1>5, HeldFacts DEF PortInv, Locks, Holding
<1>7. Shadow'
  BY <1>1, <1>4, HeldFacts DEF Shadow, Live, Shadowed
<1>8. Sending'
  <2>1. Going(Here) => Going(Here)'
    BY <1>1, <1>2 DEF Going, Here, Stopped
  <2>2. Pending(Here) => Pending(Here)'
    BY <1>1 DEF Pending, Here
  <2> QED BY <1>1, <1>4, <2>1, <2>2 DEF PortInv, Sending, Holding
<1>9. CtsKept'
  BY <1>1, <1>2, <1>4, CtsSame DEF PortInv, CtsSeen
<1> QED BY <1>5, <1>6, <1>7, <1>8, <1>9, Together

(* The interrupt, or the poll timer, starts the handler.                   *)
LEMMA EnterStep == ASSUME PortInv, Enter PROVE PortInv'
<1>1. /\ h.pc = "idle" /\ Linked /\ h' = Idle("iir")
      /\ UNCHANGED <<d, lines, mode, phase, up, tty, xmit, lock, con, wr, th, hist>>
  BY DEF Enter
<1>2. h' \in Handlers /\ h'.pc = "iir"
  BY <1>1 DEF Handlers, Idle, Pcs
<1>3. Put(Here) /\ Carries(Here, Here) /\ CtsSeen(d, d)
  BY <1>1, HereFacts, CarriesSelf DEF Put
<1>4. /\ Types' /\ Out' /\ Receiving' /\ BreakKept' /\ Blame' /\ Here' = Here /\ up'.type = up.type
  <2>1. lines' \in SUBSET Lines /\ Logged /\ lock' \in {"none", "irq", "con", "open"} /\ h.pc # "rx"
        /\ con' \in [pc : {"idle", "put", "end"}, ier : SUBSET All]
    BY <1>1, HereFacts, LoggedSame
  <2>2. h'.pc # "rx" /\ (xmit = <<>> => Here.xmit = <<>>)
    BY <1>2, HereFacts
  <2>3. phase # "txen" \/ Here.d = d
    BY DEF Here
  <2> QED BY <1>1, <1>2, <1>3, <2>1, <2>2, <2>3, PassStep
<1>5. Locks'
  BY <1>1, <1>2, <1>4 DEF PortInv, Locks, Holding, Linked
<1>6. Shadow'
  BY <1>1 DEF PortInv, Shadow, Live, Shadowed
<1>7. Sending'
  BY <1>1, <1>2, <1>4 DEF PortInv, Sending, Going, Pending, Stopped, Holding
<1>8. CtsKept'
  BY <1>1, <1>2, <1>3, CtsSame DEF PortInv
<1> QED BY <1>4, <1>5, <1>6, <1>7, <1>8, Together

(* The handler reads the identification without the lock.                  *)
LEMMA IdentificationStep == ASSUME PortInv, Identification PROVE PortInv'
<1> DEFINE t == ReadIir(d).dev
<1>1. /\ h.pc = "iir" /\ d' = t /\ h' = [h EXCEPT !.pc = IF d.iir = "NONE" THEN "idle" ELSE "lsr"]
      /\ hist' = [hist EXCEPT !.taken = @ \/ (phase = "txen" /\ d.iir = "THRI")]
      /\ UNCHANGED <<lines, mode, phase, up, tty, xmit, lock, con, wr, th>>
  BY DEF Identification, Goto
<1>2. h' \in Handlers /\ h'.pc \in {"idle", "lsr"} /\ (h'.pc = "idle" => d.iir = "NONE")
  BY <1>1, HereFacts DEF Handlers, Pcs
<1>3. /\ Calm(t) /\ Right(t) /\ Same(d, t, {"thrPending", "iir", "irq"})
      /\ d.iir # "THRI" => t = d
  BY HereFacts, CalmIir
<1> HIDE DEF t
<1>3a. /\ hist' \in Hists
       /\ \A f \in {"queued", "got", "accepted", "owed", "ghosts", "flips"} : hist'[f] = hist[f]
       /\ hist'.taken = (hist.taken \/ (phase = "txen" /\ d.iir = "THRI"))
  <2> DEFINE x == hist.taken \/ (phase = "txen" /\ d.iir = "THRI")
  <2>1. hist' = [hist EXCEPT !.taken = x] /\ hist \in Hists /\ x \in BOOLEAN
    BY <1>1, HereFacts
  <2> HIDE DEF x
  <2>2. /\ hist' \in Hists /\ hist'.taken = x
        /\ \A f \in {"queued", "got", "accepted", "owed", "ghosts", "flips"} : hist'[f] = hist[f]
    BY <2>1 DEF Hists
  <2> QED BY <2>2 DEF x
<1>4. /\ d'.mcr = d.mcr /\ d'.fcr = d.fcr /\ d'.recv = d.recv /\ d'.lsr = d.lsr /\ d'.ier = d.ier
      /\ d'.msr = d.msr /\ d'.out = d.out
  BY <1>1, <1>3 DEF Same, Fields
<1>5. Types'
  <2>1. Pack(Here)'
    BY <1>1, <1>3, <1>4, HereFacts DEF Pack, Here, Calm
  <2> QED BY <1>1, <1>2, <1>3a, <2>1 DEF PortInv, Types
<1>6. Locks'
  BY <1>1, <1>2 DEF PortInv, Locks, Holding
<1>7. Shadow'
  BY <1>1, <1>4 DEF PortInv, Shadow, Live, Shadowed
<1>8. Out'
  BY <1>1, <1>3a, <1>4 DEF PortInv, Out, Session
<1>9. Sending'
  <2>1. Going(Here) => Going(Here)'
    BY <1>1 DEF Going, Here, Stopped
  <2>2. h'.pc = "idle" => (Pending(Here) => Pending(Here)')
    BY <1>1, <1>2, <1>3 DEF Pending, Here
  <2> QED BY <1>1, <1>2, <2>1, <2>2 DEF PortInv, Sending, Holding
<1>10. Receiving' /\ BreakKept'
  BY <1>1, <1>2, <1>3a, <1>4, HereFacts, ReceiverKept DEF PortInv
<1>11. CtsKept'
  BY <1>1, <1>2, <1>4, CtsSame DEF PortInv, CtsSeen
<1>12. Blame'
  BY <1>1, <1>3, <1>3a DEF PortInv, Blame
<1> QED BY <1>5, <1>6, <1>7, <1>8, <1>9, <1>10, <1>11, <1>12 DEF PortInv

(* The handler reads the line status that it then goes by.                 *)
LEMMA LineStatusStep == ASSUME PortInv, LineStatus PROVE PortInv'
<1> DEFINE t == ReadLsr(d).dev
           more == {"DR", "BI"} \cap d.lsr # {}
<1>1. /\ (h.pc = "lsr" /\ Free) \/ h.pc = "rxlsr"
      /\ d' = t
      /\ h' = [h EXCEPT !.status = d.lsr,
                        !.pc = IF more THEN "rx" ELSE IF h.pc = "lsr" THEN "msr" ELSE "push"]
      /\ lock' = IF ~more /\ h.pc = "rxlsr" THEN "none" ELSE "irq"
      /\ UNCHANGED <<lines, mode, phase, up, tty, xmit, con, wr, th, hist>>
  <2>1. ReadLsr(d).val = d.lsr
    BY DEF ReadLsr
  <2> QED BY <2>1 DEF LineStatus
<1>2. d.lsr \in SUBSET LsrBits /\ "THRE" \in d.lsr
  BY HereFacts DEF Calm, Quiet, Dev
<1>3. ("DR" \in d.lsr \/ "BI" \in d.lsr) => more
  OBVIOUS
<1> HIDE DEF more
<1>4. /\ h' \in Handlers /\ h'.status = d.lsr
      /\ h'.pc = IF more THEN "rx" ELSE IF h.pc = "lsr" THEN "msr" ELSE "push"
  BY <1>1, <1>2, HereFacts DEF Handlers, Pcs, Holding
<1>5. /\ Calm(t) /\ Right(t) /\ t.lsr = d.lsr \ {"BI", "OE"}
      /\ Same(d, t, {"lsr", "iir", "irq"})
  BY HereFacts, CalmLsr
<1> HIDE DEF t
<1>6. /\ d'.mcr = d.mcr /\ d'.fcr = d.fcr /\ d'.recv = d.recv /\ d'.ier = d.ier
      /\ d'.msr = d.msr /\ d'.out = d.out /\ d'.lsr = d.lsr \ {"BI", "OE"}
  BY <1>1, <1>5 DEF Same, Fields
<1>7. Types'
  <2>1. Pack(Here)'
    BY <1>1, <1>5, <1>6, HereFacts DEF Pack, Here, Calm
  <2> QED BY <1>1, <1>4, <2>1 DEF PortInv, Types
<1>8. /\ lock # "con" /\ con.pc = "idle" /\ phase \notin {"unknown", "closed", "cleared", "txen"}
      /\ (Live => Shadowed(d.ier, up.ier))
  BY <1>1, FreeFacts, HeldFacts DEF PortInv, Locks, Free, Holding
<1>9. Locks'
  BY <1>1, <1>4, <1>8 DEF PortInv, Locks, Holding
<1>10. Shadow'
  BY <1>1, <1>6, <1>8 DEF Shadow, Live, Shadowed
<1>11. Out'
  BY <1>1, <1>6 DEF PortInv, Out, Session
<1>12. Sending'
  <2>1. Going(Here) => Going(Here)'
    BY <1>1 DEF Going, Here, Stopped
  <2> QED BY <1>1, <1>2, <1>4, <2>1 DEF PortInv, Sending, Holding
<1>13. Receiving'
  <2>1. Ghost' => Ghost
    BY <1>4, <1>6 DEF Ghost
  <2> QED BY <1>1, <1>6, <2>1 DEF PortInv, Receiving, Enabled, Open
<1>14. BreakKept'
  <2>1. ~Late'
    BY <1>6 DEF Late
  <2>2. BreakNotLost'
    <3>1. Open /\ hist.owed /\ hist.flips = 0 => "BI" \in d.lsr \cup up.saved
      BY <1>1 DEF PortInv, BreakKept, BreakNotLost
    <3>2. "BI" \in d.lsr => h'.pc = "rx" /\ "BI" \in h'.status
      BY <1>3, <1>4
    <3> QED BY <1>1, <3>1, <3>2 DEF BreakNotLost, Open
  <2> QED BY <2>1, <2>2 DEF BreakKept
<1>15. CtsKept'
  BY <1>1, <1>4, <1>6, CtsSame DEF PortInv, CtsSeen
<1>16. Blame'
  BY <1>1, <1>8 DEF PortInv, Blame
<1> QED BY <1>7, <1>9, <1>10, <1>11, <1>12, <1>13, <1>14, <1>15, <1>16 DEF PortInv

(* A turn of the receive loop.                                             *)
LEMMA RxCharStep == ASSUME PortInv, RxChar PROVE PortInv'
<1> DEFINE there == "DR" \in h.status
           seen  == h.status \cup up.saved
           q     == ReadRbr(d)
           t     == IF there THEN q.dev ELSE d
           ghost == there /\ d.fcr.fe /\ d.recv = <<>>
           v     == IF d.fcr.fe THEN First(d.recv) ELSE d.rbr
<1>1. /\ h.pc = "rx" /\ d' = t /\ up' = [up EXCEPT !.saved = {}] /\ h' = [h EXCEPT !.pc = "rxlsr"]
      /\ hist' = [hist EXCEPT !.owed = @ /\ "BI" \notin seen,
                              !.ghosts = @ + (IF ghost THEN 1 ELSE 0),
                              !.got = IF there /\ Open /\ ~ghost THEN Append(@, v) ELSE @]
      /\ UNCHANGED <<lines, mode, phase, tty, xmit, lock, con, wr, th>>
  <2>1. q.val = v
    BY DEF ReadRbr
  <2> QED BY <2>1 DEF RxChar, Goto
<1>2. h.pc \in Holding /\ lock = "irq" /\ con.pc = "idle" /\ "THRE" \in h.status
      /\ phase \notin {"unknown", "closed", "cleared", "txen"} /\ (Live => Shadowed(d.ier, up.ier))
  BY <1>1, HeldFacts DEF Holding
<1>3. h' \in Handlers /\ h'.pc = "rxlsr" /\ h'.status = h.status
  BY <1>1, HereFacts DEF Handlers, Pcs, Holding
<1>4. /\ Calm(t) /\ Right(t)
      /\ Same(d, t, {"recv", "toPending", "lsr", "fifoTimer", "iir", "irq"})
      /\ there /\ d.fcr.fe =>
           /\ t.recv = Rest(d.recv)
           /\ t.lsr = IF t.recv = <<>> THEN d.lsr \ {"DR", "BI"} ELSE d.lsr
      /\ ~there => t = d
  <2> DEFINE w == q.dev
  <2>1. /\ Calm(w) /\ Right(w)
        /\ Same(d, w, {"recv", "toPending", "lsr", "fifoTimer", "iir", "irq"})
        /\ d.fcr.fe => /\ w.recv = Rest(d.recv)
                       /\ w.lsr = IF w.recv = <<>> THEN d.lsr \ {"DR", "BI"} ELSE d.lsr
    BY HereFacts, CalmRbr, ZenonT(40)
  <2> HIDE DEF w
  <2>2. CASE there
    <3>1. t = w
      BY <2>2 DEF w
    <3> QED BY <2>1, <2>2, <3>1
  <2>3. CASE ~there
    BY <2>3, HereFacts DEF Same
  <2> QED BY <2>2, <2>3
<1> HIDE DEF t
<1>5. /\ d'.mcr = d.mcr /\ d'.fcr = d.fcr /\ d'.ier = d.ier /\ d'.msr = d.msr /\ d'.out = d.out
      /\ d'.thrPending = d.thrPending
  BY <1>1, <1>4 DEF Same, Fields
<1>6. up' \in Ups /\ up'.ier = up.ier /\ up'.bugs = up.bugs /\ up'.type = up.type /\ up'.saved = {}
  BY <1>1, HereFacts DEF Ups
<1>7. /\ d.recv \in Seq(Chars) /\ d.rbr \in Chars /\ v \in Chars
      /\ d.recv # <<>> => /\ First(d.recv) = Head(d.recv) /\ Rest(d.recv) = Tail(d.recv)
                          /\ Tail(d.recv) \in Seq(Chars) /\ Head(d.recv) \in Chars
      /\ d.recv = <<>> => Rest(d.recv) = <<>>
  <2>1. d.recv \in Seq(Chars) /\ d.rbr \in Chars /\ NUL \in Chars
    BY HereFacts, FifoAssumption DEF Dev, Fifo, NUL
  <2>2. d.recv # <<>> => Tail(d.recv) \in Seq(Chars) /\ Head(d.recv) \in Chars
    BY <2>1, HeadTailProperties
  <2> QED BY <2>1, <2>2 DEF First, Rest
<1> HIDE DEF q, v
<1>8. /\ hist'.queued = hist.queued /\ hist'.accepted = hist.accepted /\ hist'.flips = hist.flips
      /\ hist'.taken = hist.taken
      /\ hist'.owed = (hist.owed /\ "BI" \notin seen)
      /\ hist'.ghosts = hist.ghosts + (IF ghost THEN 1 ELSE 0)
      /\ hist'.got = IF there /\ Open /\ ~ghost THEN Append(hist.got, v) ELSE hist.got
      /\ hist' \in Hists
  <2> DEFINE g == hist.ghosts + (IF ghost THEN 1 ELSE 0)
             o == (hist.owed /\ "BI" \notin seen)
             r == IF there /\ Open /\ ~ghost THEN Append(hist.got, v) ELSE hist.got
  <2>1. hist' = [hist EXCEPT !.owed = o, !.ghosts = g, !.got = r]
    BY <1>1
  <2>2. hist \in Hists /\ hist.got \in Seq(Chars)
    BY HereFacts DEF Hists
  <2>3. g \in Nat
    BY <2>2 DEF Hists
  <2>4. r \in Seq(Chars)
    BY <1>7, <2>2, AppendProperties
  <2>5. o \in BOOLEAN
    BY <2>2 DEF Hists
  <2> HIDE DEF g, o, r
  <2>6. hist'.queued = hist.queued /\ hist'.accepted = hist.accepted /\ hist'.flips = hist.flips
        /\ hist'.taken = hist.taken /\ hist'.owed = o /\ hist'.ghosts = g /\ hist'.got = r /\ hist' \in Hists
    BY <2>1, <2>2, <2>3, <2>4, <2>5 DEF Hists
  <2> QED BY <2>6 DEF g, o, r
<1>9. Types'
  <2>1. Pack(Here)'
    BY <1>1, <1>4, <1>5, <1>6, HereFacts DEF Pack, Here, Calm
  <2> QED BY <1>1, <1>3, <1>8, <2>1 DEF PortInv, Types
<1>10. Locks'
  BY <1>1, <1>2, <1>3, <1>6 DEF PortInv, Locks, Holding
<1>11. Shadow'
  BY <1>1, <1>2, <1>5, <1>6 DEF Shadow, Live, Shadowed
<1>12. Out'
  BY <1>1, <1>5, <1>8 DEF PortInv, Out, Session
<1>13. Sending'
  <2>1. Going(Here) => Going(Here)'
    BY <1>1, <1>6 DEF Going, Here, Stopped
  <2> QED BY <1>1, <1>2, <1>3, <2>1 DEF PortInv, Sending, Holding
<1>14. phase \in Enabled => d.fcr.fe
  BY DEF PortInv, Receiving
<1>15. ghost => phase \in Enabled
  BY <1>2, HereFacts DEF PortInv, Receiving, Types, Phases, Enabled
<1>16. hist.ghosts \in Nat /\ hist.flips \in Nat /\ hist.got \in Seq(Chars)
  BY HereFacts DEF Hists
<1>17. Receiving'
  <2>1. Open => hist'.got \o d'.recv = hist.accepted
    <3> SUFFICES ASSUME Open PROVE hist'.got \o d'.recv = hist.accepted
      OBVIOUS
    <3>1. d.fcr.fe /\ hist.got \o d.recv = hist.accepted
      BY <1>14 DEF Open, Enabled, PortInv, Receiving
    <3>2. CASE ~there
      BY <1>1, <1>4, <1>8, <3>1, <3>2
    <3>3. CASE there /\ d.recv = <<>>
      <4>1. d'.recv = <<>> /\ hist'.got = hist.got
        BY <1>1, <1>4, <1>7, <1>8, <3>1, <3>3
      <4> QED BY <3>1, <3>3, <4>1
    <3>4. CASE there /\ d.recv # <<>>
      <4>1. d'.recv = Tail(d.recv) /\ hist'.got = Append(hist.got, Head(d.recv))
        BY <1>1, <1>4, <1>7, <1>8, <3>1, <3>4 DEF v
      <4>2. Append(hist.got, Head(d.recv)) \o Tail(d.recv) = hist.got \o d.recv
        <5> DEFINE g == hist.got
                   r == d.recv
                   x == Head(r)
                   y == Tail(r)
        <5>1. g \in Seq(Chars) /\ x \in Chars /\ y \in Seq(Chars) /\ r \in Seq(Chars) /\ r # <<>>
          BY <1>7, <1>16, <3>4
        <5>2. r = <<x>> \o y
          BY <5>1, HeadTailProperties
        <5> HIDE DEF g, x, y, r
        <5>3. Append(g, x) = g \o <<x>> /\ <<x>> \in Seq(Chars)
          BY <5>1, AppendIsConcat
        <5>4. (g \o <<x>>) \o y = g \o (<<x>> \o y)
          BY <5>1, <5>3, ConcatAssociative
        <5>5. Append(g, x) \o y = g \o r
          BY <5>2, <5>3, <5>4
        <5> QED BY <5>5 DEF g, x, y, r
      <4> QED BY <3>1, <4>1, <4>2
    <3> QED BY <3>2, <3>3, <3>4
  <2>2. hist'.ghosts <= hist'.flips
    <3>1. CASE ghost
      <4>1. hist.ghosts < hist.flips
        BY <1>1, <1>15, <3>1 DEF PortInv, Receiving, Ghost
      <4> QED BY <1>8, <1>16, <3>1, <4>1
    <3>2. CASE ~ghost
      BY <1>8, <1>16, <3>2 DEF PortInv, Receiving
    <3> QED BY <3>1, <3>2
  <2>3. phase \in Enabled /\ d'.recv = <<>> /\ Ghost' => hist'.ghosts < hist'.flips
    <3> SUFFICES ASSUME phase \in Enabled, d'.recv = <<>>, Ghost' PROVE hist'.ghosts < hist'.flips
      OBVIOUS
    <3>1. "DR" \in d'.lsr
      BY <1>3 DEF Ghost
    <3>2. ~there
      BY <1>1, <1>4, <1>14, <3>1
    <3>3. d.recv = <<>> /\ Ghost /\ hist'.ghosts = hist.ghosts
      BY <1>1, <1>4, <1>8, <1>16, <3>1, <3>2 DEF Ghost
    <3> QED BY <1>8, <3>3 DEF PortInv, Receiving
  <2> QED BY <1>1, <1>5, <1>8, <2>1, <2>2, <2>3 DEF PortInv, Receiving, Open
<1>18. BreakKept'
  <2>1. ~Late'
    BY <1>3 DEF Late
  <2>2. Open /\ hist'.owed /\ hist.flips = 0 => "BI" \in d'.lsr
    <3> SUFFICES ASSUME Open, hist'.owed, hist.flips = 0 PROVE "BI" \in d'.lsr
      OBVIOUS
    <3>1. hist.owed /\ "BI" \notin h.status \cup up.saved
      BY <1>8
    <3>2. "BI" \in d.lsr
      BY <1>1, <3>1 DEF PortInv, BreakKept, BreakNotLost
    <3>3. CASE ~there
      BY <1>1, <1>4, <3>2, <3>3
    <3>4. CASE there
      <4>1. d.fcr.fe /\ Len(d.recv) > 1
        BY <1>1, <1>14, <3>1, <3>2, <3>4 DEF Open, Enabled, PortInv, BreakKept, Late
      <4>2. d.recv # <<>> /\ Tail(d.recv) # <<>>
        <5> DEFINE r == d.recv
        <5>1. r \in Seq(Chars) /\ Len(r) > 1
          BY <1>7, <4>1
        <5> HIDE DEF r
        <5>2. r # <<>>
          BY <5>1
        <5>3. Len(Tail(r)) = Len(r) - 1
          BY <5>1, <5>2, HeadTailProperties
        <5>4. Len(r) \in Nat
          BY <5>1, LenProperties
        <5> DEFINE y == Tail(r)
                   n == Len(r)
                   k == Len(y)
        <5>5. y \in Seq(Chars) /\ k = n - 1 /\ n > 1 /\ n \in Nat
          BY <5>1, <5>2, <5>3, <5>4, HeadTailProperties
        <5> HIDE DEF y, n
        <5>6. k # 0
          <6> HIDE DEF k
          <6> QED BY <5>5
        <5>7. y # <<>>
          BY <5>5, <5>6, EmptySeq
        <5> QED BY <5>2, <5>7 DEF r, y
      <4> QED BY <1>1, <1>4, <1>7, <3>2, <3>4, <4>1, <4>2
    <3> QED BY <3>3, <3>4
  <2> QED BY <1>1, <1>8, <2>1, <2>2 DEF BreakKept, BreakNotLost, Open
<1>19. CtsKept'
  BY <1>1, <1>3, <1>5, <1>6, CtsSame DEF PortInv, CtsSeen
<1>20. Blame'
  BY <1>1, <1>2, <1>6, <1>8 DEF PortInv, Blame
<1> QED BY <1>9, <1>10, <1>11, <1>12, <1>13, <1>17, <1>18, <1>19, <1>20 DEF PortInv

(* The console holds the lock.                                             *)
LEMMA ConsoleFacts ==
  ASSUME PortInv, con.pc \in {"put", "end"}
  PROVE  /\ lock = "con" /\ h.pc \notin Holding /\ h.pc # "rx" /\ phase \notin {"unknown", "txen"}
         /\ (Live => d.ier = {} /\ Shadowed(con.ier, up.ier))
BY DEF PortInv, Locks, Shadow, Holding

(* serial8250_console_write saves and clears the mask.                     *)
LEMMA ConsoleBeginStep == ASSUME PortInv, ConsoleBegin PROVE PortInv'
<1> DEFINE none == {}
           dev == WriteIer(d, none, lines)
           q == [Here EXCEPT !.d = dev]
<1>1. /\ con.pc = "idle" /\ phase # "unknown" /\ Free /\ Request
      /\ con' = [pc |-> "put", ier |-> d.ier] /\ d' = dev /\ lock' = "con" /\ hist' = Spent
      /\ UNCHANGED <<lines, mode, phase, up, tty, xmit, h, wr, th>>
  BY DEF ConsoleBegin
<1>2. none \in SUBSET All /\ none = {} /\ d.ier \in SUBSET All
  BY HereFacts DEF Dev, IerBits, All
<1> HIDE DEF none
<1>3. /\ Carries(Here, q) /\ SameTty(Here, q) /\ CtsSeen(Here.d, q.d)
      /\ q.up = Here.up /\ q.d = dev /\ q.d.ier = none /\ q.d.thrPending
  <2>1. dev = WriteIer(Here.d, none, lines) /\ Pack(Here) /\ lines \in SUBSET Lines
    BY HereFacts
  <2> HIDE DEF dev
  <2> QED BY <1>2, <2>1, MaskFacts
<1> HIDE DEF q, dev
<1>4. Put(q) /\ q.xmit = xmit
  BY <1>1, <1>3, HereFacts DEF Put, SameTty
<1>5. /\ Types' /\ Out' /\ Receiving' /\ BreakKept' /\ Blame' /\ Here' = q /\ up'.type = up.type
  <2>1. lines' \in SUBSET Lines /\ Logged /\ lock' \in {"none", "irq", "con", "open"} /\ h.pc # "rx"
        /\ con' \in [pc : {"idle", "put", "end"}, ier : SUBSET All] /\ h' \in Handlers /\ h'.pc # "rx"
        /\ phase # "txen"
    BY <1>1, <1>2, HereFacts, FreeFacts, LoggedSpent
  <2> QED BY <1>1, <1>3, <1>4, <2>1, PassStep
<1>6. Locks'
  BY <1>1, <1>5 DEF PortInv, Locks, Free
<1>7. Shadow'
  BY <1>1, <1>2, <1>3, FreeFacts DEF Shadow, Live, Shadowed
<1>8. Sending'
  <2>1. Going(Here) => Going(Here)'
    BY <1>1 DEF Going, Here, Stopped
  <2>2. Pending(Here)'
    BY <1>3, <1>5 DEF Pending
  <2> QED BY <1>1, <2>1, <2>2 DEF PortInv, Sending
<1>9. CtsKept'
  BY <1>1, <1>3, HereFacts, CtsSame DEF PortInv
<1> QED BY <1>5, <1>6, <1>7, <1>8, <1>9, Together

(* serial8250_console_putchar.                                             *)
LEMMA ConsolePutStep == ASSUME PortInv, ConsolePut PROVE PortInv'
<1> DEFINE p == TxEmpty(Here)
           c == CON
           dev == Write1(p.d, c)
           q == [p EXCEPT !.d = dev]
<1>1. /\ con.pc = "put" /\ d' = dev /\ up' = p.up /\ con' = [con EXCEPT !.pc = "end"]
      /\ UNCHANGED <<lines, mode, phase, tty, xmit, lock, h, wr, th, hist>>
  BY DEF ConsolePut, Write1
<1>2. c \in {STOP, START, CON}
  OBVIOUS
<1> HIDE DEF c
<1>3. /\ Carries(Here, p) /\ SameTty(Here, p) /\ p.up.ier = Here.up.ier
      /\ Same(Here.d, p.d, {"lsr", "iir", "irq"})
  BY HereFacts, TxEmptyFacts
<1> HIDE DEF p
<1>4. /\ Carries(p, q) /\ SameTty(p, q) /\ CtsSeen(p.d, q.d) /\ q.d = dev
      /\ q.up = p.up /\ q.d.ier = p.d.ier /\ q.d.thrPending
  <2>1. Pack(p)
    BY <1>3 DEF Carries
  <2> HIDE DEF dev
  <2>2. dev = Write1(p.d, c)
    BY DEF dev
  <2> QED BY <1>2, <2>1, <2>2, XcharFacts
<1> HIDE DEF q, dev
<1>5. Carries(Here, q)
  BY <1>3, <1>4, CarriesTrans
<1>6. Put(q) /\ q.xmit = xmit /\ q.up.ier = up.ier /\ q.d.ier = d.ier /\ CtsSeen(d, q.d)
  BY <1>1, <1>3, <1>4, HereFacts DEF Put, SameTty, Same, Fields, CtsSeen
<1>7. /\ con' \in [pc : {"idle", "put", "end"}, ier : SUBSET All] /\ con'.pc = "end"
      /\ con'.ier = con.ier
  BY <1>1, HereFacts
<1>8. /\ Types' /\ Out' /\ Receiving' /\ BreakKept' /\ Blame' /\ Here' = q /\ up'.type = up.type
      /\ d' = q.d /\ up' = q.up
  <2>1. lines' \in SUBSET Lines /\ Logged /\ lock' \in {"none", "irq", "con", "open"} /\ h.pc # "rx"
        /\ phase # "txen" /\ h' \in Handlers /\ h'.pc # "rx"
    BY <1>1, HereFacts, ConsoleFacts, LoggedSame
  <2> QED BY <1>1, <1>5, <1>6, <1>7, <2>1, PassStep
<1>9. Locks'
  BY <1>1, <1>7, <1>8 DEF PortInv, Locks
<1>10. Shadow'
  BY <1>1, <1>6, <1>7, <1>8, ConsoleFacts DEF Shadow, Live, Shadowed
<1>11. Sending'
  <2>1. Going(Here) => Going(Here)'
    BY <1>1, <1>6, <1>8 DEF Going, Here, Stopped
  <2>2. Pending(Here)'
    BY <1>4, <1>8 DEF Pending
  <2> QED BY <1>1, <2>1, <2>2 DEF PortInv, Sending
<1>12. CtsKept'
  BY <1>1, <1>6, <1>8, CtsSame DEF PortInv
<1> QED BY <1>8, <1>9, <1>10, <1>11, <1>12, Together

(* serial8250_console_write restores the mask it saved.                    *)
LEMMA ConsoleEndStep == ASSUME PortInv, ConsoleEnd PROVE PortInv'
<1> DEFINE p == TxEmpty(Here)
           ier == con.ier
           dev == WriteIer(p.d, ier, lines)
           q == [p EXCEPT !.d = dev]
<1>1. /\ con.pc = "end" /\ d' = dev /\ up' = p.up /\ con' = [pc |-> "idle", ier |-> {}]
      /\ lock' = "none" /\ UNCHANGED <<lines, mode, phase, tty, xmit, h, wr, th, hist>>
  BY DEF ConsoleEnd
<1>2. ier \in SUBSET All /\ ier = con.ier
  BY HereFacts
<1> HIDE DEF ier
<1>3. /\ Carries(Here, p) /\ SameTty(Here, p) /\ p.up.ier = Here.up.ier
      /\ Same(Here.d, p.d, {"lsr", "iir", "irq"})
  BY HereFacts, TxEmptyFacts
<1> HIDE DEF p
<1>4. /\ Carries(p, q) /\ SameTty(p, q) /\ CtsSeen(p.d, q.d)
      /\ q.up = p.up /\ q.d = dev /\ q.d.ier = ier /\ q.d.thrPending
  <2>1. Pack(p) /\ lines \in SUBSET Lines
    BY <1>3, HereFacts DEF Carries
  <2>2. dev = WriteIer(p.d, ier, lines)
    BY DEF dev
  <2> HIDE DEF dev
  <2> QED BY <1>2, <2>1, <2>2, MaskFacts, SMTT(30)
<1> HIDE DEF q, dev
<1>5. Carries(Here, q)
  BY <1>3, <1>4, CarriesTrans
<1>6. Put(q) /\ q.xmit = xmit /\ q.up.ier = up.ier /\ q.d.ier = con.ier /\ CtsSeen(d, q.d)
  BY <1>1, <1>2, <1>3, <1>4, HereFacts DEF Put, SameTty, Same, Fields, CtsSeen
<1>7. /\ Types' /\ Out' /\ Receiving' /\ BreakKept' /\ Blame' /\ Here' = q /\ up'.type = up.type
      /\ d' = q.d /\ up' = q.up
  <2>1. lines' \in SUBSET Lines /\ Logged /\ lock' \in {"none", "irq", "con", "open"} /\ h.pc # "rx"
        /\ phase # "txen" /\ h' \in Handlers /\ h'.pc # "rx" /\ con' \in [pc : {"idle", "put", "end"}, ier : SUBSET All]
    BY <1>1, HereFacts, ConsoleFacts, LoggedSame
  <2> QED BY <1>1, <1>5, <1>6, <2>1, PassStep
<1>8. Locks'
  BY <1>1, <1>7, ConsoleFacts DEF PortInv, Locks
<1>9. Shadow'
  BY <1>1, <1>6, <1>7, ConsoleFacts DEF Shadow, Live, Shadowed
<1>10. Sending'
  <2>1. Going(Here) => Going(Here)'
    BY <1>1, <1>6, <1>7 DEF Going, Here, Stopped
  <2>2. Pending(Here)'
    BY <1>4, <1>7 DEF Pending
  <2> QED BY <1>1, <2>1, <2>2 DEF PortInv, Sending
<1>11. CtsKept'
  BY <1>1, <1>6, <1>7, CtsSame DEF PortInv
<1> QED BY <1>7, <1>8, <1>9, <1>10, <1>11, Together

(* A step of the device that leaves the transmitter and the registers of   *)
(* the driver alone: what does not depend on the receiver.                 *)
LEMMA DeviceStep ==
  ASSUME PortInv, NEW t, Device(t), t \in Dev, Quiet(t), Right(t), t.mcr = d.mcr, t.ier = d.ier,
         t.out = d.out, t.thrPending = d.thrPending, CtsSeen(d, t),
         lines' \in SUBSET Lines, hist' \in Hists, hist'.queued = hist.queued,
         hist'.taken = hist.taken
  PROVE  /\ Types' /\ Locks' /\ Shadow' /\ Out' /\ Sending' /\ CtsKept' /\ Blame'
         /\ d' = t /\ UNCHANGED <<phase, up, h>>
<1>1. d' = t /\ UNCHANGED <<mode, phase, up, tty, xmit, lock, h, con, wr, th>>
  BY DEF Device, Threads
<1>2. Pack(Here)'
  BY <1>1, HereFacts DEF Pack, Here, Quiet, Right
<1>3. Types'
  BY <1>1, <1>2 DEF PortInv, Types
<1>4. Locks' /\ Shadow' /\ Out'
  BY <1>1 DEF PortInv, Locks, Shadow, Live, Shadowed, Out, Session
<1>5. Sending'
  BY <1>1 DEF PortInv, Sending, Going, Pending, Stopped, Here
<1>6. CtsKept'
  BY <1>1, CtsSame DEF PortInv
<1>7. Blame'
  BY <1>1 DEF PortInv, Blame
<1> QED BY <1>1, <1>3, <1>4, <1>5, <1>6, <1>7

(* The arrival of c: the FIFO takes it, and a break asks for attention.    *)
LEMMA ArrivalStep ==
  ASSUME PortInv, NEW c \in Chars, NEW t, Device(t), t \in Dev, Right(t),
         Same(d, t, {"rbr", "lsr", "recv", "fifoTimer", "iir", "irq"}),
         d.lsr \subseteq t.lsr, "DR" \in t.lsr,
         d.fcr.fe => t.recv = IF Len(d.recv) < FIFOLEN THEN Append(d.recv, c) ELSE d.recv,
         lines' = lines, hist' \in Hists,
         \A f \in {"queued", "got", "ghosts", "flips", "taken"} : hist'[f] = hist[f],
         hist'.accepted = IF Open /\ Len(d.recv) < FIFOLEN THEN Append(hist.accepted, c)
                          ELSE hist.accepted,
         hist'.owed => hist.owed \/ (Open /\ "BI" \in t.lsr)
  PROVE  PortInv'
<1>1. /\ hist'.queued = hist.queued /\ hist'.got = hist.got
      /\ hist'.ghosts = hist.ghosts /\ hist'.flips = hist.flips /\ hist'.taken = hist.taken
  OBVIOUS
<1>2. /\ t.mcr = d.mcr /\ t.ier = d.ier /\ t.out = d.out /\ t.thrPending = d.thrPending
      /\ t.fcr = d.fcr /\ CtsSeen(d, t)
  BY DEF Same, Fields, CtsSeen
<1>3. Quiet(t)
  BY HereFacts DEF Calm, Quiet, Same, Fields
<1>4. /\ Types' /\ Locks' /\ Shadow' /\ Out' /\ Sending' /\ CtsKept' /\ Blame'
      /\ d' = t /\ UNCHANGED <<phase, up, h>>
  BY <1>1, <1>2, <1>3, HereFacts, DeviceStep
<1>5. d.recv \in Seq(Chars) /\ Len(d.recv) \in Nat /\ Len(d.recv) <= FIFOLEN /\ FIFOLEN \in Nat /\ FIFOLEN > 1
  BY HereFacts, FifoAssumption, PortAssumption, LenProperties DEF PortAssumption, Dev, Fifo
<1>6. d.fcr.fe => t.recv # <<>> /\ (d.recv # <<>> => Len(t.recv) > 1)
  <2> SUFFICES ASSUME d.fcr.fe PROVE t.recv # <<>> /\ (d.recv # <<>> => Len(t.recv) > 1)
    OBVIOUS
  <2> DEFINE r == d.recv
             x == Append(r, c)
  <2>1. x \in Seq(Chars) /\ Len(x) = Len(r) + 1 /\ (r # <<>> => Len(r) # 0)
    BY <1>5, AppendProperties, EmptySeq
  <2>2. x # <<>> /\ (r # <<>> => Len(x) > 1)
    <3>1. Len(x) # 0
      BY <1>5, <2>1
    <3> QED BY <1>5, <2>1, <3>1, EmptySeq
  <2>3. CASE Len(r) < FIFOLEN
    BY <2>2, <2>3
  <2>4. CASE ~(Len(r) < FIFOLEN)
    <3>1. t.recv = r /\ Len(r) > 1
      BY <1>5, <2>4
    <3> QED BY <3>1, EmptySeq
  <2> QED BY <2>3, <2>4
<1>7. Open => phase \in Enabled /\ d.fcr.fe
  BY DEF Open, Enabled, PortInv, Receiving
<1>8. Receiving'
  <2>1. Open => hist.got \o t.recv = hist'.accepted
    <3> SUFFICES ASSUME Open PROVE hist.got \o t.recv = hist'.accepted
      OBVIOUS
    <3>1. d.fcr.fe /\ hist.got \o d.recv = hist.accepted /\ hist.got \in Seq(Chars)
      BY <1>7, HereFacts DEF PortInv, Receiving, Hists
    <3>2. CASE ~(Len(d.recv) < FIFOLEN)
      BY <3>1, <3>2
    <3>3. CASE Len(d.recv) < FIFOLEN
      <4> DEFINE g == hist.got
                 r == d.recv
      <4>1. t.recv = Append(r, c) /\ hist'.accepted = Append(g \o r, c)
        BY <3>1, <3>3
      <4>2. g \in Seq(Chars) /\ r \in Seq(Chars)
        BY <1>5, <3>1
      <4> HIDE DEF g, r
      <4>3. /\ Append(r, c) = r \o <<c>> /\ g \o r \in Seq(Chars) /\ <<c>> \in Seq(Chars)
        BY <4>2, AppendIsConcat, ConcatProperties
      <4>4. Append(g \o r, c) = (g \o r) \o <<c>> /\ (g \o r) \o <<c>> = g \o (r \o <<c>>)
        BY <4>2, <4>3, AppendIsConcat, ConcatAssociative, SMTT(30)
      <4>5. g \o Append(r, c) = Append(g \o r, c)
        BY <4>3, <4>4
      <4> QED BY <4>1, <4>5 DEF g
    <3> QED BY <3>2, <3>3
  <2>2. phase \in Enabled => t.recv # <<>>
    BY <1>6 DEF PortInv, Receiving
  <2> QED BY <1>1, <1>2, <1>4, <2>1, <2>2 DEF PortInv, Receiving, Open
<1>9. BreakKept'
  <2>1. Open' <=> Open
    BY <1>4 DEF Open
  <2>2. Open /\ hist.flips = 0 /\ Late' => Len(t.recv) > 1
    <3> SUFFICES ASSUME Open, hist.flips = 0, Late' PROVE Len(t.recv) > 1
      OBVIOUS
    <3>1. h.pc = "rx" /\ "DR" \in h.status
      BY <1>4 DEF Late
    <3>2. d.recv # <<>>
      <4>1. hist.ghosts \in Nat
        BY HereFacts DEF Hists
      <4>2. ~(hist.ghosts < hist.flips)
        BY <4>1
      <4> QED BY <1>7, <3>1, <4>2 DEF PortInv, Receiving, Ghost
    <3> QED BY <1>6, <1>7, <3>2
  <2>3. BreakNotLost'
    <3>1. Open /\ hist.owed /\ hist.flips = 0 =>
            "BI" \in d.lsr \union up.saved \union (IF h.pc = "rx" THEN h.status ELSE {})
      BY DEF PortInv, BreakKept, BreakNotLost
    <3>2. Open /\ hist'.owed /\ hist.flips = 0 =>
            "BI" \in t.lsr \union up.saved \union (IF h.pc = "rx" THEN h.status ELSE {})
      BY <3>1
    <3> QED BY <1>1, <1>4, <2>1, <3>2 DEF BreakNotLost
  <2> QED BY <1>1, <1>4, <2>1, <2>2, <2>3 DEF BreakKept
<1> QED BY <1>4, <1>8, <1>9, Together

(* A step of the device that leaves the receiver's data alone.             *)
LEMMA TimerStep ==
  ASSUME PortInv, NEW t, Device(t), t \in Dev, Heard(d, t), CtsSeen(d, t),
         Same(d, t, {"fifoTimer", "toPending", "msr", "mslTimer", "poll", "iir", "irq"}),
         lines' \in SUBSET Lines, Logged
  PROVE  PortInv'
<1>1. /\ t.mcr = d.mcr /\ t.ier = d.ier /\ t.out = d.out /\ t.thrPending = d.thrPending
      /\ t.fcr = d.fcr /\ t.recv = d.recv /\ t.lsr = d.lsr
  BY DEF Same, Fields
<1>2. Quiet(t) /\ Right(t)
  BY HereFacts, HeardTold DEF Calm, Quiet, Same, Fields
<1>3. hist' \in Hists /\ hist'.queued = hist.queued /\ hist'.taken = hist.taken
      /\ \A f \in {"got", "accepted", "owed", "ghosts", "flips", "taken"} : hist'[f] = hist[f]
  BY DEF Logged
<1>4. /\ Types' /\ Locks' /\ Shadow' /\ Out' /\ Sending' /\ CtsKept' /\ Blame'
      /\ d' = t /\ UNCHANGED <<phase, up, h>>
  BY <1>1, <1>2, <1>3, DeviceStep
<1>5. Receiving' /\ BreakKept'
  <2>1. Types /\ Receiving /\ BreakKept
    BY DEF PortInv
  <2> QED BY <1>1, <1>3, <1>4, <2>1, ReceiverKept
<1> QED BY <1>4, <1>5, Together

(* The timeout of the receive FIFO.                                        *)
LEMMA FifoTimeoutStep == ASSUME PortInv, FifoTimeout PROVE PortInv'
<1> DEFINE t == TimeoutInt(d)
<1>1. Device(t) /\ lines' = lines /\ hist' = hist
  BY DEF FifoTimeout
<1>2. /\ t \in Dev /\ Heard(d, t) /\ Same(d, t, {"fifoTimer", "toPending", "iir", "irq"})
  BY HereFacts, TimeoutFacts
<1> HIDE DEF t
<1>3. /\ Same(d, t, {"fifoTimer", "toPending", "msr", "mslTimer", "poll", "iir", "irq"})
      /\ CtsSeen(d, t)
  BY <1>2 DEF Same, Fields, CtsSeen
<1> QED BY <1>1, <1>2, <1>3, HereFacts, LoggedSame, TimerStep

(* The device polls the modem lines.                                       *)
LEMMA ModemPollStep == ASSUME PortInv, ModemPoll PROVE PortInv'
<1> DEFINE t == UpdateMsl(d, lines)
<1>1. Device(t) /\ lines' = lines /\ hist' = hist
  BY DEF ModemPoll
<1>2. /\ t \in Dev /\ Heard(d, t) /\ Same(d, t, {"msr", "mslTimer", "poll", "iir", "irq"})
      /\ CtsSeen(d, t)
  BY HereFacts, UpdateMslFacts
<1> HIDE DEF t
<1>3. Same(d, t, {"fifoTimer", "toPending", "msr", "mslTimer", "poll", "iir", "irq"})
  BY <1>2 DEF Same
<1> QED BY <1>1, <1>2, <1>3, HereFacts, LoggedSame, TimerStep

(* CTS goes up or down at the back end.                                    *)
LEMMA LineChangeStep == ASSUME PortInv, LineChange PROVE PortInv'
<1>1. Device(d) /\ Request /\ hist' = Spent /\ lines' \in SUBSET Lines
  BY HereFacts DEF LineChange, Lines
<1>2. d \in Dev /\ Heard(d, d) /\ CtsSeen(d, d)
      /\ Same(d, d, {"fifoTimer", "toPending", "msr", "mslTimer", "poll", "iir", "irq"})
  BY HereFacts DEF Heard, Same, CtsSeen
<1> QED BY <1>1, <1>2, HereFacts, LoggedSpent, TimerStep

(* An event is counted and nothing else.                                   *)
LEMMA EventFacts ==
  ASSUME hist \in Hists, Request
  PROVE  Spent \in Hists /\ Spent.ghosts = hist.ghosts /\ Spent.flips = hist.flips
         /\ Spent.taken = hist.taken
<1>1. MaxEvents \in Nat
  BY PortAssumption DEF PortAssumption
<1>2. /\ hist \in [events : 0 .. MaxEvents, written : Nat, queued : Seq(Chars), got : Seq(Chars),
                    accepted : Seq(Chars), owed : BOOLEAN, ghosts : Nat, flips : Nat, taken : BOOLEAN]
      /\ hist.written <= hist.events /\ hist.events < MaxEvents
  BY DEF Hists, Request
<1> DEFINE e == hist.events + 1
<1>3. e \in 0 .. MaxEvents /\ hist.written <= e /\ Spent = [hist EXCEPT !.events = e]
  BY <1>1, <1>2 DEF Spent
<1> HIDE DEF e
<1> QED BY <1>2, <1>3 DEF Hists

(* An event that also brings the receiver something.                       *)
LEMMA SpentFacts ==
  ASSUME hist \in Hists, Request, NEW acc \in Seq(Chars), NEW x, x = [Spent EXCEPT !.accepted = acc]
  PROVE  /\ x \in Hists /\ x.accepted = acc
         /\ \A f \in {"queued", "got", "ghosts", "flips", "owed", "taken"} : x[f] = hist[f]
<1>1. MaxEvents \in Nat
  BY PortAssumption DEF PortAssumption
<1>2. /\ hist \in [events : 0 .. MaxEvents, written : Nat, queued : Seq(Chars), got : Seq(Chars),
                    accepted : Seq(Chars), owed : BOOLEAN, ghosts : Nat, flips : Nat, taken : BOOLEAN]
      /\ hist.written <= hist.events /\ hist.events < MaxEvents
  BY DEF Hists, Request
<1> DEFINE e == hist.events + 1
           y == [hist EXCEPT !.events = e]
<1>3. e \in 0 .. MaxEvents /\ hist.events <= e /\ x = [y EXCEPT !.accepted = acc]
  BY <1>1, <1>2 DEF Spent
<1>4. hist.written <= e
  <2>1. hist.written \in Nat /\ hist.events \in Nat
    BY <1>1, <1>2
  <2> DEFINE w == hist.written
             v == hist.events
  <2>2. w \in Nat /\ v \in Nat /\ w <= v /\ e = v + 1
    BY <1>2, <2>1
  <2> HIDE DEF w, v, e
  <2>3. w <= e
    BY ONLY <2>2
  <2> QED BY <2>3 DEF w
<1> HIDE DEF e
<1>5. /\ y \in [events : 0 .. MaxEvents, written : Nat, queued : Seq(Chars), got : Seq(Chars),
                    accepted : Seq(Chars), owed : BOOLEAN, ghosts : Nat, flips : Nat, taken : BOOLEAN]
      /\ y.events = e /\ \A f \in {"queued", "got", "ghosts", "flips", "owed", "taken", "written"} : y[f] = hist[f]
  BY <1>2, <1>3
<1> HIDE DEF y
<1>6. /\ x \in [events : 0 .. MaxEvents, written : Nat, queued : Seq(Chars), got : Seq(Chars),
                    accepted : Seq(Chars), owed : BOOLEAN, ghosts : Nat, flips : Nat, taken : BOOLEAN]
      /\ x.accepted = acc
      /\ \A f \in {"queued", "got", "ghosts", "flips", "owed", "taken", "written", "events"} : x[f] = y[f]
  BY <1>3, <1>5
<1>7. \A f \in {"queued", "got", "ghosts", "flips", "owed", "taken", "written"} : x[f] = hist[f]
  <2>1. \A f \in {"queued", "got", "ghosts", "flips", "owed", "taken", "written"} : x[f] = y[f]
    BY <1>6
  <2> QED BY <1>5, <2>1, Zenon
<1>8. x.written = hist.written /\ x.events = e
  <2>1. x.events = y.events
    BY <1>6
  <2> QED BY <1>5, <1>7, <2>1
<1>9. x \in Hists
  BY <1>4, <1>6, <1>8 DEF Hists
<1> QED BY <1>6, <1>7, <1>9

(* A character arrives.                                                    *)
LEMMA CharacterStep == ASSUME PortInv, Character PROVE PortInv'
<1> DEFINE c == hist.events + 1
           t == Receive1(d, c)
           acc == IF Open THEN Append(hist.accepted, c) ELSE hist.accepted
<1>1. /\ CanReceive(d) > 0 /\ Request /\ Device(t) /\ lines' = lines
      /\ hist' = [Spent EXCEPT !.accepted = acc]
  <2>1. hist' = [Spent EXCEPT !.accepted = IF Open THEN Append(@, c) ELSE @]
    BY DEF Character
  <2> QED BY <2>1 DEF Character, Spent
<1>2. c \in Chars /\ hist.accepted \in Seq(Chars) /\ hist \in Hists
  <2>1. hist \in Hists
    BY HereFacts
  <2>2. hist.accepted \in Seq(Chars) /\ hist.events \in 0 .. MaxEvents
    BY <2>1 DEF Hists
  <2>3. MaxEvents \in Nat /\ 0 .. MaxEvents \subseteq Chars
    BY PortAssumption DEF PortAssumption
  <2>4. c \in 0 .. MaxEvents
    BY <1>1, <2>2, <2>3 DEF Request
  <2> QED BY <2>1, <2>2, <2>3, <2>4
<1>3. acc \in Seq(Chars)
  BY <1>2, AppendProperties
<1>4. /\ t \in Dev /\ Right(t) /\ Received(d, t, c) /\ d.lsr \subseteq t.lsr
      /\ Same(d, t, {"rbr", "lsr", "recv", "fifoTimer", "iir", "irq"})
  BY <1>2, HereFacts, Receive1Facts
<1>5. Open => Len(d.recv) < FIFOLEN
  <2>1. Open => d.fcr.fe
    BY DEF Open, PortInv, Receiving, Enabled
  <2>2. Len(d.recv) \in Nat /\ FIFOLEN \in Nat
    BY HereFacts, FifoAssumption, LenProperties DEF Dev, Fifo
  <2> QED BY <1>1, <2>1, <2>2 DEF CanReceive
<1>6. acc = IF Open /\ Len(d.recv) < FIFOLEN THEN Append(hist.accepted, c) ELSE hist.accepted
  BY <1>5
<1>7. /\ Device(t) /\ lines' = lines /\ Request /\ hist' = [Spent EXCEPT !.accepted = acc]
  BY <1>1
<1> HIDE DEF t, acc, c
<1>8. /\ hist' \in Hists /\ hist'.accepted = acc
      /\ \A f \in {"queued", "got", "ghosts", "flips", "owed", "taken"} : hist'[f] = hist[f]
  BY <1>2, <1>3, <1>7, SpentFacts
<1> QED BY <1>2, <1>4, <1>6, <1>7, <1>8, HereFacts, ArrivalStep DEF Received

(* A break arrives.                                                        *)
LEMMA BreakStep == ASSUME PortInv, Break PROVE PortInv'
<1> DEFINE c == NUL
           t == ReceiveBreak(d)
           acc == IF Open /\ Len(d.recv) < FIFOLEN THEN Append(hist.accepted, c) ELSE hist.accepted
           owed == hist.owed \/ Open
<1>1. /\ Request /\ Device(t) /\ lines' = lines
      /\ hist' = [Spent EXCEPT !.owed = owed, !.accepted = acc]
  <2>1. hist' = [Spent EXCEPT !.owed = @ \/ Open,
                              !.accepted = IF Open /\ Len(d.recv) < FIFOLEN
                                           THEN Append(@, NUL) ELSE @]
    BY DEF Break
  <2> QED BY <2>1 DEF Break, Spent
<1>2. c \in Chars /\ hist.accepted \in Seq(Chars) /\ hist \in Hists /\ owed \in BOOLEAN
  BY HereFacts, FifoAssumption DEF Hists, NUL
<1>3. acc \in Seq(Chars)
  BY <1>2, AppendProperties
<1>4. /\ t \in Dev /\ Right(t) /\ d.lsr \subseteq t.lsr /\ {"BI", "DR"} \subseteq t.lsr
      /\ Same(d, t, {"rbr", "lsr", "recv", "iir", "irq"})
      /\ t.recv = IF Len(d.recv) < FIFOLEN THEN Append(d.recv, c) ELSE d.recv
  BY HereFacts, ReceiveBreakFacts
<1>5. /\ Device(t) /\ lines' = lines /\ Request
      /\ hist' = [Spent EXCEPT !.owed = owed, !.accepted = acc]
      /\ acc = IF Open /\ Len(d.recv) < FIFOLEN THEN Append(hist.accepted, c) ELSE hist.accepted
      /\ owed => hist.owed \/ Open
  BY <1>1
<1> HIDE DEF t, acc, c, owed
<1>6. /\ hist' \in Hists /\ hist'.accepted = acc /\ hist'.owed = owed
      /\ \A f \in {"queued", "got", "ghosts", "flips", "taken"} : hist'[f] = hist[f]
  <2> DEFINE x == [Spent EXCEPT !.accepted = acc]
  <2>1. x = [Spent EXCEPT !.accepted = acc] /\ hist' = [x EXCEPT !.owed = owed]
    BY <1>5 DEF Spent
  <2> HIDE DEF x
  <2>2. x \in Hists /\ x.accepted = acc
        /\ \A f \in {"queued", "got", "ghosts", "flips", "owed", "taken"} : x[f] = hist[f]
    BY <1>2, <1>3, <1>5, <2>1, SpentFacts, ZenonT(40)
  <2> QED BY <1>2, <2>1, <2>2 DEF Hists
<1>7. Same(d, t, {"rbr", "lsr", "recv", "fifoTimer", "iir", "irq"})
  BY <1>4 DEF Same
<1>8. hist'.owed => hist.owed \/ (Open /\ "BI" \in t.lsr)
  BY <1>4, <1>5, <1>6
<1> QED BY <1>2, <1>4, <1>5, <1>6, <1>7, <1>8, ArrivalStep

(* A step of probe, open or close: the types.                              *)
LEMMA PhaseStep ==
  ASSUME PortInv, NEW q, Pack(q), Put(q), UNCHANGED <<lines, mode, lock>>, UNCHANGED Threads,
         phase' \in Phases, hist' \in Hists
  PROVE  /\ Types' /\ Here' = q /\ d' = q.d /\ up' = q.up /\ xmit' = q.xmit /\ tty' = q.tty
         /\ UNCHANGED <<h, con, wr, th>>
<1>1. Here' = q /\ Pack(Here)'
  BY PutPack
<1>2. d' = q.d /\ up' = q.up /\ xmit' = q.xmit /\ tty' = q.tty
  BY DEF Put
<1>3. UNCHANGED <<h, con, wr, th>>
  BY DEF Threads
<1> QED BY <1>1, <1>2, <1>3 DEF PortInv, Types

(* autoconfig.                                                             *)
LEMMA ProbeStep == ASSUME PortInv, Probe PROVE PortInv'
<1> DEFINE a == Autoconfig(d)
           u == [up EXCEPT !.type = a.type]
           q == [d |-> a.dev, up |-> u, xmit |-> xmit, tty |-> tty]
<1>1. /\ phase = "unknown" /\ Free /\ d' = a.dev /\ up' = u
      /\ phase' = IF a.type = "unknown" THEN "unknown" ELSE "closed"
      /\ UNCHANGED <<lines, mode, tty, xmit, lock, hist>> /\ UNCHANGED Threads
  BY DEF Probe, Found
<1>2. /\ a.type = "16550A" /\ Calm(a.dev) /\ Right(a.dev) /\ a.dev.mcr = d.mcr
      /\ ~a.dev.fcr.fe /\ a.dev.thrPending
  BY HereFacts, AutoconfigFacts
<1> HIDE DEF a
<1>3. u \in Ups /\ u.bugs = Here.up.bugs /\ u.type = "16550A" /\ u.ier = up.ier
  BY <1>2, HereFacts DEF Ups
<1>4. d' = a.dev /\ up' = u
  BY <1>1
<1> HIDE DEF u
<1>5. Pack(q)
  BY <1>2, <1>3, HereFacts, PackOf
<1>6. Put(q) /\ q.d = a.dev /\ q.up = u /\ q.xmit = xmit
  BY <1>1, <1>4 DEF Put
<1> HIDE DEF q
<1>7. phase' = "closed" /\ phase' \in Phases /\ xmit = <<>> /\ h.pc = "idle" /\ con.pc = "idle"
  BY <1>1, <1>2 DEF Phases, PortInv, Locks, Out
<1>8. /\ Types' /\ Here' = q /\ d' = q.d /\ up' = q.up /\ xmit' = q.xmit /\ tty' = q.tty
      /\ UNCHANGED <<h, con, wr, th>>
  BY <1>1, <1>5, <1>6, <1>7, HereFacts, PhaseStep
<1>9. Locks'
  BY <1>1, <1>3, <1>6, <1>7, <1>8 DEF PortInv, Locks
<1>10. Shadow' /\ Out'
  BY <1>6, <1>7, <1>8 DEF Shadow, Live, Session, Out, Starting
<1>11. Sending'
  BY <1>2, <1>6, <1>7, <1>8 DEF Sending, Pending, Holding
<1>12. Receiving' /\ BreakKept' /\ CtsKept'
  BY <1>1, <1>2, <1>3, <1>6, <1>7, <1>8
  DEF PortInv, Receiving, Enabled, Open, BreakKept, BreakNotLost, CtsKept, Starting
<1>13. Blame'
  BY <1>1, <1>3, <1>6, <1>7, <1>8, HereFacts DEF PortInv, Blame
<1> QED BY <1>8, <1>9, <1>10, <1>11, <1>12, <1>13, Together

(* A step of uart_port_startup and serial8250_startup: nothing is sent,    *)
(* the FIFO is off, and nothing is in the ring.                            *)
LEMMA OpeningStep ==
  ASSUME PortInv, phase \in {"closed"} \cup Starting, phase' \in Starting \cup {"startup"},
         NEW q, Pack(q), Put(q), UNCHANGED <<lines, mode>>, UNCHANGED Threads,
         q.up.type = up.type, "MSI" \notin q.up.ier, q.xmit = xmit, ~q.tty.hwStopped,
         q.d.out = d.out, ~q.d.fcr.fe,
         hist' \in Hists, hist'.ghosts = hist.ghosts, hist'.flips = hist.flips,
         hist'.queued = UserChars(d.out),
         lock' \in {lock, "open", "none"}, lock' # lock => "irq" \notin {lock, lock'},
         lock' # lock => "con" \notin {lock, lock'}, (lock' = "open") = (phase' = "txen"),
         phase' = "cleared" => phase = "closed",
         phase' = "startup" => "THRI" \notin q.up.ier,
         Blame'
  PROVE  PortInv'
<1>1. Here' = q /\ Pack(Here)'
  BY PutPack
<1>2. d' = q.d /\ up' = q.up /\ xmit' = xmit /\ tty' = q.tty /\ UNCHANGED <<h, con, wr, th>>
  BY DEF Put, Threads
<1>3. Types'
  <2>1. phase' \in Phases
    BY DEF Phases
  <2>2. lock' \in {"none", "irq", "con", "open"}
    BY HereFacts
  <2> QED BY <1>1, <1>2, <2>1, <2>2 DEF PortInv, Types
<1>4. /\ xmit = <<>> /\ h.pc # "cts" /\ phase # "unknown" /\ phase' \notin {"unknown", "closed", "ready"}
      /\ (phase' = "cleared" => h.pc = "idle") /\ wr = "idle" /\ th = "idle" /\ up.type = "16550A"
  BY DEF PortInv, Out, CtsKept, Locks, Starting
<1>5. Locks'
  <2>1. (lock' = "irq") = (h.pc \in Holding)
    BY DEF PortInv, Locks
  <2>2. (lock' = "con") = (con.pc # "idle")
    BY DEF PortInv, Locks
  <2> QED BY <1>2, <1>4, <2>1, <2>2 DEF Locks
<1>6. Shadow'
  BY DEF Shadow, Live, Starting
<1>7. Out'
  <2>1. UserChars(d.out) \in Seq(Chars)
    BY HereFacts, PackCalm
  <2>2. UserChars(d.out) \o <<>> = UserChars(d.out)
    BY <2>1, ConcatEmptySeq
  <2> QED BY <1>2, <1>4, <2>2 DEF Out
<1>8. Sending'
  <2>1. h.pc \in Holding \cup {"push"} => "THRE" \in h.status
    BY DEF PortInv, Sending
  <2>2. phase' \notin Starting => Pending(Here)'
    BY <1>1 DEF Pending
  <2> QED BY <1>2, <1>4, <2>1, <2>2 DEF Sending
<1>9. Receiving'
  <2>1. phase' \notin Enabled /\ ~Open' /\ hist.ghosts <= hist.flips
    BY DEF PortInv, Receiving, Enabled, Open, Starting
  <2> QED BY <1>2, <2>1 DEF Receiving
<1>10. BreakKept' /\ CtsKept'
  <2>1. ~Open'
    BY DEF Open, Starting
  <2> QED BY <1>2, <1>4, <2>1 DEF BreakKept, BreakNotLost, CtsKept
<1> QED BY <1>3, <1>5, <1>6, <1>7, <1>8, <1>9, <1>10, Together

(* What holds before each step of it.                                      *)
LEMMA OpeningFacts ==
  ASSUME PortInv, phase \in {"closed"} \cup Starting
  PROVE  /\ ~d.fcr.fe /\ "MSI" \notin up.ier /\ xmit = <<>> /\ hist.ghosts <= hist.flips
         /\ phase \in Starting => ~tty.hwStopped /\ hist.queued = UserChars(d.out)
<1>1. UserChars(d.out) \in Seq(Chars)
  BY HereFacts, PackCalm
<1>2. UserChars(d.out) \o <<>> = UserChars(d.out)
  BY <1>1, ConcatEmptySeq
<1> QED BY <1>2 DEF PortInv, Receiving, CtsKept, Out, Session, Open, Starting

(* The record of a step that changes the device and the shadow's notes.    *)
LEMMA OpeningPack ==
  ASSUME PortInv, NEW dev, Calm(dev), Right(dev), "LOOP" \notin dev.mcr,
         NEW u \in Ups, u.bugs \subseteq up.bugs \cup {"TXEN"} \/ mode = "backup",
         NEW y \in Ttys, NEW q, q = [d |-> dev, up |-> u, xmit |-> xmit, tty |-> y]
  PROVE  Pack(q) /\ q.d = dev /\ q.up = u /\ q.xmit = xmit /\ q.tty = y
<1>1. q.d = dev /\ q.up = u /\ q.xmit = xmit /\ q.tty = y
  OBVIOUS
<1>2. xmit \in Seq(Events) /\ Len(xmit) <= XMIT_SIZE /\ ("THRE" \in u.bugs => mode = "backup")
  BY HereFacts DEF Pack
<1> QED BY <1>1, <1>2 DEF Pack, Calm

(* The FIFOs and what is pending are cleared, whoever holds the lock.      *)
LEMMA OpenClearStep == ASSUME PortInv, OpenClear PROVE PortInv'
<1> DEFINE no == FALSE
           y == [tty EXCEPT !.stopped = no, !.hwStopped = no, !.throttled = no]
           a == ClearFifos(d)
           dev == ClearInterrupts(a)
           q == [d |-> dev, up |-> up, xmit |-> xmit, tty |-> y]
           n == UserChars(d.out)
<1>1. /\ phase = "closed" /\ Request /\ d' = dev /\ tty' = y /\ phase' = "cleared"
      /\ hist' = [Spent EXCEPT !.queued = n]
      /\ UNCHANGED <<lines, mode, up, xmit, lock>> /\ UNCHANGED Threads
  BY DEF OpenClear
<1>2. no \in BOOLEAN /\ ~no
  OBVIOUS
<1> HIDE DEF no
<1>3. y \in Ttys /\ ~y.hwStopped
  BY <1>2, HereFacts DEF Ttys
<1> HIDE DEF y
<1>4. /\ Calm(a) /\ ~a.fcr.fe
      /\ Same(d, a, {"fifoTimer", "toPending", "recv", "xmit", "fifoBits", "itl", "fcr", "iir", "irq"})
  BY HereFacts, ClearFifosFacts
<1> HIDE DEF a
<1>5. Kept(a, dev) /\ Right(dev)
  BY <1>4, HereFacts, ClearInterruptsFacts
<1> HIDE DEF dev
<1>6. dev.out = d.out /\ dev.mcr = d.mcr /\ ~dev.fcr.fe /\ Calm(dev)
  <2>1. a.out = d.out /\ a.mcr = d.mcr
    BY <1>4 DEF Same, Fields
  <2> QED BY <1>4, <1>5, <2>1 DEF Kept
<1>7. Pack(q) /\ q.d = dev /\ q.up = up /\ q.xmit = xmit /\ q.tty = y
  BY <1>3, <1>5, <1>6, HereFacts, OpeningPack
<1> HIDE DEF q
<1>8. Put(q)
  BY <1>1, <1>7 DEF Put
<1>9. n \in Seq(Chars) /\ n = UserChars(d.out)
  BY HereFacts, PackCalm
<1> HIDE DEF n
<1>10. /\ hist' \in Hists /\ hist'.queued = n /\ hist'.ghosts = hist.ghosts
       /\ hist'.flips = hist.flips /\ hist'.taken = hist.taken
  <2> DEFINE z == Spent
  <2>1. z \in Hists /\ z.ghosts = hist.ghosts /\ z.flips = hist.flips /\ z.taken = hist.taken
    BY <1>1, HereFacts, EventFacts
  <2>2. hist' = [z EXCEPT !.queued = n]
    BY <1>1
  <2> HIDE DEF z
  <2> QED BY <1>9, <2>1, <2>2 DEF Hists
<1>11. "MSI" \notin up.ier /\ phase # "txen" /\ lock # "open"
  BY <1>1, OpeningFacts DEF PortInv, Locks
<1>12. Blame'
  BY <1>1, <1>10, <1>11 DEF PortInv, Blame
<1> QED BY <1>1, <1>3, <1>6, <1>7, <1>8, <1>9, <1>10, <1>11, <1>12, OpeningStep DEF Starting

(* The first test, and the port is linked.                                 *)
LEMMA OpenLinkStep == ASSUME PortInv, OpenLink PROVE PortInv'
<1> DEFINE t == ThreTest(d)
           dev == IF mode = "polled" THEN d ELSE t.dev
           bugs == up.bugs \cup (IF t.bad \/ mode = "backup" THEN {"THRE"} ELSE {})
           u == IF mode = "polled" THEN up ELSE [up EXCEPT !.bugs = bugs]
           q == [d |-> dev, up |-> u, xmit |-> xmit, tty |-> tty]
<1>1. /\ phase = "cleared" /\ phase' = "linked" /\ d' = dev /\ up' = u
      /\ UNCHANGED <<lines, mode, tty, xmit, lock, hist>> /\ UNCHANGED Threads
  BY DEF OpenLink, Tested
<1>2. ~t.bad /\ Started(d, t.dev) /\ Right(t.dev)
  BY HereFacts, ThreTestFacts
<1> HIDE DEF t
<1>3. /\ ~d.fcr.fe /\ "MSI" \notin up.ier /\ xmit = <<>> /\ ~tty.hwStopped
      /\ hist.queued = UserChars(d.out)
  BY <1>1, OpeningFacts DEF Starting
<1>4. Calm(dev) /\ Right(dev) /\ dev.out = d.out /\ "LOOP" \notin dev.mcr /\ ~dev.fcr.fe
  BY <1>2, <1>3, HereFacts DEF Started
<1> HIDE DEF dev
<1>5. /\ bugs \subseteq {"THRE", "TXEN"} /\ (bugs \subseteq up.bugs \/ mode = "backup")
      /\ ("TXEN" \in bugs => "TXEN" \in up.bugs)
  BY <1>2, HereFacts DEF Ups
<1> HIDE DEF bugs
<1>6. /\ u \in Ups /\ u.ier = up.ier /\ u.type = up.type
      /\ (u.bugs \subseteq up.bugs \cup {"TXEN"} \/ mode = "backup")
      /\ ("TXEN" \in u.bugs => "TXEN" \in up.bugs)
  BY <1>5, HereFacts DEF Ups
<1> HIDE DEF u
<1>7. Pack(q) /\ q.d = dev /\ q.up = u /\ q.xmit = xmit /\ q.tty = tty
  BY <1>4, <1>6, HereFacts, OpeningPack
<1> HIDE DEF q
<1>8. Put(q)
  BY <1>1, <1>7 DEF Put
<1>9. lock # "open"
  BY <1>1 DEF PortInv, Locks
<1>10. Blame'
  BY <1>1, <1>6 DEF PortInv, Blame
<1> QED BY <1>1, <1>3, <1>4, <1>6, <1>7, <1>8, <1>9, <1>10, HereFacts, OpeningStep DEF Starting

(* The second test begins.                                                 *)
LEMMA OpenTxenStep == ASSUME PortInv, OpenTxen PROVE PortInv'
<1> DEFINE dev == TxenOn(d)
           q == [d |-> dev, up |-> up, xmit |-> xmit, tty |-> tty]
           no == FALSE
<1>1. /\ phase = "linked" /\ Free /\ d' = dev /\ phase' = "txen" /\ lock' = "open"
      /\ hist' = [hist EXCEPT !.taken = no]
      /\ UNCHANGED <<lines, mode, up, tty, xmit>> /\ UNCHANGED Threads
  BY DEF OpenTxen
<1>2. /\ Calm(dev) /\ Right(dev) /\ dev.out = d.out /\ dev.fcr = d.fcr /\ "LOOP" \notin dev.mcr
      /\ dev.ier = {"THRI"} /\ dev.thrPending
  BY HereFacts, TxenOnFacts
<1> HIDE DEF dev
<1>3. /\ ~d.fcr.fe /\ "MSI" \notin up.ier /\ ~tty.hwStopped /\ hist.queued = UserChars(d.out)
  BY <1>1, OpeningFacts DEF Starting
<1>4. Pack(q) /\ q.d = dev /\ q.up = up /\ q.xmit = xmit /\ q.tty = tty
  <2>1. up.bugs \subseteq up.bugs \cup {"TXEN"}
    OBVIOUS
  <2> QED BY <1>2, <2>1, HereFacts, OpeningPack
<1> HIDE DEF q
<1>5. Put(q)
  BY <1>1, <1>4 DEF Put
<1>6. no \in BOOLEAN
  OBVIOUS
<1> HIDE DEF no
<1>7. /\ hist' \in Hists /\ hist'.ghosts = hist.ghosts /\ hist'.flips = hist.flips
      /\ hist'.queued = hist.queued
  BY <1>1, <1>6, HereFacts DEF Hists
<1>8. Blame'
  BY <1>1, <1>2 DEF Blame
<1>9. lock = "none"
  BY <1>1 DEF Free
<1> QED BY <1>1, <1>2, <1>3, <1>4, <1>5, <1>7, <1>8, <1>9, OpeningStep DEF Starting

(* The second test ends: it blames the device only for what was taken.     *)
LEMMA OpenTxenEndStep == ASSUME PortInv, OpenTxenEnd PROVE PortInv'
<1> DEFINE t == TxenOff(d)
           dev == t.dev
           bugs == IF t.silent THEN up.bugs \cup {"TXEN"} ELSE up.bugs \ {"TXEN"}
           u == [up EXCEPT !.bugs = bugs]
           q == [d |-> dev, up |-> u, xmit |-> xmit, tty |-> tty]
<1>1. /\ phase = "txen" /\ d' = dev /\ up' = u /\ phase' = "tested" /\ lock' = "none"
      /\ UNCHANGED <<lines, mode, tty, xmit, hist>> /\ UNCHANGED Threads
  BY DEF OpenTxenEnd
<1>2. /\ Started(d, dev) /\ Right(dev) /\ (d.ier = {"THRI"} /\ d.thrPending => ~t.silent)
  BY HereFacts, TxenOffFacts
<1>3. t.silent => hist.taken
  BY <1>1, <1>2 DEF PortInv, Blame
<1>4. bugs \subseteq up.bugs \cup {"TXEN"} /\ ("TXEN" \in bugs => hist.taken)
  BY <1>3
<1> HIDE DEF t, bugs
<1>5. u \in Ups /\ u.bugs = bugs /\ u.ier = up.ier /\ u.type = up.type
  BY <1>4, HereFacts DEF Ups
<1> HIDE DEF u
<1>6. /\ ~d.fcr.fe /\ "MSI" \notin up.ier /\ ~tty.hwStopped /\ hist.queued = UserChars(d.out)
  BY <1>1, OpeningFacts DEF Starting
<1>7. Calm(dev) /\ dev.out = d.out /\ "LOOP" \notin dev.mcr /\ ~dev.fcr.fe
  BY <1>2, <1>6, HereFacts DEF Started
<1> HIDE DEF dev
<1>8. Pack(q) /\ q.d = dev /\ q.up = u /\ q.xmit = xmit /\ q.tty = tty
  BY <1>2, <1>4, <1>5, <1>7, HereFacts, OpeningPack
<1> HIDE DEF q
<1>9. Put(q)
  BY <1>1, <1>8 DEF Put
<1>10. Blame'
  BY <1>1, <1>4, <1>5 DEF Blame
<1>11. lock = "open"
  BY <1>1 DEF PortInv, Locks
<1> QED BY <1>1, <1>5, <1>6, <1>7, <1>8, <1>9, <1>10, <1>11, HereFacts, OpeningStep DEF Starting

(* What is pending is cleared again, beside the lock.                      *)
LEMMA OpenDrainStep == ASSUME PortInv, OpenDrain PROVE PortInv'
<1> DEFINE dev == ClearInterrupts(d)
           none == {}
           u == [up EXCEPT !.saved = none]
           q == [d |-> dev, up |-> u, xmit |-> xmit, tty |-> tty]
<1>1. /\ phase = "tested" /\ d' = dev /\ up' = u /\ phase' = "drained"
      /\ UNCHANGED <<lines, mode, tty, xmit, lock, hist>> /\ UNCHANGED Threads
  BY DEF OpenDrain
<1>2. Kept(d, dev) /\ Right(dev)
  BY HereFacts, ClearInterruptsFacts
<1> HIDE DEF dev
<1>3. none \in SUBSET LsrSave
  OBVIOUS
<1> HIDE DEF none
<1>4. u \in Ups /\ u.bugs = up.bugs /\ u.ier = up.ier /\ u.type = up.type
  BY <1>3, HereFacts DEF Ups
<1> HIDE DEF u
<1>5. /\ ~d.fcr.fe /\ "MSI" \notin up.ier /\ ~tty.hwStopped /\ hist.queued = UserChars(d.out)
  BY <1>1, OpeningFacts DEF Starting
<1>6. Calm(dev) /\ dev.out = d.out /\ "LOOP" \notin dev.mcr /\ ~dev.fcr.fe
  BY <1>2, <1>5, HereFacts DEF Kept
<1>7. Pack(q) /\ q.d = dev /\ q.up = u /\ q.xmit = xmit /\ q.tty = tty
  <2>1. u.bugs \subseteq up.bugs \cup {"TXEN"}
    BY <1>4
  <2> QED BY <1>2, <1>4, <1>6, <2>1, HereFacts, OpeningPack
<1> HIDE DEF q
<1>8. Put(q)
  BY <1>1, <1>7 DEF Put
<1>9. Blame'
  BY <1>1, <1>4 DEF PortInv, Blame
<1>10. lock # "open"
  BY <1>1 DEF PortInv, Locks
<1> QED BY <1>1, <1>4, <1>5, <1>6, <1>7, <1>8, <1>9, <1>10, HereFacts, OpeningStep DEF Starting

(* The mask is written, beside the lock.                                   *)
LEMMA OpenEnableStep == ASSUME PortInv, OpenEnable PROVE PortInv'
<1> DEFINE ier == {"RLSI", "RDI"}
           q == SetIer(Here, ier)
           dev == WriteIer(d, ier, lines)
<1>1. /\ phase = "drained" /\ Put(q) /\ phase' = "startup"
      /\ UNCHANGED <<lines, mode, lock, hist>> /\ UNCHANGED Threads
  BY DEF OpenEnable
<1>2. ier \in SUBSET All /\ ier \in SUBSET IerBits /\ "MSI" \notin ier /\ "THRI" \notin ier
  BY DEF All, IerBits
<1> HIDE DEF ier
<1>3. Carries(Here, q) /\ SameTty(Here, q) /\ q.up.ier = ier
  BY <1>2, HereFacts, SetIerFacts
<1>4. Same(d, dev, {"ier", "msr", "mslTimer", "poll", "thrPending", "iir", "irq"})
  BY <1>2, HereFacts, CalmIer
<1>5. q.d = dev
  BY HereFacts DEF SetIer
<1> HIDE DEF q, dev
<1>6. /\ ~d.fcr.fe /\ ~tty.hwStopped /\ hist.queued = UserChars(d.out)
  BY <1>1, OpeningFacts DEF Starting
<1>7. q.d.out = d.out /\ ~q.d.fcr.fe
  BY <1>4, <1>5, <1>6 DEF Same, Fields
<1>8. /\ Pack(q) /\ q.up.type = up.type /\ q.up.bugs = up.bugs /\ q.xmit = xmit
      /\ ~q.tty.hwStopped
  BY <1>3, <1>6, HereFacts DEF Carries, SameTty
<1>9. up' = q.up
  BY <1>1 DEF Put
<1>10. Blame'
  BY <1>1, <1>8, <1>9 DEF PortInv, Blame
<1>11. lock # "open"
  BY <1>1 DEF PortInv, Locks
<1> QED BY <1>1, <1>2, <1>3, <1>6, <1>7, <1>8, <1>10, <1>11, HereFacts, OpeningStep DEF Starting

(* serial8250_set_termios for an open.                                     *)
LEMMA OpenTermiosStep == ASSUME PortInv, OpenTermios PROVE PortInv'
<1> DEFINE q == SetTermios(Here)
           n == IF "DR" \in d.lsr THEN 1 ELSE 0
           none == <<>>
           no == FALSE
<1>1. /\ phase = "startup" /\ Free /\ Put(q) /\ phase' = "speed"
      /\ hist' = [hist EXCEPT !.got = none, !.accepted = none, !.owed = no, !.flips = @ + n]
      /\ UNCHANGED <<lines, mode, lock>> /\ UNCHANGED Threads
  BY DEF OpenTermios
<1>2. no \in BOOLEAN /\ none \in Seq(Chars) /\ none = <<>> /\ n \in Nat /\ ("DR" \in d.lsr => n = 1)
  OBVIOUS
<1>2a. ~no
  OBVIOUS
<1> HIDE DEF no, none, n
<1>3. /\ Pack(q) /\ SameTty(Here, q) /\ q.up.type = up.type /\ q.up.bugs = up.bugs
      /\ q.up.ier = (up.ier \ {"MSI"}) \cup (IF CtsFlow THEN {"MSI"} ELSE {})
      /\ q.d.ier = q.up.ier /\ q.d.thrPending
      /\ q.d.fcr.fe /\ q.d.lsr = d.lsr /\ q.d.out = d.out
      /\ q.d.recv = IF d.fcr.fe THEN d.recv ELSE <<>>
  BY HereFacts, SetTermiosFacts
<1> HIDE DEF q
<1>4. /\ hist' \in Hists /\ hist'.got = none /\ hist'.accepted = none /\ hist'.owed = no
      /\ hist'.flips = hist.flips + n /\ hist'.ghosts = hist.ghosts /\ hist'.queued = hist.queued
      /\ hist'.taken = hist.taken
  <2>1. hist \in Hists
    BY HereFacts
  <2>2. hist.flips + n \in Nat
    BY <1>2, <2>1 DEF Hists
  <2> DEFINE f == hist.flips + n
  <2>3. hist' = [hist EXCEPT !.got = none, !.accepted = none, !.owed = no, !.flips = f]
    BY <1>1
  <2>4. f \in Nat
    BY <2>2
  <2> HIDE DEF f
  <2>5. /\ hist' \in Hists /\ hist'.got = none /\ hist'.accepted = none /\ hist'.owed = no
        /\ hist'.flips = f /\ hist'.ghosts = hist.ghosts /\ hist'.queued = hist.queued
        /\ hist'.taken = hist.taken
    BY <1>2, <2>1, <2>3, <2>4 DEF Hists
  <2> QED BY <2>5 DEF f
<1>5. /\ Types' /\ Here' = q /\ d' = q.d /\ up' = q.up /\ xmit' = q.xmit /\ tty' = q.tty
      /\ UNCHANGED <<h, con, wr, th>>
  <2>1. phase' \in Phases
    BY <1>1 DEF Phases
  <2> QED BY <1>1, <1>3, <1>4, <2>1, PhaseStep
<1>6. q.xmit = xmit /\ q.tty = tty /\ h.pc # "rx" /\ h.pc # "cts"
  BY <1>1, <1>3, FreeFacts DEF SameTty
<1>7. Locks'
  BY <1>1, <1>3, <1>5 DEF PortInv, Locks
<1>8. Shadow'
  BY <1>1, <1>3, <1>5, FreeFacts DEF Shadow, Shadowed
<1>9. Out'
  BY <1>1, <1>3, <1>4, <1>5, <1>6 DEF PortInv, Out, Session
<1>10. Sending'
  BY <1>1, <1>3, <1>5 DEF PortInv, Sending, Pending
<1>11. Receiving'
  <2>1. ~d.fcr.fe /\ hist.ghosts <= hist.flips
    BY <1>1 DEF PortInv, Receiving
  <2>2. q.d.recv = none /\ none \o none = none
    BY <1>2, <1>3, <2>1, ConcatEmptySeq
  <2>3. hist'.ghosts <= hist'.flips /\ ("DR" \in d.lsr => hist'.ghosts < hist'.flips)
    <3>1. hist.ghosts \in Nat /\ hist.flips \in Nat
      BY HereFacts DEF Hists
    <3> QED BY <1>2, <1>4, <2>1, <3>1
  <2>4. Ghost' => "DR" \in d.lsr
    BY <1>3, <1>5, <1>6 DEF Ghost
  <2> QED BY <1>1, <1>3, <1>4, <1>5, <2>2, <2>3, <2>4 DEF Receiving, Open, Enabled, Starting
<1>12. BreakKept'
  BY <1>2a, <1>4, <1>5, <1>6 DEF BreakKept, BreakNotLost, Late
<1>13. CtsKept'
  BY <1>1, <1>3, <1>5, <1>6 DEF PortInv, CtsKept, Open, Starting
<1>14. Blame'
  BY <1>1, <1>3, <1>4, <1>5 DEF PortInv, Blame
<1> QED BY <1>5, <1>7, <1>8, <1>9, <1>10, <1>11, <1>12, <1>13, <1>14, Together

(* uart_port_startup looks at CTS.                                         *)
LEMMA OpenCtsStep == ASSUME PortInv, OpenCts PROVE PortInv'
<1> DEFINE r == GetMctrl(Here)
           yes == TRUE
           y == IF CtsFlow /\ "CTS" \notin r.d.msr THEN [r.tty EXCEPT !.hwStopped = yes] ELSE r.tty
           q == StoppedByCts(r)
<1>1. /\ phase = "speed" /\ Free /\ Put(q) /\ phase' = "ready"
      /\ UNCHANGED <<lines, mode, lock, hist>> /\ UNCHANGED Threads
  BY DEF OpenCts
<1>2. /\ Carries(Here, r) /\ (xmit = <<>> => r.xmit = <<>>) /\ Follows(Here, r)
      /\ r.up.ier \in {up.ier, up.ier \cup {"THRI"}, up.ier \ {"THRI"}}
      /\ (Pending(Here) => Pending(r))
      /\ "MSI" \in up.ier /\ CtsFlow /\ "DCTS" \notin r.d.msr =>
           \/ r.tty.hwStopped = ("CTS" \notin r.d.msr)
           \/ /\ r.tty = tty /\ "DCTS" \notin d.msr
              /\ ("CTS" \in r.d.msr) = ("CTS" \in d.msr)
  BY HereFacts, ModemStatusFacts DEF GetMctrl
<1> HIDE DEF r
<1>3. yes \in BOOLEAN
  OBVIOUS
<1>3a. yes
  OBVIOUS
<1>4. r = [d |-> r.d, up |-> r.up, xmit |-> r.xmit, tty |-> r.tty] /\ r.tty \in Ttys /\ Pack(r)
  BY <1>2 DEF Carries, Pack
<1>5. q = [d |-> r.d, up |-> r.up, xmit |-> r.xmit, tty |-> y]
  <2> DEFINE z == [r.tty EXCEPT !.hwStopped = TRUE]
  <2>1. [r EXCEPT !.tty.hwStopped = TRUE] = [r EXCEPT !.tty = z]
    OBVIOUS
  <2>2. [r EXCEPT !.tty = z] = [d |-> r.d, up |-> r.up, xmit |-> r.xmit, tty |-> z]
    <3> HIDE DEF z
    <3> QED BY <1>4
  <2> QED BY <1>4, <2>1, <2>2 DEF StoppedByCts
<1> HIDE DEF yes
<1>6. /\ y \in Ttys
      /\ CtsFlow /\ "CTS" \notin r.d.msr => y.hwStopped = yes
      /\ ~(CtsFlow /\ "CTS" \notin r.d.msr) => y = r.tty
  BY <1>3, <1>4 DEF Ttys
<1>7. Put(q)
  BY <1>1
<1> HIDE DEF y, q
<1>8. /\ Carries(r, q) /\ q.d = r.d /\ q.up = r.up /\ q.xmit = r.xmit /\ q.tty = y
  BY <1>4, <1>5, <1>6, TtyFacts
<1>9. Carries(Here, q) /\ Pack(q)
  BY <1>2, <1>8, CarriesTrans DEF Carries
<1>10. /\ Types' /\ Here' = q /\ d' = q.d /\ up' = q.up /\ xmit' = q.xmit /\ tty' = q.tty
       /\ UNCHANGED <<h, con, wr, th>>
  <2>1. phase' \in Phases
    BY <1>1 DEF Phases
  <2> QED BY <1>1, <1>7, <1>9, <2>1, HereFacts, PhaseStep
<1>11. /\ xmit = <<>> /\ h.pc # "rx" /\ h.pc # "cts" /\ Open /\ d.fcr.fe /\ Here.d = d /\ Here.up = up
       /\ Here.xmit = xmit
  BY <1>1, FreeFacts DEF PortInv, Out, Open, Receiving, Enabled
<1>12. q.up.type = up.type
  BY <1>9, <1>11 DEF Carries
<1>13. Locks'
  BY <1>1, <1>10, <1>12 DEF PortInv, Locks
<1>14. Shadow'
  <2>1. Shadowed(d.ier, up.ier)
    BY <1>1, FreeFacts DEF Live
  <2>2. Shadowed(q.d.ier, q.up.ier)
    BY <1>2, <1>8, <1>11, <2>1, FollowsShadow
  <2> QED BY <1>1, <1>10, <2>2 DEF Shadow, Shadowed, Free
<1>15. Out'
  <2>1. UserChars(q.d.out) \o q.xmit = UserChars(d.out) \o xmit
    BY <1>9, <1>11 DEF Carries
  <2> QED BY <1>1, <1>10, <2>1 DEF PortInv, Out, Session, Starting
<1>16. Sending'
  <2>1. Going(q)
    BY <1>2, <1>8, <1>11 DEF Going
  <2>2. Pending(Here) => Pending(q)
    BY <1>2, <1>8 DEF Pending
  <2> QED BY <1>1, <1>10, <2>1, <2>2 DEF PortInv, Sending, Going, Stopped, Pending, Starting
<1>17. /\ q.d.recv = d.recv /\ q.d.fcr.fe /\ (("DR" \in q.d.lsr) <=> ("DR" \in d.lsr))
       /\ "BI" \in d.lsr \cup up.saved => "BI" \in q.d.lsr \cup q.up.saved
  BY <1>9, <1>11 DEF Carries
<1>18. Receiving'
  <2>1. Ghost' => Ghost
    BY <1>10, <1>17 DEF Ghost
  <2> QED BY <1>1, <1>10, <1>11, <1>17, <2>1 DEF PortInv, Receiving, Enabled, Open, Starting
<1>19. BreakKept'
  BY <1>1, <1>10, <1>11, <1>17 DEF PortInv, BreakKept, BreakNotLost, Late, Open
<1>20. CtsKept'
  <2>1. CtsFlow => "MSI" \in up.ier /\ "MSI" \in q.up.ier
    BY <1>2, <1>8, <1>11 DEF PortInv, CtsKept
  <2>2. ASSUME CtsFlow, "DCTS" \notin q.d.msr PROVE q.tty.hwStopped <=> ("CTS" \notin q.d.msr)
    <3>1. CASE "CTS" \notin q.d.msr
      BY <1>3a, <1>6, <1>8, <2>2, <3>1 DEF yes
    <3>2. CASE "CTS" \in q.d.msr
      <4>1. y = r.tty /\ "CTS" \in r.d.msr /\ "DCTS" \notin r.d.msr
        BY <1>6, <1>8, <2>2, <3>2
      <4>2. CASE r.tty.hwStopped = ("CTS" \notin r.d.msr)
        BY <1>8, <4>1, <4>2
      <4>3. CASE r.tty = tty /\ "DCTS" \notin d.msr /\ "CTS" \in d.msr
        <5>1. ~tty.hwStopped
          BY <1>1, <1>11, <2>2, <4>3 DEF PortInv, CtsKept
        <5> QED BY <1>8, <3>2, <4>1, <4>3, <5>1
      <4> QED BY <1>2, <2>1, <2>2, <4>1, <4>2, <4>3
    <3> QED BY <3>1, <3>2
  <2>3. q.tty.hwStopped \in BOOLEAN
    BY <1>6, <1>8 DEF Ttys
  <2> QED BY <1>1, <1>10, <1>11, <2>1, <2>2, <2>3 DEF CtsKept, Open, Starting
<1>21. Blame'
  BY <1>1, <1>9, <1>10, <1>11 DEF PortInv, Blame, Carries
<1> QED BY <1>10, <1>13, <1>14, <1>15, <1>16, <1>18, <1>19, <1>20, <1>21, Together

(* The port is not open, nor does it become so: what is left to show.      *)
LEMMA ShutStep ==
  ASSUME PortInv, phase' \in {"closing", "closing2", "unlink"}, NEW q, Pack(q), Put(q),
         UNCHANGED <<lines, mode, lock, hist>>, UNCHANGED Threads,
         wr = "idle", th = "idle", phase # "unknown", q.up.type = up.type,
         q.up.bugs = up.bugs, phase \notin Starting, "MSI" \notin q.up.ier,
         Pending(Here) => Pending(q),
         phase' \in Enabled => /\ phase \in Enabled /\ q.d.fcr.fe /\ q.d.recv = d.recv
                               /\ (("DR" \in q.d.lsr) <=> ("DR" \in d.lsr)),
         phase' \notin Enabled => ~q.d.fcr.fe
  PROVE  PortInv'
<1>1. /\ Types' /\ Here' = q /\ d' = q.d /\ up' = q.up /\ xmit' = q.xmit /\ tty' = q.tty
      /\ UNCHANGED <<h, con, wr, th>>
  <2>1. phase' \in Phases
    BY DEF Phases
  <2> QED BY <2>1, HereFacts, PhaseStep
<1>2. Locks'
  BY <1>1 DEF PortInv, Locks, Starting
<1>3. Shadow' /\ Out'
  BY DEF Shadow, Live, Session, Out, Starting
<1>4. Sending'
  BY <1>1 DEF PortInv, Sending, Pending, Starting
<1>5. Receiving'
  <2>1. phase' \in Enabled => (Ghost' => Ghost)
    BY <1>1 DEF Ghost
  <2> QED BY <1>1, <2>1 DEF PortInv, Receiving, Enabled, Open, Starting
<1>6. BreakKept' /\ CtsKept'
  BY <1>1 DEF BreakKept, BreakNotLost, CtsKept, Open, Starting
<1>7. Blame'
  BY <1>1 DEF PortInv, Blame, Starting
<1> QED BY <1>1, <1>2, <1>3, <1>4, <1>5, <1>6, <1>7, Together

(* serial8250_shutdown clears the mask.                                    *)
LEMMA CloseStep == ASSUME PortInv, Close PROVE PortInv'
<1> DEFINE none == {}
           q == SetIer(Here, none)
<1>1. /\ phase = "ready" /\ wr = "idle" /\ th = "idle" /\ Put(q) /\ phase' = "closing"
      /\ UNCHANGED <<lines, mode, lock, hist>> /\ UNCHANGED Threads
  BY DEF Close
<1>2. none \in SUBSET All /\ none = {}
  OBVIOUS
<1> HIDE DEF none
<1>3. Carries(Here, q) /\ q.d.thrPending /\ q.up.ier = none
  BY <1>2, HereFacts, SetIerFacts
<1> HIDE DEF q
<1>4. /\ Pack(q) /\ q.up.type = up.type /\ q.up.bugs = up.bugs /\ "MSI" \notin q.up.ier
      /\ Pending(q) /\ q.d.recv = d.recv /\ q.d.fcr.fe = d.fcr.fe
      /\ (("DR" \in q.d.lsr) <=> ("DR" \in d.lsr))
  BY <1>2, <1>3, HereFacts DEF Carries, Pending
<1>5. phase \in Enabled /\ d.fcr.fe /\ phase' \in Enabled
  BY <1>1 DEF PortInv, Receiving, Enabled
<1>6. phase \notin Starting
  BY <1>1 DEF Starting
<1> QED BY <1>1, <1>4, <1>5, <1>6, ShutStep

(* serial8250_shutdown clears the modem control.                           *)
LEMMA CloseModemStep == ASSUME PortInv, CloseModem PROVE PortInv'
<1> DEFINE none == {}
           dev == WriteMcr(d, none)
           q == [d |-> dev, up |-> up, xmit |-> xmit, tty |-> tty]
<1>1. /\ phase = "closing" /\ d' = dev /\ phase' = "closing2"
      /\ UNCHANGED <<lines, mode, up, tty, xmit, lock, hist>> /\ UNCHANGED Threads
  BY DEF CloseModem
<1>2. none \in SUBSET McrBits /\ none = {}
  OBVIOUS
<1> HIDE DEF none
<1>3. Calm(dev) /\ Right(dev) /\ dev.mcr = none /\ Same(d, dev, {"mcr", "mslTimer"})
  BY <1>2, HereFacts, CalmMcr
<1>4. d' = dev
  BY <1>1
<1> HIDE DEF dev
<1>5. q.d = dev /\ q.up = up /\ Put(q)
  BY <1>1, <1>4 DEF Put
<1>6. dev.fcr = d.fcr /\ dev.recv = d.recv /\ dev.lsr = d.lsr /\ dev.thrPending = d.thrPending
  BY <1>3 DEF Same, Fields
<1>7. Pack(q)
  BY <1>2, <1>3, HereFacts DEF Pack, Calm
<1> HIDE DEF q
<1>8. Pending(Here) => Pending(q)
  BY <1>5, <1>6, HereFacts DEF Pending
<1>9. /\ phase \in Enabled /\ d.fcr.fe /\ phase' \in Enabled /\ wr = "idle" /\ th = "idle"
      /\ "MSI" \notin up.ier
  BY <1>1 DEF PortInv, Receiving, Enabled, Locks, CtsKept, Open
<1>10. phase \notin Starting
  BY <1>1 DEF Starting
<1> QED BY <1>1, <1>5, <1>6, <1>7, <1>8, <1>9, <1>10, ShutStep

(* serial8250_shutdown clears the FIFOs.                                   *)
LEMMA CloseFifosStep == ASSUME PortInv, CloseFifos PROVE PortInv'
<1> DEFINE s == ClearFifos(d)
           dev == ReadRbr(s).dev
           q == [d |-> dev, up |-> up, xmit |-> xmit, tty |-> tty]
<1>1. /\ phase = "closing2" /\ d' = dev /\ phase' = "unlink"
      /\ UNCHANGED <<lines, mode, up, tty, xmit, lock, hist>> /\ UNCHANGED Threads
  BY DEF CloseFifos
<1>2. /\ Calm(s) /\ ~s.fcr.fe
      /\ Same(d, s, {"fifoTimer", "toPending", "recv", "xmit", "fifoBits", "itl", "fcr", "iir", "irq"})
  BY HereFacts, ClearFifosFacts
<1> HIDE DEF s
<1>3. Calm(dev) /\ Right(dev) /\ Same(s, dev, {"recv", "toPending", "lsr", "fifoTimer", "iir", "irq"})
  BY <1>2, CalmRbr
<1>4. d' = dev
  BY <1>1
<1> HIDE DEF dev
<1>5. q.d = dev /\ q.up = up /\ Put(q)
  BY <1>1, <1>4 DEF Put
<1>6. dev.mcr = d.mcr /\ ~dev.fcr.fe /\ dev.thrPending = d.thrPending
  BY <1>2, <1>3 DEF Same, Fields
<1>7. Pack(q)
  BY <1>3, <1>6, HereFacts, PackOf
<1> HIDE DEF q
<1>8. Pending(Here) => Pending(q)
  BY <1>5, <1>6, HereFacts DEF Pending
<1>9. phase' \notin Enabled /\ wr = "idle" /\ th = "idle" /\ "MSI" \notin up.ier
  BY <1>1 DEF PortInv, Enabled, Locks, CtsKept, Open
<1>10. phase \notin Starting
  BY <1>1 DEF Starting
<1> QED BY <1>1, <1>5, <1>6, <1>7, <1>8, <1>9, <1>10, ShutStep

(* serial8250_shutdown unlinks the port, and the ring is freed.            *)
LEMMA CloseUnlinkStep == ASSUME PortInv, CloseUnlink PROVE PortInv'
<1>1. /\ phase = "unlink" /\ h.pc = "idle" /\ phase' = "closed" /\ xmit' = <<>>
      /\ UNCHANGED <<d, lines, mode, up, tty, lock, hist>> /\ UNCHANGED <<h, con, wr, th>>
  BY DEF CloseUnlink, Threads
<1>2. Types'
  <2>1. <<>> \in Seq(Events) /\ Len(<<>>) <= XMIT_SIZE
    BY PortAssumption, EmptySeq DEF PortAssumption
  <2>2. Pack(Here)'
    BY <1>1, <2>1, HereFacts DEF Pack, Here, Calm
  <2> QED BY <1>1, <2>2 DEF PortInv, Types, Phases
<1>3. Locks'
  BY <1>1 DEF PortInv, Locks
<1>4. Shadow' /\ Out'
  BY <1>1 DEF Shadow, Live, Session, Out, Starting
<1>5. Sending'
  BY <1>1 DEF PortInv, Sending, Pending, Here, Holding, Starting
<1>6. Receiving' /\ BreakKept' /\ CtsKept'
  BY <1>1 DEF PortInv, Receiving, Enabled, BreakKept, BreakNotLost, CtsKept, Open, Starting
<1>7. Blame'
  BY <1>1 DEF PortInv, Blame, Starting
<1> QED BY <1>2, <1>3, <1>4, <1>5, <1>6, <1>7, Together

(* The device that firmware used and left.                                 *)
LEMMA UsedFacts ==
  /\ Used \in Dev /\ Quiet(Used) /\ Right(Used) /\ "LOOP" \notin Used.mcr
  /\ TimeoutInt(Used) \in Dev /\ Quiet(TimeoutInt(Used)) /\ Armed(TimeoutInt(Used))
<1> DEFINE yes == TRUE
           no == FALSE
           level == None.level
           none == {}
           one == 1
           a == WriteFcr(Fresh, yes, level, no, no)
           b == WriteIer(a, All, none)
           u == Receive1(b, one)
           t == TimeoutInt(u)
<1>1. Used = u
  BY DEF Used
<1>2. /\ yes \in BOOLEAN /\ no \in BOOLEAN /\ level \in Levels /\ none \in SUBSET Lines /\ All \in SUBSET IerBits
      /\ one \in Chars
  <2>1. level \in Levels
    BY NoneType
  <2>2. one \in Chars
    BY PortAssumption, FifoAssumption DEF PortAssumption
  <2> QED BY <2>1, <2>2 DEF All, IerBits
<1>3. yes
  OBVIOUS
<1> HIDE DEF yes, no, level, none, one
<1>4. /\ Fresh \in Dev /\ Quiet(Fresh) /\ Armed(Fresh) /\ "LOOP" \notin Fresh.mcr
      /\ Fresh.recv = <<>> /\ Fresh.xmit = <<>>
  <2>1. Fresh.mcr = {"OUT2"}
    BY DEF Fresh
  <2> QED BY <2>1, FreshType, NoneType DEF Quiet, Armed
<1>5. /\ a \in Dev /\ a.fcr = [fe |-> yes, level |-> level]
      /\ Same(Fresh, a, {"fifoTimer", "toPending", "recv", "xmit", "fifoBits", "itl", "fcr",
                         "iir", "irq"})
      /\ a.recv = <<>> /\ a.xmit = <<>> /\ Armed(a)
  BY <1>2, <1>4, WriteFcrFacts
<1>6. Quiet(a)
  BY <1>4, <1>5 DEF Quiet, Same, Fields
<1> HIDE DEF a
<1>7. /\ b \in Dev /\ Right(b)
      /\ Same(a, b, {"ier", "msr", "mslTimer", "poll", "thrPending", "iir", "irq"})
  BY <1>2, <1>5, <1>6, WriteIerFacts
<1> HIDE DEF b
<1>8. /\ u \in Dev /\ Right(u) /\ Received(b, u, one)
      /\ Same(b, u, {"rbr", "lsr", "recv", "fifoTimer", "iir", "irq"}) /\ b.lsr \subseteq u.lsr
  BY <1>2, <1>7, Receive1Facts
<1> HIDE DEF u
<1>9. /\ b.recv = <<>> /\ b.fcr.fe /\ b.itl = b.fcr.level /\ b.xmit = <<>> /\ ~b.xmitTimer
      /\ {"THRE", "TEMT"} \subseteq b.lsr /\ b.mcr = Fresh.mcr
  BY <1>3, <1>5, <1>6, <1>7 DEF Same, Fields, Quiet, Armed
<1>10. Quiet(u) /\ u.mcr = Fresh.mcr /\ u.fcr = b.fcr /\ u.itl = b.itl /\ u.recv # <<>>
  <2>1. u.recv = Append(<<>>, one)
    BY <1>8, <1>9, FifoAssumption DEF Received
  <2> QED BY <1>8, <1>9, <2>1 DEF Same, Fields, Quiet
<1>11. t \in Dev /\ t.toPending /\ Same(u, t, {"fifoTimer", "toPending", "iir", "irq"})
  BY <1>8, <1>10, TimeoutFacts
<1> HIDE DEF t
<1>12. Quiet(t) /\ Armed(t)
  BY <1>9, <1>10, <1>11 DEF Same, Fields, Quiet, Armed
<1> QED BY <1>1, <1>4, <1>8, <1>10, <1>11, <1>12 DEF t

(* The devices the driver may find.                                        *)
LEMMA FoundFacts ==
  ASSUME NEW s \in {Fresh, Used, Reset(TimeoutInt(Used))}, NEW t, t = [s EXCEPT !.real = TRUE]
  PROVE  Calm(t) /\ Right(t) /\ "LOOP" \notin t.mcr
<1>1. s \in Dev /\ Quiet(s) /\ Right(s) /\ "LOOP" \notin s.mcr
  <2>1. Fresh.mcr = {"OUT2"}
    BY DEF Fresh
  <2>2. CASE s = Fresh
    <3>1. Fresh \in Dev /\ Quiet(Fresh) /\ Cause(Fresh) = "NONE"
      BY FreshType, NoCause DEF Quiet
    <3>2. Right(Fresh)
      BY <3>1, FreshType DEF Right
    <3> QED BY <2>1, <2>2, <3>1, <3>2
  <2>3. CASE s = Used
    BY <2>3, UsedFacts
  <2>4. CASE s = Reset(TimeoutInt(Used))
    <3> DEFINE w == TimeoutInt(Used)
    <3>1. w \in Dev /\ Quiet(w) /\ Armed(w) /\ s = Reset(w)
      BY <2>4, UsedFacts
    <3> HIDE DEF w
    <3>2. s \in Dev /\ Quiet(s) /\ Right(s)
      BY <3>1, ResetFacts
    <3>3. s.mcr = Fresh.mcr
      BY <3>1, FreshType DEF Reset, Dev
    <3> QED BY <2>1, <3>2, <3>3
  <2> QED BY <2>2, <2>3, <2>4
<1>2. t \in Dev /\ Same(s, t, {"real"})
  BY <1>1 DEF Dev, Same, Fields
<1>3. Quiet(t) /\ t.mcr = s.mcr
  BY <1>1, <1>2 DEF Quiet, Same, Fields
<1>4. Cause(t) = Cause(s)
  BY <1>2, CauseSame DEF Same, Fields
<1>5. Right(t)
  BY <1>1, <1>2, <1>4 DEF Right, Same, Fields
<1> QED BY <1>1, <1>2, <1>3, <1>5 DEF Calm

(* The invariant holds before the probe.                                   *)
LEMMA PortInit == ASSUME Init PROVE PortInv
<1>1. Calm(d) /\ Right(d) /\ "LOOP" \notin d.mcr
  <2>1. PICK s \in {Fresh, Used, Reset(TimeoutInt(Used))} : d = [s EXCEPT !.real = TRUE]
    BY DEF Init
  <2> QED BY <2>1, FoundFacts
<1>2. /\ lines \in SUBSET Lines /\ mode \in {"irq", "backup", "polled"} /\ phase = "unknown"
      /\ up \in Ups /\ up.bugs = {} /\ up.ier = {} /\ tty \in Ttys /\ xmit = <<>> /\ lock = "none"
      /\ h.pc = "idle" /\ con = [pc |-> "idle", ier |-> {}] /\ wr = "idle" /\ th = "idle"
  BY PortAssumption DEF Init, PortAssumption, Lines, Ups, Ttys, Idle
<1>3. h \in Handlers
  BY DEF Init, Idle, Handlers, Pcs
<1>4. hist \in Hists /\ hist.ghosts = 0 /\ hist.flips = 0
  <2> DEFINE z == 0
             e == <<>>
             f == FALSE
  <2>1. hist = [events |-> z, written |-> z, queued |-> e, got |-> e, accepted |-> e,
                owed |-> f, ghosts |-> z, flips |-> z, taken |-> f]
    BY DEF Init
  <2>2. z \in 0 .. MaxEvents /\ z \in Nat /\ z <= z /\ e \in Seq(Chars) /\ f \in BOOLEAN /\ z = 0
    BY PortAssumption DEF PortAssumption
  <2> HIDE DEF z, e, f
  <2> QED BY <2>1, <2>2 DEF Hists
<1>5. Types
  <2>1. xmit \in Seq(Events) /\ Len(xmit) <= XMIT_SIZE
    BY <1>2, PortAssumption, EmptySeq DEF PortAssumption
  <2>2. Pack(Here)
    BY <1>1, <1>2, <2>1 DEF Pack, Here, Calm
  <2> QED BY <1>2, <1>3, <1>4, <2>2 DEF Types, Phases
<1>6. Locks /\ Shadow /\ Out
  BY <1>2 DEF Locks, Shadow, Live, Out, Session, Holding, Starting
<1>7. Sending
  BY <1>2 DEF Sending, Pending, Here, Holding, Starting
<1>8. Receiving /\ BreakKept /\ CtsKept
  BY <1>2, <1>4 DEF Receiving, Enabled, Open, BreakKept, BreakNotLost, CtsKept, Starting
<1>9. Blame
  BY <1>2 DEF Blame
<1> QED BY <1>5, <1>6, <1>7, <1>8, <1>9 DEF PortInv

(* A step that changes nothing.                                            *)
LEMMA IdleStep == ASSUME PortInv, UNCHANGED vars PROVE PortInv'
<1>1. UNCHANGED <<d, lines, mode, phase, up, tty, xmit, lock, h, con, wr, th, hist>>
  BY DEF vars
<1>2. Types'
  <2>1. Pack(Here)'
    BY <1>1, HereFacts DEF Pack, Here
  <2> QED BY <1>1, <2>1 DEF PortInv, Types
<1>3. Locks' /\ Shadow' /\ Out'
  BY <1>1 DEF PortInv, Locks, Shadow, Live, Shadowed, Out, Session
<1>4. Sending'
  BY <1>1 DEF PortInv, Sending, Going, Stopped, Pending, Here
<1>5. Receiving' /\ BreakKept' /\ CtsKept'
  BY <1>1 DEF PortInv, Receiving, Open, Ghost, BreakKept, Late, BreakNotLost, CtsKept
<1>6. Blame'
  BY <1>1 DEF PortInv, Blame
<1> QED BY <1>2, <1>3, <1>4, <1>5, <1>6, Together

(* The operations of the tty layer.                                        *)
LEMMA TtyStep ==
  ASSUME PortInv,
         \/ TtyWrite \/ TtyWriteStart \/ TtyFlush \/ TtyStop \/ TtyStart
         \/ TtyThrottle \/ TtyThrottleEnd \/ TtyTxEmpty \/ TtyGetMctrl \/ TtySetTermios
  PROVE  PortInv'
BY TtyWriteStep, TtyWriteStartStep, TtyFlushStep, TtyStopStep, TtyStartStep, TtyThrottleStep,
   TtyThrottleEndStep, TtyTxEmptyStep, TtyGetMctrlStep, TtySetTermiosStep

(* The interrupt handler.                                                  *)
LEMMA HandlerStep == ASSUME PortInv, Handler PROVE PortInv'
BY EnterStep, IdentificationStep, LineStatusStep, RxCharStep, RelockStep, ModemStep,
   ModemChangeStep, TxCharsStepStep, XcharClearStep DEF Handler

(* Every step keeps the invariant.                                         *)
LEMMA PortStep == ASSUME PortInv, [Next]_vars PROVE PortInv'
<1>1. CASE \/ Probe \/ OpenTermios \/ OpenCts
           \/ OpenClear \/ OpenLink \/ OpenTxen \/ OpenTxenEnd \/ OpenDrain \/ OpenEnable
  BY <1>1, ProbeStep, OpenClearStep, OpenLinkStep, OpenTxenStep, OpenTxenEndStep,
     OpenDrainStep, OpenEnableStep, OpenTermiosStep, OpenCtsStep
<1>2. CASE Close \/ CloseModem \/ CloseFifos \/ CloseUnlink
  BY <1>2, CloseStep, CloseModemStep, CloseFifosStep, CloseUnlinkStep
<1>3. CASE Handler \/ BackupTimeout
  BY <1>3, HandlerStep, BackupTimeoutStep
<1>4. CASE ConsoleBegin \/ ConsolePut \/ ConsoleEnd
  BY <1>4, ConsoleBeginStep, ConsolePutStep, ConsoleEndStep
<1>5. CASE \/ TtyWrite \/ TtyWriteStart \/ TtyFlush \/ TtyStop \/ TtyStart
           \/ TtyThrottle \/ TtyThrottleEnd \/ TtyTxEmpty \/ TtyGetMctrl \/ TtySetTermios
  BY <1>5, TtyStep
<1>6. CASE Character \/ Break \/ LineChange \/ FifoTimeout \/ ModemPoll
  BY <1>6, CharacterStep, BreakStep, LineChangeStep, FifoTimeoutStep, ModemPollStep
<1>7. CASE UNCHANGED vars
  BY <1>7, IdleStep
<1> QED BY <1>1, <1>2, <1>3, <1>4, <1>5, <1>6, <1>7 DEF Next

(* The invariant of the port.                                              *)
THEOREM PortCorrect == Spec => []PortInv
<1>1. Init => PortInv
  BY PortInit
<1>2. PortInv /\ [Next]_vars => PortInv'
  BY PortStep
<1> QED BY <1>1, <1>2, PTL DEF Spec

(* Between operations the mask in the device is the one the driver keeps,  *)
(* in up->ier, but for the transmit bit that the backup timer restores.    *)
THEOREM ShadowCorrect == Spec => []ShadowRight
<1>1. PortInv => ShadowRight
  <2> SUFFICES ASSUME PortInv PROVE ShadowRight
    OBVIOUS
  <2>1. TypeOK
    <3>1. d.ier \subseteq All /\ d.irq \in BOOLEAN /\ d.iir \in Causes /\ Len(d.recv) <= FIFOLEN
      BY HereFacts DEF Dev, Fifo, All, IerBits
    <3>2. up.ier \subseteq All /\ up.saved \subseteq LsrSave /\ up.bugs \subseteq {"THRE", "TXEN"}
      BY HereFacts DEF Ups
    <3>3. Len(xmit) <= XMIT_SIZE /\ lock \in {"none", "irq", "con", "open"}
      BY HereFacts DEF Pack
    <3>4. /\ (lock = "irq") = (h.pc \in {"rx", "rxlsr", "msr", "cts", "tx", "xclear"})
          /\ (lock = "con") = (con.pc # "idle") /\ (lock = "open") = (phase = "txen")
      BY DEF PortInv, Locks, Holding
    <3> QED BY <3>1, <3>2, <3>3, <3>4 DEF TypeOK
  <2>2. IerShadow
    BY FreeFacts DEF IerShadow, Open, Live, Shadowed
  <2> QED BY <2>1, <2>2 DEF ShadowRight
<1> QED BY <1>1, PortCorrect, PTL

(* autoconfig takes the device for a 16550A whatever firmware left in it,  *)
(* and serial8250_startup sees a defect of the transmit interrupt only     *)
(* where the handler, which reads the identification beside its lock, took *)
(* the interrupt that the test was waiting for.                            *)
THEOREM ProbeCorrect == Spec => []ProbedRight
<1>1. PortInv => ProbedRight
  BY HereFacts DEF PortInv, Locks, Blame, Pack, Ups, ProbedRight
<1> QED BY <1>1, PortCorrect, PTL

(* What uart_write queued reaches the line once and in order.              *)
THEOREM OrderCorrect == Spec => []TxOrder
<1>1. PortInv => TxOrder
  BY DEF PortInv, Out, Session, TxOrder
<1> QED BY <1>1, PortCorrect, PTL

(* With characters to send and nobody in the driver the interrupt line is  *)
(* up: serial8250_start_tx cannot be lost to the handler, to the console   *)
(* or to the backup timer.                                                 *)
THEOREM TransmitCorrect == Spec => []TxNoStall
<1>1. PortInv => TxNoStall
  <2> SUFFICES ASSUME PortInv, phase = "ready", AllIdle, Owed PROVE d.irq
    BY DEF TxNoStall
  <2>1. "THRI" \in up.ier
    BY DEF PortInv, Sending, Going, Stopped, Here, AllIdle, Owed
  <2>2. d.thrPending
    BY <2>1 DEF PortInv, Sending, Pending, Here, AllIdle, Starting
  <2>3. "THRI" \in d.ier
    <3>1. Shadowed(d.ier, up.ier)
      BY DEF PortInv, Locks, Shadow, Live, AllIdle
    <3> QED BY <2>1, <3>1 DEF Shadowed
  <2>4. Cause(d) # "NONE"
    BY <2>2, <2>3 DEF Cause
  <2> QED BY <2>4, HereFacts DEF Right
<1> QED BY <1>1, PortCorrect, PTL

(* serial8250_rx_chars delivers what the FIFO took once and in order, and  *)
(* reads an empty FIFO at most once per change of the FIFO control.        *)
THEOREM ReceiveCorrect == Spec => []RxOrder
<1>1. PortInv => RxOrder
  BY DEF PortInv, Receiving, RxOrder
<1> QED BY <1>1, PortCorrect, PTL

(* A break or a change of CTS that one reader of a status register clears  *)
(* is still seen by the part of the driver that it is for.                 *)
THEOREM StatusCorrect == Spec => []StatusNotLost
<1>1. PortInv => StatusNotLost
  BY DEF PortInv, BreakKept, CtsKept, Open, CtsFollowed, StatusNotLost
<1> QED BY <1>1, PortCorrect, PTL

=============================================================================
