-------------------------- MODULE Uart16550Proofs ---------------------------
(***************************************************************************)
(* Lemmas about the handlers of Uart16550, for FIFOs of every length and   *)
(* every set of trigger levels and characters.  A handler is an operator   *)
(* from the device to the device; its lemma says that a device of the      *)
(* right type stays one, which fields it leaves alone, what the others     *)
(* are, and whether the interrupt line is right afterwards.                *)
(***************************************************************************)
EXTENDS Uart16550, SequenceTheorems, WellFoundedInduction, TLAPS

IerBits == {"RDI", "THRI", "RLSI", "MSI"}
LsrBits == {"DR", "OE", "BI", "THRE", "TEMT"}
McrBits == {"DTR", "RTS", "OUT1", "OUT2", "LOOP"}
Fifo    == {q \in Seq(Chars) : Len(q) <= FIFOLEN}

(* The devices a guest can make of a fresh one.  The retry counter never   *)
(* gets above 0, and the line control register is not written.             *)
Dev ==
  [rbr : Chars, thr : Chars, tsr : Chars,
   ier : SUBSET IerBits, iir : Causes, fifoBits : BOOLEAN, lcr : {{}},
   mcr : SUBSET McrBits, lsr : SUBSET LsrBits,
   msr : SUBSET (Lines \cup Deltas), fcr : [fe : BOOLEAN, level : Levels],
   itl : Levels \cup {0}, recv : Fifo, xmit : Fifo,
   thrPending : BOOLEAN, toPending : BOOLEAN, retry : -1 .. 0, poll : -1 .. 1,
   xmitTimer : BOOLEAN, fifoTimer : BOOLEAN, mslTimer : BOOLEAN,
   real : BOOLEAN, irq : BOOLEAN, out : Seq(Chars)]

Fields ==
  {"rbr", "thr", "tsr", "ier", "iir", "fifoBits", "lcr", "mcr", "lsr", "msr", "fcr",
   "itl", "recv", "xmit", "thrPending", "toPending", "retry", "poll", "xmitTimer",
   "fifoTimer", "mslTimer", "real", "irq", "out"}

(* From s to t no field changes but those of F.                            *)
Same(s, t, F) == \A f \in Fields \ F : t[f] = s[f]

(* The identification register and the line say what the cause is.         *)
Right(s) == s.iir = Cause(s) /\ s.irq = (Cause(s) # "NONE")

(* They were updated, or neither they nor the cause has changed.           *)
Heard(s, t) == Right(t) \/ (Cause(t) = Cause(s) /\ t.iir = s.iir /\ t.irq = s.irq)

(* What a cause needs at least, also after a migration: the line.          *)
Told(s) == Cause(s) # "NONE" => s.irq

(* The transmitter has nothing to do.                                      *)
Quiet(s) == s.xmit = <<>> /\ {"THRE", "TEMT"} \subseteq s.lsr /\ ~s.xmitTimer

(* With the FIFO on, a character in it is waited for or has timed out, and *)
(* the trigger level is the one that was written.                          *)
Armed(s) ==
  s.fcr.fe => /\ s.itl = s.fcr.level
              /\ s.fifoTimer \/ s.toPending \/ \A i \in 1 .. Len(s.recv) : s.recv[i] = NUL

(* What the arrival of c does to the receiver.                             *)
Received(s, t, c) ==
  /\ "DR" \in t.lsr
  /\ s.fcr.fe => /\ t.fifoTimer
                 /\ t.recv = IF Len(s.recv) < FIFOLEN THEN Append(s.recv, c) ELSE s.recv
  /\ ~s.fcr.fe => t.rbr = c

(* A change of CTS is noted, and a note stays.                             *)
CtsSeen(s, t) ==
  /\ "DCTS" \in s.msr => "DCTS" \in t.msr
  /\ ("CTS" \in t.msr) # ("CTS" \in s.msr) => "DCTS" \in t.msr

(* The receiver is as it was.                                              *)
NotReceived(s, t) ==
  /\ t.lsr \cap {"BI", "OE", "DR"} = s.lsr \cap {"BI", "OE", "DR"}
  /\ t.fifoTimer = s.fifoTimer /\ t.recv = s.recv /\ t.rbr = s.rbr

-----------------------------------------------------------------------------
(* Interrupts.                                                             *)

(* serial_update_irq finds one of the causes of the identification register. *)
LEMMA CauseType == ASSUME NEW s PROVE Cause(s) \in Causes
BY DEF Cause, Causes

(* The cause depends on these fields, and of lsr and msr on these bits.    *)
LEMMA CauseSame ==
  ASSUME NEW s, NEW t, t.ier = s.ier, t.toPending = s.toPending, t.fcr = s.fcr,
         t.recv = s.recv, t.itl = s.itl, t.thrPending = s.thrPending,
         t.lsr \cap {"BI", "OE", "DR"} = s.lsr \cap {"BI", "OE", "DR"},
         t.msr \cap Deltas = s.msr \cap Deltas
  PROVE  Cause(t) = Cause(s)
<1>1. ({"BI", "OE"} \cap t.lsr # {}) <=> ({"BI", "OE"} \cap s.lsr # {})
  OBVIOUS
<1>2. ("DR" \in t.lsr) <=> ("DR" \in s.lsr)
  OBVIOUS
<1>3. (Deltas \cap t.msr # {}) <=> (Deltas \cap s.msr # {})
  OBVIOUS
<1>4. AtLevel(t) <=> AtLevel(s)
  BY DEF AtLevel
<1> QED BY <1>1, <1>2, <1>3, <1>4 DEF Cause

(* serial_update_irq.                                                      *)
LEMMA UpdateFacts ==
  ASSUME NEW s \in Dev, NEW t, t = UpdateIrq(s)
  PROVE  t \in Dev /\ Right(t) /\ Same(s, t, {"iir", "irq"})
<1> DEFINE c == Cause(s)
<1>1. c \in Causes
  BY CauseType
<1>2. t = [s EXCEPT !.iir = c, !.irq = (c # "NONE")]
  BY DEF UpdateIrq, Signal
<1> HIDE DEF c
<1>3. t.iir = c /\ t.irq = (c # "NONE")
  BY <1>2 DEF Dev
<1>4. t \in Dev
  BY ZenonT(40), <1>1, <1>2 DEF Dev
<1>5. Same(s, t, {"iir", "irq"})
  BY <1>2 DEF Dev, Fields, Same
<1>6. Cause(t) = c
  BY <1>5, CauseSame DEF Fields, Same, c
<1>7. t.irq = (Cause(t) # "NONE")
  BY <1>3, <1>6
<1> QED BY <1>3, <1>4, <1>5, <1>6, <1>7 DEF Right

(* A line that is right tells of every cause, and so does one left alone   *)
(* with its cause.                                                         *)
LEMMA HeardTold ==
  ASSUME NEW s, NEW t, Heard(s, t)
  PROVE  /\ Right(s) => Right(t)
         /\ Told(s) => Told(t)
<1>1. Right(t) => Told(t)
  BY DEF Right, Told
<1> QED BY <1>1 DEF Heard, Right, Told

-----------------------------------------------------------------------------
(* Receiving.                                                              *)

(* The receive FIFO takes a character or overruns.                         *)
LEMMA PutRecvFacts ==
  ASSUME NEW s \in Dev, NEW c \in Chars, NEW t, t = PutRecv(s, c)
  PROVE  /\ t \in Dev /\ Same(s, t, {"recv", "lsr"})
         /\ s.lsr \subseteq t.lsr /\ t.lsr \subseteq s.lsr \cup {"OE"}
         /\ t.recv = IF Len(s.recv) < FIFOLEN THEN Append(s.recv, c) ELSE s.recv
<1>1. s.recv \in Seq(Chars) /\ Len(s.recv) \in Nat /\ FIFOLEN \in Nat /\ s.lsr \subseteq LsrBits
  BY FifoAssumption, LenProperties DEF Dev, Fifo
<1>2. CASE Len(s.recv) < FIFOLEN
  <2> DEFINE q == Append(s.recv, c)
  <2>1. q \in Seq(Chars) /\ Len(q) = Len(s.recv) + 1
    BY <1>1, AppendProperties
  <2>2. q \in Fifo
    <3> HIDE DEF q
    <3> QED BY <1>1, <1>2, <2>1 DEF Fifo
  <2>3. t = [s EXCEPT !.recv = q]
    BY <1>2 DEF PutRecv
  <2> HIDE DEF q
  <2>4. t \in Dev /\ Same(s, t, {"recv", "lsr"}) /\ t.recv = q /\ t.lsr = s.lsr
    BY ZenonT(40), <2>2, <2>3 DEF Dev, Same, Fields
  <2> QED BY <1>2, <2>4 DEF q
<1>3. CASE ~(Len(s.recv) < FIFOLEN)
  <2>1. t = [s EXCEPT !.lsr = s.lsr \cup {"OE"}]
    BY <1>3 DEF PutRecv
  <2>2. s.lsr \cup {"OE"} \in SUBSET LsrBits
    BY <1>1 DEF LsrBits
  <2>3. /\ t \in Dev /\ Same(s, t, {"recv", "lsr"})
        /\ t.lsr = s.lsr \cup {"OE"} /\ t.recv = s.recv
    BY <2>1, <2>2 DEF Dev, Same, Fields
  <2> QED BY <1>3, <2>3
<1> QED BY <1>2, <1>3

(* serial_receive1.                                                        *)
LEMMA Receive1Facts ==
  ASSUME NEW s \in Dev, NEW c \in Chars, NEW t, t = Receive1(s, c)
  PROVE  /\ t \in Dev /\ Right(t) /\ Received(s, t, c)
         /\ Same(s, t, {"rbr", "lsr", "recv", "fifoTimer", "iir", "irq"})
         /\ s.lsr \subseteq t.lsr
<1>1. CASE s.fcr.fe
  <2> DEFINE a == PutRecv(s, c)
             b == [a EXCEPT !.lsr = @ \cup {"DR"}, !.fifoTimer = TRUE]
  <2>1. t = UpdateIrq(b)
    BY <1>1 DEF Receive1
  <2>2. /\ a \in Dev /\ Same(s, a, {"recv", "lsr"})
        /\ s.lsr \subseteq a.lsr
        /\ a.recv = IF Len(s.recv) < FIFOLEN THEN Append(s.recv, c) ELSE s.recv
    BY PutRecvFacts
  <2> HIDE DEF a
  <2>3. a.lsr \cup {"DR"} \in SUBSET LsrBits
    BY <2>2 DEF Dev, LsrBits
  <2>4. /\ b \in Dev /\ Same(a, b, {"lsr", "fifoTimer"})
        /\ b.lsr = a.lsr \cup {"DR"} /\ b.fifoTimer
    BY <2>2, <2>3 DEF Dev, Same, Fields
  <2> HIDE DEF b
  <2>5. t \in Dev /\ Right(t) /\ Same(b, t, {"iir", "irq"})
    BY <2>1, <2>4, UpdateFacts
  <2>6. t.lsr = b.lsr /\ t.fifoTimer = b.fifoTimer /\ t.recv = a.recv
    BY <2>4, <2>5 DEF Same, Fields
  <2>7. Same(s, t, {"rbr", "lsr", "recv", "fifoTimer", "iir", "irq"})
    BY <2>2, <2>4, <2>5 DEF Same, Fields
  <2> QED BY <1>1, <2>2, <2>4, <2>5, <2>6, <2>7 DEF Received
<1>2. CASE ~s.fcr.fe
  <2> DEFINE l == s.lsr \cup {"DR"} \cup (IF "DR" \in s.lsr THEN {"OE"} ELSE {})
             b == [s EXCEPT !.rbr = c, !.lsr = l]
  <2>1. t = UpdateIrq(b)
    BY <1>2 DEF Receive1
  <2>2. l \in SUBSET LsrBits /\ s.lsr \subseteq l /\ "DR" \in l
    BY DEF Dev, LsrBits
  <2> HIDE DEF l
  <2>3. b \in Dev /\ Same(s, b, {"rbr", "lsr"}) /\ b.rbr = c /\ b.lsr = l
    BY <2>2 DEF Dev, Same, Fields
  <2> HIDE DEF b
  <2>4. t \in Dev /\ Right(t) /\ Same(b, t, {"iir", "irq"})
    BY <2>1, <2>3, UpdateFacts
  <2>5. t.lsr = l /\ t.rbr = c
    BY <2>3, <2>4 DEF Same, Fields
  <2>6. Same(s, t, {"rbr", "lsr", "recv", "fifoTimer", "iir", "irq"})
    BY <2>3, <2>4 DEF Same, Fields
  <2> QED BY <1>2, <2>2, <2>4, <2>5, <2>6 DEF Received
<1> QED BY <1>1, <1>2

(* serial_receive_break.                                                   *)
LEMMA ReceiveBreakFacts ==
  ASSUME NEW s \in Dev, NEW t, t = ReceiveBreak(s)
  PROVE  /\ t \in Dev /\ Right(t)
         /\ Same(s, t, {"rbr", "lsr", "recv", "iir", "irq"})
         /\ s.lsr \subseteq t.lsr /\ {"BI", "DR"} \subseteq t.lsr /\ t.rbr = NUL
         /\ t.recv = IF Len(s.recv) < FIFOLEN THEN Append(s.recv, NUL) ELSE s.recv
<1> DEFINE a == [s EXCEPT !.rbr = NUL]
           b == PutRecv(a, NUL)
           e == [b EXCEPT !.lsr = @ \cup {"BI", "DR"}]
<1>1. t = UpdateIrq(e)
  BY DEF ReceiveBreak
<1>2. NUL \in Chars
  BY FifoAssumption DEF NUL
<1>3. a \in Dev /\ Same(s, a, {"rbr"}) /\ a.rbr = NUL
  BY <1>2 DEF Dev, Same, Fields
<1> HIDE DEF a
<1>4. /\ b \in Dev /\ Same(a, b, {"recv", "lsr"}) /\ a.lsr \subseteq b.lsr
      /\ b.recv = IF Len(a.recv) < FIFOLEN THEN Append(a.recv, NUL) ELSE a.recv
  BY <1>2, <1>3, PutRecvFacts
<1> HIDE DEF b
<1>5. b.lsr \cup {"BI", "DR"} \in SUBSET LsrBits
  BY <1>4 DEF Dev, LsrBits
<1>6. e \in Dev /\ Same(b, e, {"lsr"}) /\ e.lsr = b.lsr \cup {"BI", "DR"}
  BY <1>4, <1>5 DEF Dev, Same, Fields
<1> HIDE DEF e
<1>7. t \in Dev /\ Right(t) /\ Same(e, t, {"iir", "irq"})
  BY <1>1, <1>6, UpdateFacts
<1>8. Same(s, t, {"rbr", "lsr", "recv", "iir", "irq"})
  BY <1>3, <1>4, <1>6, <1>7 DEF Same, Fields
<1>9. /\ t.lsr = b.lsr \cup {"BI", "DR"} /\ t.rbr = NUL /\ t.recv = b.recv
      /\ a.recv = s.recv /\ a.lsr = s.lsr
  BY <1>3, <1>4, <1>6, <1>7 DEF Same, Fields
<1> QED BY <1>4, <1>7, <1>8, <1>9

(* fifo_timeout_int.                                                       *)
LEMMA TimeoutFacts ==
  ASSUME NEW s \in Dev, NEW t, t = TimeoutInt(s)
  PROVE  /\ t \in Dev /\ Heard(s, t)
         /\ Same(s, t, {"fifoTimer", "toPending", "iir", "irq"})
         /\ s.recv # <<>> => t.toPending
<1> DEFINE a == [s EXCEPT !.fifoTimer = FALSE]
           b == [a EXCEPT !.toPending = TRUE]
<1>1. t = IF s.recv = <<>> THEN a ELSE UpdateIrq(b)
  BY DEF TimeoutInt
<1>2. a \in Dev /\ Same(s, a, {"fifoTimer"})
  BY DEF Dev, Same, Fields
<1> HIDE DEF a
<1>3. b \in Dev /\ Same(a, b, {"toPending"}) /\ b.toPending
  BY <1>2 DEF Dev, Same, Fields
<1> HIDE DEF b
<1>4. CASE s.recv = <<>>
  <2>1. t = a
    BY <1>1, <1>4
  <2>2. Cause(t) = Cause(s) /\ t.iir = s.iir /\ t.irq = s.irq
    BY <1>2, <2>1, CauseSame DEF Same, Fields
  <2>3. Same(s, t, {"fifoTimer", "toPending", "iir", "irq"})
    BY <1>2, <2>1 DEF Same, Fields
  <2> QED BY <1>2, <1>4, <2>1, <2>2, <2>3 DEF Heard
<1>5. CASE s.recv # <<>>
  <2>1. t \in Dev /\ Right(t) /\ Same(b, t, {"iir", "irq"})
    BY <1>1, <1>3, <1>5, UpdateFacts
  <2>2. t.toPending
    BY <1>3, <2>1 DEF Same, Fields
  <2>3. Same(s, t, {"fifoTimer", "toPending", "iir", "irq"})
    BY <1>2, <1>3, <2>1 DEF Same, Fields
  <2> QED BY <2>1, <2>2, <2>3 DEF Heard
<1> QED BY <1>4, <1>5

-----------------------------------------------------------------------------
(* Transmitting.                                                           *)

(* The character that was written gets into the shift register.            *)
LEMMA TsrLoadFacts ==
  ASSUME NEW s \in Dev, NEW c \in Chars, NEW t, t = TsrLoad(s),
         s.fcr.fe => s.xmit = <<c>>,
         ~s.fcr.fe => s.thr = c /\ s.xmit = <<>>
  PROVE  /\ t \in Dev /\ Same(s, t, {"tsr", "xmit", "lsr"})
         /\ t.tsr = c /\ t.xmit = <<>> /\ "THRE" \in t.lsr
         /\ t.lsr \cap {"BI", "OE", "DR"} = s.lsr \cap {"BI", "OE", "DR"}
<1>1. ~Retrying(s)
  <2>1. s.retry \in -1 .. 0
    BY DEF Dev
  <2> QED BY <2>1 DEF Retrying
<1>2. <<>> \in Fifo
  BY FifoAssumption, EmptySeq DEF Fifo
<1>3. CASE s.fcr.fe
  <2>1. s.xmit = <<c>> /\ First(s.xmit) = c /\ Rest(s.xmit) = <<>>
    <3>1. s.xmit = <<c>> /\ <<c>> # <<>>
      BY <1>3
    <3>2. Head(<<c>>) = c /\ Tail(<<c>>) = <<>>
      OBVIOUS
    <3> QED BY <3>1, <3>2 DEF First, Rest
  <2> DEFINE l == s.lsr \cup {"THRE"}
  <2>2. t = [s EXCEPT !.tsr = c, !.xmit = <<>>, !.lsr = l]
    BY <1>1, <1>3, <2>1 DEF TsrLoad
  <2>3. l \in SUBSET LsrBits /\ "THRE" \in l
        /\ l \cap {"BI", "OE", "DR"} = s.lsr \cap {"BI", "OE", "DR"}
    BY DEF Dev, LsrBits
  <2> HIDE DEF l
  <2>4. t \in Dev /\ Same(s, t, {"tsr", "xmit", "lsr"})
    <3>1. Same(s, t, {"tsr", "xmit", "lsr"})
      BY <2>2 DEF Dev, Same, Fields
    <3>2. t \in Dev
      <4> DEFINE none == <<>>
      <4>1. none \in Fifo /\ t = [s EXCEPT !.tsr = c, !.xmit = none, !.lsr = l]
        BY <1>2, <2>2
      <4> DEFINE a == [s EXCEPT !.tsr = c, !.lsr = l]
      <4>2. a \in Dev /\ t = [a EXCEPT !.xmit = none]
        BY <2>3, <4>1 DEF Dev
      <4> HIDE DEF none, a
      <4> QED BY <4>1, <4>2, SMTT(30) DEF Dev
    <3> QED BY <3>1, <3>2
  <2>5. t.tsr = c /\ t.xmit = <<>> /\ t.lsr = l
    BY <2>2 DEF Dev
  <2> QED BY <2>3, <2>4, <2>5
<1>4. CASE ~s.fcr.fe
  <2> DEFINE l == (s.lsr \cup {"THRE"}) \ {"TEMT"}
  <2>1. t = [s EXCEPT !.tsr = c, !.lsr = l]
    BY <1>1, <1>4 DEF TsrLoad
  <2>2. l \in SUBSET LsrBits /\ "THRE" \in l
        /\ l \cap {"BI", "OE", "DR"} = s.lsr \cap {"BI", "OE", "DR"}
    BY DEF Dev, LsrBits
  <2> HIDE DEF l
  <2>3. t \in Dev /\ Same(s, t, {"tsr", "xmit", "lsr"})
    BY ZenonT(40), <2>1, <2>2 DEF Dev, Same, Fields
  <2>4. t.tsr = c /\ t.xmit = <<>> /\ t.lsr = l
    BY <1>4, <2>1 DEF Dev
  <2> QED BY <2>2, <2>3, <2>4
<1> QED BY <1>3, <1>4

(* It goes back to the receiver, to the back end, or nowhere.              *)
LEMMA TsrSendFacts ==
  ASSUME NEW s \in Dev, NEW ok \in BOOLEAN, NEW t, t = TsrSend(s, ok)
  PROVE  /\ t \in Dev /\ s.lsr \subseteq t.lsr
         /\ Same(s, t, {"rbr", "lsr", "recv", "fifoTimer", "iir", "irq", "retry", "out"})
         /\ "LOOP" \in s.mcr => Received(s, t, s.tsr) /\ t.out = s.out
         /\ "LOOP" \notin s.mcr =>
              /\ NotReceived(s, t)
              /\ t.out = IF ok THEN Append(s.out, s.tsr) ELSE s.out
<1>1. s.tsr \in Chars /\ s.out \in Seq(Chars)
  BY DEF Dev
<1>2. CASE "LOOP" \in s.mcr
  <2>1. t = Receive1(s, s.tsr)
    BY <1>2 DEF TsrSend
  <2>2. /\ t \in Dev /\ Received(s, t, s.tsr) /\ s.lsr \subseteq t.lsr
        /\ Same(s, t, {"rbr", "lsr", "recv", "fifoTimer", "iir", "irq"})
    BY <1>1, <2>1, Receive1Facts
  <2>3. /\ t.out = s.out
        /\ Same(s, t, {"rbr", "lsr", "recv", "fifoTimer", "iir", "irq", "retry", "out"})
    BY <2>2 DEF Same, Fields
  <2> QED BY <1>2, <2>2, <2>3
<1>3. CASE "LOOP" \notin s.mcr /\ ok
  <2> DEFINE q == Append(s.out, s.tsr)
  <2>1. q \in Seq(Chars)
    BY <1>1, AppendProperties
  <2>2. t = [s EXCEPT !.retry = 0, !.out = q]
    BY <1>3 DEF TsrSend
  <2> HIDE DEF q
  <2>3. t \in Dev /\ Same(s, t, {"retry", "out"}) /\ t.out = q
    <3>1. 0 \in -1 .. 0
      OBVIOUS
    <3>2. t \in Dev
      BY ZenonT(40), <2>1, <2>2, <3>1 DEF Dev
    <3> QED BY <2>2, <3>2 DEF Dev, Same, Fields
  <2>4. /\ NotReceived(s, t) /\ t.lsr = s.lsr
        /\ Same(s, t, {"rbr", "lsr", "recv", "fifoTimer", "iir", "irq", "retry", "out"})
    BY <2>3 DEF Same, Fields, NotReceived
  <2> QED BY <1>3, <2>3, <2>4 DEF q
<1>4. CASE "LOOP" \notin s.mcr /\ ~ok
  <2> DEFINE r == IF s.poll < 0 THEN -1 ELSE s.retry
  <2>1. r \in -1 .. 0
    BY DEF Dev
  <2>2. t = [s EXCEPT !.retry = r]
    BY <1>4 DEF TsrSend
  <2> HIDE DEF r
  <2>3. t \in Dev /\ Same(s, t, {"retry"})
    BY <2>1, <2>2, ZenonT(40) DEF Dev, Same, Fields
  <2>4. /\ NotReceived(s, t) /\ t.lsr = s.lsr /\ t.out = s.out
        /\ Same(s, t, {"rbr", "lsr", "recv", "fifoTimer", "iir", "irq", "retry", "out"})
    BY <2>3 DEF Same, Fields, NotReceived
  <2> QED BY <1>4, <2>3, <2>4
<1> QED BY <1>2, <1>3, <1>4

(* When the holding register is empty the interrupt follows and no timer   *)
(* is started.                                                             *)
LEMMA TsrDoneFacts ==
  ASSUME NEW s \in Dev, "THRE" \in s.lsr, NEW t, t = TsrDone(s)
  PROVE  /\ t \in Dev /\ Right(t) /\ t.lsr = s.lsr \cup {"TEMT"} /\ t.thrPending
         /\ Same(s, t, {"lsr", "thrPending", "iir", "irq"})
<1> DEFINE l == s.lsr \cup {"TEMT"}
           a == [s EXCEPT !.lsr = l, !.thrPending = TRUE]
<1>1. t = UpdateIrq(a)
  BY DEF TsrDone
<1>2. l \in SUBSET LsrBits
  BY DEF Dev, LsrBits
<1> HIDE DEF l
<1>3. a \in Dev /\ Same(s, a, {"lsr", "thrPending"}) /\ a.lsr = l /\ a.thrPending
  BY <1>2 DEF Dev, Same, Fields
<1> HIDE DEF a
<1>4. t \in Dev /\ Right(t) /\ Same(a, t, {"iir", "irq"})
  BY <1>1, <1>3, UpdateFacts
<1>5. t.lsr = l /\ Same(s, t, {"lsr", "thrPending", "iir", "irq"}) /\ t.thrPending
  BY <1>3, <1>4 DEF Same, Fields
<1> QED BY <1>4, <1>5 DEF l

(* serial_xmit, with one character to transmit.                            *)
LEMMA XmitFacts ==
  ASSUME NEW s \in Dev, NEW c \in Chars, NEW ok \in BOOLEAN, NEW t, t = Xmit(s, ok),
         s.fcr.fe => s.xmit = <<c>>,
         ~s.fcr.fe => s.thr = c /\ s.xmit = <<>>
  PROVE  /\ t \in Dev /\ Right(t) /\ t.xmit = <<>> /\ {"THRE", "TEMT"} \subseteq t.lsr
         /\ t.thrPending
         /\ Same(s, t, {"rbr", "lsr", "recv", "fifoTimer", "iir", "irq", "retry", "out",
                        "tsr", "xmit", "thrPending"})
         /\ "LOOP" \in s.mcr => Received(s, t, c) /\ t.out = s.out
         /\ "LOOP" \notin s.mcr =>
              NotReceived(s, t) /\ t.out = IF ok THEN Append(s.out, c) ELSE s.out
<1> DEFINE a == TsrLoad(s)
           b == TsrSend(a, ok)
<1>1. t = TsrDone(b)
  <2>1. ~Retrying(s)
    <3>1. s.retry \in -1 .. 0
      BY DEF Dev
    <3> QED BY <3>1 DEF Retrying
  <2> QED BY <2>1 DEF Xmit
<1>2. /\ a \in Dev /\ Same(s, a, {"tsr", "xmit", "lsr"})
      /\ a.tsr = c /\ a.xmit = <<>> /\ "THRE" \in a.lsr
      /\ a.lsr \cap {"BI", "OE", "DR"} = s.lsr \cap {"BI", "OE", "DR"}
  BY TsrLoadFacts
<1> HIDE DEF a
<1>3. /\ b \in Dev /\ a.lsr \subseteq b.lsr
      /\ Same(a, b, {"rbr", "lsr", "recv", "fifoTimer", "iir", "irq", "retry", "out"})
      /\ "LOOP" \in a.mcr => Received(a, b, a.tsr) /\ b.out = a.out
      /\ "LOOP" \notin a.mcr =>
           NotReceived(a, b) /\ b.out = IF ok THEN Append(a.out, a.tsr) ELSE a.out
  BY <1>2, TsrSendFacts
<1> HIDE DEF b
<1>4. /\ t \in Dev /\ Right(t) /\ t.lsr = b.lsr \cup {"TEMT"} /\ t.thrPending
      /\ Same(b, t, {"lsr", "thrPending", "iir", "irq"})
  BY <1>1, <1>2, <1>3, TsrDoneFacts
<1>5. Same(s, t, {"rbr", "lsr", "recv", "fifoTimer", "iir", "irq", "retry", "out",
                  "tsr", "xmit", "thrPending"})
  BY <1>2, <1>3, <1>4 DEF Same, Fields
<1>6. /\ a.mcr = s.mcr /\ a.fcr = s.fcr /\ a.recv = s.recv /\ a.rbr = s.rbr /\ a.out = s.out
      /\ a.fifoTimer = s.fifoTimer
      /\ t.recv = b.recv /\ t.rbr = b.rbr /\ t.out = b.out /\ t.fifoTimer = b.fifoTimer
      /\ t.xmit = <<>>
  BY <1>2, <1>3, <1>4 DEF Same, Fields
<1>7. ("DR" \in a.lsr <=> "DR" \in s.lsr) /\ ("DR" \in t.lsr <=> "DR" \in b.lsr)
  BY <1>2, <1>4
<1>8. CASE "LOOP" \in s.mcr
  BY <1>2, <1>3, <1>4, <1>5, <1>6, <1>7, <1>8 DEF Received
<1>9. CASE "LOOP" \notin s.mcr
  BY <1>2, <1>3, <1>4, <1>5, <1>6, <1>7, <1>9 DEF NotReceived
<1> QED BY <1>8, <1>9

(* A write to the transmitter holding register.                            *)
LEMMA WriteThrFacts ==
  ASSUME NEW s \in Dev, Quiet(s), NEW c \in Chars, NEW ok \in BOOLEAN,
         NEW t, t = WriteThr(s, c, ok)
  PROVE  /\ t \in Dev /\ Right(t) /\ Quiet(t) /\ t.thrPending
         /\ Same(s, t, {"rbr", "lsr", "recv", "fifoTimer", "iir", "irq", "retry", "out",
                        "thr", "tsr", "xmit", "thrPending"})
         /\ "LOOP" \in s.mcr => Received(s, t, c) /\ t.out = s.out
         /\ "LOOP" \notin s.mcr =>
              NotReceived(s, t) /\ t.out = IF ok THEN Append(s.out, c) ELSE s.out
<1> DEFINE a == [s EXCEPT !.thr = c, !.thrPending = FALSE]
           b == IF s.fcr.fe
                THEN [PutXmit(a, c) EXCEPT !.lsr = @ \ {"TEMT", "THRE"}]
                ELSE [a EXCEPT !.lsr = @ \ {"THRE"}]
           e == UpdateIrq(b)
<1>1. t = Xmit(e, ok)
  BY DEF WriteThr
<1>2. a \in Dev /\ Same(s, a, {"thr", "thrPending"}) /\ a.thr = c
  BY DEF Dev, Same, Fields
<1> HIDE DEF a
<1>3. a.xmit = <<>> /\ a.lsr = s.lsr /\ a.lsr \subseteq LsrBits
  BY <1>2 DEF Same, Fields, Quiet, Dev
<1>4. /\ b \in Dev /\ Same(a, b, {"xmit", "lsr"})
      /\ b.xmit = IF s.fcr.fe THEN <<c>> ELSE <<>>
      /\ b.lsr \cap {"BI", "OE", "DR"} = a.lsr \cap {"BI", "OE", "DR"}
  <2>1. CASE s.fcr.fe
    <3> DEFINE g == PutXmit(a, c)
               l == g.lsr \ {"TEMT", "THRE"}
    <3>1. g = [a EXCEPT !.xmit = <<c>>]
      <4>1. Len(a.xmit) < FIFOLEN /\ Append(a.xmit, c) = <<c>>
        BY <1>3, FifoAssumption
      <4> QED BY <4>1 DEF PutXmit
    <3>2. <<c>> \in Fifo
      <4>1. <<c>> \in Seq(Chars) /\ Len(<<c>>) = 1
        OBVIOUS
      <4> QED BY <4>1, FifoAssumption DEF Fifo
    <3>3. b = [g EXCEPT !.lsr = l]
      BY <2>1
    <3> HIDE DEF g
    <3>4. g \in Dev /\ Same(a, g, {"xmit"}) /\ g.xmit = <<c>>
      BY <1>2, <3>1, <3>2 DEF Dev, Same, Fields
    <3>5. l \in SUBSET LsrBits /\ l \cap {"BI", "OE", "DR"} = a.lsr \cap {"BI", "OE", "DR"}
      BY <1>3, <3>4 DEF Same, Fields
    <3> HIDE DEF l, b
    <3>6. b \in Dev /\ Same(g, b, {"lsr"}) /\ b.lsr = l
      BY <3>3, <3>4, <3>5 DEF Dev, Same, Fields
    <3> QED BY <2>1, <3>4, <3>5, <3>6 DEF Same, Fields
  <2>2. CASE ~s.fcr.fe
    <3> DEFINE l == a.lsr \ {"THRE"}
    <3>1. b = [a EXCEPT !.lsr = l]
      BY <2>2
    <3>2. l \in SUBSET LsrBits /\ l \cap {"BI", "OE", "DR"} = a.lsr \cap {"BI", "OE", "DR"}
      BY <1>3
    <3> HIDE DEF l, b
    <3>3. b \in Dev /\ Same(a, b, {"lsr"}) /\ b.lsr = l
      BY <1>2, <3>1, <3>2 DEF Dev, Same, Fields
    <3> QED BY <1>3, <2>2, <3>2, <3>3 DEF Same, Fields
  <2> QED BY <2>1, <2>2
<1> HIDE DEF b
<1>5. e \in Dev /\ Same(b, e, {"iir", "irq"})
  BY <1>4, UpdateFacts
<1> HIDE DEF e
<1>6. /\ e.xmit = b.xmit /\ e.fcr = s.fcr /\ e.thr = c /\ e.mcr = s.mcr /\ e.recv = s.recv
      /\ e.rbr = s.rbr /\ e.out = s.out /\ e.fifoTimer = s.fifoTimer
      /\ e.xmitTimer = s.xmitTimer
      /\ e.lsr \cap {"BI", "OE", "DR"} = s.lsr \cap {"BI", "OE", "DR"}
  BY <1>2, <1>3, <1>4, <1>5 DEF Same, Fields
<1>7. /\ t \in Dev /\ Right(t) /\ t.xmit = <<>> /\ {"THRE", "TEMT"} \subseteq t.lsr
      /\ t.thrPending
      /\ Same(e, t, {"rbr", "lsr", "recv", "fifoTimer", "iir", "irq", "retry", "out",
                     "tsr", "xmit", "thrPending"})
      /\ "LOOP" \in s.mcr => Received(e, t, c) /\ t.out = e.out
      /\ "LOOP" \notin s.mcr =>
           NotReceived(e, t) /\ t.out = IF ok THEN Append(e.out, c) ELSE e.out
  <2>1. (e.fcr.fe => e.xmit = <<c>>) /\ (~e.fcr.fe => e.thr = c /\ e.xmit = <<>>)
    BY <1>4, <1>6
  <2> QED BY <1>1, <1>5, <1>6, <2>1, XmitFacts
<1>8. Same(s, t, {"rbr", "lsr", "recv", "fifoTimer", "iir", "irq", "retry", "out",
                  "thr", "tsr", "xmit", "thrPending"})
  BY <1>2, <1>4, <1>5, <1>7 DEF Same, Fields
<1>9. Quiet(t)
  <2>1. t.xmitTimer = s.xmitTimer
    BY <1>8 DEF Same, Fields
  <2> QED BY <1>7, <2>1 DEF Quiet
<1>10. ("DR" \in e.lsr <=> "DR" \in s.lsr)
  BY <1>6
<1>11. /\ "LOOP" \in s.mcr => Received(s, t, c) /\ t.out = s.out
       /\ "LOOP" \notin s.mcr =>
            NotReceived(s, t) /\ t.out = IF ok THEN Append(s.out, c) ELSE s.out
  BY <1>6, <1>7, <1>10 DEF Received, NotReceived
<1> QED BY <1>7, <1>8, <1>9, <1>11
-----------------------------------------------------------------------------
(* Modem lines, and the other registers.                                   *)

(* serial_update_msl.                                                      *)
LEMMA UpdateMslFacts ==
  ASSUME NEW s \in Dev, NEW flags \in SUBSET Lines, NEW t, t = UpdateMsl(s, flags)
  PROVE  /\ t \in Dev /\ Heard(s, t)
         /\ Same(s, t, {"msr", "mslTimer", "poll", "iir", "irq"})
         /\ CtsSeen(s, t)
<1> DEFINE lines == {l \in Lines : l \in flags}
           new   == (s.msr \ Lines) \cup lines
           flips == {Delta[l] : l \in {x \in Lines : (x \in new) # (x \in s.msr)}}
           dirty == new \cup flips
           bits  == IF "RI" \notin s.msr THEN dirty \ {"TERI"} ELSE dirty
           a     == [s EXCEPT !.mslTimer = FALSE]
           b     == [a EXCEPT !.msr = bits]
           e     == IF new = s.msr THEN a ELSE UpdateIrq(b)
<1>1. t = IF ~s.real THEN [a EXCEPT !.poll = -1] ELSE [e EXCEPT !.mslTimer = (s.poll # 0)]
  BY DEF UpdateMsl
<1>2. bits \in SUBSET (Lines \cup Deltas)
  <2>1. flips \subseteq Deltas
    BY DEF Deltas
  <2>2. s.msr \subseteq Lines \cup Deltas
    BY DEF Dev
  <2> QED BY <2>1, <2>2
<1>0. /\ "DCTS" \in s.msr => "DCTS" \in bits
      /\ ("CTS" \in bits) # ("CTS" \in s.msr) => "DCTS" \in bits
  <2>1. "CTS" \in Lines /\ "DCTS" \notin Lines /\ Delta["CTS"] = "DCTS"
    BY DEF Lines, Delta
  <2>2. ("CTS" \in new) # ("CTS" \in s.msr) => "DCTS" \in flips
    BY <2>1
  <2>3. "CTS" \notin flips
    BY DEF Delta, Lines
  <2>4. "DCTS" \in s.msr => "DCTS" \in new
    BY <2>1
  <2> HIDE DEF new, flips
  <2> QED BY <2>2, <2>3, <2>4
<1> HIDE DEF bits, new
<1>3. a \in Dev /\ Same(s, a, {"mslTimer"})
  BY DEF Dev, Same, Fields
<1> HIDE DEF a
<1>4. b \in Dev /\ Same(a, b, {"msr"}) /\ b.msr = bits
  BY <1>2, <1>3 DEF Dev, Same, Fields
<1> HIDE DEF b
<1>5. Cause(a) = Cause(s) /\ a.iir = s.iir /\ a.irq = s.irq
  BY <1>3, CauseSame DEF Same, Fields
<1>6. CASE ~s.real
  <2>1. t = [a EXCEPT !.poll = -1] /\ -1 \in -1 .. 1
    BY <1>1, <1>6
  <2>2. t \in Dev /\ Same(a, t, {"poll"})
    BY ZenonT(40), <1>3, <2>1 DEF Dev, Same, Fields
  <2>3. Cause(t) = Cause(a) /\ t.iir = a.iir /\ t.irq = a.irq
    BY <2>2, CauseSame DEF Same, Fields
  <2>4. Same(s, t, {"msr", "mslTimer", "poll", "iir", "irq"})
    BY <1>3, <2>2 DEF Same, Fields
  <2>5. t.msr = s.msr
    BY <1>3, <2>2 DEF Same, Fields
  <2> QED BY <1>5, <2>2, <2>3, <2>4, <2>5 DEF Heard, CtsSeen
<1>7. CASE s.real
  <2>1. t = [e EXCEPT !.mslTimer = (s.poll # 0)]
    BY <1>1, <1>7
  <2>2. /\ e \in Dev /\ Heard(a, e) /\ Same(a, e, {"msr", "iir", "irq"})
        /\ e.msr = s.msr \/ e.msr = bits
    <3>1. CASE new = s.msr
      <4>1. e = a
        BY <3>1
      <4>2. e.msr = s.msr
        BY <1>3, <4>1 DEF Same, Fields
      <4> QED BY <1>3, <4>1, <4>2 DEF Heard, Same
    <3>2. CASE new # s.msr
      <4>1. e = UpdateIrq(b)
        BY <3>2
      <4> HIDE DEF e
      <4>2. e \in Dev /\ Right(e) /\ Same(b, e, {"iir", "irq"})
        BY <1>4, <4>1, UpdateFacts
      <4>3. Same(a, e, {"msr", "iir", "irq"}) /\ e.msr = bits
        BY <1>4, <4>2 DEF Same, Fields
      <4> QED BY <4>2, <4>3 DEF Heard
    <3> QED BY <3>1, <3>2
  <2> HIDE DEF e
  <2>3. t \in Dev /\ Same(e, t, {"mslTimer"})
    <3> DEFINE m == s.poll # 0
    <3>1. m \in BOOLEAN /\ t = [e EXCEPT !.mslTimer = m]
      BY <2>1
    <3> HIDE DEF m
    <3> QED BY ZenonT(40), <2>2, <3>1 DEF Dev, Same, Fields
  <2>4. Cause(t) = Cause(e) /\ t.iir = e.iir /\ t.irq = e.irq
    BY <2>3, CauseSame DEF Same, Fields
  <2>5. Same(s, t, {"msr", "mslTimer", "poll", "iir", "irq"})
    BY <1>3, <2>2, <2>3 DEF Same, Fields
  <2>6. CtsSeen(s, t)
    <3>1. t.msr = e.msr
      BY <2>3 DEF Same, Fields
    <3> QED BY <1>0, <2>2, <3>1 DEF CtsSeen
  <2> QED BY <1>5, <2>2, <2>3, <2>4, <2>5, <2>6 DEF Heard, Right
<1>8. s.real \in BOOLEAN
  BY DEF Dev
<1> QED BY <1>6, <1>7, <1>8

(* A write to the interrupt enable register.                               *)
LEMMA WriteIerFacts ==
  ASSUME NEW s \in Dev, Quiet(s), NEW bits \in SUBSET IerBits,
         NEW flags \in SUBSET Lines, NEW t, t = WriteIer(s, bits, flags)
  PROVE  /\ t \in Dev /\ Right(t)
         /\ Same(s, t, {"ier", "msr", "mslTimer", "poll", "thrPending", "iir", "irq"})
         /\ t.ier = bits /\ t.thrPending /\ CtsSeen(s, t)
<1> DEFINE a == [s EXCEPT !.ier = bits]
           m == [a EXCEPT !.poll = 1]
           b == IF s.poll < 0 THEN a
                ELSE IF "MSI" \in bits THEN UpdateMsl(m, flags)
                ELSE [a EXCEPT !.mslTimer = FALSE, !.poll = 0]
           e == [b EXCEPT !.thrPending = TRUE]
<1>1. t = UpdateIrq(e)
  BY DEF WriteIer, Quiet
<1>2. a \in Dev /\ Same(s, a, {"ier"}) /\ a.ier = bits
  BY DEF Dev, Same, Fields
<1> HIDE DEF a
<1>3. m \in Dev /\ Same(a, m, {"poll"})
  <2>1. 1 \in -1 .. 1
    OBVIOUS
  <2> QED BY <1>2, <2>1 DEF Dev, Same, Fields
<1> HIDE DEF m
<1>4. b \in Dev /\ Same(a, b, {"msr", "mslTimer", "poll", "iir", "irq"}) /\ CtsSeen(a, b)
  <2>1. CASE s.poll < 0
    <3>1. b = a
      BY <2>1
    <3> QED BY <1>2, <3>1 DEF Same, CtsSeen
  <2>2. CASE ~(s.poll < 0) /\ "MSI" \in bits
    <3>1. b = UpdateMsl(m, flags)
      BY <2>2
    <3> HIDE DEF b
    <3>2. b \in Dev /\ Same(m, b, {"msr", "mslTimer", "poll", "iir", "irq"}) /\ CtsSeen(m, b)
      BY <1>3, <3>1, UpdateMslFacts
    <3>3. m.msr = a.msr
      BY <1>3 DEF Same, Fields
    <3> QED BY <1>3, <3>2, <3>3 DEF Same, Fields, CtsSeen
  <2>3. CASE ~(s.poll < 0) /\ "MSI" \notin bits
    <3>1. b = [a EXCEPT !.mslTimer = FALSE, !.poll = 0] /\ 0 \in -1 .. 1
      BY <2>3
    <3> HIDE DEF b
    <3>2. b \in Dev /\ Same(a, b, {"mslTimer", "poll"})
      BY ZenonT(40), <1>2, <3>1 DEF Dev, Same, Fields
    <3> QED BY <3>2 DEF Same, Fields, CtsSeen
  <2> QED BY <2>1, <2>2, <2>3
<1> HIDE DEF b
<1>5. e \in Dev /\ Same(b, e, {"thrPending"}) /\ e.thrPending
  BY <1>4 DEF Dev, Same, Fields
<1> HIDE DEF e
<1>6. t \in Dev /\ Right(t) /\ Same(e, t, {"iir", "irq"})
  BY <1>1, <1>5, UpdateFacts
<1>7. Same(s, t, {"ier", "msr", "mslTimer", "poll", "thrPending", "iir", "irq"})
  BY <1>2, <1>4, <1>5, <1>6 DEF Same, Fields
<1>8. /\ t.ier = bits /\ t.thrPending
      /\ t.msr = b.msr /\ a.msr = s.msr
  BY <1>2, <1>4, <1>5, <1>6 DEF Same, Fields
<1> QED BY <1>4, <1>6, <1>7, <1>8 DEF CtsSeen

(* A write to the FIFO control register: nothing when it is what was       *)
(* written before, and else the FIFOs are emptied where it says so or the  *)
(* mode changes.                                                           *)
LEMMA WriteFcrFacts ==
  ASSUME NEW s \in Dev, NEW fe \in BOOLEAN, NEW level \in Levels,
         NEW clearR \in BOOLEAN, NEW clearX \in BOOLEAN,
         NEW t, t = WriteFcr(s, fe, level, clearR, clearX)
  PROVE  /\ t \in Dev
         /\ Right(t) \/ (t = s /\ s.fcr = [fe |-> fe, level |-> level])
         /\ Same(s, t, {"fifoTimer", "toPending", "recv", "xmit", "fifoBits", "itl", "fcr",
                        "iir", "irq"})
         /\ t.fcr = [fe |-> fe, level |-> level]
         /\ t.recv = IF clearR \/ fe # s.fcr.fe THEN <<>> ELSE s.recv
         /\ s.xmit = <<>> => t.xmit = <<>>
         /\ Armed(s) => Armed(t)
         /\ fe # s.fcr.fe => t.fifoBits = fe
<1> DEFINE f == [fe |-> fe, level |-> level]
           flush == fe # s.fcr.fe
           a == IF clearR \/ flush
                THEN [s EXCEPT !.fifoTimer = FALSE, !.toPending = FALSE, !.recv = <<>>] ELSE s
           b == IF clearX \/ flush THEN [a EXCEPT !.xmit = <<>>] ELSE a
           i == IF fe THEN level ELSE b.itl
           e == [b EXCEPT !.fifoBits = fe, !.itl = i, !.fcr = f]
<1>1. t = IF s.fcr = f /\ ~clearR /\ ~clearX THEN s ELSE UpdateIrq(e)
  BY DEF WriteFcr
<1>2. <<>> \in Fifo
  BY FifoAssumption, EmptySeq DEF Fifo
<1>3. f \in [fe : BOOLEAN, level : Levels] /\ f.fe = fe /\ f.level = level
  OBVIOUS
<1>4. CASE s.fcr = f /\ ~clearR /\ ~clearX
  <2>1. t = s /\ ~flush
    BY <1>1, <1>3, <1>4
  <2> QED BY <1>4, <2>1 DEF Same
<1>5. CASE ~(s.fcr = f /\ ~clearR /\ ~clearX)
  <2>1. t = UpdateIrq(e)
    BY <1>1, <1>5
  <2>2. /\ a \in Dev /\ Same(s, a, {"fifoTimer", "toPending", "recv"})
        /\ a.recv = IF clearR \/ flush THEN <<>> ELSE s.recv
        /\ ~(clearR \/ flush) => a = s
    <3>1. CASE clearR \/ flush
      <4> DEFINE none == <<>>
      <4>1. none \in Fifo
            /\ a = [s EXCEPT !.fifoTimer = FALSE, !.toPending = FALSE, !.recv = none]
        BY <1>2, <3>1
      <4> HIDE DEF none, a
      <4>2. a \in Dev /\ Same(s, a, {"fifoTimer", "toPending", "recv"}) /\ a.recv = none
        BY <4>1 DEF Dev, Same, Fields
      <4> QED BY <3>1, <4>2 DEF none
    <3>2. CASE ~(clearR \/ flush)
      <4>1. a = s
        BY <3>2
      <4> QED BY <3>2, <4>1 DEF Same
    <3> QED BY <3>1, <3>2
  <2> HIDE DEF a
  <2>3. b \in Dev /\ Same(a, b, {"xmit"}) /\ (a.xmit = <<>> => b.xmit = <<>>)
    <3>1. CASE clearX \/ flush
      <4> DEFINE none == <<>>
      <4>1. none \in Fifo /\ b = [a EXCEPT !.xmit = none]
        BY <1>2, <3>1
      <4> HIDE DEF none, b
      <4>2. b \in Dev /\ Same(a, b, {"xmit"}) /\ b.xmit = none
        BY <2>2, <4>1 DEF Dev, Same, Fields
      <4> QED BY <4>2 DEF none
    <3>2. CASE ~(clearX \/ flush)
      <4>1. b = a
        BY <3>2
      <4> QED BY <2>2, <4>1 DEF Same
    <3> QED BY <3>1, <3>2
  <2> HIDE DEF b
  <2>4. i \in Levels \cup {0} /\ (fe => i = level)
    BY <2>3 DEF Dev
  <2> HIDE DEF i, f
  <2>5. e \in Dev /\ Same(b, e, {"fifoBits", "itl", "fcr"}) /\ e.itl = i /\ e.fcr = f
        /\ e.fifoBits = fe
    BY ZenonT(40), <1>3, <2>3, <2>4 DEF Dev, Same, Fields
  <2> HIDE DEF e
  <2>6. t \in Dev /\ Right(t) /\ Same(e, t, {"iir", "irq"})
    BY <2>1, <2>5, UpdateFacts
  <2>7. Same(s, t, {"fifoTimer", "toPending", "recv", "xmit", "fifoBits", "itl", "fcr",
                    "iir", "irq"})
    BY <2>2, <2>3, <2>5, <2>6 DEF Same, Fields
  <2>8. /\ t.fcr = f /\ t.itl = i /\ t.recv = a.recv /\ t.fifoTimer = a.fifoTimer
        /\ t.toPending = a.toPending /\ t.xmit = b.xmit /\ a.xmit = s.xmit
        /\ t.fifoBits = fe
    BY <2>2, <2>3, <2>5, <2>6 DEF Same, Fields
  <2>9. Armed(s) => Armed(t)
    <3>1. CASE clearR \/ flush
      <4>1. t.recv = <<>>
        BY <2>2, <2>8, <3>1
      <4>2. \A n \in 1 .. Len(t.recv) : t.recv[n] = NUL
        BY <4>1
      <4> QED BY <1>3, <2>4, <2>8, <4>2 DEF Armed
    <3>2. CASE ~(clearR \/ flush)
      <4>1. a = s
        BY <2>2, <3>2
      <4>2. /\ t.recv = s.recv /\ t.fifoTimer = s.fifoTimer /\ t.toPending = s.toPending
        BY <2>2, <2>8, <3>2, <4>1
      <4>3. fe => s.fcr.fe
        BY <3>2
      <4>4. t.fcr.fe => fe /\ t.itl = level /\ t.fcr.level = level
        BY <1>3, <2>4, <2>8
      <4> QED BY <4>2, <4>3, <4>4 DEF Armed
    <3> QED BY <3>1, <3>2
  <2>10. t.recv = IF clearR \/ fe # s.fcr.fe THEN <<>> ELSE s.recv
    BY <2>2, <2>8
  <2> QED BY <2>3, <2>6, <2>7, <2>8, <2>9, <2>10 DEF f
<1> QED BY <1>4, <1>5

(* A write to the modem control register.                                  *)
LEMMA WriteMcrFacts ==
  ASSUME NEW s \in Dev, NEW bits \in SUBSET McrBits, NEW t, t = WriteMcr(s, bits)
  PROVE  t \in Dev /\ Heard(s, t) /\ Same(s, t, {"mcr", "mslTimer"}) /\ t.mcr = bits
<1> DEFINE m == s.mslTimer \/ ("LOOP" \notin bits /\ s.poll >= 0 /\ s.mcr # bits)
<1>1. t = [s EXCEPT !.mcr = bits, !.mslTimer = m] /\ m \in BOOLEAN
  BY DEF WriteMcr, Dev
<1> HIDE DEF m
<1>2. t \in Dev /\ Same(s, t, {"mcr", "mslTimer"}) /\ t.mcr = bits
  BY ZenonT(40), <1>1 DEF Dev, Same, Fields
<1>3. Cause(t) = Cause(s) /\ t.iir = s.iir /\ t.irq = s.irq
  BY <1>2, CauseSame DEF Same, Fields
<1> QED BY <1>2, <1>3 DEF Heard
(* What is left of a FIFO when a character is taken from it.               *)
LEMMA RestFacts ==
  ASSUME NEW q \in Fifo
  PROVE  Rest(q) \in Fifo
<1>1. q \in Seq(Chars) /\ Len(q) \in Nat /\ Len(q) <= FIFOLEN /\ FIFOLEN \in Nat
  BY FifoAssumption, LenProperties DEF Fifo
<1>2. CASE q = <<>>
  BY <1>2 DEF Rest
<1>3. CASE q # <<>>
  <2>1. Tail(q) \in Seq(Chars) /\ Len(Tail(q)) = Len(q) - 1
    BY <1>1, <1>3, HeadTailProperties
  <2> DEFINE n == Len(q)
             k == Len(Tail(q))
  <2>2. n \in Nat /\ n <= FIFOLEN /\ k = n - 1
    BY <1>1, <2>1
  <2> HIDE DEF n, k
  <2>3. k <= FIFOLEN
    BY <1>1, <2>2
  <2> QED BY <1>3, <2>1, <2>3 DEF Rest, Fifo, k
<1> QED BY <1>2, <1>3

(* A read of the receiver buffer register.                                 *)
LEMMA ReadRbrFacts ==
  ASSUME NEW s \in Dev, NEW t, t = ReadRbr(s).dev
  PROVE  /\ t \in Dev /\ Right(t)
         /\ Same(s, t, {"recv", "toPending", "lsr", "fifoTimer", "iir", "irq"})
         /\ t.lsr \subseteq s.lsr /\ s.lsr \ {"DR", "BI"} \subseteq t.lsr
         /\ s.fcr.fe => /\ t.recv = Rest(s.recv)
                        /\ t.fifoTimer \/ t.recv = <<>>
                        /\ t.lsr = IF t.recv = <<>> THEN s.lsr \ {"DR", "BI"} ELSE s.lsr
         /\ ~s.fcr.fe => /\ t.recv = s.recv /\ t.lsr = s.lsr \ {"DR", "BI"}
<1> DEFINE rest == Rest(s.recv)
           l == IF rest = <<>> THEN s.lsr \ {"DR", "BI"} ELSE s.lsr
           m == s.fifoTimer \/ rest # <<>>
           a == IF s.fcr.fe
                THEN [s EXCEPT !.recv = rest, !.toPending = FALSE, !.lsr = l, !.fifoTimer = m]
                ELSE [s EXCEPT !.lsr = s.lsr \ {"DR", "BI"}]
<1>1. t = UpdateIrq(a)
  BY DEF ReadRbr
<1>2. s.lsr \in SUBSET LsrBits /\ s.recv \in Fifo /\ s.fifoTimer \in BOOLEAN
  BY DEF Dev
<1>3. CASE s.fcr.fe
  <2>1. rest \in Fifo
    BY <1>2, RestFacts
  <2>2. l \in SUBSET LsrBits /\ m \in BOOLEAN
    BY <1>2
  <2>3. a = [s EXCEPT !.recv = rest, !.toPending = FALSE, !.lsr = l, !.fifoTimer = m]
    BY <1>3
  <2>4. /\ m \/ rest = <<>>
        /\ l = IF rest = <<>> THEN s.lsr \ {"DR", "BI"} ELSE s.lsr
    OBVIOUS
  <2>5. rest = Rest(s.recv)
    OBVIOUS
  <2> HIDE DEF rest, l, m, a
  <2>6. a \in Dev /\ Same(s, a, {"recv", "toPending", "lsr", "fifoTimer"})
    BY <2>1, <2>2, <2>3 DEF Dev, Same, Fields
  <2>7. a.recv = rest /\ a.lsr = l /\ (a.fifoTimer \/ ~m)
    BY <2>3 DEF Dev
  <2>8. t \in Dev /\ Right(t) /\ Same(a, t, {"iir", "irq"})
    BY <1>1, <2>6, UpdateFacts
  <2>9. t.recv = rest /\ t.lsr = l /\ t.fifoTimer = a.fifoTimer
    BY <2>7, <2>8 DEF Same, Fields
  <2>10. Same(s, t, {"recv", "toPending", "lsr", "fifoTimer", "iir", "irq"})
    BY <2>6, <2>8 DEF Same, Fields
  <2> QED BY <1>3, <2>4, <2>5, <2>7, <2>8, <2>9, <2>10
<1>4. CASE ~s.fcr.fe
  <2> DEFINE k == s.lsr \ {"DR", "BI"}
  <2>1. a = [s EXCEPT !.lsr = k] /\ k \in SUBSET LsrBits
    BY <1>2, <1>4
  <2> HIDE DEF k, a
  <2>2. a \in Dev /\ Same(s, a, {"lsr"}) /\ a.lsr = k
    BY <2>1 DEF Dev, Same, Fields
  <2>3. t \in Dev /\ Right(t) /\ Same(a, t, {"iir", "irq"})
    BY <1>1, <2>2, UpdateFacts
  <2>4. t.lsr = k /\ t.recv = s.recv
    BY <2>2, <2>3 DEF Same, Fields
  <2>5. Same(s, t, {"recv", "toPending", "lsr", "fifoTimer", "iir", "irq"})
    BY <2>2, <2>3 DEF Same, Fields
  <2> QED BY <1>4, <2>3, <2>4, <2>5 DEF k
<1> QED BY <1>3, <1>4

(* A read of the interrupt identification register.                        *)
LEMMA ReadIirFacts ==
  ASSUME NEW s \in Dev, NEW t, t = ReadIir(s).dev
  PROVE  /\ t \in Dev /\ Heard(s, t) /\ Same(s, t, {"thrPending", "iir", "irq"})
         /\ s.iir # "THRI" => t = s
<1> DEFINE a == [s EXCEPT !.thrPending = FALSE]
<1>1. t = IF s.iir = "THRI" THEN UpdateIrq(a) ELSE s
  BY DEF ReadIir
<1>2. a \in Dev /\ Same(s, a, {"thrPending"})
  BY DEF Dev, Same, Fields
<1> HIDE DEF a
<1>3. CASE s.iir = "THRI"
  <2>1. t \in Dev /\ Right(t) /\ Same(a, t, {"iir", "irq"})
    BY <1>1, <1>2, <1>3, UpdateFacts
  <2>2. Same(s, t, {"thrPending", "iir", "irq"})
    BY <1>2, <2>1 DEF Same, Fields
  <2> QED BY <1>3, <2>1, <2>2 DEF Heard
<1>4. CASE s.iir # "THRI"
  <2>1. t = s
    BY <1>1, <1>4
  <2> QED BY <2>1 DEF Heard, Same
<1> QED BY <1>3, <1>4

(* A read of the line status register.                                     *)
LEMMA ReadLsrFacts ==
  ASSUME NEW s \in Dev, NEW t, t = ReadLsr(s).dev
  PROVE  /\ t \in Dev /\ Heard(s, t) /\ Same(s, t, {"lsr", "iir", "irq"})
         /\ t.lsr = s.lsr \ {"BI", "OE"}
<1> DEFINE l == s.lsr \ {"BI", "OE"}
           a == [s EXCEPT !.lsr = l]
<1>1. t = IF {"BI", "OE"} \cap s.lsr = {} THEN s ELSE UpdateIrq(a)
  BY DEF ReadLsr
<1>2. l \in SUBSET LsrBits
  BY DEF Dev
<1>3. CASE {"BI", "OE"} \cap s.lsr = {}
  <2>1. t = s /\ s.lsr = l
    BY <1>1, <1>3
  <2> QED BY <2>1 DEF Heard, Same
<1>4. CASE {"BI", "OE"} \cap s.lsr # {}
  <2>1. t = UpdateIrq(a)
    BY <1>1, <1>4
  <2> HIDE DEF l
  <2>2. a \in Dev /\ Same(s, a, {"lsr"}) /\ a.lsr = l
    BY <1>2 DEF Dev, Same, Fields
  <2> HIDE DEF a
  <2>3. t \in Dev /\ Right(t) /\ Same(a, t, {"iir", "irq"})
    BY <2>1, <2>2, UpdateFacts
  <2>4. t.lsr = l /\ Same(s, t, {"lsr", "iir", "irq"})
    BY <2>2, <2>3 DEF Same, Fields
  <2> QED BY <2>3, <2>4 DEF Heard, l
<1> QED BY <1>3, <1>4

(* A read of the modem status register.                                    *)
LEMMA ReadMsrFacts ==
  ASSUME NEW s \in Dev, NEW flags \in SUBSET Lines, NEW t, t = ReadMsr(s, flags).dev
  PROVE  /\ t \in Dev /\ Heard(s, t)
         /\ Same(s, t, {"msr", "mslTimer", "poll", "iir", "irq"})
         /\ "LOOP" \notin s.mcr =>
              /\ ("CTS" \in ReadMsr(s, flags).val) = ("CTS" \in t.msr) /\ "DCTS" \notin t.msr
              /\ "DCTS" \notin ReadMsr(s, flags).val =>
                   "DCTS" \notin s.msr /\ ("CTS" \in t.msr) = ("CTS" \in s.msr)
<1> DEFINE a == IF s.poll >= 0 THEN UpdateMsl(s, flags) ELSE s
           b == [a EXCEPT !.msr = @ \ Deltas]
<1>1. t = IF "LOOP" \in s.mcr THEN s
          ELSE IF Deltas \cap a.msr = {} THEN a ELSE UpdateIrq(b)
  BY DEF ReadMsr
<1>0. "LOOP" \notin s.mcr => ReadMsr(s, flags).val = a.msr
  BY DEF ReadMsr
<1>2. /\ a \in Dev /\ Heard(s, a) /\ Same(s, a, {"msr", "mslTimer", "poll", "iir", "irq"})
      /\ CtsSeen(s, a)
  <2>1. CASE s.poll >= 0
    BY <2>1, UpdateMslFacts
  <2>2. CASE ~(s.poll >= 0)
    <3>1. a = s
      BY <2>2
    <3> QED BY <3>1 DEF Heard, Same, CtsSeen
  <2> QED BY <2>1, <2>2
<1> HIDE DEF a
<1>3. b \in Dev /\ Same(a, b, {"msr"}) /\ b.msr = a.msr \ Deltas
  <2>1. a.msr \ Deltas \in SUBSET (Lines \cup Deltas)
    BY <1>2 DEF Dev
  <2> QED BY <1>2, <2>1 DEF Dev, Same, Fields
<1> HIDE DEF b
<1>7. ASSUME t.msr = a.msr \ Deltas, "LOOP" \notin s.mcr
      PROVE  /\ ("CTS" \in ReadMsr(s, flags).val) = ("CTS" \in t.msr) /\ "DCTS" \notin t.msr
             /\ "DCTS" \notin ReadMsr(s, flags).val =>
                  "DCTS" \notin s.msr /\ ("CTS" \in t.msr) = ("CTS" \in s.msr)
  <2>1. "CTS" \notin Deltas /\ "DCTS" \in Deltas
    BY DEF Deltas, Delta, Lines
  <2> QED BY <1>0, <1>2, <1>7, <2>1 DEF CtsSeen
<1>4. CASE "LOOP" \in s.mcr
  <2>1. t = s
    BY <1>1, <1>4
  <2> QED BY <1>4, <2>1 DEF Heard, Same
<1>5. CASE "LOOP" \notin s.mcr /\ Deltas \cap a.msr = {}
  <2>1. t = a /\ t.msr = a.msr \ Deltas
    BY <1>1, <1>5
  <2> QED BY <1>2, <1>5, <1>7, <2>1
<1>6. CASE "LOOP" \notin s.mcr /\ Deltas \cap a.msr # {}
  <2>1. t \in Dev /\ Right(t) /\ Same(b, t, {"iir", "irq"})
    BY <1>1, <1>3, <1>6, UpdateFacts
  <2>2. Same(s, t, {"msr", "mslTimer", "poll", "iir", "irq"}) /\ t.msr = a.msr \ Deltas
    BY <1>2, <1>3, <2>1 DEF Same, Fields
  <2> QED BY <1>6, <1>7, <2>1, <2>2 DEF Heard
<1> QED BY <1>4, <1>5, <1>6

-----------------------------------------------------------------------------
(* A fresh device, reset and migration.                                    *)

(* There is a lowest trigger level.                                        *)
LEMMA NoneType == None \in [fe : BOOLEAN, level : Levels] /\ ~None.fe
<1>1. Levels \subseteq Nat /\ Levels # {}
  BY FifoAssumption
<1>2. IsWellFoundedOn(OpToRel(<, Nat), Nat)
  BY NatLessThanWellFounded, Zenon
<1>3. PICK n \in Levels : \A m \in Levels : ~(<<m, n>> \in OpToRel(<, Nat))
  BY <1>1, <1>2, WFMin, Zenon
<1>4. ASSUME NEW m \in Levels PROVE n <= m
  <2>1. m \in Nat /\ n \in Nat
    BY <1>1
  <2>2. ~(m < n)
    BY <1>3, <2>1 DEF OpToRel
  <2> QED BY <2>1, <2>2
<1> QED BY <1>4 DEF None

(* The device serial_reset leaves when it is created.                      *)
LEMMA FreshType ==
  /\ Fresh \in Dev /\ Fresh.ier = {} /\ Fresh.iir = "NONE" /\ ~Fresh.irq
  /\ Fresh.irq = ("NONE" # "NONE") /\ Fresh.lsr = {"THRE", "TEMT"}
  /\ Fresh.fcr = None /\ Fresh.recv = <<>> /\ Fresh.xmit = <<>> /\ Fresh.out = <<>>
  /\ ~Fresh.thrPending /\ ~Fresh.toPending /\ ~Fresh.xmitTimer
<1> DEFINE none == <<>>
<1>1. none \in Fifo /\ none \in Seq(Chars)
  BY FifoAssumption, EmptySeq DEF Fifo
<1>2. /\ "NONE" \in Causes /\ 0 \in Chars /\ 0 \in -1 .. 0 /\ 0 \in -1 .. 1
      /\ {"OUT2"} \in SUBSET McrBits /\ {"THRE", "TEMT"} \in SUBSET LsrBits
      /\ {"DCD", "DSR", "CTS"} \in SUBSET (Lines \cup Deltas)
  BY FifoAssumption DEF Causes, LsrBits, McrBits, Lines
<1>3. Fresh = [rbr |-> 0, thr |-> 0, tsr |-> 0,
           ier |-> {}, iir |-> "NONE", fifoBits |-> FALSE, lcr |-> {},
           mcr |-> {"OUT2"}, lsr |-> {"THRE", "TEMT"}, msr |-> {"DCD", "DSR", "CTS"},
           fcr |-> None, itl |-> 0, recv |-> none, xmit |-> none,
           thrPending |-> FALSE, toPending |-> FALSE, retry |-> 0, poll |-> 0,
           xmitTimer |-> FALSE, fifoTimer |-> FALSE, mslTimer |-> FALSE,
           real |-> FALSE, irq |-> FALSE, out |-> none]
  BY DEF Fresh, NUL
<1> HIDE DEF none
<1>4. Fresh \in Dev
  <2>1. /\ {} \in SUBSET IerBits /\ {} \in {{}} /\ FALSE \in BOOLEAN
        /\ 0 \in Levels \cup {0} /\ None \in [fe : BOOLEAN, level : Levels]
    BY NoneType
  <2> DEFINE empty == {}
             ls == {"THRE", "TEMT"}
             ms == {"DCD", "DSR", "CTS"}
             mc == {"OUT2"}
             no == FALSE
             zero == 0
             why == "NONE"
  <2>2. /\ empty \in SUBSET IerBits /\ empty \in {{}} /\ no \in BOOLEAN
        /\ zero \in Levels \cup {0} /\ None \in [fe : BOOLEAN, level : Levels]
        /\ why \in Causes /\ zero \in Chars /\ zero \in -1 .. 0 /\ zero \in -1 .. 1
        /\ mc \in SUBSET McrBits /\ ls \in SUBSET LsrBits
        /\ ms \in SUBSET (Lines \cup Deltas)
        /\ none \in Fifo /\ none \in Seq(Chars)
    BY <1>1, <1>2, <2>1
  <2>3. Fresh = [rbr |-> zero, thr |-> zero, tsr |-> zero,
             ier |-> empty, iir |-> why, fifoBits |-> no, lcr |-> empty,
             mcr |-> mc, lsr |-> ls, msr |-> ms,
             fcr |-> None, itl |-> zero, recv |-> none, xmit |-> none,
             thrPending |-> no, toPending |-> no, retry |-> zero, poll |-> zero,
             xmitTimer |-> no, fifoTimer |-> no, mslTimer |-> no,
             real |-> no, irq |-> no, out |-> none]
    BY <1>3
  <2> HIDE DEF empty, ls, ms, mc, no, zero, why
  <2> QED BY ONLY <2>2, <2>3 DEF Dev
<1>5. /\ Fresh.ier = {} /\ Fresh.iir = "NONE" /\ ~Fresh.irq /\ Fresh.lsr = {"THRE", "TEMT"}
      /\ Fresh.fcr = None /\ Fresh.recv = none /\ Fresh.xmit = none /\ Fresh.out = none
      /\ ~Fresh.thrPending /\ ~Fresh.toPending /\ ~Fresh.xmitTimer
  BY <1>3
<1>6. Fresh.irq = ("NONE" # "NONE")
  BY <1>3
<1> QED BY <1>4, <1>5, <1>6 DEF none

(* No interrupt is enabled, so there is no cause.                          *)
LEMMA NoCause == ASSUME NEW s, s.ier = {} PROVE Cause(s) = "NONE"
BY DEF Cause

(* A new device, with or without modem lines.                              *)
LEMMA NewFacts ==
  ASSUME NEW r \in BOOLEAN, NEW t, t = [Fresh EXCEPT !.real = r]
  PROVE  /\ t \in Dev /\ Right(t) /\ Quiet(t) /\ Armed(t)
         /\ t.recv = <<>> /\ t.out = <<>> /\ "DR" \notin t.lsr
<1>1. t \in Dev /\ Same(Fresh, t, {"real"})
  BY FreshType DEF Dev, Same, Fields
<1>2. /\ t.ier = {} /\ t.iir = "NONE" /\ t.irq = ("NONE" # "NONE")
      /\ t.lsr = {"THRE", "TEMT"} /\ t.fcr = None
      /\ t.recv = <<>> /\ t.xmit = <<>> /\ t.out = <<>> /\ ~t.xmitTimer
  BY <1>1, FreshType DEF Same, Fields
<1>4. Cause(t) = "NONE"
  BY <1>2, NoCause
<1>3. Right(t)
  BY <1>2, <1>4 DEF Right
<1> QED BY <1>1, <1>2, <1>3, NoneType DEF Quiet, Armed

(* serial_reset.                                                           *)
LEMMA ResetFacts ==
  ASSUME NEW s \in Dev, Quiet(s), Armed(s), NEW t, t = Reset(s)
  PROVE  /\ t \in Dev /\ Right(t) /\ Quiet(t) /\ Armed(t)
         /\ t.recv = <<>> /\ t.out = s.out /\ "DR" \notin t.lsr
<1> DEFINE kept == {"fcr", "itl", "toPending", "thr", "tsr", "out", "real", "xmitTimer",
                    "fifoTimer", "mslTimer"}
<1>1. t \in Dev /\ Same(Fresh, t, kept)
  BY ZenonT(40), FreshType DEF Dev, Same, Fields, Reset
<1>2. t.fcr = s.fcr /\ t.itl = s.itl /\ t.out = s.out /\ t.xmitTimer = s.xmitTimer
  BY FreshType DEF Dev, Reset
<1>3. /\ t.ier = {} /\ t.iir = "NONE" /\ t.irq = ("NONE" # "NONE")
      /\ t.lsr = {"THRE", "TEMT"} /\ t.recv = <<>> /\ t.xmit = <<>>
  BY <1>1, FreshType DEF Same, Fields
<1>4. Right(t)
  BY <1>3, NoCause DEF Right
<1>5. Quiet(t)
  BY <1>2, <1>3 DEF Quiet
<1>6. Armed(t)
  <2>1. \A n \in 1 .. Len(t.recv) : t.recv[n] = NUL
    BY <1>3
  <2> QED BY <1>2, <2>1 DEF Armed
<1> QED BY <1>1, <1>2, <1>3, <1>4, <1>5, <1>6

(* vmstate_serial and serial_post_load.                                    *)
LEMMA LoadFacts ==
  ASSUME NEW s \in Dev, Quiet(s), Told(s), NEW t, t = Load(s)
  PROVE  /\ t \in Dev /\ Told(t) /\ Quiet(t) /\ Armed(t)
         /\ t.recv = <<>> /\ t.out = s.out /\ t.lsr = s.lsr /\ t.rbr = s.rbr
         /\ t.fcr = s.fcr
<1> DEFINE sent0 == {"rbr", "ier", "iir", "irq", "fifoBits", "lcr", "mcr", "lsr", "msr",
                     "out", "real"}
           f == [Fresh EXCEPT !.rbr = s.rbr, !.ier = s.ier, !.iir = s.iir, !.irq = s.irq,
                              !.fifoBits = s.fifoBits, !.lcr = s.lcr, !.mcr = s.mcr,
                              !.lsr = s.lsr, !.msr = s.msr, !.out = s.out, !.real = s.real]
<1>1. t = WriteFcr(f, s.fcr.fe, s.fcr.level, FALSE, FALSE)
  BY DEF Load
<1>2. f \in Dev /\ Same(Fresh, f, sent0)
  BY FreshType DEF Dev, Same, Fields
<1>3. /\ f.rbr = s.rbr /\ f.ier = s.ier /\ f.irq = s.irq /\ f.lsr = s.lsr /\ f.msr = s.msr
      /\ f.out = s.out
  BY FreshType DEF Dev
<1> HIDE DEF f
<1>4. /\ f.fcr = None /\ f.recv = <<>> /\ f.xmit = <<>>
      /\ ~f.thrPending /\ ~f.toPending /\ ~f.xmitTimer
  BY <1>2, FreshType DEF Same, Fields
<1>5. s.fcr \in [fe : BOOLEAN, level : Levels]
  BY DEF Dev
<1>6. /\ t \in Dev
      /\ Right(t) \/ (t = f /\ f.fcr = [fe |-> s.fcr.fe, level |-> s.fcr.level])
      /\ Same(f, t, {"fifoTimer", "toPending", "recv", "xmit", "fifoBits", "itl", "fcr",
                     "iir", "irq"})
      /\ t.fcr = [fe |-> s.fcr.fe, level |-> s.fcr.level]
      /\ t.recv = IF FALSE \/ s.fcr.fe # f.fcr.fe THEN <<>> ELSE f.recv
      /\ f.xmit = <<>> => t.xmit = <<>>
      /\ Armed(f) => Armed(t)
  <2> DEFINE fe == s.fcr.fe
             level == s.fcr.level
             no == FALSE
  <2>1. fe \in BOOLEAN /\ level \in Levels /\ no \in BOOLEAN
    BY <1>5
  <2>2. t = WriteFcr(f, fe, level, no, no)
    BY <1>1
  <2>3. no <=> FALSE
    OBVIOUS
  <2> HIDE DEF fe, level, no
  <2>4. /\ t \in Dev
        /\ Right(t) \/ (t = f /\ f.fcr = [fe |-> fe, level |-> level])
        /\ Same(f, t, {"fifoTimer", "toPending", "recv", "xmit", "fifoBits", "itl", "fcr",
                       "iir", "irq"})
        /\ t.fcr = [fe |-> fe, level |-> level]
        /\ t.recv = IF no \/ fe # f.fcr.fe THEN <<>> ELSE f.recv
        /\ f.xmit = <<>> => t.xmit = <<>>
        /\ Armed(f) => Armed(t)
    BY <1>2, <2>1, <2>2, WriteFcrFacts
  <2> QED BY <2>3, <2>4 DEF fe, level
<1>7. t.fcr = s.fcr /\ t.recv = <<>> /\ t.xmit = <<>>
  BY <1>4, <1>5, <1>6
<1>8. Armed(t)
  <2>1. Armed(f)
    BY <1>4, NoneType DEF Armed
  <2> QED BY <1>6, <2>1
<1>9. t.out = s.out /\ t.lsr = s.lsr /\ t.rbr = s.rbr /\ t.xmitTimer = f.xmitTimer
  BY <1>3, <1>6 DEF Same, Fields
<1>10. Quiet(t)
  BY <1>4, <1>7, <1>9 DEF Quiet
<1>11. Told(t)
  <2>1. CASE Right(t)
    BY <2>1 DEF Right, Told
  <2>2. CASE t = f /\ f.fcr = s.fcr
    <3>1. Cause(f) # "NONE" => Cause(s) # "NONE"
      BY <1>3, <1>4, <2>2, NoneType DEF Cause
    <3> QED BY <1>3, <2>2, <3>1 DEF Told
  <2> QED BY <1>5, <1>6, <2>1, <2>2
<1> QED BY <1>6, <1>7, <1>8, <1>9, <1>10, <1>11
=============================================================================
