-------------------------- MODULE Serial16550Proofs --------------------------
(***************************************************************************)
(* Proofs about Serial16550, for FIFOs of every length, every set of       *)
(* trigger levels and any number of characters: the interrupt line, the    *)
(* transmitter, the receive FIFO and the FIFO timer are right after every  *)
(* access, delivery, timeout, reset and migration.  The lemmas about the   *)
(* handlers of the device are in Uart16550Proofs.                          *)
(***************************************************************************)
EXTENDS Serial16550, Uart16550Proofs

-----------------------------------------------------------------------------
(* The invariant.                                                          *)

(* What arrived and was not read: it is what the FIFO holds, or the buffer *)
(* register, and the data-ready bit tells of it.                           *)
Queue ==
  /\ unread # <<>> => "DR" \in d.lsr
  /\ ~phantom /\ "DR" \in d.lsr => unread # <<>>
  /\ d.fcr.fe => d.recv = unread
  /\ ~d.fcr.fe /\ unread # <<>> => unread = <<d.rbr>>

History ==
  /\ unread \in Seq(Chars) /\ sent \in Seq(Chars) /\ arrived \in Nat /\ dropped \in Nat
  /\ d.out = sent

UartInv ==
  /\ d \in Dev /\ Quiet(d) /\ Armed(d) /\ Told(d) /\ (~loaded => Right(d))
  /\ Queue /\ History

(* The characters that occur.                                              *)
LEMMA CharType == ASSUME NEW n \in Nat PROVE Char(n) \in Chars
<1>1. n % 2 \in 0 .. 1
  OBVIOUS
<1> QED BY <1>1, GuestAssumption DEF Char

(* The fields such an access may change.                                   *)
Plain == {"ier", "msr", "mslTimer", "poll", "thrPending", "iir", "irq", "lsr", "mcr"}

(* An access that neither receives nor transmits keeps the invariant.      *)
LEMMA PlainStep ==
  ASSUME UartInv, NEW t \in Dev, d' = t, Heard(d, t), Same(d, t, Plain),
         t.lsr = d.lsr \/ t.lsr = d.lsr \ {"BI", "OE"}, UNCHANGEDHist
  PROVE  UartInv'
<1>1. /\ t.rbr = d.rbr /\ t.recv = d.recv /\ t.out = d.out /\ t.fcr = d.fcr /\ t.itl = d.itl
      /\ t.xmit = d.xmit /\ t.xmitTimer = d.xmitTimer /\ t.fifoTimer = d.fifoTimer
      /\ t.toPending = d.toPending
  BY DEF Same, Fields, Plain
<1>2. /\ "DR" \in t.lsr <=> "DR" \in d.lsr
      /\ {"THRE", "TEMT"} \subseteq d.lsr => {"THRE", "TEMT"} \subseteq t.lsr
  OBVIOUS
<1>3. Quiet(t) /\ Armed(t)
  BY <1>1, <1>2 DEF UartInv, Quiet, Armed
<1>4. Told(t) /\ (~loaded => Right(t))
  BY HeardTold DEF UartInv
<1>5. Queue' /\ History'
  BY <1>1, <1>2 DEF UartInv, Queue, History, UNCHANGEDHist
<1>6. loaded' = loaded
  BY DEF UNCHANGEDHist
<1> QED BY <1>3, <1>4, <1>5, <1>6 DEF UartInv

(* A character or a break arrives.                                         *)
LEMMA ArrivalStep ==
  ASSUME UartInv, NEW c \in Chars, NEW t \in Dev, d' = t, Arrive(d, c), Right(t), Quiet(t),
         t.fcr = d.fcr, Armed(t), t.out = d.out, "DR" \in t.lsr,
         d.fcr.fe => t.recv = IF Len(d.recv) < FIFOLEN THEN Append(d.recv, c) ELSE d.recv,
         ~d.fcr.fe => t.rbr = c,
         UNCHANGED <<sent, dropped, phantom, loaded>>
  PROVE  UartInv'
<1>1. /\ unread \in Seq(Chars) /\ sent \in Seq(Chars) /\ arrived \in Nat /\ dropped \in Nat
      /\ FIFOLEN \in Nat /\ FIFOLEN > 0
  BY FifoAssumption DEF UartInv, History
<1>2. /\ arrived' = arrived + 1
      /\ unread' = IF ~d.fcr.fe THEN <<c>>
                   ELSE IF Len(unread) < FIFOLEN THEN Append(unread, c) ELSE unread
  BY DEF Arrive
<1>3. unread' \in Seq(Chars) /\ unread' # <<>>
  <2>1. CASE ~d.fcr.fe
    <3>1. <<c>> \in Seq(Chars) /\ <<c>> # <<>>
      OBVIOUS
    <3> QED BY <1>2, <2>1, <3>1
  <2>2. CASE d.fcr.fe /\ Len(unread) < FIFOLEN
    <3>1. Append(unread, c) \in Seq(Chars) /\ Len(Append(unread, c)) = Len(unread) + 1
      BY <1>1, AppendProperties
    <3>2. Len(unread) \in Nat
      BY <1>1, LenProperties
    <3>3. Append(unread, c) # <<>>
      BY <1>1, AppendProperties
    <3> QED BY <1>2, <2>2, <3>1, <3>3
  <2>3. CASE d.fcr.fe /\ ~(Len(unread) < FIFOLEN)
    <3>1. unread # <<>>
      BY <1>1, <2>3
    <3> QED BY <1>1, <1>2, <2>3, <3>1
  <2> QED BY <2>1, <2>2, <2>3
<1>4. Queue'
  <2>1. d.fcr.fe => t.recv = unread'
    BY <1>2 DEF UartInv, Queue
  <2>2. ~d.fcr.fe => unread' = <<t.rbr>>
    BY <1>2
  <2> QED BY <1>3, <2>1, <2>2 DEF Queue
<1>5. History'
  BY <1>1, <1>2, <1>3 DEF UartInv, History
<1>6. Told(t)
  BY DEF Right, Told
<1> QED BY <1>4, <1>5, <1>6 DEF UartInv

(* The guest writes a character.                                           *)
LEMMA WriteThrStep ==
  ASSUME UartInv, GuestWriteThr
  PROVE  UartInv'
<1>1. PICK ok \in BOOLEAN :
        LET loop == "LOOP" \in d.mcr
            c    == IF loop THEN 1 ELSE Char(Len(sent) + dropped)
        IN
        /\ d' = WriteThr(d, c, ok)
        /\ IF loop
           THEN Arrive(d, c) /\ UNCHANGED <<sent, dropped>>
           ELSE /\ Room
                /\ sent' = IF ok THEN Append(sent, c) ELSE sent
                /\ dropped' = IF ok \/ d'.xmitTimer THEN dropped ELSE dropped + 1
                /\ UNCHANGED <<unread, arrived>>
        /\ UNCHANGED <<phantom, loaded>>
  BY DEF GuestWriteThr
<1> DEFINE c == IF "LOOP" \in d.mcr THEN 1 ELSE Char(Len(sent) + dropped)
<1>2. /\ d' = WriteThr(d, c, ok) /\ UNCHANGED <<phantom, loaded>>
      /\ "LOOP" \in d.mcr => Arrive(d, c) /\ UNCHANGED <<sent, dropped>>
      /\ "LOOP" \notin d.mcr =>
           /\ sent' = IF ok THEN Append(sent, c) ELSE sent
           /\ dropped' = IF ok \/ d'.xmitTimer THEN dropped ELSE dropped + 1
           /\ UNCHANGED <<unread, arrived>>
  BY <1>1
<1>3. /\ d \in Dev /\ Quiet(d) /\ Armed(d) /\ sent \in Seq(Chars) /\ dropped \in Nat
      /\ d.out = sent
  BY DEF UartInv, History
<1>4. c \in Chars
  <2>1. Len(sent) + dropped \in Nat
    BY <1>3, LenProperties
  <2>2. 1 \in Chars /\ Char(Len(sent) + dropped) \in Chars
    BY <2>1, CharType, GuestAssumption
  <2> QED BY <2>2
<1> HIDE DEF c
<1>5. /\ d' \in Dev /\ Right(d') /\ Quiet(d')
      /\ Same(d, d', {"rbr", "lsr", "recv", "fifoTimer", "iir", "irq", "retry", "out",
                      "thr", "tsr", "xmit", "thrPending"})
      /\ "LOOP" \in d.mcr => Received(d, d', c) /\ d'.out = d.out
      /\ "LOOP" \notin d.mcr =>
           NotReceived(d, d') /\ d'.out = IF ok THEN Append(d.out, c) ELSE d.out
  BY <1>2, <1>3, <1>4, WriteThrFacts
<1>6. d'.fcr = d.fcr /\ d'.itl = d.itl /\ d'.toPending = d.toPending
  BY <1>5 DEF Same, Fields
<1>7. CASE "LOOP" \in d.mcr
  <2>1. Armed(d')
    BY <1>3, <1>5, <1>6, <1>7 DEF Armed, Received
  <2> QED BY <1>2, <1>4, <1>5, <1>6, <1>7, <2>1, ArrivalStep DEF Received
<1>8. CASE "LOOP" \notin d.mcr
  <2>1. Armed(d')
    BY <1>3, <1>5, <1>6, <1>8 DEF Armed, NotReceived
  <2>2. Queue'
    BY <1>2, <1>5, <1>6, <1>8 DEF UartInv, Queue, NotReceived
  <2>3. sent' \in Seq(Chars) /\ dropped' \in Nat
    BY <1>2, <1>3, <1>4, <1>8, AppendProperties
  <2>4. History'
    BY <1>2, <1>3, <1>5, <1>8, <2>3 DEF UartInv, History
  <2>5. Told(d')
    BY <1>5 DEF Right, Told
  <2> QED BY <1>5, <2>1, <2>2, <2>4, <2>5 DEF UartInv
<1> QED BY <1>7, <1>8

(* The guest reads a character.                                            *)
LEMMA ReadRbrStep ==
  ASSUME UartInv, GuestReadRbr
  PROVE  UartInv'
<1>1. /\ d' = ReadRbr(d).dev /\ unread' = Rest(unread)
      /\ phantom' = (phantom /\ "DR" \in d'.lsr)
      /\ UNCHANGED <<sent, arrived, dropped, loaded>>
  BY DEF GuestReadRbr
<1>2. d \in Dev /\ Quiet(d) /\ Armed(d) /\ unread \in Seq(Chars) /\ Queue
  BY DEF UartInv, History
<1>3. /\ d' \in Dev /\ Right(d')
      /\ Same(d, d', {"recv", "toPending", "lsr", "fifoTimer", "iir", "irq"})
      /\ d'.lsr \subseteq d.lsr /\ d.lsr \ {"DR", "BI"} \subseteq d'.lsr
      /\ d.fcr.fe => /\ d'.recv = Rest(d.recv)
                     /\ d'.fifoTimer \/ d'.recv = <<>>
                     /\ d'.lsr = IF d'.recv = <<>> THEN d.lsr \ {"DR", "BI"} ELSE d.lsr
      /\ ~d.fcr.fe => d'.recv = d.recv /\ d'.lsr = d.lsr \ {"DR", "BI"}
  BY <1>1, <1>2, ReadRbrFacts
<1>4. /\ d'.fcr = d.fcr /\ d'.itl = d.itl /\ d'.xmit = d.xmit /\ d'.out = d.out
      /\ d'.xmitTimer = d.xmitTimer /\ d'.rbr = d.rbr
  BY <1>3 DEF Same, Fields
<1>5. Quiet(d')
  BY <1>2, <1>3, <1>4 DEF Quiet
<1>6. Armed(d')
  <2>1. d'.recv = <<>> => \A i \in 1 .. Len(d'.recv) : d'.recv[i] = NUL
    OBVIOUS
  <2> QED BY <1>2, <1>3, <1>4, <2>1 DEF Armed
<1>7. unread' \in Seq(Chars)
  <2>1. unread # <<>> => Tail(unread) \in Seq(Chars)
    BY <1>2, HeadTailProperties
  <2> QED BY <1>1, <1>2, <2>1 DEF Rest
<1>8. Queue'
  <2>1. CASE d.fcr.fe
    <3>1. d'.recv = unread'
      BY <1>1, <1>2, <1>3, <2>1 DEF Queue
    <3>2. unread' # <<>> => unread # <<>>
      BY <1>1 DEF Rest
    <3>3. unread' # <<>> => "DR" \in d'.lsr
      BY <1>2, <1>3, <2>1, <3>1, <3>2 DEF Queue
    <3>4. "DR" \in d'.lsr => unread' # <<>>
      BY <1>3, <2>1, <3>1
    <3> QED BY <1>4, <2>1, <3>1, <3>3, <3>4 DEF Queue
  <2>2. CASE ~d.fcr.fe
    <3>1. unread' = <<>>
      <4>1. CASE unread = <<>>
        BY <1>1, <4>1 DEF Rest
      <4>2. CASE unread # <<>>
        <5>1. unread = <<d.rbr>> /\ Tail(<<d.rbr>>) = <<>>
          BY <1>2, <2>2, <4>2 DEF Queue
        <5> QED BY <1>1, <4>2, <5>1 DEF Rest
      <4> QED BY <4>1, <4>2
    <3>2. "DR" \notin d'.lsr
      BY <1>3, <2>2
    <3> QED BY <1>4, <2>2, <3>1, <3>2 DEF Queue
  <2> QED BY <2>1, <2>2
<1>9. History'
  BY <1>1, <1>4, <1>7 DEF UartInv, History
<1>10. Told(d')
  BY <1>3 DEF Right, Told
<1> QED BY <1>3, <1>5, <1>6, <1>8, <1>9, <1>10 DEF UartInv

(* The guest writes or reads another register, or the modem lines are      *)
(* polled.                                                                 *)
LEMMA RegisterStep ==
  ASSUME UartInv,
         GuestWriteIer \/ GuestWriteMcr \/ GuestReadIir \/ GuestReadLsr \/ GuestReadMsr
           \/ ModemPoll
  PROVE  UartInv'
<1>1. d \in Dev /\ Quiet(d)
  BY DEF UartInv
<1>2. IerSets \subseteq SUBSET IerBits /\ LineSets \subseteq SUBSET Lines
  BY GuestAssumption DEF IerBits
<1>3. CASE GuestWriteIer
  <2>1. PICK bits \in IerSets, flags \in LineSets : d' = WriteIer(d, bits, flags)
    BY <1>3 DEF GuestWriteIer
  <2>2. bits \in SUBSET IerBits /\ flags \in SUBSET Lines
    BY <1>2
  <2>3. /\ d' \in Dev /\ Right(d')
        /\ Same(d, d', {"ier", "msr", "mslTimer", "poll", "thrPending", "iir", "irq"})
    BY <1>1, <2>1, <2>2, WriteIerFacts
  <2>4. Same(d, d', Plain) /\ d'.lsr = d.lsr
    BY <2>3 DEF Same, Fields, Plain
  <2>5. UNCHANGEDHist
    BY <1>3 DEF GuestWriteIer
  <2> QED BY <2>3, <2>4, <2>5, PlainStep DEF Heard
<1>4. CASE GuestWriteMcr
  <2>1. PICK bits \in SUBSET McrBits : d' = WriteMcr(d, bits)
    <3>1. PICK bits \in {{"OUT2"}, {"LOOP", "OUT2"}} : d' = WriteMcr(d, bits)
      BY <1>4 DEF GuestWriteMcr
    <3> QED BY <3>1 DEF McrBits
  <2>2. d' \in Dev /\ Heard(d, d') /\ Same(d, d', {"mcr", "mslTimer"})
    BY <1>1, <2>1, WriteMcrFacts
  <2>3. Same(d, d', Plain) /\ d'.lsr = d.lsr
    BY <2>2 DEF Same, Fields, Plain
  <2>4. UNCHANGEDHist
    BY <1>4 DEF GuestWriteMcr
  <2> QED BY <2>2, <2>3, <2>4, PlainStep
<1>5. CASE GuestReadIir
  <2>1. d' \in Dev /\ Heard(d, d') /\ Same(d, d', {"thrPending", "iir", "irq"})
    BY <1>1, <1>5, ReadIirFacts DEF GuestReadIir
  <2>2. Same(d, d', Plain) /\ d'.lsr = d.lsr
    BY <2>1 DEF Same, Fields, Plain
  <2>3. UNCHANGEDHist
    BY <1>5 DEF GuestReadIir
  <2> QED BY <2>1, <2>2, <2>3, PlainStep
<1>6. CASE GuestReadLsr
  <2>1. /\ d' \in Dev /\ Heard(d, d') /\ Same(d, d', {"lsr", "iir", "irq"})
        /\ d'.lsr = d.lsr \ {"BI", "OE"}
    BY <1>1, <1>6, ReadLsrFacts DEF GuestReadLsr
  <2>2. Same(d, d', Plain)
    BY <2>1 DEF Same, Fields, Plain
  <2>3. UNCHANGEDHist
    BY <1>6 DEF GuestReadLsr
  <2> QED BY <2>1, <2>2, <2>3, PlainStep
<1>7. CASE GuestReadMsr
  <2>1. PICK flags \in LineSets : d' = ReadMsr(d, flags).dev
    BY <1>7 DEF GuestReadMsr
  <2>2. /\ d' \in Dev /\ Heard(d, d')
        /\ Same(d, d', {"msr", "mslTimer", "poll", "iir", "irq"})
    <3>1. flags \in SUBSET Lines
      BY <1>2
    <3> QED BY <1>1, <2>1, <3>1, ReadMsrFacts
  <2>3. Same(d, d', Plain) /\ d'.lsr = d.lsr
    BY <2>2 DEF Same, Fields, Plain
  <2>4. UNCHANGEDHist
    BY <1>7 DEF GuestReadMsr
  <2> QED BY <2>2, <2>3, <2>4, PlainStep
<1>8. CASE ModemPoll
  <2>1. PICK flags \in LineSets : d' = UpdateMsl(d, flags)
    BY <1>8 DEF ModemPoll
  <2>2. /\ d' \in Dev /\ Heard(d, d')
        /\ Same(d, d', {"msr", "mslTimer", "poll", "iir", "irq"})
    <3>1. flags \in SUBSET Lines
      BY <1>2
    <3> QED BY <1>1, <2>1, <3>1, UpdateMslFacts
  <2>3. Same(d, d', Plain) /\ d'.lsr = d.lsr
    BY <2>2 DEF Same, Fields, Plain
  <2>4. UNCHANGEDHist
    BY <1>8 DEF ModemPoll
  <2> QED BY <2>2, <2>3, <2>4, PlainStep
<1> QED BY <1>3, <1>4, <1>5, <1>6, <1>7, <1>8

(* The guest switches the FIFOs on or off or empties them.                 *)
LEMMA WriteFcrStep ==
  ASSUME UartInv, GuestWriteFcr
  PROVE  UartInv'
<1>1. PICK fe \in BOOLEAN, clear \in BOOLEAN, level \in Levels :
        /\ d' = WriteFcr(d, fe, level, clear, clear)
        /\ LET emptied == clear \/ fe # d.fcr.fe
           IN  /\ unread' = IF emptied THEN <<>> ELSE unread
               /\ phantom' = (phantom \/ (emptied /\ "DR" \in d.lsr))
        /\ UNCHANGED <<sent, arrived, dropped, loaded>>
  BY DEF GuestWriteFcr
<1>2. d \in Dev /\ Quiet(d) /\ Armed(d) /\ Told(d) /\ Queue
  BY DEF UartInv
<1>3. /\ d' \in Dev
      /\ Right(d') \/ (d' = d /\ d.fcr = [fe |-> fe, level |-> level])
      /\ Same(d, d', {"fifoTimer", "toPending", "recv", "xmit", "fifoBits", "itl", "fcr",
                      "iir", "irq"})
      /\ d'.fcr = [fe |-> fe, level |-> level]
      /\ d'.recv = IF clear \/ fe # d.fcr.fe THEN <<>> ELSE d.recv
      /\ d.xmit = <<>> => d'.xmit = <<>>
      /\ Armed(d) => Armed(d')
  BY <1>1, <1>2, WriteFcrFacts
<1>4. d'.lsr = d.lsr /\ d'.xmitTimer = d.xmitTimer /\ d'.out = d.out /\ d'.rbr = d.rbr
  BY <1>3 DEF Same, Fields
<1>5. Quiet(d')
  BY <1>2, <1>3, <1>4 DEF Quiet
<1>6. Told(d') /\ (~loaded => Right(d'))
  BY <1>2, <1>3 DEF UartInv, Right, Told
<1>7. Queue'
  <2>1. CASE clear \/ fe # d.fcr.fe
    <3>1. unread' = <<>> /\ d'.recv = <<>>
      BY <1>1, <1>3, <2>1
    <3>2. "DR" \in d'.lsr => phantom'
      BY <1>1, <1>4, <2>1
    <3> QED BY <3>1, <3>2 DEF Queue
  <2>2. CASE ~(clear \/ fe # d.fcr.fe)
    <3>1. unread' = unread /\ d'.recv = d.recv /\ (phantom' <=> phantom)
      BY <1>1, <1>3, <2>2
    <3>2. d'.fcr.fe <=> d.fcr.fe
      BY <1>3, <2>2
    <3> QED BY <1>2, <1>4, <3>1, <3>2 DEF Queue
  <2> QED BY <2>1, <2>2
<1>8. History'
  <2>1. unread' \in Seq(Chars)
    <3>1. <<>> \in Seq(Chars)
      BY EmptySeq
    <3> QED BY <1>1, <3>1 DEF UartInv, History
  <2> QED BY <1>1, <1>4, <2>1 DEF UartInv, History
<1> QED BY <1>1, <1>2, <1>3, <1>5, <1>6, <1>7, <1>8 DEF UartInv

(* The back end delivers a character or a break, or the FIFO timer expires.*)
LEMMA BackEndStep ==
  ASSUME UartInv, BackEndReceive \/ BackEndBreak \/ FifoTimeout
  PROVE  UartInv'
<1>1. d \in Dev /\ Quiet(d) /\ Armed(d) /\ arrived \in Nat
  BY DEF UartInv, History
<1>2. CASE BackEndReceive
  <2> DEFINE c == Char(arrived)
  <2>1. /\ d' = Receive1(d, c) /\ Arrive(d, c)
        /\ UNCHANGED <<sent, dropped, phantom, loaded>>
    BY <1>2 DEF BackEndReceive
  <2>2. c \in Chars
    BY <1>1, CharType
  <2> HIDE DEF c
  <2>3. /\ d' \in Dev /\ Right(d') /\ Received(d, d', c)
        /\ Same(d, d', {"rbr", "lsr", "recv", "fifoTimer", "iir", "irq"})
        /\ d.lsr \subseteq d'.lsr
    BY <1>1, <2>1, <2>2, Receive1Facts
  <2>4. /\ d'.fcr = d.fcr /\ d'.itl = d.itl /\ d'.xmit = d.xmit /\ d'.out = d.out
        /\ d'.xmitTimer = d.xmitTimer
    BY <2>3 DEF Same, Fields
  <2>5. Quiet(d') /\ Armed(d')
    BY <1>1, <2>3, <2>4 DEF Quiet, Armed, Received
  <2> QED BY <2>1, <2>2, <2>3, <2>4, <2>5, ArrivalStep DEF Received
<1>3. CASE BackEndBreak
  <2>1. /\ d' = ReceiveBreak(d) /\ Arrive(d, NUL)
        /\ UNCHANGED <<sent, dropped, phantom, loaded>>
    BY <1>3 DEF BackEndBreak
  <2>2. /\ d' \in Dev /\ Right(d')
        /\ Same(d, d', {"rbr", "lsr", "recv", "iir", "irq"})
        /\ d.lsr \subseteq d'.lsr /\ "DR" \in d'.lsr /\ d'.rbr = NUL
        /\ d'.recv = IF Len(d.recv) < FIFOLEN THEN Append(d.recv, NUL) ELSE d.recv
    BY <1>1, <2>1, ReceiveBreakFacts
  <2>3. /\ d'.fcr = d.fcr /\ d'.itl = d.itl /\ d'.xmit = d.xmit /\ d'.out = d.out
        /\ d'.xmitTimer = d.xmitTimer /\ d'.fifoTimer = d.fifoTimer
        /\ d'.toPending = d.toPending
    BY <2>2 DEF Same, Fields
  <2>4. Quiet(d')
    BY <1>1, <2>2, <2>3 DEF Quiet
  <2>5. NUL \in Chars /\ d.recv \in Seq(Chars)
    BY <1>1, FifoAssumption DEF NUL, Dev, Fifo
  <2>6. ASSUME \A i \in 1 .. Len(d.recv) : d.recv[i] = NUL
        PROVE  \A i \in 1 .. Len(d'.recv) : d'.recv[i] = NUL
    <3>1. CASE Len(d.recv) < FIFOLEN
      <4>1. /\ Len(d'.recv) = Len(d.recv) + 1 /\ Len(d.recv) \in Nat
            /\ \A i \in 1 .. Len(d.recv) : d'.recv[i] = d.recv[i]
            /\ d'.recv[Len(d.recv) + 1] = NUL
        BY <2>2, <2>5, <3>1, AppendProperties, LenProperties
      <4> QED BY <2>6, <4>1
    <3>2. CASE ~(Len(d.recv) < FIFOLEN)
      BY <2>2, <2>6, <3>2
    <3> QED BY <3>1, <3>2
  <2>7. Armed(d')
    BY <1>1, <2>3, <2>6 DEF Armed
  <2> QED BY <2>1, <2>2, <2>3, <2>4, <2>5, <2>7, ArrivalStep
<1>4. CASE FifoTimeout
  <2>1. d' = TimeoutInt(d) /\ UNCHANGEDHist
    BY <1>4 DEF FifoTimeout
  <2>2. /\ d' \in Dev /\ Heard(d, d')
        /\ Same(d, d', {"fifoTimer", "toPending", "iir", "irq"})
        /\ d.recv # <<>> => d'.toPending
    BY <1>1, <2>1, TimeoutFacts
  <2>3. /\ d'.fcr = d.fcr /\ d'.itl = d.itl /\ d'.xmit = d.xmit /\ d'.out = d.out
        /\ d'.xmitTimer = d.xmitTimer /\ d'.lsr = d.lsr /\ d'.recv = d.recv
        /\ d'.rbr = d.rbr
    BY <2>2 DEF Same, Fields
  <2>4. Quiet(d')
    BY <1>1, <2>3 DEF Quiet
  <2>5. Armed(d')
    <3>1. d.recv = <<>> => \A i \in 1 .. Len(d.recv) : d.recv[i] = NUL
      OBVIOUS
    <3> QED BY <1>1, <2>2, <2>3, <3>1 DEF Armed
  <2>6. Told(d') /\ (~loaded => Right(d'))
    BY <2>2, HeardTold DEF UartInv
  <2>7. Queue' /\ History' /\ loaded' = loaded
    BY <2>1, <2>3 DEF UartInv, Queue, History, UNCHANGEDHist
  <2> QED BY <2>2, <2>4, <2>5, <2>6, <2>7 DEF UartInv
<1> QED BY <1>2, <1>3, <1>4

(* The machine is reset, or moves.                                         *)
LEMMA MachineStep ==
  ASSUME UartInv, MachineReset \/ Migrate
  PROVE  UartInv'
<1>1. d \in Dev /\ Quiet(d) /\ Armed(d) /\ Told(d) /\ Queue
  BY DEF UartInv
<1>2. <<>> \in Seq(Chars)
  BY EmptySeq
<1>3. CASE MachineReset
  <2>1. /\ d' = Reset(d) /\ unread' = <<>> /\ phantom' = FALSE
        /\ UNCHANGED <<sent, arrived, dropped, loaded>>
    BY <1>3 DEF MachineReset
  <2>2. /\ d' \in Dev /\ Right(d') /\ Quiet(d') /\ Armed(d')
        /\ d'.recv = <<>> /\ d'.out = d.out /\ "DR" \notin d'.lsr
    BY <1>1, <2>1, ResetFacts
  <2>3. Told(d')
    BY <2>2 DEF Right, Told
  <2>4. Queue' /\ History'
    BY <1>2, <2>1, <2>2 DEF UartInv, Queue, History
  <2> QED BY <2>2, <2>3, <2>4 DEF UartInv
<1>4. CASE Migrate
  <2>1. /\ d' = Load(d) /\ unread' = IF d.fcr.fe THEN <<>> ELSE unread
        /\ phantom' = (phantom \/ (d.fcr.fe /\ "DR" \in d.lsr))
        /\ loaded' = TRUE /\ UNCHANGED <<sent, arrived, dropped>>
    BY <1>4 DEF Migrate
  <2>2. /\ d' \in Dev /\ Told(d') /\ Quiet(d') /\ Armed(d')
        /\ d'.recv = <<>> /\ d'.out = d.out /\ d'.lsr = d.lsr /\ d'.rbr = d.rbr
        /\ d'.fcr = d.fcr
    BY <1>1, <2>1, LoadFacts
  <2>3. Queue'
    BY <1>1, <2>1, <2>2 DEF Queue
  <2>4. History'
    BY <1>2, <2>1, <2>2 DEF UartInv, History
  <2> QED BY <2>1, <2>2, <2>3, <2>4 DEF UartInv
<1> QED BY <1>3, <1>4

(* A device that was just created.                                         *)
LEMMA UartInit ==
  ASSUME Init
  PROVE  UartInv
<1>1. PICK r \in BOOLEAN : d = [Fresh EXCEPT !.real = r]
  BY DEF Init
<1>2. /\ d \in Dev /\ Right(d) /\ Quiet(d) /\ Armed(d)
      /\ d.recv = <<>> /\ d.out = <<>> /\ "DR" \notin d.lsr
  BY <1>1, NewFacts
<1>3. Told(d)
  BY <1>2 DEF Right, Told
<1>4. Queue /\ History
  BY <1>2, EmptySeq DEF Init, Queue, History
<1> QED BY <1>2, <1>3, <1>4 DEF UartInv

(* The invariant holds of every state: each handler keeps it.              *)
THEOREM UartInvariant == Spec => []UartInv
<1>1. Init => UartInv
  BY UartInit
<1>2. UartInv /\ [Next]_uartVars => UartInv'
  <2> SUFFICES ASSUME UartInv, [Next]_uartVars PROVE UartInv'
    OBVIOUS
  <2>1. CASE UNCHANGED uartVars
    BY <2>1 DEF uartVars, UartInv, Queue, History
  <2> QED BY <2>1, WriteThrStep, ReadRbrStep, RegisterStep, WriteFcrStep, BackEndStep,
             MachineStep DEF Next
<1> QED BY <1>1, <1>2, PTL DEF Spec

-----------------------------------------------------------------------------
(* What it says.                                                           *)

(* serial_update_irq: the line is up exactly when a cause stands, and the  *)
(* identification register names the most urgent.                          *)
THEOREM LevelCorrect == Spec => []IrqLevel
<1>1. UartInv => IrqLevel
  BY DEF UartInv, Right, IrqLevel
<1> QED BY <1>1, UartInvariant, PTL

(* serial_xmit: transmission is over when the register access that started *)
(* it returns, and what the back end took is what the guest wrote.         *)
THEOREM TxCorrect == Spec => []TxDone
<1>1. UartInv => TxDone
  BY DEF UartInv, History, Quiet, TxDone, XmitIdle, TxInOrder
<1> QED BY <1>1, UartInvariant, PTL

(* serial_receive1 and the reads and clears of the receive FIFO: it keeps  *)
(* its bound and holds what was not read, and the data-ready bit says so.  *)
THEOREM FifosCorrect == Spec => []FifosRight
<1>1. UartInv => TypeOK
  <2> SUFFICES ASSUME UartInv PROVE TypeOK
    OBVIOUS
  <2>1. d \in Dev /\ unread \in Seq(Chars)
    BY DEF UartInv, History
  <2>2. d.retry \in -1 .. 0 /\ d.recv \in Fifo /\ d.xmit \in Fifo
    BY <2>1 DEF Dev
  <2>3. d.retry \in -1 .. MAX_XMIT_RETRY + 1
    BY <2>2 DEF MAX_XMIT_RETRY
  <2> QED BY <2>1, <2>2, <2>3 DEF TypeOK, Dev, Fifo, IerBits, LsrBits
<1>2. UartInv => ReceiveQueue
  <2> SUFFICES ASSUME UartInv, ~phantom
               PROVE  /\ ("DR" \in d.lsr) = (unread # <<>>)
                      /\ IF d.fcr.fe THEN d.recv = unread
                                     ELSE unread # <<>> => unread = <<d.rbr>>
    BY DEF ReceiveQueue
  <2> QED BY DEF UartInv, Queue
<1>3. UartInv => FifosRight
  BY <1>1, <1>2 DEF FifosRight
<1> QED BY <1>3, UartInvariant, PTL

(* serial_can_receive against serial_update_irq and the FIFO timer: what   *)
(* the device holds, or refuses to take more of, has been announced or     *)
(* will be.                                                                *)
THEOREM SignalsCorrect == Spec => []Signalled
<1>1. UartInv => Signalled
  <2> SUFFICES ASSUME UartInv PROVE Signalled
    OBVIOUS
  <2>1. d \in Dev /\ Armed(d) /\ Told(d) /\ Queue
    BY DEF UartInv
  <2>2. /\ d.fcr.level \in Levels /\ Levels \subseteq 1 .. FIFOLEN /\ FIFOLEN \in Nat
        /\ d.recv \in Seq(Chars) /\ Len(d.recv) \in Nat /\ d.fcr.fe \in BOOLEAN
    BY <2>1, FifoAssumption, LenProperties DEF Dev, Fifo
  <2>3. ASSUME CanReceive(d) = 0, "RDI" \in d.ier PROVE Cause(d) # "NONE"
    <3>1. CASE ~d.fcr.fe
      <4>1. "DR" \in d.lsr
        BY <2>3, <3>1 DEF CanReceive
      <4> QED BY <2>3, <3>1, <4>1 DEF Cause
    <3>2. CASE d.fcr.fe
      <4>1. d.itl = d.fcr.level /\ d.itl \in 1 .. FIFOLEN
        BY <2>1, <2>2, <3>2 DEF Armed
      <4> DEFINE n == Len(d.recv)
      <4>2. 0 = IF n >= FIFOLEN THEN 0 ELSE IF n <= d.itl THEN d.itl - n ELSE 1
        BY <2>3, <3>2 DEF CanReceive
      <4>3. n >= d.itl /\ n > 0
        <5>1. n \in Nat /\ FIFOLEN \in Nat
          BY <2>2
        <5> HIDE DEF n
        <5> QED BY <4>1, <4>2, <5>1
      <4>4. "DR" \in d.lsr
        <5>1. d.recv # <<>>
          BY <4>3
        <5> QED BY <2>1, <3>2, <5>1 DEF Queue
      <4> QED BY <2>3, <4>3, <4>4 DEF Cause, AtLevel
    <3> QED BY <3>1, <3>2
  <2>4. ThrottledMeansSignalled
    BY <2>1, <2>3 DEF ThrottledMeansSignalled, Told
  <2>5. DataWillSignal
    <3>1. d.toPending /\ "RDI" \in d.ier => Cause(d) # "NONE"
      BY DEF Cause
    <3> QED BY <2>1, <3>1 DEF DataWillSignal, Armed, Told
  <2> QED BY <2>4, <2>5 DEF Signalled
<1> QED BY <1>1, UartInvariant, PTL
=============================================================================
