------------------------------ MODULE CanCodec ------------------------------
(***************************************************************************)
(* How can_pci.c lays a struct can_frame out in the registers of the       *)
(* SJA1000 and reads it back: send_message and receive_message of the      *)
(* PeliCAN and of the BasicCAN driver.  A frame travels from the transmit  *)
(* registers of one card to the receive registers of another, byte for     *)
(* byte; both buffers have the same layout.  The third path is the one of  *)
(* the card emulated by QEMU: the test driver stores the frame in trx_buff,*)
(* which keeps its bytes from one frame to the next, and buff2frame reads  *)
(* it back for the CAN socket of the host.                                 *)
(*                                                                         *)
(* A frame is a record with the flag bits of can_id (eff: bit 31, rtr: bit *)
(* 30) apart from its identifier.                                          *)
(* The registers of a buffer are the sequence of the bytes stored in them, *)
(* from the first register of the buffer on.  Shifts and masks by          *)
(* constants are products, quotients and remainders.                       *)
(***************************************************************************)
EXTENDS Integers, Sequences

CONSTANTS
  Ids,     \* the identifiers of the frames that are sent
  CardIds, \* those sent through the emulated card
  Datas    \* their data: sequences of at most 8 bytes (can_dlc is the length)

MaxStdId == 2047        \* 11 bits
MaxExtId == 536870911   \* 29 bits
Byte == 0 .. 255

ASSUME FrameAssumption ==
  /\ CardIds \subseteq Ids
  /\ Ids \subseteq Nat /\ \A id \in Ids : id <= MaxExtId
  /\ Datas \subseteq Seq(Byte) /\ \A d \in Datas : Len(d) <= 8

(* The frames of each format; a standard identifier has 11 bits.           *)
StdFrames ==
  {f \in [eff : {0}, rtr : {0, 1}, id : Ids, data : Datas] : f.id <= MaxStdId}
ExtFrames == [eff : {1}, rtr : {0, 1}, id : Ids, data : Datas]

(* A defect: the last five bits of the identifier stored unshifted.        *)
ExtIdBytesUnshifted(id) ==
  <<(id \div 2097152) % 256, (id \div 8192) % 256, (id \div 32) % 256, id % 32>>

(* The bytes of a 29-bit identifier, and back.                             *)
ExtIdBytes(id) ==
  <<(id \div 2097152) % 256, (id \div 8192) % 256, (id \div 32) % 256, (id % 32) * 8>>
ExtId(b1, b2, b3, b4) == b1 * 2097152 + b2 * 8192 + b3 * 32 + (b4 \div 8)

(* The bytes of an 11-bit identifier in the PeliCAN driver: (can_id >> 3)  *)
(* & 0xff and (can_id & 0x03) << 5.                                        *)
StdIdBytes(id) == <<(id \div 8) % 256, (id % 4) * 32>>
StdId(b1, b2) == b1 * 8 + (b2 \div 32)

(* PeliCAN: frame information, identifier, data.                           *)
PeliSend(f) ==
  <<Len(f.data) + f.rtr * 64 + f.eff * 128>>
    \o (IF f.eff = 1 THEN ExtIdBytes(f.id) ELSE StdIdBytes(f.id))
    \o f.data

PeliReceive(r) ==
  LET dlc == r[1] % 16
      eff == r[1] \div 128
      n   == IF eff = 1 THEN 5 ELSE 3
  IN  [eff  |-> eff,
       rtr  |-> (r[1] \div 64) % 2,
       id   |-> IF eff = 1 THEN ExtId(r[2], r[3], r[4], r[5]) ELSE StdId(r[2], r[3]),
       data |-> SubSeq(r, n + 1, n + dlc)]

(* BasicCAN: two descriptor bytes, data; the format flag is not looked at. *)
Descriptor2(id, rtr, dlc) == (id % 8) * 32 + rtr * 16 + (dlc % 16)

BasicSend(f) ==
  <<(f.id \div 8) % 256, Descriptor2(f.id, f.rtr, Len(f.data))>> \o f.data

BasicReceive(r) ==
  [eff  |-> 0,
   rtr  |-> (r[2] \div 16) % 2,
   id   |-> StdId(r[1], r[2]),
   data |-> SubSeq(r, 3, 2 + (r[2] % 16))]

(* A defect: the last byte is not stored.                                  *)
CardStoreShort(f, trx) ==
  LET s == PeliSend(f)
  IN  [i \in 1 .. 13 |-> IF i < Len(s) THEN s[i] ELSE trx[i]]

(* The test driver stores the same bytes as send_message; registers past   *)
(* the end of the frame keep what the last frame left in them.             *)
CardStore(f, trx) ==
  LET s == PeliSend(f)
  IN  [i \in 1 .. 13 |-> IF i <= Len(s) THEN s[i] ELSE trx[i]]

(* buff2frame declares can_id without a value and only a remote frame      *)
(* assigns it; everything else is a "|=".  unset: its bits are all set     *)
(* before, else they are all clear.                                        *)
Buff2Frame(r, unset) ==
  LET eff == r[1] \div 128
      rtr == (r[1] \div 64) % 2
      dlc == r[1] % 16
      n   == IF eff = 1 THEN 5 ELSE 3
      set == unset /\ rtr = 0
  IN  [eff  |-> IF set THEN 1 ELSE eff,
       rtr  |-> IF set THEN 1 ELSE rtr,
       id   |-> IF set THEN MaxExtId
                ELSE IF eff = 1 THEN ExtId(r[2], r[3], r[4], r[5]) ELSE StdId(r[2], r[3]),
       data |-> SubSeq(r, n + 1, n + dlc)]

-----------------------------------------------------------------------------
VARIABLES path,   \* the two PeliCAN cards, two BasicCAN cards or the emulated card
          sent,   \* the frame given to the driver, or NoFrame
          regs,   \* the registers it is stored in, on both cards
          dirty,  \* what buff2frame's can_id holds before it is computed
          rcvd    \* what the other side makes of the registers, or NoFrame

cvars == <<path, sent, regs, dirty, rcvd>>

NoFrame == [eff |-> 0, rtr |-> 0, id |-> -1, data |-> <<>>]

Paths == {"pelican", "basiccan", "emulated"}

(* The registers before the first frame: trx_buff is zero, the contents of *)
(* the cards' own are never read.                                          *)
Cleared == [i \in 1 .. 13 |-> 0]

CodecInit ==
  /\ path \in Paths /\ sent = NoFrame /\ rcvd = NoFrame /\ dirty = FALSE
  /\ regs = Cleared

(* The registers after the driver has stored frame f.                      *)
Stored(f) ==
  CASE path = "pelican"  -> PeliSend(f)
    [] path = "basiccan" -> BasicSend(f)
    [] path = "emulated" -> CardStore(f, regs)

Send ==
  /\ sent = NoFrame
  /\ \E f \in StdFrames \cup ExtFrames :
       /\ path = "emulated" => f.id \in CardIds
       /\ sent' = f /\ regs' = Stored(f)
  /\ UNCHANGED <<path, dirty, rcvd>>

Receive ==
  /\ sent # NoFrame /\ rcvd = NoFrame
  /\ \/ path = "pelican" /\ rcvd' = PeliReceive(regs) /\ UNCHANGED dirty
     \/ path = "basiccan" /\ rcvd' = BasicReceive(regs) /\ UNCHANGED dirty
     \/ /\ path = "emulated" /\ dirty' \in BOOLEAN
        /\ rcvd' = Buff2Frame(regs, dirty')
  /\ UNCHANGED <<path, sent, regs>>

(* The buffers are released and the next frame may go.  On the emulated    *)
(* card the frame may have been lost before: can_mem_write does not look   *)
(* at what the back end's write returns.                                   *)
ReleaseBuffers ==
  /\ sent # NoFrame
  /\ rcvd # NoFrame \/ path = "emulated"
  /\ sent' = NoFrame /\ rcvd' = NoFrame /\ dirty' = FALSE
  /\ regs' = IF path = "emulated" THEN regs ELSE Cleared
  /\ UNCHANGED path

CodecNext == Send \/ Receive \/ ReleaseBuffers

CodecSpec == CodecInit /\ [][CodecNext]_cvars

-----------------------------------------------------------------------------
(* The registers hold bytes, in a buffer of 13: no field spills over.      *)
CodecTypeOK == regs \in Seq(Byte) /\ Len(regs) <= 13

(* A frame arrives as it was sent, for the formats in which the driver     *)
(* keeps every bit: extended frames in PeliCAN mode, standard frames in    *)
(* BasicCAN mode, and through the emulated card the extended frames whose  *)
(* can_id buff2frame computes from nothing else.                           *)
Faithful ==
  rcvd # NoFrame =>
    /\ path = "pelican" /\ sent.eff = 1 => rcvd = sent
    /\ path = "basiccan" /\ sent.eff = 0 => rcvd = sent
    /\ path = "emulated" /\ sent.eff = 1 /\ (sent.rtr = 1 \/ ~dirty) => rcvd = sent

(* Whatever happens to the identifier, and whatever an earlier and longer  *)
(* frame left in the registers, the data are those of the frame sent.      *)
DataKept ==
  rcvd # NoFrame => rcvd.data = sent.data

(* A standard frame arrives in PeliCAN mode with the identifier it was     *)
(* sent with: can_id holds it in "bit 0-28 : CAN identifier (11/29 bit)"   *)
(* (can_pci.h:33).                                                         *)
StdIdKept == rcvd # NoFrame /\ path = "pelican" /\ sent.eff = 0 => rcvd.id = sent.id
=============================================================================
