------------------------------ MODULE CanRxAbs ------------------------------
(***************************************************************************)
(* What the receive side of the CAN driver promises its reader: frames are *)
(* delivered in the order they arrived, each at most once, and a frame the *)
(* controller has stored is lost only to a reset or, in the lossy          *)
(* (BasicCAN) variant, when Cap older frames are waiting.                  *)
(***************************************************************************)
EXTENDS Naturals, Sequences, SequencesExt

CONSTANTS Cap,    \* how many frames may wait before one is dropped
          Lossy   \* is a frame dropped then?

VARIABLES pend,   \* the frames received and not yet delivered, oldest first
          got,    \* the frames delivered
          last,   \* the number of the newest frame that came from the bus
          up      \* is the controller initialised and receiving?

avars == <<pend, got, last, up>>

AbsInit == pend = <<>> /\ got = <<>> /\ last = 0 /\ up = FALSE

(* A frame comes from the bus, into the queue or to an overrun.            *)
Receive ==
  /\ up /\ last' = last + 1
  /\ pend' = Append(pend, last') \/ pend' = pend
  /\ UNCHANGED <<got, up>>

(* A read returns the oldest frame.                                        *)
Deliver ==
  /\ pend # <<>>
  /\ got' = Append(got, Head(pend)) /\ pend' = Tail(pend)
  /\ UNCHANGED <<last, up>>

(* The oldest frame beyond the first Cap is thrown away.                   *)
Drop ==
  /\ Lossy /\ Len(pend) > Cap
  /\ pend' = RemoveAt(pend, Cap + 1)
  /\ UNCHANGED <<got, last, up>>

(* The controller is reset: the newest frames, those it still held, go.    *)
Down ==
  /\ up' = FALSE
  /\ \E n \in 0 .. Len(pend) : pend' = SubSeq(pend, 1, n)
  /\ UNCHANGED <<got, last>>

(* device_open starts from an empty queue.                                 *)
Up == up' = TRUE /\ pend' = <<>> /\ UNCHANGED <<got, last>>

AbsNext == Receive \/ Deliver \/ Drop \/ Down \/ Up

AbsSpec == AbsInit /\ [][AbsNext]_avars
=============================================================================
