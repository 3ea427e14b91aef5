----------------------------- MODULE MCCanCodec -----------------------------
(* Instances of CanCodec for TLC.  Every standard identifier is sent; of   *)
(* the extended ones, those with one bit set or one bit clear; the         *)
(* emulated card, whose registers remember the last frame, gets the        *)
(* identifiers with one bit.                                               *)
EXTENDS CanCodec, FiniteSets

OneBit   == {2^i : i \in 0 .. 28}
OneClear == {MaxExtId - b : b \in OneBit}

MCIds   == OneBit \cup OneClear \cup 0 .. MaxStdId
MCCardIds == OneBit
MCDatas == {<<>>, <<255>>, <<18, 52, 86, 120, 154, 188, 222, 240>>}
=============================================================================
