----------------------------- MODULE MCCanProbe -----------------------------
(* Instances of CanProbe for TLC.                                          *)
EXTENDS CanProbe

CONSTANT c1   \* the card
=============================================================================
