---------------------------- MODULE MCPort8250 -----------------------------
(***************************************************************************)
(* Instances of Port8250.  A FIFO of two is enough for one character above *)
(* the low trigger level.                                                  *)
(***************************************************************************)
EXTENDS Port8250
=============================================================================
